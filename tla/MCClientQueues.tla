--------------------------- MODULE MCClientQueues ---------------------------
(***************************************************************************)
(* ClientQueues for TLC: three fetches of one URL, which compete for the   *)
(* sessions of its endpoint.                                               *)
(***************************************************************************)
EXTENDS ClientQueues

CONSTANTS f1, f2, f3

SecureUrl == [scheme |-> "https", origin |-> "https://a"]

MCFetches == {f1, f2, f3}
MCUrls == {SecureUrl}
MCUrlOf == [f \in MCFetches |-> SecureUrl]

=============================================================================
