------------------------------ MODULE MCClient -----------------------------
(***************************************************************************)
(* Client for TLC: two fetches of a secure URL, one of a plain URL.        *)
(***************************************************************************)
EXTENDS Client, TLC

CONSTANTS f1, f2, f3

SecureUrl == [scheme |-> "https", origin |-> "https://a"]
PlainUrl == [scheme |-> "http", origin |-> "http://b"]

MCFetches == {f1, f2, f3}
MCUrls == {SecureUrl, PlainUrl}
MCUrlOf == [f \in MCFetches |-> IF f = f3 THEN PlainUrl ELSE SecureUrl]
MCMatches == {"http", "https"}

\* The two fetches of the secure URL are interchangeable.
SameUrl == Permutations({f1, f2})

=============================================================================
