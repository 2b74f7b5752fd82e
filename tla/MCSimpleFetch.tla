--------------------------- MODULE MCSimpleFetch ---------------------------
(***************************************************************************)
(* SimpleFetch for TLC: ports on both sides of the limits of int16_t and   *)
(* uint16_t.                                                               *)
(***************************************************************************)
EXTENDS SimpleFetch

MCPorts == {0, 443, 2^15 - 1, 2^15, 2^16 - 1}

=============================================================================
