---------------------------- MODULE MCLargeSpace ----------------------------
(***************************************************************************)
(* Module LargeSpace for TLC.                                              *)
(***************************************************************************)
EXTENDS LargeSpace

\* Enough bits for the sizes of the small instances.
MCPowers == {2^i : i \in 0 .. 6}
=============================================================================
