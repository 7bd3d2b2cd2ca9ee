--------------------------- MODULE MCSSEReconnect ---------------------------
(***************************************************************************)
(* TLC instance of SSEReconnect.                                           *)
(***************************************************************************)
EXTENDS SSEReconnect, TLC

\* The channels are interchangeable in every safety property.
Symmetry == Permutations(Subscribers)
=============================================================================
