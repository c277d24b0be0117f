---------------------------- MODULE MCATPCongestion ----------------------------
(***************************************************************************)
(* A job under one leaf and one under two.  Later waits are for the        *)
(* observer itself, for its neighbour in their leaf's slot, or for the     *)
(* other leaf at the server.                                               *)
(***************************************************************************)
EXTENDS ATPCongestion

MCFanIns == {<<2>>, <<2, 1>>}
MCPositions == {Observer, <<{1}, {}>>, <<{0}, {1}>>}
=============================================================================
