----------------------------- MODULE MCATPSystem -----------------------------
(***************************************************************************)
(* A job with two workers under one leaf and one under another.            *)
(***************************************************************************)
EXTENDS ATPSystem

MCFanIns == <<2, 1>>

\* One worker under each of two leaves.
MCSmallFanIns == <<1, 1>>

\* What the proofs assume of the number of workers, and what follows for the
\* names they have.
ASSUME MCWorkersFit == WorkersFit /\ FlatNumbering
=============================================================================
