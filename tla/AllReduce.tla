------------------------------ MODULE AllReduce ------------------------------
(***************************************************************************)
(* What the transport promises to a job: the workers submit numbered       *)
(* pieces, each piece is reduced over all workers and handed to the        *)
(* parameter server's application once, and a worker stops keeping a piece *)
(* for retransmission only when that piece, or a later one that was in its *)
(* window together with it, has been handed over.  With a window of one    *)
(* piece nothing is forgotten that was not handed over.                    *)
(***************************************************************************)
EXTENDS Naturals

CONSTANTS
  Workers,
  SeqNums,
  Window   \* the pieces a worker may have under way

VARIABLES
  submitted,   \* worker -> the pieces it has sent
  result,      \* piece -> the contributions summed up in it; {} until handed over
  handed,      \* the number of pieces handed to the application
  confirmed    \* worker -> the pieces it need not keep any longer

vars == <<submitted, result, handed, confirmed>>

Init ==
  /\ submitted = [w \in Workers |-> {}]
  /\ result = [s \in SeqNums |-> {}]
  /\ handed = 0
  /\ confirmed = [w \in Workers |-> {}]

Submit(w) ==
  \E more \in SUBSET (SeqNums \ submitted[w]) :
    /\ submitted' = [submitted EXCEPT ![w] = @ \cup more]
    /\ UNCHANGED <<result, handed, confirmed>>

Reduce(s) ==
  /\ result[s] = {}
  /\ \A w \in Workers : s \in submitted[w]
  /\ result' = [result EXCEPT ![s] = Workers \X {s}]
  /\ handed' = handed + 1
  /\ UNCHANGED <<submitted, confirmed>>

\* The pieces of worker w that were in one window with s, up to s.
UpTo(w, s) == {t \in submitted[w] : t <= s /\ s < t + Window}

Confirm(w, s) ==
  /\ s \in submitted[w]
  /\ result[s] = Workers \X {s}
  /\ confirmed' = [confirmed EXCEPT ![w] = @ \cup UpTo(w, s)]
  /\ UNCHANGED <<submitted, result, handed>>

Next ==
  \/ \E w \in Workers : Submit(w)
  \/ \E s \in SeqNums : Reduce(s)
  \/ \E w \in Workers, s \in SeqNums : Confirm(w, s)

Spec == Init /\ [][Next]_vars
=============================================================================
