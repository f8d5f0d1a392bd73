----------------------------- MODULE MCOutboxRelay -----------------------------
(***************************************************************************)
(* Small instances of OutboxRelay: two pollers, two or three rows, batches *)
(* of two, and one budget of faults for each question.                     *)
(***************************************************************************)
EXTENDS OutboxRelay, TLC

CONSTANTS e1, e2, e3

\* e1 and e2 were created at the same instant, e3 later.
MCCreatedAt == [e \in Event |-> IF e = e3 THEN 2 ELSE 1]

NoFault == [k \in FaultKind |-> 0]

\* Every fault but a false acknowledgement, once each.
OnceEach == [k \in FaultKind |-> IF k = "unacked" THEN 0 ELSE 1]

\* What strands or repeats a row, once each.
Hazards == [OnceEach EXCEPT !["send"] = 0]

\* What a working relay lives through: failing sends and marks, a crash, a repair.
Working == [OnceEach EXCEPT !["fetch"] = 0, !["resend"] = 0]

OneCrash == [NoFault EXCEPT !["crash"] = 1]
OneUnacked == [NoFault EXCEPT !["unacked"] = 1]

Symmetry == Permutations(Worker)
===============================================================================
