---------------------------- MODULE MCInboxConsumer ----------------------------
(***************************************************************************)
(* Small instances of InboxConsumer: one or two instances of a service, a  *)
(* partition of two messages, one retry where the number does not matter,  *)
(* and one budget of faults for each question.                             *)
(***************************************************************************)
EXTENDS InboxConsumer, FiniteSetsExt

CONSTANTS e1, e2, e3, m1, m2

(* Any four faults, each kind once; two failed attempts, which are enough to
   drop a message with MaxRetries = 1.                                     *)
AnyFour ==
  {f \in [FaultKind -> 0..2] :
     /\ \A k \in FaultKind : f[k] <= IF k = "db" THEN 2 ELSE 1
     /\ MapThenSumSet(LAMBDA k : f[k], FaultKind) <= 4}

OneTerm == {[k \in FaultKind |-> IF k = "term" THEN 1 ELSE 0]}
===============================================================================
