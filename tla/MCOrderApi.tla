------------------------------ MODULE MCOrderApi ------------------------------
(***************************************************************************)
(* Small instances of OrderApi: two POST /orders with the same key, two    *)
(* refunds without one, and a budget of faults for each question.          *)
(***************************************************************************)
EXTENDS OrderApi

CONSTANTS c1, c2, k1

MCKeyOf == [c \in Create |-> k1]

OnceEach == [k \in FaultKind |-> 1]

OneCommit == [k \in FaultKind |-> IF k = "commit" THEN 1 ELSE 0]
===============================================================================
