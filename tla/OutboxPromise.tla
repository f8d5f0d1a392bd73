----------------------------- MODULE OutboxPromise -----------------------------
(***************************************************************************)
(* What the outbox promises its users, whatever the pollers do: a row that *)
(* was committed is settled once, for good, and not before it is published *)
(* at least once; a row that was not committed is never published.  Copies *)
(* may appear at any time after the commit.  OutboxRelay is shown to       *)
(* implement this, and Saga is built on it.                                *)
(***************************************************************************)
EXTENDS Integers

CONSTANT Event

VARIABLES
  recorded,  \* rows committed by a business transaction
  copies,    \* copies of each event that consumers may see
  settled    \* rows the relay is done with

vars == <<recorded, copies, settled>>

Init ==
  /\ recorded = {}
  /\ copies = [e \in Event |-> 0]
  /\ settled = {}

Record(e) ==
  /\ recorded' = recorded \cup {e}
  /\ UNCHANGED <<copies, settled>>

\* Two copies at a time: the producer retries inside one call.
Publish(e, n) ==
  /\ e \in recorded
  /\ copies' = [copies EXCEPT ![e] = @ + n]
  /\ UNCHANGED <<recorded, settled>>

Settle(S) ==
  /\ \A e \in S : e \in recorded /\ copies[e] > 0
  /\ settled' = settled \cup S
  /\ UNCHANGED <<recorded, copies>>

Next ==
  \/ \E e \in Event : Record(e) \/ \E n \in {1, 2} : Publish(e, n)
  \/ \E S \in SUBSET Event : Settle(S)

Spec == Init /\ [][Next]_vars
===============================================================================
