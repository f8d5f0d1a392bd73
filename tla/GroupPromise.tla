------------------------------ MODULE GroupPromise ------------------------------
(***************************************************************************)
(* What a consumer group promises the saga, however many instances it has  *)
(* and whatever happens to them: it goes through its partition in order,   *)
(* and either commits the effect of an event, once for all its copies, or  *)
(* gives a copy up.  InboxConsumer is shown to implement this; Saga is     *)
(* built on it.                                                            *)
(***************************************************************************)
EXTENDS Integers, Sequences

CONSTANTS Event, Handled

VARIABLES
  log,      \* the partition
  done,     \* the events whose effect is committed
  effects,  \* how many times it is
  dropped   \* the positions given up

vars == <<log, done, effects, dropped>>

Init ==
  /\ log = <<>>
  /\ done = {} /\ effects = [e \in Event |-> 0]
  /\ dropped = {}

\* The message at position i needs no more attention.
Settled(i) == log[i] \in Handled => log[i] \in done \/ i \in dropped

InOrder(i) == \A j \in 1..i-1 : Settled(j)

Deliver(e) == log' = Append(log, e) /\ UNCHANGED <<done, effects, dropped>>

\* A copy that was given up may still be processed by a slower instance.
Process(i) ==
  /\ InOrder(i) /\ log[i] \in Handled \ done
  /\ done' = done \cup {log[i]}
  /\ effects' = [effects EXCEPT ![log[i]] = @ + 1]
  /\ UNCHANGED <<log, dropped>>

\* A message after its last retry, or all those before a reader's late start.
GiveUp(S) ==
  /\ \A i \in S : \A j \in 1..i-1 : Settled(j) \/ j \in S
  /\ dropped' = dropped \cup S
  /\ UNCHANGED <<log, done, effects>>

Next ==
  \/ \E e \in Event : Deliver(e)
  \/ \E i \in 1..Len(log) : Process(i)
  \/ \E S \in SUBSET (1..Len(log)) : GiveUp(S)

Spec == Init /\ [][Next]_vars
===============================================================================
