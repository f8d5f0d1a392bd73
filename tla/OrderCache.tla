------------------------------ MODULE OrderCache ------------------------------
(***************************************************************************)
(* GET /orders/{id} (internal/usecase/get_order.go): a read through Redis  *)
(* with a key per order that lives for a second and that no update of the  *)
(* order ever removes.  One order, any number of requests that read it     *)
(* while the saga changes its status.                                      *)
(*                                                                         *)
(* How old an answer may be is a question of time, so there is a clock     *)
(* here, the same for Redis and for the readers.  A request can be held up *)
(* between its query and its Set; Slow says for how long at most.          *)
(***************************************************************************)
EXTENDS Integers, Sequences

CONSTANTS
  Reader,      \* requests that read the order, each again and again
  TTL,         \* how long an entry lives: one second in the code
  Slow,        \* bound on the time between a reader's query and its Set
  MaxTime,     \* bound on the clock
  MaxVersion   \* bound on the versions of the row

ASSUME TTLAssumption == TTL \in Nat \ {0}
ASSUME SlowAssumption == Slow \in Nat
ASSUME BoundsAssumption == MaxTime \in Nat /\ MaxVersion \in Nat

VARIABLES
  now,      \* the clock
  changed,  \* when each version of the row became current; no row when empty
  cache,    \* the last Set: a version and the time its entry ends
  pc,       \* where in Execute each reader is
  row,      \* the version a reader has queried and not yet answered with
  queried,  \* when it did
  shown     \* a reader's last answer: a version and its time (history)

vars == <<now, changed, cache, pc, row, queried, shown>>

\* The versions of the row, the last of which is current; 0 is no version.
Current == Len(changed)

TypeOK ==
  /\ now \in Nat
  /\ changed \in Seq(Nat)
  /\ cache \in [version : 0..Current, ends : Nat]
  /\ pc \in [Reader -> {"get", "query", "set"}]
  /\ row \in [Reader -> 0..Current]
  /\ queried \in [Reader -> Nat]
  /\ shown \in [Reader -> [version : 0..Current, at : Nat]]

Init ==
  /\ now = 0
  /\ changed = <<>>
  /\ cache = [version |-> 0, ends |-> 0]
  /\ pc = [r \in Reader |-> "get"]
  /\ row = [r \in Reader |-> 0]
  /\ queried = [r \in Reader |-> 0]
  /\ shown = [r \in Reader |-> [version |-> 0, at |-> 0]]

-------------------------------------------------------------------------------

(* The order is created, or its status updated, by whatever service: none of
   them knows of the cache.                                                *)
Update ==
  /\ Len(changed) < MaxVersion
  /\ changed' = Append(changed, now)
  /\ UNCHANGED <<now, cache, pc, row, queried, shown>>

Goto(r, label) == pc' = [pc EXCEPT ![r] = label]

Answer(r, v) == shown' = [shown EXCEPT ![r] = [version |-> v, at |-> now]]

\* The entry is there: Redis drops it when its time is over.
Cached == now < cache.ends

\* (mutant) GETEX: an entry that is read lives on for another second
GetHitExtend(r) ==
  /\ pc[r] = "get" /\ Cached
  /\ Answer(r, cache.version)
  /\ cache' = [cache EXCEPT !.ends = now + TTL]
  /\ UNCHANGED <<now, changed, pc, row, queried>>

GetHit(r) ==
  /\ pc[r] = "get" /\ Cached
  /\ Answer(r, cache.version)
  /\ UNCHANGED <<now, changed, cache, pc, row, queried>>

\* No entry, an error of Redis, or a value that does not unmarshal.
GetMiss(r) ==
  /\ pc[r] = "get"
  /\ Goto(r, "query")
  /\ UNCHANGED <<now, changed, cache, row, queried, shown>>

\* (mutant) the query sees a status that its transaction has not committed
GetByIDDirty(r) ==
  /\ pc[r] = "query" /\ Current > 0
  /\ row' = [row EXCEPT ![r] = Current + 1]
  /\ queried' = [queried EXCEPT ![r] = now]
  /\ Goto(r, "set")
  /\ UNCHANGED <<now, changed, cache, shown>>

GetByID(r) ==
  /\ pc[r] = "query" /\ Current > 0
  /\ row' = [row EXCEPT ![r] = Current]
  /\ queried' = [queried EXCEPT ![r] = now]
  /\ Goto(r, "set")
  /\ UNCHANGED <<now, changed, cache, shown>>

\* No such row, or the query fails: 500, and nothing is cached.
GetByIDError(r) ==
  /\ pc[r] = "query"
  /\ Goto(r, "get")
  /\ UNCHANGED <<now, changed, cache, row, queried, shown>>

\* The reader answers with its row.
Reply(r) ==
  /\ pc[r] = "set"
  /\ Answer(r, row[r])
  /\ row' = [row EXCEPT ![r] = 0]
  /\ queried' = [queried EXCEPT ![r] = 0]
  /\ Goto(r, "get")
  /\ UNCHANGED <<now, changed>>

\* The reader overwrites whatever entry there is, with a full second to live.
Set(r) ==
  /\ Reply(r)
  /\ cache' = [version |-> row[r], ends |-> now + TTL]

\* Set fails, for Redis or for a client that is gone: nobody looks at its error.
SetError(r) == Reply(r) /\ UNCHANGED cache

\* Time passes, but no reader takes longer than Slow to come to its Set.
Tick ==
  /\ now < MaxTime
  /\ \A r \in Reader : pc[r] = "set" => now < queried[r] + Slow
  /\ now' = now + 1
  /\ UNCHANGED <<changed, cache, pc, row, queried, shown>>

Read(r) ==
  \/ GetHit(r) \/ GetMiss(r)
  \/ GetByID(r) \/ GetByIDError(r)
  \/ Set(r) \/ SetError(r)

Next == Update \/ Tick \/ \E r \in Reader : Read(r)

Spec == Init /\ [][Next]_vars

-------------------------------------------------------------------------------

(* An answer is the current status of the order, or one that was replaced less
   than TTL + Slow ago.  Slow readers put old versions back into the cache,
   over newer ones too, and no update removes them; but an entry is never
   renewed from the cache, so what is old stays old for that long only.    *)
FreshWithin ==
  \A r \in Reader :
    LET v == shown[r].version IN
      0 < v /\ v < Current => shown[r].at < changed[v + 1] + TTL + Slow
===============================================================================
