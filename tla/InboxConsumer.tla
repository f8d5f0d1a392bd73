----------------------------- MODULE InboxConsumer -----------------------------
(***************************************************************************)
(* One consumer group of the saga: the loop that cmd/consumer, cmd/payment *)
(* and cmd/ticket share (fetch, process in one transaction behind the      *)
(* inbox, retry with backoff, drop, commit the offset), run by any number  *)
(* of instances over one partition of the topic.  Partitions do not        *)
(* interact: an event's key is its order, and the inbox row is per event.  *)
(*                                                                         *)
(* The transaction is two steps, as it holds the uncommitted inbox row for *)
(* the 2-3 seconds of simulated load: begin .. insert, and work .. commit. *)
(* What the service writes in it (order status, payment, ticket, outbox    *)
(* row) is its effect; Saga says which one it is.                          *)
(***************************************************************************)
EXTENDS Integers, Sequences, FiniteSets

CONSTANTS
  Member,       \* the running instances of the service
  Event,        \* event ids
  Handled,      \* the events whose type the service handles
  MaxRetries,   \* maxRetries: 5 in the code
  MaxLog,       \* bound on the length of the partition
  StartOffset,  \* the values of KAFKA_START_OFFSET that instances are started with
  Budget        \* how many faults of each kind may happen together

(* What can go wrong, by the call it happens in:
     db         a step of the transaction fails, the transaction rolls back
     ambiguous  Commit reports an error although the server committed
     offset     CommitMessages fails
     rebalance  the partition is assigned anew while its owner is alive
     term       the instance gets a SIGTERM: its context is cancelled
     crash      the instance dies and comes back                           *)
FaultKind == {"db", "ambiguous", "offset", "rebalance", "term", "crash"}

None == "none"   \* no instance owns the partition

ASSUME MemberAssumption == IsFiniteSet(Member) /\ None \notin Member
ASSUME HandledAssumption == Handled \subseteq Event
ASSUME MaxRetriesAssumption == MaxRetries \in Nat
ASSUME MaxLogAssumption == MaxLog \in Nat
ASSUME StartOffsetAssumption ==
  StartOffset # {} /\ StartOffset \subseteq {"earliest", "latest"}
ASSUME BudgetAssumption == Budget \subseteq [FaultKind -> Nat]

VARIABLES
  log,        \* the partition: event ids, duplicates included
  committed,  \* messages below the group's committed offset; 0: no offset yet
  owner,      \* the instance the partition is assigned to
  next,       \* position of the next message an instance's reader delivers,
              \* 0 while its reader has no partition
  msg,        \* position of the message an instance works on, 0 if none
  pc,         \* where in its loop each instance is
  attempt,    \* the loop variable of the retry loop
  stopping,   \* instances whose context is cancelled
  inbox,      \* event ids in inbox_events under the service's name
  effects,    \* how many times each event's effect was committed
  dropped,    \* positions given up after the last retry (history) ...
  cancelled,  \* ... and by an instance that was told to stop (history)
  late,       \* how much was in the partition when a reader last started behind
              \* its end, 0 if none has (history)
  faults      \* faults so far, by kind (history; bounded by Budget)

broker == <<log, committed, owner>>
tables == <<inbox, effects>>
lost == <<dropped, cancelled, late>>
vars == <<broker, next, msg, pc, attempt, stopping, tables, lost, faults>>

TypeOK ==
  /\ log \in Seq(Event)
  /\ committed \in Nat
  /\ owner \in Member \cup {None}
  /\ next \in [Member -> Nat]
  /\ msg \in [Member -> 0..Len(log)]
  /\ pc \in [Member -> {"fetch", "begin", "tx", "retry", "offset"}]
  /\ attempt \in [Member -> 0..MaxRetries]
  /\ stopping \in SUBSET Member
  /\ inbox \in SUBSET Event
  /\ effects \in [Event -> Nat]
  /\ {dropped, cancelled} \subseteq SUBSET (1..Len(log))
  /\ late \in 0..Len(log)
  /\ faults \in [FaultKind -> Nat]

Init ==
  /\ log = <<>> /\ committed = 0 /\ owner = None
  /\ next = [m \in Member |-> 0]
  /\ msg = [m \in Member |-> 0]
  /\ pc = [m \in Member |-> "fetch"]
  /\ attempt = [m \in Member |-> 0]
  /\ stopping = {}
  /\ inbox = {} /\ effects = [e \in Event |-> 0]
  /\ dropped = {} /\ cancelled = {} /\ late = 0
  /\ faults = [k \in FaultKind |-> 0]

-------------------------------------------------------------------------------

Fault(k) ==
  /\ faults' = [faults EXCEPT ![k] = @ + 1]
  /\ faults' \in Budget

Goto(m, label) == pc' = [pc EXCEPT ![m] = label]

\* The end of one round of the main loop.
Done(m) ==
  /\ Goto(m, "fetch")
  /\ msg' = [msg EXCEPT ![m] = 0]
  /\ attempt' = [attempt EXCEPT ![m] = 0]

\* The event of the message instance m works on.
Ev(m) == log[msg[m]]

\* A poller appends an event to the partition, for the first time or again.
Append1(e) ==
  /\ Len(log) < MaxLog
  /\ log' = Append(log, e)
  /\ UNCHANGED <<committed, owner, next, msg, pc, attempt, stopping, tables,
                 lost, faults>>

\* (mutant) StartOffset is where every reader starts, offset or no offset
StartsLateAlways(start) == start = "latest"

(* A reader starts behind the group's offset; without one, at the first message
   or, with KAFKA_START_OFFSET=latest, behind the last.                    *)
StartsLate(start) == start = "latest" /\ committed = 0

StartAt(m, start) ==
  IF StartsLate(start)
  THEN /\ next' = [next EXCEPT ![m] = Len(log) + 1]
       /\ late' = Len(log)
  ELSE /\ next' = [next EXCEPT ![m] = committed + 1]
       /\ UNCHANGED late

(* The group assigns the partition to m.  An instance that loses it finishes
   the message it has, and goes on reading until it notices (Revoke).      *)
Assign(m) ==
  /\ owner' = m
  /\ \E start \in StartOffset : StartAt(m, start)
  /\ IF owner = None THEN UNCHANGED faults ELSE Fault("rebalance")
  /\ UNCHANGED <<log, committed, msg, pc, attempt, stopping, tables>>
  /\ UNCHANGED <<dropped, cancelled>>

\* The reader of an instance that lost the partition stops delivering.
Revoke(m) ==
  /\ owner # m /\ next[m] # 0
  /\ next' = [next EXCEPT ![m] = 0]
  /\ UNCHANGED <<broker, msg, pc, attempt, stopping, tables, lost, faults>>

\* (mutant) auto-commit: the offset moves when the message is fetched
CommitOnFetch(m) ==
  /\ pc[m] = "fetch" /\ next[m] \in 1..Len(log)
  /\ msg' = [msg EXCEPT ![m] = next[m]]
  /\ next' = [next EXCEPT ![m] = @ + 1]
  /\ attempt' = [attempt EXCEPT ![m] = 0]
  /\ committed' = next[m]
  /\ Goto(m, "begin")
  /\ UNCHANGED <<log, owner, stopping, tables, lost, faults>>

(* FetchMessage selects between the cancelled context and the messages that the
   reader has fetched ahead: an instance that was told to stop may get more of
   them, any number, before it gets the error (Exit).                      *)
FetchMessage(m) ==
  /\ pc[m] = "fetch" /\ next[m] \in 1..Len(log)
  /\ msg' = [msg EXCEPT ![m] = next[m]]
  /\ next' = [next EXCEPT ![m] = @ + 1]
  /\ attempt' = [attempt EXCEPT ![m] = 0]
  /\ Goto(m, "begin")
  /\ UNCHANGED <<broker, stopping, tables, lost, faults>>

\* Not our envelope, or not a type this service handles: nothing to process.
Skip(m) ==
  /\ pc[m] = "begin" /\ Ev(m) \notin Handled
  /\ Goto(m, "offset")
  /\ UNCHANGED <<broker, next, msg, attempt, stopping, tables, lost, faults>>

\* (mutant) the inbox row is looked up, not inserted under a unique key
NeverBlocked(m) == FALSE

(* Another instance has inserted the inbox row of the event and has not ended
   its transaction: INSERT .. ON CONFLICT waits for it.                    *)
InsertBlocked(m) ==
  \E o \in Member \ {m} : pc[o] = "tx" /\ Ev(o) = Ev(m)

\* pgPool.Begin and SaveIfNotExists, which finds the event to be new.
SaveNew(m) ==
  /\ pc[m] = "begin" /\ m \notin stopping /\ Ev(m) \in Handled
  /\ ~InsertBlocked(m) /\ Ev(m) \notin inbox
  /\ Goto(m, "tx")
  /\ UNCHANGED <<broker, next, msg, attempt, stopping, tables, lost, faults>>

\* SaveIfNotExists finds the row: the empty transaction commits.
SaveDuplicate(m) ==
  /\ pc[m] = "begin" /\ m \notin stopping /\ Ev(m) \in Handled
  /\ ~InsertBlocked(m) /\ Ev(m) \in inbox
  /\ Goto(m, "offset")
  /\ UNCHANGED <<broker, next, msg, attempt, stopping, tables, lost, faults>>

(* Begin, the insert, the work or the commit fails; deferred Rollback.  With a
   cancelled context each of them fails.                                   *)
ProcessError(m) ==
  /\ pc[m] \in {"begin", "tx"} /\ Ev(m) \in Handled
  /\ Goto(m, "retry")
  /\ IF m \in stopping THEN UNCHANGED faults ELSE Fault("db")
  /\ UNCHANGED <<broker, next, msg, attempt, stopping, tables, lost>>

\* (mutant) the effect is written outside the transaction of the inbox row
EffectOnly(m) ==
  /\ effects' = [effects EXCEPT ![Ev(m)] = @ + 1]
  /\ UNCHANGED inbox

\* The inbox row and the effect of the event become visible together.
CommitTx(m) ==
  /\ inbox' = inbox \cup {Ev(m)}
  /\ effects' = [effects EXCEPT ![Ev(m)] = @ + 1]

ProcessOK(m) ==
  /\ pc[m] = "tx" /\ m \notin stopping
  /\ CommitTx(m)
  /\ Goto(m, "offset")
  /\ UNCHANGED <<broker, next, msg, attempt, stopping, lost, faults>>

\* tx.Commit committed, but its answer was lost or ctx was cancelled meanwhile.
ProcessAmbiguous(m) ==
  /\ pc[m] = "tx"
  /\ CommitTx(m)
  /\ Goto(m, "retry")
  /\ IF m \in stopping THEN UNCHANGED faults ELSE Fault("ambiguous")
  /\ UNCHANGED <<broker, next, msg, attempt, stopping, lost>>

\* (mutant) attempt <= maxRetries tested before the increment
RetryOnceMore(m) ==
  /\ pc[m] = "retry" /\ attempt[m] <= MaxRetries
  /\ attempt' = [attempt EXCEPT ![m] = @ + 1]
  /\ Goto(m, "begin")
  /\ UNCHANGED <<broker, next, msg, stopping, tables, lost, faults>>

\* The next round of the loop, after the backoff ...
Retry(m) ==
  /\ pc[m] = "retry" /\ attempt[m] < MaxRetries
  /\ attempt' = [attempt EXCEPT ![m] = @ + 1]
  /\ Goto(m, "begin")
  /\ UNCHANGED <<broker, next, msg, stopping, tables, lost, faults>>

\* The message in hand is lost to the group, for its failures or for a SIGTERM.
GiveUp(m) ==
  IF m \in stopping
  THEN cancelled' = cancelled \cup {msg[m]} /\ UNCHANGED dropped
  ELSE dropped' = dropped \cup {msg[m]} /\ UNCHANGED cancelled

\* (mutant) attempt < maxRetries - 1 in the loop condition
DropEarly(m) ==
  /\ pc[m] = "retry" /\ attempt[m] + 1 >= MaxRetries
  /\ GiveUp(m)
  /\ Goto(m, "offset")
  /\ UNCHANGED <<broker, next, msg, attempt, stopping, tables, late, faults>>

\* (mutant) the loop ends after the last retry without committing the offset
DropSilently(m) ==
  /\ pc[m] = "retry" /\ attempt[m] = MaxRetries
  /\ Done(m)
  /\ UNCHANGED <<broker, next, stopping, tables, lost, faults>>

\* ... or, with no retry left, the message is dropped ("DLQ" in the log line).
Drop(m) ==
  /\ pc[m] = "retry" /\ attempt[m] = MaxRetries
  /\ GiveUp(m)
  /\ Goto(m, "offset")
  /\ UNCHANGED <<broker, next, msg, attempt, stopping, tables, late, faults>>

(* CommitMessages.  The last commit to arrive wins: an instance that has lost
   the partition and is still in the group can move the offset back.       *)
CommitMessages(m) ==
  /\ pc[m] = "offset"
  /\ committed' = msg[m]
  /\ Done(m)
  /\ UNCHANGED <<log, owner, next, stopping, tables, lost, faults>>

(* Its error is logged; the loop fetches the following message.  The group
   may refuse an instance that lost the partition, and with a cancelled
   context kafka-go queues the commit or gives up, whichever it picks.     *)
CommitMessagesError(m) ==
  /\ pc[m] = "offset"
  /\ Done(m)
  /\ IF m \in stopping \/ owner # m THEN UNCHANGED faults ELSE Fault("offset")
  /\ UNCHANGED <<broker, next, stopping, tables, lost>>

\* NotifyContext cancels ctx; sleeps and the retry loop are not interrupted.
Terminate(m) ==
  /\ m \notin stopping
  /\ stopping' = stopping \cup {m}
  /\ Fault("term")
  /\ UNCHANGED <<broker, next, msg, pc, attempt, tables, lost>>

\* The process is gone and a new one takes its place: its memory starts afresh.
Restart(m) ==
  /\ Done(m)
  /\ next' = [next EXCEPT ![m] = 0]
  /\ stopping' = stopping \ {m}
  /\ owner' = IF owner = m THEN None ELSE owner
  /\ UNCHANGED <<log, committed, tables, lost>>

\* FetchMessage returns the error of the cancelled context: the main loop ends.
Exit(m) ==
  /\ pc[m] = "fetch" /\ m \in stopping
  /\ Restart(m)
  /\ UNCHANGED faults

\* Killed: an open transaction is rolled back by the server.
Crash(m) ==
  /\ pc[m] # "fetch" \/ next[m] # 0
  /\ Restart(m)
  /\ Fault("crash")

Process(m) ==
  \/ Skip(m) \/ SaveNew(m) \/ SaveDuplicate(m) \/ ProcessError(m)
  \/ ProcessOK(m) \/ ProcessAmbiguous(m) \/ Retry(m) \/ Drop(m)

Step(m) ==
  \/ Assign(m) \/ Revoke(m) \/ FetchMessage(m) \/ Process(m)
  \/ CommitMessages(m) \/ CommitMessagesError(m)
  \/ Terminate(m) \/ Exit(m) \/ Crash(m)

Next == (\E e \in Event : Append1(e)) \/ (\E m \in Member : Step(m))

Spec == Init /\ [][Next]_vars

(* Every instance goes on with its loop and the group assigns a partition
   that nobody owns.  Faults are finitely many; nobody owes a message.  A
   stopping instance ends: the messages it may still be given run out.     *)
FairSpec ==
  /\ Spec
  /\ WF_vars(\E m \in Member : owner = None /\ Assign(m))
  /\ \A m \in Member :
       /\ WF_vars(FetchMessage(m))
       /\ WF_vars(Skip(m) \/ SaveNew(m) \/ SaveDuplicate(m) \/ Retry(m) \/ Drop(m))
       /\ WF_vars(ProcessOK(m))
       /\ WF_vars(m \in stopping /\ ProcessError(m))
       /\ WF_vars(Exit(m))
       /\ WF_vars(CommitMessages(m))

-------------------------------------------------------------------------------

(* The effect of an event is committed exactly when its inbox row is, and once:
   through duplicates in the log, redelivery after a lost offset commit, two
   instances holding the same message, and a commit whose answer was lost. *)
EffectOnce == \A e \in Event : effects[e] = IF e \in inbox THEN 1 ELSE 0

(* The messages given up: after the last retry, by an instance that was told to
   stop, or before a reader that had no offset to start from and went to the
   end of the partition.                                                   *)
GivenUp == dropped \cup cancelled \cup 1..late

\* The message at position i is done with, for good or for bad.
Settled(i) == log[i] \in Handled => log[i] \in inbox \/ i \in GivenUp

(* The group's offset never passes a message that is neither processed nor
   given up, whatever instances commit in what order.                      *)
NothingSkipped == \A i \in 1..committed : Settled(i)

(* No instance passes a message over: whatever is not settled is in the hands
   of the partition's owner or still before its reader, through rebalances,
   restarts and failed commits of the offset.  Without an owner it is the
   committed offset that the next one starts from.                         *)
NothingPassedOver ==
  owner # None =>
    \A i \in 1..Len(log) : Settled(i) \/ i = msg[owner] \/ next[owner] \in 1..i

(* Late starts end with the group's first commit: the offset moves back at
   times but never to nothing, and from there on nothing is left behind
   unread, whichever instance starts with KAFKA_START_OFFSET=latest.       *)
LateStartsEnd == [][committed > 0 => committed' > 0 /\ late' = late]_vars

(* An instance that goes on gives a message up only after 1 + maxRetries failed
   attempts of its own: no failure counts for two messages, however often the
   attempts are begun again at other instances.  A SIGTERM is the only other
   reason; how many messages it costs depends on what is fetched ahead.    *)
DropsAreEarned ==
  /\ Cardinality(dropped) * (MaxRetries + 1) <= faults["db"] + faults["ambiguous"]
  /\ cancelled # {} => faults["term"] > 0

(* Every message of the partition is eventually processed or given up: no
   instance waits for ever for another, none is stuck in its retry loop.   *)
EventuallySettled ==
  \A i \in 1..MaxLog : i <= Len(log) ~> (i <= Len(log) /\ Settled(i))

(* README.md:58-59: a message that cannot be processed is put aside in a dead
   letter queue and nothing is lost; there being no such queue, a message
   behind the committed offset must have been processed.                   *)
CommittedIsProcessed ==
  \A i \in 1..committed : log[i] \in Handled => log[i] \in inbox

\* The group keeps the promise of one service, seen through its tables.
Promise == INSTANCE GroupPromise WITH done <- inbox, dropped <- GivenUp

(* Any number of instances, in any interleaving and with every fault, act as
   one service that goes through the partition in order.                   *)
KeepsPromise == Promise!Spec
===============================================================================
