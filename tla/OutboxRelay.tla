------------------------------ MODULE OutboxRelay ------------------------------
(***************************************************************************)
(* The publishing half of the transactional outbox: the outbox table       *)
(* (internal/infrastructure/postgres/outbox_repo.go), any number of        *)
(* replicas of the poller (internal/worker/poller.go), the Kafka producer  *)
(* (internal/infrastructure/kafka/producer.go) and the repair tool         *)
(* check_db.go.  A row is written by a business transaction, claimed by a  *)
(* poller ('new' -> 'processing'), sent, and marked 'processed', or 'new'  *)
(* again when the send reported an error.                                  *)
(*                                                                         *)
(* One SQL statement is one step, as it is its own transaction here; the   *)
(* poller can be interrupted between any two of them.  Everything that can *)
(* go wrong is a fault of a named kind and Budget bounds each kind.        *)
(***************************************************************************)
EXTENDS Integers, FiniteSets

CONSTANTS
  Worker,      \* the poller replicas
  Event,       \* the ids of the outbox rows that may ever be written
  CreatedAt,   \* the created_at column of each row, set by its writer's clock
  Limit,       \* the batch size: processBatch asks for 10
  Budget,      \* how many faults of each kind may happen
  FixLive      \* may check_db -fix run while a poller is working on a batch?

(* What can go wrong, by the call it happens in:
     fetch      FetchBatch committed the claim, the poller did not read all rows
     send       SendMessage fails and nothing was appended
     timeout    SendMessage fails, the broker may yet append the message: the
                5 s of the call are over, the writer's own attempts are not
     resend     the writer retried an attempt that had been appended
     unacked    SendMessage succeeds, the broker never appended the message
     mark       MarkProcessed or MarkFailed reports an error
     crash      the poller dies (a SIGTERM in the middle of a batch included)
     fix        an operator runs check_db -fix                             *)
FaultKind == {"fetch", "send", "timeout", "resend", "unacked", "mark",
              "crash", "fix"}
SendResult == {"ok", "send", "timeout", "resend", "unacked"}

ASSUME WorkerAssumption == IsFiniteSet(Worker)
ASSUME EventAssumption == IsFiniteSet(Event)
ASSUME CreatedAtAssumption == CreatedAt \in [Event -> Nat]
ASSUME LimitAssumption == Limit \in Nat \ {0}
ASSUME BudgetAssumption == Budget \in [FaultKind -> Nat]
ASSUME FixLiveAssumption == FixLive \in BOOLEAN

VARIABLES
  outbox,        \* the status column; "absent" before the row is committed
  topic,         \* how many copies of the event the Kafka topic holds
  inflight,      \* copies nobody waits for that the broker may still append
  pc,            \* where in processBatch each poller is
  events,        \* the claimed events a poller has still to send
  processedIDs,  \* sent by the poller without an error
  failedIDs,     \* sent by the poller with an error
  faults         \* faults so far, by kind (history; bounded by Budget)

kafka == <<topic, inflight>>
local == <<pc, events, processedIDs, failedIDs>>
vars == <<outbox, kafka, local, faults>>

Status == {"absent", "new", "processing", "processed"}

TypeOK ==
  /\ outbox \in [Event -> Status]
  /\ topic \in [Event -> Nat] /\ inflight \in [Event -> Nat]
  /\ pc \in [Worker -> {"idle", "send", "markFailed"}]
  /\ events \in [Worker -> SUBSET Event]
  /\ processedIDs \in [Worker -> SUBSET Event]
  /\ failedIDs \in [Worker -> SUBSET Event]
  /\ faults \in [FaultKind -> Nat]

Init ==
  /\ outbox = [e \in Event |-> "absent"]
  /\ topic = [e \in Event |-> 0] /\ inflight = [e \in Event |-> 0]
  /\ pc = [w \in Worker |-> "idle"]
  /\ events = [w \in Worker |-> {}]
  /\ processedIDs = [w \in Worker |-> {}]
  /\ failedIDs = [w \in Worker |-> {}]
  /\ faults = [k \in FaultKind |-> 0]

-------------------------------------------------------------------------------

\* (mutant) FetchBatch without its WHERE status = 'new'
NewOrClaimed == {e \in Event : outbox[e] \in {"new", "processing"}}

New == {e \in Event : outbox[e] = "new"}

\* UPDATE outbox SET status = s WHERE id = ANY(ids)
SetStatus(ids, s) ==
  outbox' = [e \in Event |-> IF e \in ids THEN s ELSE outbox[e]]

Fault(k) ==
  /\ faults[k] < Budget[k]
  /\ faults' = [faults EXCEPT ![k] = @ + 1]

\* processBatch returns, or the process dies: the batch lives in memory only.
Forget(w) ==
  /\ pc' = [pc EXCEPT ![w] = "idle"]
  /\ events' = [events EXCEPT ![w] = {}]
  /\ processedIDs' = [processedIDs EXCEPT ![w] = {}]
  /\ failedIDs' = [failedIDs EXCEPT ![w] = {}]

\* A business transaction that inserts the row with status 'new' commits.
Create(e) ==
  /\ outbox[e] = "absent"
  /\ outbox' = [outbox EXCEPT ![e] = "new"]
  /\ UNCHANGED <<kafka, local, faults>>

(* The rows one FetchBatch may claim: the oldest 'new' ones, up to Limit.
   A concurrent FetchBatch holds row locks that SKIP LOCKED passes over, so
   two statements have the effect of running one after the other.          *)
Claims ==
  {C \in SUBSET New :
     /\ C # {}
     /\ Cardinality(C) <= Limit
     /\ C = New \/ Cardinality(C) = Limit
     /\ \A c \in C, n \in New \ C : CreatedAt[c] <= CreatedAt[n]}

\* The claim commits and the poller reads `got` of the rows it returned.
Claim(w, C, got) ==
  /\ pc[w] = "idle"
  /\ SetStatus(C, "processing")
  /\ events' = [events EXCEPT ![w] = got]
  /\ pc' = [pc EXCEPT ![w] = IF got = {} THEN "idle" ELSE "send"]
  /\ UNCHANGED <<kafka, processedIDs, failedIDs>>

FetchBatch(w) == \E C \in Claims : Claim(w, C, C) /\ UNCHANGED faults

(* The connection breaks after the server committed: Query or Scan fails and
   processBatch returns, or rows.Next stops early and, rows.Err not being
   looked at, the poller goes on with the rows it has read.                *)
FetchBatchCut(w) ==
  \E C \in Claims : \E got \in (SUBSET C) \ {C} :
    Claim(w, C, got) /\ Fault("fetch")

-------------------------------------------------------------------------------

\* How many copies are in the topic when SendMessage returns r.
Appended(r) == IF r = "resend" THEN 2 ELSE IF r = "ok" THEN 1 ELSE 0

\* (mutant) the error of SendMessage is logged and not acted upon
ReportedNever(r) == FALSE

\* The results that processBatch sees as an error.
Reported(r) == r \in {"send", "timeout"}

(* One round of the loop over the batch.  RETURNING gives the rows in no
   particular order, so any claimed event may be the next one.             *)
Send(w, e, r) ==
  /\ pc[w] = "send"
  /\ e \in events[w]
  /\ events' = [events EXCEPT ![w] = @ \ {e}]
  /\ topic' = [topic EXCEPT ![e] = @ + Appended(r)]
  /\ inflight' = [inflight EXCEPT ![e] = IF r = "timeout" THEN @ + 1 ELSE @]
  /\ IF Reported(r)
     THEN /\ failedIDs' = [failedIDs EXCEPT ![w] = @ \cup {e}]
          /\ UNCHANGED processedIDs
     ELSE /\ processedIDs' = [processedIDs EXCEPT ![w] = @ \cup {e}]
          /\ UNCHANGED failedIDs
  /\ IF r = "ok" THEN UNCHANGED faults ELSE Fault(r)
  /\ UNCHANGED <<outbox, pc>>

\* A copy whose sender has given up reaches the broker.
LateAppend(e) ==
  /\ inflight[e] > 0
  /\ inflight' = [inflight EXCEPT ![e] = @ - 1]
  /\ topic' = [topic EXCEPT ![e] = @ + 1]
  /\ UNCHANGED <<outbox, local, faults>>

(* The loop is over.  An empty id list is not sent, which changes nothing,
   as updating no row does.                                                *)
MarkProcessed(w) ==
  /\ pc[w] = "send" /\ events[w] = {}
  /\ SetStatus(processedIDs[w], "processed")
  /\ pc' = [pc EXCEPT ![w] = "markFailed"]
  /\ processedIDs' = [processedIDs EXCEPT ![w] = {}]
  /\ UNCHANGED <<kafka, events, failedIDs, faults>>

(* MarkProcessed reports an error, having taken effect or not: processBatch
   returns at once and never gets to MarkFailed.                           *)
MarkProcessedError(w) ==
  /\ pc[w] = "send" /\ events[w] = {} /\ processedIDs[w] # {}
  /\ \/ SetStatus(processedIDs[w], "processed")
     \/ UNCHANGED outbox
  /\ Forget(w)
  /\ Fault("mark")
  /\ UNCHANGED kafka

\* (mutant) processBatch returns without MarkFailed
MarkFailedSkipped(w) ==
  /\ pc[w] = "markFailed"
  /\ Forget(w)
  /\ UNCHANGED <<outbox, kafka, faults>>

\* (mutant) 'failed', a status that migrations/002_outbox.sql:5 mentions
MarkAsFailed(w) ==
  /\ pc[w] = "markFailed"
  /\ SetStatus(failedIDs[w], "failed")
  /\ Forget(w)
  /\ UNCHANGED <<kafka, faults>>

MarkFailed(w) ==
  /\ pc[w] = "markFailed"
  /\ SetStatus(failedIDs[w], "new")
  /\ Forget(w)
  /\ UNCHANGED <<kafka, faults>>

\* The error of MarkFailed is logged and nothing else.
MarkFailedError(w) ==
  /\ pc[w] = "markFailed" /\ failedIDs[w] # {}
  /\ \/ SetStatus(failedIDs[w], "new")
     \/ UNCHANGED outbox
  /\ Forget(w)
  /\ Fault("mark")
  /\ UNCHANGED kafka

(* The poller dies, perhaps with messages on their way to the broker: one, or
   several when a SIGTERM made the rest of the loop fail after each message
   was handed to the writer.                                               *)
Crash(w) ==
  /\ pc[w] # "idle"
  /\ \E handed \in SUBSET events[w] :
       inflight' = [e \in Event |-> inflight[e] + IF e \in handed THEN 1 ELSE 0]
  /\ Forget(w)
  /\ Fault("crash")
  /\ UNCHANGED <<outbox, topic>>

\* check_db -fix: every 'processing' row becomes 'new', whoever works on it.
Fix ==
  /\ FixLive \/ \A w \in Worker : pc[w] = "idle"
  /\ SetStatus({e \in Event : outbox[e] = "processing"}, "new")
  /\ Fault("fix")
  /\ UNCHANGED <<kafka, local>>

Poll(w) ==
  \/ FetchBatch(w)
  \/ FetchBatchCut(w)
  \/ \E e \in Event, r \in SendResult : Send(w, e, r)
  \/ MarkProcessed(w)
  \/ MarkProcessedError(w)
  \/ MarkFailed(w)
  \/ MarkFailedError(w)
  \/ Crash(w)

Next ==
  \/ \E e \in Event : Create(e) \/ LateAppend(e)
  \/ \E w \in Worker : Poll(w)
  \/ Fix

Spec == Init /\ [][Next]_vars

(* The ticker goes on ticking and the loop of processBatch goes on; faults
   are finitely many, so the calls eventually succeed.  Nothing obliges a
   row to be written or an operator to run check_db.                       *)
FairSpec ==
  /\ Spec
  /\ \A w \in Worker :
       /\ WF_vars(FetchBatch(w))
       /\ WF_vars(\E e \in Event : Send(w, e, "ok"))
       /\ WF_vars(MarkProcessed(w))
       /\ WF_vars(MarkFailed(w))

-------------------------------------------------------------------------------

\* The rows a poller is working on.
Held(w) == events[w] \cup processedIDs[w] \cup failedIDs[w]

(* No two pollers ever work on the same row: what FOR UPDATE SKIP LOCKED and
   the status column buy FetchBatch, with any number of replicas and whatever
   fails.  It is about pollers alone: check_db -fix run under a working
   poller gives its rows away (hence FixLive).                             *)
ClaimExclusive ==
  ~FixLive => \A v, w \in Worker : v # w => Held(v) \cap Held(w) = {}

(* A row is 'processed' only when the topic holds the event: MarkProcessed
   comes after SendMessage.  It rests on SendMessage telling the truth.    *)
ProcessedMeansPublished ==
  \A e \in Event : outbox[e] = "processed" => topic[e] > 0

(* A consumer ever sees a second copy of an event only for a reason: a send
   that timed out and was appended all the same, a retry inside the writer,
   or a run of check_db -fix; each of these accounts for one copy.         *)
DuplicatesAreAccountedFor ==
  \A e \in Event :
    topic[e] + inflight[e]
      <= 1 + faults["timeout"] + faults["resend"] + faults["fix"]

\* Rows that no poller will look at again: 'processing', in nobody's memory.
Stranded ==
  {e \in Event : outbox[e] = "processing" /\ \A w \in Worker : e \notin Held(w)}

\* What may strand a batch: a claim cut short, a failed mark, a poller's death.
Strandings == faults["fetch"] + faults["mark"] + faults["crash"]

(* Each of these strands one batch at most; while nothing of the kind happens
   processBatch leaves no row behind.                                      *)
StrandedIsBounded == Cardinality(Stranded) <= Limit * Strandings

(* A row marked 'processed' stays so: the unconditional UPDATE of MarkFailed
   never hits a row that somebody has finished.                            *)
ProcessedIsFinal ==
  [][\A e \in Event :
       ~FixLive /\ outbox[e] = "processed" => outbox'[e] = "processed"]_vars

(* Every committed row is eventually marked 'processed' for good, through failed
   sends, replicas and repairs, unless a fault strands it on the way.      *)
EventuallyProcessed ==
  \A e \in Event :
    outbox[e] = "new"
      ~> [](outbox[e] = "processed") \/ (e \in Stranded /\ Strandings > 0)

(* README.md:59, nothing is lost even "if something breaks": an event whose
   row was committed reaches the topic.                                    *)
NothingLost == \A e \in Event : outbox[e] = "new" ~> topic[e] > 0

\* The relay keeps the outbox promise: OutboxPromise, seen through the tables.
Promise == INSTANCE OutboxPromise WITH
  recorded <- {e \in Event : outbox[e] # "absent"},
  copies <- topic,
  settled <- {e \in Event : outbox[e] = "processed"}

(* Every step of the pollers, in any interleaving and with every fault but a
   false acknowledgement, is a step the outbox promise allows.             *)
KeepsPromise == Promise!Spec
===============================================================================
