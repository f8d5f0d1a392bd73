--------------------------- MODULE OutboxRelayProofs ---------------------------
(***************************************************************************)
(* What OutboxRelay promises for every number of pollers, rows, batch size *)
(* and budget of faults.  The inductive invariants:                        *)
(*   TypeOK                                                                *)
(*   Truthful  what a poller is about to mark, and what is marked, is in   *)
(*             the topic (until an acknowledgement has been false, which   *)
(*             RequiredAcks = none allows: such theorems name the case)    *)
(*   Owned     a row in a poller's hands is 'processing', in one poller's  *)
(*             hands only, and in none when the poller is idle (while      *)
(*             check_db -fix keeps away from working pollers)              *)
(*   Accounted copies of an event and what may still become one are one    *)
(*             more than the faults that excuse a copy, at most            *)
(*   Batched   a poller holds no more than a batch                         *)
(***************************************************************************)
EXTENDS OutboxRelay, FiniteSetTheorems, TLAPS

(* The tables and the pollers' memory start well typed (outbox, Run) ...   *)
LEMMA InitType == Init => TypeOK
BY DEF Init, TypeOK, Status

(* ... and each statement of processBatch and check_db keeps them so.      *)
LEMMA NextType == TypeOK /\ [Next]_vars => TypeOK'
<1> SUFFICES ASSUME TypeOK, [Next]_vars PROVE TypeOK'
  OBVIOUS
<1> USE BudgetAssumption DEF TypeOK, Status
<1>1. ASSUME NEW e \in Event, Create(e) \/ LateAppend(e) PROVE TypeOK'
  BY <1>1 DEF Create, LateAppend, local, kafka
<1>2. ASSUME NEW w \in Worker, FetchBatch(w) PROVE TypeOK'
  <2>1. PICK C \in Claims : Claim(w, C, C) /\ UNCHANGED faults
    BY <1>2 DEF FetchBatch
  <2>2. C \subseteq Event
    BY DEF Claims, New
  <2> QED BY <2>1, <2>2 DEF Claim, SetStatus, kafka
<1>3. ASSUME NEW w \in Worker, FetchBatchCut(w) PROVE TypeOK'
  <2>0. PICK C \in Claims : \E got \in (SUBSET C) \ {C} : Claim(w, C, got) /\ Fault("fetch")
    BY <1>3 DEF FetchBatchCut
  <2>1. PICK got \in SUBSET C : Claim(w, C, got) /\ Fault("fetch")
    BY <2>0
  <2>2. C \subseteq Event
    BY DEF Claims, New
  <2>3. faults' \in [FaultKind -> Nat]
    BY <2>1 DEF Fault, FaultKind
  <2> QED BY <2>1, <2>2, <2>3 DEF Claim, SetStatus, kafka
<1>4. ASSUME NEW w \in Worker, NEW e \in Event, NEW r \in SendResult, Send(w, e, r)
      PROVE TypeOK'
  <2>1. Appended(r) \in Nat
    BY DEF Appended
  <2>2. topic' \in [Event -> Nat] /\ inflight' \in [Event -> Nat]
    BY <1>4, <2>1 DEF Send
  <2>3. faults' \in [FaultKind -> Nat]
    BY <1>4 DEF Send, Fault, FaultKind, SendResult
  <2> QED BY <1>4, <2>2, <2>3 DEF Send
<1>5. ASSUME NEW w \in Worker, MarkProcessed(w) PROVE TypeOK'
  BY <1>5 DEF MarkProcessed, SetStatus, kafka
<1>6. ASSUME NEW w \in Worker, MarkProcessedError(w) PROVE TypeOK'
  <2>1. faults' \in [FaultKind -> Nat]
    BY <1>6 DEF MarkProcessedError, Fault, FaultKind
  <2> QED BY <1>6, <2>1 DEF MarkProcessedError, SetStatus, Forget, kafka
<1>7. ASSUME NEW w \in Worker, MarkFailed(w) PROVE TypeOK'
  BY <1>7 DEF MarkFailed, SetStatus, Forget, kafka
<1>8. ASSUME NEW w \in Worker, MarkFailedError(w) PROVE TypeOK'
  <2>1. faults' \in [FaultKind -> Nat]
    BY <1>8 DEF MarkFailedError, Fault, FaultKind
  <2> QED BY <1>8, <2>1 DEF MarkFailedError, SetStatus, Forget, kafka
<1>9. ASSUME NEW w \in Worker, Crash(w) PROVE TypeOK'
  <2>1. faults' \in [FaultKind -> Nat]
    BY <1>9 DEF Crash, Fault, FaultKind
  <2> QED BY <1>9, <2>1 DEF Crash, Forget
<1>10. CASE Fix
  <2>1. faults' \in [FaultKind -> Nat]
    BY <1>10 DEF Fix, Fault, FaultKind
  <2> QED BY <1>10, <2>1 DEF Fix, SetStatus, local, kafka
<1>11. CASE UNCHANGED vars
  BY <1>11 DEF vars, local, kafka
<1> QED
  BY <1>1, <1>2, <1>3, <1>4, <1>5, <1>6, <1>7, <1>8, <1>9, <1>10, <1>11
  DEF Next, Poll

(* The variables keep their types: every status is one the poller knows.   *)
THEOREM TypeCorrect == Spec => []TypeOK
BY InitType, NextType, PTL DEF Spec

-------------------------------------------------------------------------------

(* A poller's three lists share no row, and are empty between two batches. *)
Batch ==
  \A w \in Worker :
    /\ pc[w] = "idle" => Held(w) = {}
    /\ events[w] \cap (processedIDs[w] \cup failedIDs[w]) = {}
    /\ processedIDs[w] \cap failedIDs[w] = {}

(* A row in a poller's hands is 'processing' and in nobody else's, and what
   is on its way to the broker was recorded.                               *)
Owned ==
  ~FixLive =>
    /\ \A w \in Worker : \A e \in Held(w) : outbox[e] = "processing"
    /\ \A e \in Event : inflight[e] > 0 => outbox[e] # "absent"
    /\ ClaimExclusive

IInv == TypeOK /\ Batch /\ Owned

\* At the start no poller holds a row.
LEMMA InitIInv == Init => IInv
BY InitType DEF Init, IInv, Batch, Owned, ClaimExclusive, Held

(* Each statement of the pollers and check_db keeps claimed rows 'processing'
   and in one pair of hands.                                               *)
LEMMA NextIInv == IInv /\ [Next]_vars => IInv'
<1> SUFFICES ASSUME IInv, [Next]_vars PROVE Batch' /\ Owned'
  BY NextType DEF IInv
<1> USE DEF TypeOK, IInv, Batch, Owned, ClaimExclusive, Held
<1>1. ASSUME NEW e \in Event, Create(e) \/ LateAppend(e) PROVE Batch' /\ Owned'
  BY <1>1 DEF Create, LateAppend, local, kafka
<1>2. ASSUME NEW w \in Worker, NEW C \in Claims, NEW got \in SUBSET C, Claim(w, C, got)
      PROVE Batch' /\ Owned'
  <2>1. C \subseteq Event /\ \A e \in C : outbox[e] = "new"
    BY DEF Claims, New
  <2>2. Batch'
    BY <1>2, <2>1 DEF Claim, kafka
  <2>3. Owned'
    BY <1>2, <2>1 DEF Claim, SetStatus, kafka
  <2> QED BY <2>2, <2>3
<1>3. ASSUME NEW w \in Worker, NEW e \in Event, NEW r \in SendResult, Send(w, e, r)
      PROVE Batch' /\ Owned'
  BY <1>3 DEF Send
<1>4. ASSUME NEW w \in Worker, MarkProcessed(w) PROVE Batch' /\ Owned'
  BY <1>4 DEF MarkProcessed, SetStatus, kafka
<1>5. ASSUME NEW w \in Worker, MarkProcessedError(w) PROVE Batch' /\ Owned'
  BY <1>5 DEF MarkProcessedError, SetStatus, Forget, kafka
<1>6. ASSUME NEW w \in Worker, MarkFailed(w) PROVE Batch' /\ Owned'
  BY <1>6 DEF MarkFailed, SetStatus, Forget, kafka
<1>7. ASSUME NEW w \in Worker, MarkFailedError(w) PROVE Batch' /\ Owned'
  BY <1>7 DEF MarkFailedError, SetStatus, Forget, kafka
<1>8. ASSUME NEW w \in Worker, Crash(w) PROVE Batch' /\ Owned'
  BY <1>8 DEF Crash, Forget
<1>9. CASE Fix
  BY <1>9 DEF Fix, SetStatus, local, kafka
<1>10. CASE UNCHANGED vars
  BY <1>10 DEF vars, local, kafka
<1> QED
  BY <1>1, <1>2, <1>3, <1>4, <1>5, <1>6, <1>7, <1>8, <1>9, <1>10
  DEF Next, Poll, FetchBatch, FetchBatchCut

(* No two pollers ever work on the same row, however many replicas run and
   whatever fails (check_db -fix kept away from working pollers).          *)
THEOREM ClaimsAreExclusive == Spec => []ClaimExclusive
<1>1. IInv => ClaimExclusive
  BY DEF IInv, Owned, ClaimExclusive
<1> QED BY <1>1, InitIInv, NextIInv, PTL DEF Spec

(* 'processed' is final: MarkFailed updates rows by id whatever their status,
   but only rows in this poller's hands, which are all 'processing'.       *)
THEOREM ProcessedStays == Spec => ProcessedIsFinal
<1> DEFINE Kept == \A e \in Event :
                     ~FixLive /\ outbox[e] = "processed" => outbox'[e] = "processed"
<1>1. ASSUME IInv, [Next]_vars PROVE [Kept]_vars
  <2> USE <1>1 DEF IInv, TypeOK, Owned, Held
  <2>1. CASE \E e \in Event : Create(e) \/ LateAppend(e)
    BY <2>1 DEF Create, LateAppend
  <2>2. ASSUME NEW w \in Worker, NEW C \in Claims, NEW got \in SUBSET C, Claim(w, C, got)
        PROVE Kept
    BY <2>2 DEF Claim, Claims, New, SetStatus
  <2>3. ASSUME NEW w \in Worker, Poll(w), ~FetchBatch(w), ~FetchBatchCut(w)
        PROVE Kept
    BY <2>3 DEF Poll, Send, MarkProcessed, MarkProcessedError, MarkFailed,
                MarkFailedError, Crash, SetStatus
  <2>4. CASE Fix
    BY <2>4 DEF Fix, SetStatus
  <2> HIDE DEF Kept
  <2> QED BY <2>1, <2>2, <2>3, <2>4 DEF Next, FetchBatch, FetchBatchCut
<1>2. Spec => [][Kept]_vars
  BY <1>1, InitIInv, NextIInv, PTL DEF Spec
<1> QED BY <1>2 DEF ProcessedIsFinal

-------------------------------------------------------------------------------

\* No acknowledgement is ever false; RequiredAcks = none does not promise this.
NoFalseAck == Budget["unacked"] = 0

\* SendMessage has told the truth so far.
NoneUnacked == faults["unacked"] = 0

(* What is marked 'processed', and what a poller is about to mark so, has
   been appended to the topic.                                             *)
Acked ==
  \A e \in Event :
    outbox[e] = "processed" \/ (\E w \in Worker : e \in processedIDs[w])
      => topic[e] > 0

\* Once an acknowledgement was false, nothing is said of the rows.
Truthful == NoneUnacked => Acked

\* At the start nothing is about to be marked, and SendMessage was not called.
LEMMA InitAcked == Init => Acked /\ NoneUnacked
BY DEF Init, Acked, NoneUnacked, FaultKind

(* A false acknowledgement is counted for good, and where there is none the
   count stays at 0.                                                       *)
LEMMA NextUnacked ==
  TypeOK /\ [Next]_vars =>
    /\ NoneUnacked' => NoneUnacked
    /\ NoFalseAck /\ NoneUnacked => NoneUnacked'
<1> SUFFICES ASSUME TypeOK, [Next]_vars
             PROVE  /\ NoneUnacked' => NoneUnacked
                    /\ NoFalseAck /\ NoneUnacked => NoneUnacked'
  OBVIOUS
<1>1. faults \in [FaultKind -> Nat] /\ "unacked" \in FaultKind
  BY DEF TypeOK, FaultKind
<1>2. UNCHANGED faults \/ \E k \in FaultKind : Fault(k)
  BY DEF Next, Poll, Create, LateAppend, FetchBatch, FetchBatchCut, Send, SendResult,
     MarkProcessed, MarkProcessedError, MarkFailed, MarkFailedError, Crash, Fix, FaultKind, vars
<1> QED BY <1>1, <1>2 DEF Fault, NoneUnacked, NoFalseAck

\* processBatch puts an id in processedIDs only after a send that succeeded.
LEMMA NextAcked == TypeOK /\ Acked /\ [Next]_vars /\ NoneUnacked' => Acked'
<1> SUFFICES ASSUME TypeOK, Acked, [Next]_vars, NoneUnacked' PROVE Acked'
  OBVIOUS
<1> USE DEF TypeOK, Acked
<1>1. ASSUME NEW e \in Event, Create(e) \/ LateAppend(e) PROVE Acked'
  BY <1>1 DEF Create, LateAppend, local, kafka
<1>2. ASSUME NEW w \in Worker, NEW C \in Claims, NEW got \in SUBSET C, Claim(w, C, got)
      PROVE Acked'
  BY <1>2 DEF Claim, SetStatus, kafka
<1>3. ASSUME NEW w \in Worker, NEW e \in Event, NEW r \in SendResult, Send(w, e, r)
      PROVE Acked'
  <2>1. r # "unacked"
    BY <1>3 DEF Send, Fault, NoneUnacked, FaultKind
  <2>2. Appended(r) \in Nat /\ (~Reported(r) => Appended(r) > 0)
    BY <2>1 DEF Appended, Reported, SendResult
  <2>3. \A d \in Event : topic'[d] \in Nat /\ topic'[d] >= topic[d]
    BY <1>3, <2>2 DEF Send
  <2>4. ~Reported(r) => topic'[e] > 0
    BY <1>3, <2>2 DEF Send
  <2>5. \A v \in Worker : \A d \in processedIDs'[v] :
          d \in processedIDs[v] \/ (d = e /\ ~Reported(r))
    BY <1>3 DEF Send
  <2>6. UNCHANGED outbox
    BY <1>3 DEF Send
  <2> QED BY <2>3, <2>4, <2>5, <2>6
<1>4. ASSUME NEW w \in Worker, MarkProcessed(w) PROVE Acked'
  BY <1>4 DEF MarkProcessed, SetStatus, kafka
<1>5. ASSUME NEW w \in Worker, MarkProcessedError(w) PROVE Acked'
  BY <1>5 DEF MarkProcessedError, SetStatus, Forget, kafka
<1>6. ASSUME NEW w \in Worker, MarkFailed(w) \/ MarkFailedError(w) \/ Crash(w)
      PROVE Acked'
  BY <1>6 DEF MarkFailed, MarkFailedError, Crash, SetStatus, Forget, kafka
<1>7. CASE Fix
  BY <1>7 DEF Fix, SetStatus, local, kafka
<1>8. CASE UNCHANGED vars
  BY <1>8 DEF vars, local, kafka
<1> QED
  BY <1>1, <1>2, <1>3, <1>4, <1>5, <1>6, <1>7, <1>8
  DEF Next, Poll, FetchBatch, FetchBatchCut

\* The lists and the topic agree until the first false acknowledgement.
LEMMA NextTruthful == TypeOK /\ Truthful /\ [Next]_vars => Truthful'
BY NextAcked, NextUnacked DEF Truthful

(* A row is 'processed' only when the topic holds the event, whatever fails but
   an acknowledgement, check_db -fix under working pollers included.       *)
THEOREM ProcessedIsPublished ==
  ASSUME NoFalseAck PROVE Spec => []ProcessedMeansPublished
<1>1. Acked => ProcessedMeansPublished
  BY DEF Acked, ProcessedMeansPublished
<1>2. TypeOK /\ Acked /\ NoneUnacked /\ [Next]_vars
        => (TypeOK /\ Acked /\ NoneUnacked)'
  BY NextType, NextAcked, NextUnacked, NoFalseAck
<1> QED BY <1>1, <1>2, InitType, InitAcked, PTL DEF Spec

-------------------------------------------------------------------------------

\* An empty outbox table is an outbox that has promised nothing.
LEMMA InitPromise == Init => Promise!Init
BY DEF Init, Promise!Init

(* One step of the relay is one step, or none, of the outbox promise.      *)
LEMMA NextPromise ==
  ASSUME ~FixLive
  PROVE  IInv /\ Acked /\ [Next]_vars => [Promise!Next]_(Promise!vars)
<1> SUFFICES ASSUME IInv, Acked, [Next]_vars PROVE [Promise!Next]_(Promise!vars)
  OBVIOUS
<1> DEFINE recorded == {e \in Event : outbox[e] # "absent"}
           settled == {e \in Event : outbox[e] = "processed"}
<1> USE DEF IInv, TypeOK
<1>1. ASSUME NEW e \in Event, Create(e) PROVE Promise!Record(e)
  BY <1>1 DEF Create, Promise!Record, kafka
<1>2. ASSUME NEW w \in Worker, NEW C \in Claims, NEW got \in SUBSET C, Claim(w, C, got)
      PROVE UNCHANGED Promise!vars
  BY <1>2 DEF Claim, Claims, New, SetStatus, Promise!vars, kafka
<1>3. ASSUME NEW w \in Worker, NEW e \in Event, NEW r \in SendResult, Send(w, e, r)
      PROVE [Promise!Next]_(Promise!vars)
  <2>1. e \in recorded
    BY <1>3 DEF Send, Owned, Held
  <2>2. UNCHANGED <<recorded, settled>> /\ topic' = [topic EXCEPT ![e] = @ + Appended(r)]
    BY <1>3 DEF Send
  <2>3. CASE Appended(r) = 0
    <3>1. topic' = topic
      BY <2>2, <2>3
    <3> QED BY <2>2, <3>1 DEF Promise!vars
  <2>4. CASE Appended(r) \in {1, 2}
    <3>1. Promise!Publish(e, Appended(r))
      BY <2>1, <2>2 DEF Promise!Publish
    <3> QED BY <2>4, <3>1 DEF Promise!Next
  <2> QED BY <2>3, <2>4 DEF Appended
<1>4. ASSUME NEW w \in Worker,
             SetStatus(processedIDs[w], "processed"), UNCHANGED topic
      PROVE Promise!Settle(processedIDs[w])
  <2>1. \A e \in processedIDs[w] : e \in recorded /\ topic[e] > 0
    BY DEF Owned, Held, Acked
  <2>2. UNCHANGED recorded /\ settled' = settled \cup processedIDs[w]
    BY <1>4, <2>1 DEF SetStatus
  <2> QED BY <1>4, <2>1, <2>2 DEF Promise!Settle
<1>5. ASSUME NEW w \in Worker, SetStatus(failedIDs[w], "new"), UNCHANGED topic
      PROVE UNCHANGED Promise!vars
  BY <1>5 DEF SetStatus, Owned, Held, Promise!vars
<1>6. CASE Fix
  BY <1>6 DEF Fix, SetStatus, Promise!vars, kafka
<1>7. CASE UNCHANGED <<outbox, topic>>
  BY <1>7 DEF Promise!vars
<1>8. ASSUME NEW w \in Worker, Poll(w) PROVE [Promise!Next]_(Promise!vars)
  <2>1. CASE FetchBatch(w) \/ FetchBatchCut(w)
    BY <1>2, <2>1 DEF FetchBatch, FetchBatchCut
  <2>2. CASE \E e \in Event, r \in SendResult : Send(w, e, r)
    BY <1>3, <2>2
  <2>3. CASE MarkProcessed(w) \/ MarkProcessedError(w)
    <3>1. processedIDs[w] \in SUBSET Event
      OBVIOUS
    <3>2. Promise!Settle(processedIDs[w]) => Promise!Next
      BY <3>1 DEF Promise!Next, Promise!Settle
    <3> QED BY <1>4, <1>7, <2>3, <3>2 DEF MarkProcessed, MarkProcessedError, kafka
  <2>4. CASE MarkFailed(w) \/ MarkFailedError(w) \/ Crash(w)
    BY <1>5, <1>7, <2>4 DEF MarkFailed, MarkFailedError, Crash, kafka
  <2> QED BY <1>8, <2>1, <2>2, <2>3, <2>4 DEF Poll
<1>9. CASE \E e \in Event : Create(e) \/ LateAppend(e)
  <2>1. ASSUME NEW e \in Event, LateAppend(e) PROVE Promise!Publish(e, 1)
    BY <2>1 DEF LateAppend, Owned, Promise!Publish
  <2> QED BY <1>1, <1>9, <2>1 DEF Promise!Next
<1> QED BY <1>6, <1>7, <1>8, <1>9 DEF Next, vars, kafka

(* The pollers implement the outbox promise: nothing unrecorded is published,
   nothing is settled before it is published, and what is settled stays so. *)
THEOREM RelayKeepsPromise ==
  ASSUME NoFalseAck, ~FixLive PROVE Spec => KeepsPromise
<1>1. IInv /\ Acked /\ NoneUnacked /\ [Next]_vars => (IInv /\ Acked /\ NoneUnacked)'
  BY NextIInv, NextAcked, NextUnacked, NoFalseAck DEF IInv
<1>2. Init => IInv /\ Acked /\ NoneUnacked
  BY InitIInv, InitAcked
<1>3. Spec => Promise!Init /\ [][Promise!Next]_(Promise!vars)
  BY <1>1, <1>2, InitPromise, NextPromise, PTL DEF Spec
<1> QED BY <1>3 DEF KeepsPromise, Promise!Spec

-------------------------------------------------------------------------------

\* The pollers that may still send an event, or hand its row back as 'new'.
Holders(e) == {w \in Worker : e \in events[w] \cup failedIDs[w]}

\* A row that is not claimed may be claimed once.
Open(e) == IF outbox[e] \in {"absent", "new"} THEN 1 ELSE 0

Excused == faults["timeout"] + faults["resend"] + faults["fix"]

(* Copies, copies in flight, pollers that may make one and the row that may be
   claimed: together one more than the faults that excuse a copy, at most. *)
Accounted ==
  \A e \in Event :
    /\ IsFiniteSet(Holders(e))
    /\ Cardinality(Holders(e)) + Open(e) + topic[e] + inflight[e] <= 1 + Excused

\* At the start every row may be claimed, once.
LEMMA InitAccounted == Init => Accounted
<1> SUFFICES ASSUME Init, NEW e \in Event
             PROVE /\ IsFiniteSet(Holders(e))
                   /\ Cardinality(Holders(e)) + Open(e) + topic[e] + inflight[e]
                        <= 1 + Excused
  BY DEF Accounted
<1>1. /\ Holders(e) = {} /\ Open(e) = 1 /\ topic[e] = 0 /\ inflight[e] = 0
      /\ Excused = 0
  BY DEF Init, Holders, Open, Excused, FaultKind
<1> QED BY <1>1, FS_EmptySet

(* The sum for one event, when a poller joins or leaves those who hold it and
   d is what the rest of the sum gains over its excuses.                   *)
LEMMA AccountedSum ==
  ASSUME TypeOK, TypeOK', NEW e \in Event, NEW w \in Worker,
         IsFiniteSet(Holders(e)),
         Cardinality(Holders(e)) + Open(e) + topic[e] + inflight[e] <= 1 + Excused,
         \/ /\ Holders(e)' \subseteq Holders(e)
            /\ Open(e)' + topic'[e] + inflight'[e] - Excused'
                 <= Open(e) + topic[e] + inflight[e] - Excused
         \/ /\ w \notin Holders(e)' /\ w \in Holders(e)
            /\ Holders(e)' \subseteq Holders(e)
            /\ Open(e)' + topic'[e] + inflight'[e] - Excused'
                 <= Open(e) + topic[e] + inflight[e] - Excused + 1
         \/ /\ Holders(e)' \subseteq Holders(e) \cup {w}
            /\ Open(e)' + topic'[e] + inflight'[e] - Excused' + 1
                 <= Open(e) + topic[e] + inflight[e] - Excused
  PROVE  /\ IsFiniteSet(Holders(e)')
         /\ Cardinality(Holders(e)') + Open(e)' + topic'[e] + inflight'[e]
              <= 1 + Excused'
<1> DEFINE rest == Open(e) + topic[e] + inflight[e] - Excused
<1>1. rest \in Int /\ rest' \in Int /\ Excused \in Int /\ Excused' \in Int
      /\ Open(e) + topic[e] + inflight[e] = rest + Excused
      /\ Open(e)' + topic'[e] + inflight'[e] = rest' + Excused'
      /\ Open(e) \in Nat /\ Open(e)' \in Nat
      /\ topic[e] \in Nat /\ topic'[e] \in Nat /\ inflight[e] \in Nat /\ inflight'[e] \in Nat
  BY DEF TypeOK, FaultKind, Open, Excused
<1>2. Cardinality(Holders(e)) \in Nat /\ Cardinality(Holders(e)) + rest <= 1
  <2>1. Cardinality(Holders(e)) \in Nat
    BY FS_CardinalityType
  <2> QED BY <1>1, <2>1
<1>3. CASE Holders(e)' \subseteq Holders(e) /\ rest' <= rest
  <2>1. IsFiniteSet(Holders(e)') /\ Cardinality(Holders(e)') <= Cardinality(Holders(e))
        /\ Cardinality(Holders(e)') \in Nat
    BY <1>3, FS_Subset, FS_CardinalityType
  <2> QED BY <1>1, <1>2, <1>3, <2>1
<1>4. CASE /\ w \notin Holders(e)' /\ w \in Holders(e)
           /\ Holders(e)' \subseteq Holders(e) /\ rest' <= rest + 1
  <2> DEFINE H == Holders(e) \ {w}
  <2>1. IsFiniteSet(H) /\ Cardinality(H) = Cardinality(Holders(e)) - 1
    BY <1>4, FS_RemoveElement
  <2>2. IsFiniteSet(Holders(e)') /\ Cardinality(Holders(e)') <= Cardinality(H)
        /\ Cardinality(Holders(e)') \in Nat
    BY <1>4, <2>1, FS_Subset, FS_CardinalityType
  <2> HIDE DEF H
  <2> QED BY <1>1, <1>2, <1>4, <2>1, <2>2
<1>5. CASE Holders(e)' \subseteq Holders(e) \cup {w} /\ rest' + 1 <= rest
  <2> DEFINE H == Holders(e) \cup {w}
  <2>1. IsFiniteSet(H)
        /\ Cardinality(H) = IF w \in Holders(e) THEN Cardinality(Holders(e))
                            ELSE Cardinality(Holders(e)) + 1
    BY FS_AddElement
  <2>2. IsFiniteSet(Holders(e)') /\ Cardinality(Holders(e)') <= Cardinality(H)
        /\ Cardinality(Holders(e)') \in Nat
    BY <1>5, <2>1, FS_Subset, FS_CardinalityType
  <2> HIDE DEF H
  <2> QED BY <1>1, <1>2, <1>5, <2>1, <2>2
<1> QED BY <1>3, <1>4, <1>5

(* A copy needs a claim, a claim needs a row that is 'new' again, and that is
   the doing of MarkFailed, which gives up the claim, or of check_db -fix. *)
LEMMA NextAccounted == TypeOK /\ Batch /\ Accounted /\ [Next]_vars => Accounted'
<1> SUFFICES ASSUME TypeOK, Batch, Accounted, [Next]_vars, NEW e \in Event
             PROVE /\ IsFiniteSet(Holders(e)')
                   /\ Cardinality(Holders(e)') + Open(e)' + topic'[e] + inflight'[e]
                        <= 1 + Excused'
  BY DEF Accounted
<1> DEFINE Goal == /\ IsFiniteSet(Holders(e)')
                   /\ Cardinality(Holders(e)') + Open(e)' + topic'[e] + inflight'[e]
                        <= 1 + Excused'
           Sum == Open(e) + topic[e] + inflight[e] - Excused
<1>0. /\ TypeOK' /\ IsFiniteSet(Holders(e))
      /\ Cardinality(Holders(e)) + Open(e) + topic[e] + inflight[e] <= 1 + Excused
  BY NextType DEF Accounted
<1>1. ASSUME NEW w \in Worker,
             \/ Holders(e)' \subseteq Holders(e) /\ Sum' <= Sum
             \/ /\ w \notin Holders(e)' /\ w \in Holders(e)
                /\ Holders(e)' \subseteq Holders(e) /\ Sum' <= Sum + 1
             \/ Holders(e)' \subseteq Holders(e) \cup {w} /\ Sum' + 1 <= Sum
      PROVE Goal
  BY <1>0, <1>1, AccountedSum
<1>2. /\ Open(e) \in {0, 1} /\ Open(e)' \in {0, 1} /\ Excused \in Nat
      /\ topic[e] \in Nat /\ inflight[e] \in Nat
      /\ topic'[e] \in Nat /\ inflight'[e] \in Nat /\ Excused' \in Nat
      /\ topic \in [Event -> Nat] /\ inflight \in [Event -> Nat]
      /\ events \in [Worker -> SUBSET Event] /\ failedIDs \in [Worker -> SUBSET Event]
      /\ outbox \in [Event -> Status]
  BY <1>0 DEF TypeOK, FaultKind, Open, Excused
<1>3. ASSUME NEW k \in FaultKind, Fault(k)
      PROVE /\ Excused' \in Nat /\ Excused <= Excused'
            /\ k \in {"timeout", "resend", "fix"} => Excused' = Excused + 1
  BY <1>3 DEF Fault, Excused, TypeOK, FaultKind
<1>4. UNCHANGED faults => Excused' = Excused
  BY DEF Excused
<1>5. ASSUME Holders(e)' = Holders(e), Sum' <= Sum PROVE Goal
  <2>1. CASE Worker = {}
    <3>1. Holders(e) = {} /\ Holders(e)' = {}
      BY <2>1 DEF Holders
    <3> QED BY <1>0, <1>2, <1>5, <3>1, FS_EmptySet DEF TypeOK, FaultKind, Excused
  <2>2. CASE Worker # {}
    BY <1>1, <1>5, <2>2
  <2> QED BY <2>1, <2>2
<1> HIDE DEF Goal
<1>6. ASSUME NEW d \in Event, Create(d) \/ LateAppend(d) PROVE Goal
  <2>1. Holders(e)' = Holders(e) /\ Excused' = Excused
    BY <1>4, <1>6 DEF Create, LateAppend, local, Holders
  <2>2. Open(e)' = Open(e)
    BY <1>6 DEF Create, LateAppend, Open, TypeOK
  <2>3. topic'[e] + inflight'[e] = topic[e] + inflight[e]
    BY <1>2, <1>6 DEF Create, LateAppend, kafka
  <2> QED BY <1>2, <1>5, <2>1, <2>2, <2>3
<1>7. ASSUME NEW w \in Worker, NEW C \in Claims, NEW got \in SUBSET C, Claim(w, C, got),
             Excused <= Excused'
      PROVE Goal
  <2>1. /\ C \subseteq Event /\ (e \in C => outbox[e] = "new")
        /\ topic' = topic /\ inflight' = inflight /\ failedIDs' = failedIDs
        /\ events' = [events EXCEPT ![w] = got]
        /\ outbox'[e] = IF e \in C THEN "processing" ELSE outbox[e]
    BY <1>7 DEF Claims, New, Claim, SetStatus, kafka
  <2>2. CASE e \in C
    <3>1. Holders(e)' \subseteq Holders(e) \cup {w}
      BY <1>2, <2>1 DEF Holders
    <3>2. Open(e) = 1 /\ Open(e)' = 0
      BY <2>1, <2>2 DEF Open
    <3>3. Sum' + 1 <= Sum
      BY <1>2, <1>7, <2>1, <3>2
    <3> QED BY <1>1, <3>1, <3>3
  <2>3. CASE e \notin C
    <3>1. Holders(e)' \subseteq Holders(e)
      BY <1>2, <2>1, <2>3 DEF Holders
    <3>2. Open(e)' = Open(e)
      BY <2>1, <2>3 DEF Open
    <3>3. Sum' <= Sum
      BY <1>2, <1>7, <2>1, <3>2
    <3> QED BY <1>1, <3>1, <3>3
  <2> QED BY <2>2, <2>3
<1>8. ASSUME NEW w \in Worker, NEW d \in Event, NEW r \in SendResult, Send(w, d, r)
      PROVE Goal
  <2>0. /\ d \in events[w] /\ d \notin failedIDs[w]
        /\ events' = [events EXCEPT ![w] = @ \ {d}]
        /\ topic' = [topic EXCEPT ![d] = @ + Appended(r)]
        /\ inflight' = [inflight EXCEPT ![d] = IF r = "timeout" THEN @ + 1 ELSE @]
        /\ failedIDs' = IF Reported(r) THEN [failedIDs EXCEPT ![w] = @ \cup {d}]
                        ELSE failedIDs
        /\ outbox' = outbox
    BY <1>8 DEF Send, Batch
  <2>1. /\ Excused <= Excused'
        /\ r \in {"timeout", "resend"} => Excused' = Excused + 1
    BY <1>2, <1>3, <1>4, <1>8 DEF Send, SendResult, FaultKind
  <2>2. Open(e)' = Open(e)
    BY <2>0 DEF Open
  <2>3. CASE d # e
    <3>1. Holders(e)' = Holders(e)
      BY <1>2, <2>0, <2>3 DEF Holders
    <3>2. topic'[e] = topic[e] /\ inflight'[e] = inflight[e]
      BY <1>2, <2>0, <2>3
    <3> QED BY <1>2, <1>5, <2>1, <2>2, <3>1, <3>2
  <2>4. CASE d = e /\ Reported(r)
    <3>1. Holders(e)' = Holders(e)
      BY <1>2, <2>0, <2>4 DEF Holders
    <3>2. topic'[e] = topic[e] /\ inflight'[e] <= inflight[e] + (Excused' - Excused)
      BY <1>2, <2>0, <2>1, <2>4 DEF Reported, Appended
    <3> QED BY <1>2, <1>5, <2>1, <2>2, <3>1, <3>2
  <2>5. CASE d = e /\ ~Reported(r)
    <3>1. Holders(e)' = Holders(e) \ {w} /\ w \in Holders(e)
      BY <1>2, <2>0, <2>5 DEF Holders
    <3>2. /\ inflight'[e] = inflight[e]
          /\ topic'[e] <= topic[e] + 1 + (Excused' - Excused)
      BY <1>2, <2>0, <2>1, <2>5 DEF Reported, Appended, SendResult
    <3>3. Sum' <= Sum + 1
      BY <1>2, <2>2, <3>2
    <3> QED BY <1>1, <3>1, <3>3
  <2> QED BY <2>3, <2>4, <2>5
<1>9. ASSUME NEW w \in Worker, NEW s \in {"new", "processed"}, NEW ids \in SUBSET Event,
             SetStatus(ids, s) \/ UNCHANGED outbox, s = "new" => ids = failedIDs[w],
             /\ UNCHANGED <<events, failedIDs>> /\ s = "processed"
             \/ Forget(w),
             UNCHANGED kafka, Excused <= Excused'
      PROVE Goal
  <2>1. topic' = topic /\ inflight' = inflight
    BY <1>9 DEF kafka
  <2>2. Holders(e)' \subseteq Holders(e)
    BY <1>2, <1>9 DEF Forget, Holders
  <2>3. CASE Open(e)' <= Open(e)
    <3>1. Sum' <= Sum
      BY <1>2, <1>9, <2>1, <2>3
    <3> QED BY <1>1, <2>2, <3>1
  <2>4. CASE Open(e)' > Open(e)
    <3>1. s = "new" /\ e \in failedIDs[w] /\ Forget(w)
      BY <1>2, <1>9, <2>4 DEF SetStatus, Open
    <3>2. w \in Holders(e) /\ w \notin Holders(e)'
      BY <1>2, <3>1 DEF Forget, Holders
    <3>3. Sum' <= Sum + 1
      BY <1>2, <1>9, <2>1
    <3> QED BY <1>1, <2>2, <3>2, <3>3
  <2> QED BY <1>2, <2>3, <2>4
<1>10. ASSUME NEW w \in Worker,
              MarkProcessed(w) \/ MarkProcessedError(w) \/ MarkFailed(w) \/ MarkFailedError(w)
       PROVE Goal
  <2>1. processedIDs[w] \in SUBSET Event /\ failedIDs[w] \in SUBSET Event
    BY DEF TypeOK
  <2>2. Excused <= Excused'
    BY <1>2, <1>3, <1>4, <1>10
       DEF MarkProcessed, MarkProcessedError, MarkFailed, MarkFailedError, FaultKind
  <2>3. CASE MarkProcessed(w) \/ MarkProcessedError(w)
    BY <1>9, <2>1, <2>2, <2>3 DEF MarkProcessed, MarkProcessedError
  <2>4. CASE MarkFailed(w) \/ MarkFailedError(w)
    BY <1>9, <2>1, <2>2, <2>4 DEF MarkFailed, MarkFailedError
  <2> QED BY <1>10, <2>3, <2>4
<1>11. ASSUME NEW w \in Worker, Crash(w) PROVE Goal
  <2>0. PICK handed \in SUBSET events[w] :
          inflight' = [d \in Event |-> inflight[d] + IF d \in handed THEN 1 ELSE 0]
    BY <1>11 DEF Crash
  <2>1. outbox' = outbox /\ topic' = topic /\ Forget(w) /\ Excused <= Excused'
    BY <1>2, <1>3, <1>11 DEF Crash, FaultKind
  <2>2. Holders(e)' = Holders(e) \ {w} /\ Open(e)' = Open(e)
    BY <1>2, <2>1 DEF Forget, Holders, Open
  <2>3. CASE e \notin handed
    <3>1. inflight'[e] = inflight[e]
      BY <1>2, <2>0, <2>3
    <3>2. Sum' <= Sum
      BY <1>2, <2>1, <2>2, <3>1
    <3> QED BY <1>1, <2>2, <3>2
  <2>4. CASE e \in handed
    <3>1. w \in Holders(e) /\ inflight'[e] = inflight[e] + 1
      BY <1>2, <2>0, <2>4 DEF Holders
    <3>2. Sum' <= Sum + 1
      BY <1>2, <2>1, <2>2, <3>1
    <3> QED BY <1>1, <2>2, <3>1, <3>2
  <2> QED BY <2>3, <2>4
<1>12. ASSUME Fix PROVE Goal
  <2>1. /\ Holders(e)' = Holders(e) /\ topic' = topic /\ inflight' = inflight
        /\ Excused' = Excused + 1
    BY <1>3, <1>12 DEF Fix, local, kafka, Holders, FaultKind
  <2>2. Sum' <= Sum
    BY <1>2, <2>1
  <2> QED BY <1>5, <2>1, <2>2
<1>13. ASSUME UNCHANGED vars PROVE Goal
  <2>1. /\ Holders(e)' = Holders(e) /\ topic' = topic /\ inflight' = inflight
        /\ Excused' = Excused /\ Open(e)' = Open(e)
    BY <1>4, <1>13 DEF vars, local, kafka, Holders, Open
  <2>2. Sum' <= Sum
    BY <1>2, <2>1
  <2> QED BY <1>5, <2>1, <2>2
<1>14. ASSUME NEW w \in Worker, FetchBatch(w) \/ FetchBatchCut(w) PROVE Goal
  <2>1. PICK C \in Claims : \E got \in SUBSET C :
          Claim(w, C, got) /\ (UNCHANGED faults \/ Fault("fetch"))
    BY <1>14 DEF FetchBatch, FetchBatchCut
  <2>2. Excused <= Excused'
    BY <1>2, <1>3, <1>4, <2>1 DEF FaultKind
  <2> QED BY <1>7, <2>1, <2>2
<1> QED BY <1>6, <1>8, <1>10, <1>11, <1>12, <1>13, <1>14 DEF Next, Poll, Goal

(* More copies of an event than one come from a send that timed out, a retry in
   the writer or a run of check_db -fix, one copy from each, for any number of
   pollers, rows and faults, check_db -fix under working pollers included. *)
THEOREM DuplicatesHaveReasons == Spec => []DuplicatesAreAccountedFor
<1>1. TypeOK /\ Accounted => DuplicatesAreAccountedFor
  <2> SUFFICES ASSUME TypeOK, Accounted, NEW e \in Event
               PROVE topic[e] + inflight[e] <= 1 + Excused
    BY DEF DuplicatesAreAccountedFor, Excused, TypeOK, FaultKind
  <2>1. IsFiniteSet(Holders(e))
        /\ Cardinality(Holders(e)) + Open(e) + topic[e] + inflight[e] <= 1 + Excused
    BY DEF Accounted
  <2>2. Cardinality(Holders(e)) \in Nat
    BY <2>1, FS_CardinalityType
  <2> QED BY <2>1, <2>2 DEF TypeOK, FaultKind, Open, Excused
<1>2. IInv => TypeOK /\ Batch
  BY DEF IInv
<1> QED BY <1>1, <1>2, InitIInv, InitAccounted, NextIInv, NextAccounted, PTL DEF Spec

-------------------------------------------------------------------------------

(* A poller holds a batch at most, and when it has marked the rows it sent,
   those that failed are all that is left of it.                           *)
Batched ==
  \A w \in Worker :
    /\ Cardinality(Held(w)) <= Limit
    /\ pc[w] = "markFailed" => Held(w) = failedIDs[w]

\* At the start nothing is held.
LEMMA InitBatched == Init => Batched
BY FS_EmptySet, LimitAssumption DEF Init, Batched, Held

(* The rows a poller holds come from one claim.                            *)
LEMMA NextBatched == TypeOK /\ Batch /\ Batched /\ [Next]_vars => Batched'
<1> SUFFICES ASSUME TypeOK, Batch, Batched, [Next]_vars, NEW w \in Worker
             PROVE /\ Cardinality(Held(w)') <= Limit
                   /\ pc'[w] = "markFailed" => Held(w)' = failedIDs'[w]
  BY DEF Batched
<1> DEFINE Goal == /\ Cardinality(Held(w)') <= Limit
                   /\ pc'[w] = "markFailed" => Held(w)' = failedIDs'[w]
<1>0. /\ pc \in [Worker -> {"idle", "send", "markFailed"}]
      /\ events \in [Worker -> SUBSET Event]
      /\ processedIDs \in [Worker -> SUBSET Event]
      /\ failedIDs \in [Worker -> SUBSET Event]
      /\ Cardinality(Held(w)) <= Limit
      /\ pc[w] = "markFailed" => Held(w) = failedIDs[w]
  BY DEF TypeOK, Batched
<1>1. ASSUME Held(w)' \subseteq Held(w), pc'[w] = "markFailed" => Held(w)' = failedIDs'[w]
      PROVE Goal
  <2>1. IsFiniteSet(Held(w))
    BY <1>0, EventAssumption, FS_Subset DEF Held
  <2>2. Cardinality(Held(w)') <= Cardinality(Held(w))
        /\ Cardinality(Held(w)') \in Nat /\ Cardinality(Held(w)) \in Nat
    BY <1>1, <2>1, FS_Subset, FS_CardinalityType
  <2> QED BY <1>0, <1>1, <2>2, LimitAssumption
<1> HIDE DEF Goal
<1>2. ASSUME UNCHANGED local PROVE Goal
  BY <1>0, <1>1, <1>2 DEF local, Held
<1>3. ASSUME NEW v \in Worker, NEW C \in Claims, NEW got \in SUBSET C, Claim(v, C, got)
      PROVE Goal
  <2>1. CASE v = w
    <3>1. Held(w)' = got /\ pc'[w] # "markFailed"
      BY <1>0, <1>3, <2>1 DEF Claim, Batch, Held
    <3>2. IsFiniteSet(C) /\ Cardinality(C) \in Nat /\ Cardinality(C) <= Limit
      BY EventAssumption, FS_Subset, FS_CardinalityType DEF Claims, New
    <3>3. Cardinality(got) <= Cardinality(C) /\ Cardinality(got) \in Nat
      BY <3>2, FS_Subset, FS_CardinalityType
    <3> QED BY <3>1, <3>2, <3>3, LimitAssumption DEF Goal
  <2>2. CASE v # w
    <3>1. Held(w)' = Held(w) /\ pc'[w] = pc[w] /\ failedIDs'[w] = failedIDs[w]
      BY <1>0, <1>3, <2>2 DEF Claim, Held
    <3> QED BY <1>0, <1>1, <3>1
  <2> QED BY <2>1, <2>2
<1>4. ASSUME NEW v \in Worker, NEW e \in Event, NEW r \in SendResult, Send(v, e, r)
      PROVE Goal
  <2>1. Held(w)' \subseteq Held(w)
    BY <1>0, <1>4 DEF Send, Held
  <2>2. pc'[w] = "markFailed" => Held(w)' = failedIDs'[w]
    BY <1>0, <1>4 DEF Send, Held
  <2> QED BY <1>1, <2>1, <2>2
<1>5. ASSUME NEW v \in Worker, MarkProcessed(v) PROVE Goal
  BY <1>0, <1>1, <1>5 DEF MarkProcessed, Held
<1>6. ASSUME NEW v \in Worker, Forget(v) PROVE Goal
  <2>1. Held(w)' \subseteq Held(w) /\ (pc'[w] = "markFailed" => Held(w)' = failedIDs'[w])
    BY <1>0, <1>6 DEF Forget, Held
  <2> QED BY <1>1, <2>1
<1> QED BY <1>2, <1>3, <1>4, <1>5, <1>6
        DEF Next, Poll, FetchBatch, FetchBatchCut, MarkProcessedError, MarkFailed,
            MarkFailedError, Crash, Create, LateAppend, Fix, vars, Goal

(* A row is stranded with the batch of a poller that forgets it, or with the
   part of a claim that a poller does not read; either is a fault.         *)
LEMMA NextStranded ==
  TypeOK /\ Batch /\ Batched /\ StrandedIsBounded /\ [Next]_vars => StrandedIsBounded'
<1> SUFFICES ASSUME TypeOK, Batch, Batched, StrandedIsBounded, [Next]_vars
             PROVE StrandedIsBounded'
  OBVIOUS
<1>0. /\ TypeOK' /\ Strandings \in Nat /\ Strandings' \in Nat /\ Limit \in Nat
      /\ events \in [Worker -> SUBSET Event]
      /\ processedIDs \in [Worker -> SUBSET Event]
      /\ failedIDs \in [Worker -> SUBSET Event]
      /\ outbox \in [Event -> Status]
  BY NextType, LimitAssumption DEF TypeOK, FaultKind, Strandings
<1>1. /\ IsFiniteSet(Stranded) /\ Cardinality(Stranded) \in Nat
      /\ Cardinality(Stranded) <= Limit * Strandings
  BY EventAssumption, FS_Subset, FS_CardinalityType DEF Stranded, StrandedIsBounded
<1>2. ASSUME NEW k \in FaultKind, Fault(k)
      PROVE /\ Strandings' \in {Strandings, Strandings + 1}
            /\ k \in {"fetch", "mark", "crash"} => Strandings' = Strandings + 1
  BY <1>2 DEF Fault, Strandings, TypeOK, FaultKind
<1>3. UNCHANGED faults => Strandings' = Strandings
  BY DEF Strandings
<1>4. ASSUME Stranded' \subseteq Stranded, Strandings' \in {Strandings, Strandings + 1}
      PROVE StrandedIsBounded'
  <2>1. Cardinality(Stranded') <= Cardinality(Stranded) /\ Cardinality(Stranded') \in Nat
    BY <1>1, <1>4, FS_Subset, FS_CardinalityType
  <2>2. Limit * Strandings \in Nat
    BY <1>0
  <2>3. Cardinality(Stranded') <= Limit * Strandings
    BY <1>1, <2>1, <2>2
  <2>4. CASE Strandings' = Strandings
    BY <2>3, <2>4 DEF StrandedIsBounded
  <2>5. CASE Strandings' = Strandings + 1
    <3>1. Limit * Strandings' = Limit * Strandings + Limit
      BY <1>0, <2>5
    <3>2. Cardinality(Stranded') <= Limit * Strandings + Limit
      BY <1>0, <2>1, <2>2, <2>3
    <3> QED BY <3>1, <3>2 DEF StrandedIsBounded
  <2> QED BY <1>4, <2>4, <2>5
<1>5. ASSUME NEW B \in SUBSET Event, Cardinality(B) <= Limit,
             Stranded' \subseteq Stranded \cup B, Strandings' = Strandings + 1
      PROVE StrandedIsBounded'
  <2>1. IsFiniteSet(B) /\ Cardinality(B) \in Nat /\ Cardinality(Stranded \cap B) \in Nat
    BY <1>1, EventAssumption, FS_Subset, FS_CardinalityType, FS_Intersection
  <2>2. IsFiniteSet(Stranded \cup B)
        /\ Cardinality(Stranded \cup B) =
             Cardinality(Stranded) + Cardinality(B) - Cardinality(Stranded \cap B)
    BY <1>1, <2>1, FS_Union
  <2>3. Cardinality(Stranded') <= Cardinality(Stranded \cup B)
        /\ Cardinality(Stranded') \in Nat /\ Cardinality(Stranded \cup B) \in Nat
    BY <1>5, <2>2, FS_Subset, FS_CardinalityType
  <2>4. Limit * Strandings' = Limit * Strandings + Limit
        /\ Limit * Strandings \in Nat
    BY <1>0, <1>5
  <2>5. Cardinality(Stranded') <= Limit * Strandings + Limit
    BY <1>0, <1>1, <1>5, <2>1, <2>2, <2>3, <2>4
  <2> QED BY <2>4, <2>5 DEF StrandedIsBounded
<1>6. ASSUME NEW e \in Event, Create(e) \/ LateAppend(e) PROVE StrandedIsBounded'
  <2>1. Stranded' \subseteq Stranded /\ Strandings' = Strandings
    BY <1>0, <1>3, <1>6 DEF Create, LateAppend, local, Stranded, Held
  <2> QED BY <1>0, <1>4, <2>1
<1>7. ASSUME NEW w \in Worker, FetchBatch(w) PROVE StrandedIsBounded'
  <2>1. PICK C \in Claims : Claim(w, C, C) /\ UNCHANGED faults
    BY <1>7 DEF FetchBatch
  <2>2. Stranded' \subseteq Stranded
    BY <1>0, <2>1 DEF Claim, Claims, New, SetStatus, Batch, Stranded, Held
  <2> QED BY <1>0, <1>3, <1>4, <2>1, <2>2
<1>8. ASSUME NEW w \in Worker, FetchBatchCut(w) PROVE StrandedIsBounded'
  <2>1. PICK C \in Claims : \E got \in (SUBSET C) \ {C} : Claim(w, C, got) /\ Fault("fetch")
    BY <1>8 DEF FetchBatchCut
  <2>2. C \in SUBSET Event /\ Cardinality(C) <= Limit
    BY DEF Claims, New
  <2>3. Stranded' \subseteq Stranded \cup C
    BY <1>0, <2>1 DEF Claim, SetStatus, Batch, Stranded, Held
  <2>4. Strandings' = Strandings + 1
    BY <1>2, <2>1 DEF FaultKind
  <2> QED BY <1>5, <2>2, <2>3, <2>4
<1>9. ASSUME NEW w \in Worker, NEW e \in Event, NEW r \in SendResult, Send(w, e, r)
      PROVE StrandedIsBounded'
  <2>1. Stranded' \subseteq Stranded
    <3>1. \A v \in Worker : Held(v)' = Held(v)
      BY <1>0, <1>9 DEF Send, Held
    <3> QED BY <1>9, <3>1 DEF Send, Stranded
  <2>2. Strandings' \in {Strandings, Strandings + 1}
    BY <1>0, <1>2, <1>3, <1>9 DEF Send, SendResult, FaultKind
  <2> QED BY <1>4, <2>1, <2>2
<1>10. ASSUME NEW w \in Worker, MarkProcessed(w) \/ MarkFailed(w) PROVE StrandedIsBounded'
  <2>1. \A v \in Worker : v # w => Held(v)' = Held(v)
    BY <1>0, <1>10 DEF MarkProcessed, MarkFailed, Forget, Held
  <2>2. \A e \in Held(w) : e \in Held(w)' \/ outbox'[e] # "processing"
    BY <1>0, <1>10 DEF MarkProcessed, MarkFailed, Forget, SetStatus, Batched, Held
  <2>3. \A e \in Event : outbox'[e] = "processing" => outbox[e] = "processing"
    BY <1>10 DEF MarkProcessed, MarkFailed, SetStatus
  <2>4. Stranded' \subseteq Stranded
    BY <2>1, <2>2, <2>3 DEF Stranded
  <2> QED BY <1>0, <1>3, <1>4, <1>10, <2>4 DEF MarkProcessed, MarkFailed
<1>11. ASSUME NEW w \in Worker, MarkProcessedError(w) \/ MarkFailedError(w) \/ Crash(w)
       PROVE StrandedIsBounded'
  <2>1. \A v \in Worker : v # w => Held(v)' = Held(v)
    BY <1>0, <1>11 DEF MarkProcessedError, MarkFailedError, Crash, Forget, Held
  <2>2. \A e \in Event : outbox'[e] = "processing" => outbox[e] = "processing"
    BY <1>11 DEF MarkProcessedError, MarkFailedError, Crash, SetStatus
  <2>3. Stranded' \subseteq Stranded \cup Held(w)
    BY <2>1, <2>2 DEF Stranded
  <2>4. Strandings' = Strandings + 1
    BY <1>2, <1>11 DEF MarkProcessedError, MarkFailedError, Crash, FaultKind
  <2>5. Held(w) \in SUBSET Event /\ Cardinality(Held(w)) <= Limit
    BY <1>0 DEF Held, Batched
  <2> QED BY <1>5, <2>3, <2>4, <2>5
<1>12. CASE Fix
  <2>1. Stranded' = {}
    BY <1>0, <1>12 DEF Fix, SetStatus, Stranded
  <2> QED BY <1>2, <1>4, <1>12, <2>1 DEF Fix, FaultKind
<1>13. CASE UNCHANGED vars
  <2>1. Stranded' \subseteq Stranded /\ Strandings' = Strandings
    BY <1>3, <1>13 DEF vars, local, Stranded, Held
  <2> QED BY <1>0, <1>4, <2>1
<1> QED BY <1>6, <1>7, <1>8, <1>9, <1>10, <1>11, <1>12, <1>13 DEF Next, Poll

(* A claim cut short, a failed mark or a poller's death strands one batch at
   most, and nothing else strands a row, for any number of pollers and rows
   and any batch size, check_db -fix under working pollers included.       *)
THEOREM StrandedAreFew == Spec => []StrandedIsBounded
<1>1. Init => StrandedIsBounded
  <2> SUFFICES ASSUME Init PROVE StrandedIsBounded
    OBVIOUS
  <2>1. Stranded = {} /\ Strandings = 0
    BY DEF Init, Stranded, Strandings, FaultKind
  <2> QED BY <2>1, FS_EmptySet, LimitAssumption DEF StrandedIsBounded
<1>2. IInv => TypeOK /\ Batch
  BY DEF IInv
<1> QED BY <1>1, <1>2, InitIInv, InitBatched, NextIInv, NextBatched, NextStranded,
           PTL DEF Spec

\* Every committed row is still to be claimed, in a poller's hands or published.
NoneLost ==
  \A e \in Event :
    \/ outbox[e] \in {"absent", "new"}
    \/ \E w \in Worker : e \in Held(w)
    \/ topic[e] > 0

(* Where README.md:59 is right about the code: as long as no claim was cut
   short, no mark failed, no poller died and no acknowledgement was false
   (RequiredAcks = none lets one be), every committed row is still to be
   claimed, in the hands of a poller, or in the topic.                     *)
THEOREM NothingIsLostOnTheWay ==
  Spec => [](Strandings = 0 /\ NoneUnacked => NoneLost)
<1>1. ASSUME TypeOK, StrandedIsBounded, Truthful, Strandings = 0, NoneUnacked
      PROVE  NoneLost
  <2>1. IsFiniteSet(Stranded) /\ Cardinality(Stranded) \in Nat
    BY EventAssumption, FS_Subset, FS_CardinalityType DEF Stranded
  <2>2. Cardinality(Stranded) = 0
    BY <1>1, <2>1, LimitAssumption DEF StrandedIsBounded
  <2>3. Stranded = {}
    BY <2>1, <2>2, FS_EmptySet
  <2>4. \A e \in Event : outbox[e] = "processing" => \E w \in Worker : e \in Held(w)
    BY <2>3 DEF Stranded
  <2> QED BY <1>1, <2>4 DEF TypeOK, Status, Truthful, Acked, NoneLost
<1>2. Init => Truthful
  BY InitAcked DEF Truthful
<1>3. Spec => []Truthful
  BY <1>2, InitType, NextType, NextTruthful, PTL DEF Spec
<1> QED BY <1>1, <1>3, TypeCorrect, StrandedAreFew, PTL
===============================================================================
