--------------------------- MODULE OrderCacheProofs ---------------------------
(***************************************************************************)
(* How old an answer of GET /orders/{id} may be, for any number of readers *)
(* and versions of the row, any life of an entry and any delay of a        *)
(* reader.  The inductive invariant:                                       *)
(*   TypeOK                                                                *)
(*   Past      the history is not ahead of the clock                       *)
(*   HeldRow   a reader on its way to Set has held its row for at most     *)
(*             Slow, and the row was current when it was queried           *)
(*   EntryEnds an entry with a version that was replaced ends within       *)
(*             TTL + Slow of that moment                                   *)
(***************************************************************************)
EXTENDS OrderCache, TLAPS

Past ==
  /\ \A v \in 1..Current : changed[v] <= now
  /\ cache.ends <= now + TTL
  /\ \A r \in Reader : shown[r].at <= now

HeldRow ==
  \A r \in Reader : pc[r] = "set" =>
    /\ row[r] > 0
    /\ queried[r] <= now /\ now <= queried[r] + Slow
    /\ row[r] < Current => queried[r] <= changed[row[r] + 1]

EntryEnds ==
  LET v == cache.version IN
    /\ now < cache.ends => v > 0
    /\ 0 < v /\ v < Current => cache.ends <= changed[v + 1] + Slow + TTL

IInv == TypeOK /\ Past /\ HeldRow /\ EntryEnds /\ FreshWithin

(* No entry, no answer and no version: all of it holds at the start.       *)
LEMMA InitInv == Init => IInv
BY TTLAssumption, SlowAssumption
   DEF Init, IInv, TypeOK, Past, HeldRow, EntryEnds, FreshWithin, Current

(* A new version is the latest in the history, so that it replaces whatever a
   reader or the cache holds not before it was read.                       *)
LEMMA UpdateInv == IInv /\ Update => IInv'
<1> SUFFICES ASSUME IInv, Update PROVE IInv'
  OBVIOUS
<1> USE TTLAssumption, SlowAssumption
<1>1. /\ changed \in Seq(Nat) /\ now \in Nat
      /\ changed' = Append(changed, now)
      /\ UNCHANGED <<now, cache, pc, row, queried, shown>>
  BY DEF Update, IInv, TypeOK
<1>2. /\ changed' \in Seq(Nat) /\ Current \in Nat /\ Current' = Current + 1
      /\ changed'[Current + 1] = now
      /\ \A v \in 1..Current : changed'[v] = changed[v] /\ changed[v] \in Nat
  BY <1>1 DEF Current
<1>0. \A v \in 0..Current :
        v < Current => changed'[v + 1] = changed[v + 1] /\ changed[v + 1] \in Nat
  <2> SUFFICES ASSUME NEW v \in 0..Current, v < Current
               PROVE changed'[v + 1] = changed[v + 1] /\ changed[v + 1] \in Nat
    OBVIOUS
  <2>1. v + 1 \in 1..Current
    BY <1>2
  <2> QED BY <1>2, <2>1
<1>3. TypeOK'
  BY <1>1, <1>2 DEF IInv, TypeOK
<1>4. Past'
  <2>1. \A v \in 1..Current : changed[v] <= now
    BY DEF IInv, Past
  <2>2. ASSUME NEW v \in 1..Current' PROVE changed'[v] <= now
    <3>1. CASE v = Current + 1
      <4>1. changed'[v] = now /\ now \in Nat
        BY <1>1, <1>2, <3>1
      <4> QED BY <4>1
    <3>2. CASE v # Current + 1
      <4>1. v \in 1..Current
        BY <1>2, <3>2
      <4> QED BY <1>2, <2>1, <4>1
    <3> QED BY <3>1, <3>2
  <2> QED BY <1>1, <2>2 DEF IInv, Past
<1>5. HeldRow'
  <2> SUFFICES ASSUME NEW r \in Reader, pc[r] = "set"
               PROVE /\ row[r] > 0
                     /\ queried[r] <= now /\ now <= queried[r] + Slow
                     /\ row[r] < Current' => queried[r] <= changed'[row[r] + 1]
    BY <1>1 DEF HeldRow
  <2>1. row[r] \in 0..Current /\ queried[r] \in Nat
    BY DEF IInv, TypeOK
  <2>2. /\ row[r] > 0 /\ queried[r] <= now /\ now <= queried[r] + Slow
        /\ row[r] < Current => queried[r] <= changed[row[r] + 1]
    BY DEF IInv, HeldRow
  <2>3. CASE row[r] < Current
    BY <2>1, <2>2, <2>3, <1>0, <1>2
  <2>4. CASE row[r] = Current
    BY <2>1, <2>2, <2>4, <1>0, <1>1, <1>2
  <2> QED BY <2>1, <2>2, <2>3, <2>4, <1>2
<1>6. EntryEnds'
  <2>1. cache.version \in 0..Current /\ cache.ends \in Nat /\ cache.ends <= now + TTL
    BY DEF IInv, TypeOK, Past
  <2>2. /\ now < cache.ends => cache.version > 0
        /\ 0 < cache.version /\ cache.version < Current
             => cache.ends <= changed[cache.version + 1] + Slow + TTL
    BY DEF IInv, EntryEnds
  <2>3. CASE cache.version < Current
    BY <2>1, <2>2, <2>3, <1>0, <1>1, <1>2 DEF EntryEnds
  <2>4. CASE cache.version = Current
    <3>1. changed'[cache.version + 1] = now
      BY <2>4, <1>2
    <3>2. /\ cache.ends <= now + Slow + TTL
          /\ now < cache.ends => cache.version > 0
      BY <2>1, <2>2, <1>1
    <3> QED BY <3>1, <3>2, <1>1 DEF EntryEnds
  <2>5. cache.version < Current \/ cache.version = Current
    BY <1>2, <2>1
  <2> QED BY <2>3, <2>4, <2>5
<1>7. FreshWithin'
  <2> SUFFICES ASSUME NEW r \in Reader,
                      0 < shown[r].version, shown[r].version < Current'
               PROVE shown[r].at < changed'[shown[r].version + 1] + TTL + Slow
    BY <1>1 DEF FreshWithin
  <2>1. shown[r].version \in 0..Current /\ shown[r].at \in Nat
    BY DEF IInv, TypeOK
  <2>2. shown[r].version < Current
          => shown[r].at < changed[shown[r].version + 1] + TTL + Slow
    BY DEF IInv, FreshWithin
  <2>3. shown[r].at <= now
    BY DEF IInv, Past
  <2>4. CASE shown[r].version < Current
    BY <2>1, <2>2, <2>4, <1>0, <1>2
  <2>5. CASE shown[r].version = Current
    BY <2>1, <2>3, <2>5, <1>1, <1>2
  <2> QED BY <2>1, <2>4, <2>5, <1>2
<1> QED BY <1>3, <1>4, <1>5, <1>6, <1>7 DEF IInv

(* Time passes: entries end, and no reader is held up beyond Slow.         *)
LEMMA TickInv == IInv /\ Tick => IInv'
<1> SUFFICES ASSUME IInv, Tick PROVE IInv'
  OBVIOUS
<1> USE TTLAssumption, SlowAssumption
<1>1. /\ now \in Nat /\ now' = now + 1 /\ Current' = Current
      /\ changed \in Seq(Nat) /\ Current = Len(changed)
      /\ cache.ends \in Nat /\ cache.version \in 0..Current
      /\ \A r \in Reader : queried[r] \in Nat /\ shown[r].at \in Nat
      /\ UNCHANGED <<changed, cache, pc, row, queried, shown>>
  BY DEF Tick, IInv, TypeOK, Current
<1>2. TypeOK'
  BY <1>1 DEF IInv, TypeOK
<1>3. Past'
  <2>1. \A v \in 1..Current : changed[v] \in Nat
    BY <1>1
  <2> QED BY <1>1, <2>1 DEF IInv, Past
<1>4. HeldRow'
  <2>1. \A r \in Reader : pc[r] = "set" => now < queried[r] + Slow
    BY DEF Tick
  <2> QED BY <1>1, <2>1 DEF IInv, HeldRow
<1>5. EntryEnds'
  BY <1>1 DEF IInv, EntryEnds
<1>6. FreshWithin'
  BY <1>1 DEF IInv, FreshWithin
<1> QED BY <1>2, <1>3, <1>4, <1>5, <1>6 DEF IInv

(* What a reader may answer with now: something that is current, or was less
   than TTL + Slow ago.                                                    *)
LEMMA AnswerInv ==
  ASSUME IInv, NEW r \in Reader, NEW v \in 1..Current, Answer(r, v),
         UNCHANGED <<now, changed>>,
         v < Current => now < changed[v + 1] + TTL + Slow
  PROVE  /\ shown' \in [Reader -> [version : 0..Current, at : Nat]]
         /\ \A q \in Reader : shown'[q].at <= now
         /\ FreshWithin'
<1>1. /\ shown \in [Reader -> [version : 0..Current, at : Nat]]
      /\ now \in Nat /\ Current' = Current
      /\ \A q \in Reader : shown[q].at <= now
  BY DEF IInv, TypeOK, Past, Current
<1>2. shown' = [shown EXCEPT ![r] = [version |-> v, at |-> now]]
  BY DEF Answer
<1>3. Current \in Nat /\ v \in 0..Current
  BY DEF IInv, TypeOK, Current
<1>4. shown' \in [Reader -> [version : 0..Current, at : Nat]]
  BY <1>1, <1>2, <1>3
<1>5. \A q \in Reader : shown'[q].at <= now
  BY <1>1, <1>2
<1>6. FreshWithin'
  BY <1>1, <1>2 DEF IInv, FreshWithin
<1> QED BY <1>4, <1>5, <1>6

(* An answer from the cache comes before the entry's end.                  *)
LEMMA GetHitInv == ASSUME IInv, NEW r \in Reader, GetHit(r) PROVE IInv'
<1> USE TTLAssumption, SlowAssumption
<1>1. /\ now < cache.ends /\ Answer(r, cache.version)
      /\ UNCHANGED <<now, changed, cache, pc, row, queried>>
  BY DEF GetHit, Cached
<1>2. /\ cache.version \in 0..Current /\ cache.ends \in Nat
      /\ now \in Nat /\ Current' = Current
      /\ changed \in Seq(Nat) /\ Current = Len(changed)
  BY <1>1 DEF IInv, TypeOK, Current
<1>3. cache.version \in 1..Current
  BY <1>1, <1>2 DEF IInv, EntryEnds
<1>4. cache.version < Current => now < changed[cache.version + 1] + TTL + Slow
  <2> SUFFICES ASSUME cache.version < Current
               PROVE now < changed[cache.version + 1] + TTL + Slow
    OBVIOUS
  <2>1. cache.ends <= changed[cache.version + 1] + Slow + TTL
    BY <1>3 DEF IInv, EntryEnds
  <2>2. changed[cache.version + 1] \in Nat
    BY <1>2
  <2> QED BY <1>1, <1>2, <2>1, <2>2
<1>5. /\ shown' \in [Reader -> [version : 0..Current, at : Nat]]
      /\ \A q \in Reader : shown'[q].at <= now
      /\ FreshWithin'
  BY <1>1, <1>3, <1>4, AnswerInv
<1>6. TypeOK'
  BY <1>1, <1>2, <1>5 DEF IInv, TypeOK
<1>7. Past' /\ HeldRow' /\ EntryEnds'
  BY <1>1, <1>2, <1>5 DEF IInv, Past, HeldRow, EntryEnds
<1> QED BY <1>5, <1>6, <1>7 DEF IInv

(* A query sees the current version.                                       *)
LEMMA GetByIDInv == ASSUME IInv, NEW r \in Reader, GetByID(r) PROVE IInv'
<1> USE TTLAssumption, SlowAssumption
<1>1. /\ pc' = [pc EXCEPT ![r] = "set"] /\ row' = [row EXCEPT ![r] = Current]
      /\ queried' = [queried EXCEPT ![r] = now]
      /\ Current > 0
      /\ UNCHANGED <<now, changed, cache, shown>>
  BY DEF GetByID, Goto
<1>2. /\ now \in Nat /\ Current' = Current /\ Current \in Nat
      /\ pc \in [Reader -> {"get", "query", "set"}]
      /\ row \in [Reader -> 0..Current] /\ queried \in [Reader -> Nat]
  BY <1>1 DEF IInv, TypeOK, Current
<1>3. TypeOK'
  BY <1>1, <1>2 DEF IInv, TypeOK
<1>4. HeldRow'
  BY <1>1, <1>2 DEF IInv, HeldRow
<1>5. Past' /\ EntryEnds' /\ FreshWithin'
  BY <1>1, <1>2 DEF IInv, Past, EntryEnds, FreshWithin
<1> QED BY <1>3, <1>4, <1>5 DEF IInv

(* A reader that answers has its row for no longer than Slow, and so has the
   entry that it may leave behind.                                         *)
LEMMA ReplyInv ==
  ASSUME IInv, NEW r \in Reader, Set(r) \/ SetError(r) PROVE IInv'
<1> USE TTLAssumption, SlowAssumption
<1>1. /\ pc[r] = "set" /\ Answer(r, row[r])
      /\ row' = [row EXCEPT ![r] = 0] /\ queried' = [queried EXCEPT ![r] = 0]
      /\ pc' = [pc EXCEPT ![r] = "get"]
      /\ UNCHANGED <<now, changed>>
      /\ cache' = cache \/ cache' = [version |-> row[r], ends |-> now + TTL]
  BY DEF Set, SetError, Reply, Goto
<1>2. /\ now \in Nat /\ Current' = Current /\ Current \in Nat
      /\ changed \in Seq(Nat) /\ Current = Len(changed)
      /\ pc \in [Reader -> {"get", "query", "set"}]
      /\ row \in [Reader -> 0..Current] /\ queried \in [Reader -> Nat]
      /\ cache \in [version : 0..Current, ends : Nat]
  BY <1>1 DEF IInv, TypeOK, Current
<1>3. /\ row[r] \in 1..Current
      /\ queried[r] \in Nat /\ now <= queried[r] + Slow
      /\ row[r] < Current => queried[r] <= changed[row[r] + 1]
  BY <1>1, <1>2 DEF IInv, HeldRow
<1>4. row[r] < Current =>
        changed[row[r] + 1] \in Nat /\ now <= changed[row[r] + 1] + Slow
  BY <1>2, <1>3
<1>5. /\ shown' \in [Reader -> [version : 0..Current, at : Nat]]
      /\ \A q \in Reader : shown'[q].at <= now
      /\ FreshWithin'
  <2>1. row[r] < Current => now < changed[row[r] + 1] + TTL + Slow
    BY <1>2, <1>4
  <2> QED BY <1>1, <1>3, <2>1, AnswerInv
<1>6. /\ cache' \in [version : 0..Current, ends : Nat]
      /\ cache'.ends <= now + TTL
      /\ now < cache'.ends => cache'.version > 0
      /\ 0 < cache'.version /\ cache'.version < Current
           => cache'.ends <= changed[cache'.version + 1] + Slow + TTL
  <2>1. CASE cache' = cache
    BY <1>2, <2>1 DEF IInv, Past, EntryEnds
  <2>2. CASE cache' = [version |-> row[r], ends |-> now + TTL]
    <3>1. /\ cache' \in [version : 0..Current, ends : Nat]
          /\ cache'.version = row[r] /\ cache'.ends = now + TTL
      BY <1>2, <1>3, <2>2
    <3> QED BY <1>2, <1>3, <1>4, <3>1
  <2> QED BY <1>1, <2>1, <2>2
<1>7. TypeOK'
  BY <1>1, <1>2, <1>5, <1>6 DEF IInv, TypeOK
<1>8. HeldRow'
  BY <1>1, <1>2 DEF IInv, HeldRow
<1>9. Past' /\ EntryEnds'
  BY <1>1, <1>2, <1>5, <1>6 DEF IInv, Past, EntryEnds
<1> QED BY <1>5, <1>7, <1>8, <1>9 DEF IInv

(* Every step of a reader, of the clock and of the saga keeps the invariant. *)
LEMMA NextInv == IInv /\ [Next]_vars => IInv'
<1> SUFFICES ASSUME IInv, [Next]_vars PROVE IInv'
  OBVIOUS
<1>1. CASE Update
  BY <1>1, UpdateInv
<1>2. CASE Tick
  BY <1>2, TickInv
<1>3. ASSUME NEW r \in Reader, GetHit(r) PROVE IInv'
  BY <1>3, GetHitInv
<1>4. ASSUME NEW r \in Reader, GetMiss(r) \/ GetByIDError(r) PROVE IInv'
  <2>1. /\ UNCHANGED <<now, changed, cache, row, queried, shown>>
        /\ \/ pc' = [pc EXCEPT ![r] = "query"]
           \/ pc' = [pc EXCEPT ![r] = "get"]
        /\ Current' = Current
    BY <1>4 DEF GetMiss, GetByIDError, Goto, Current
  <2>2. pc \in [Reader -> {"get", "query", "set"}]
    BY DEF IInv, TypeOK
  <2>3. pc' \in [Reader -> {"get", "query", "set"}]
        /\ \A q \in Reader : pc'[q] = "set" => pc[q] = "set"
    BY <2>1, <2>2
  <2> QED BY <2>1, <2>3 DEF IInv, TypeOK, Past, HeldRow, EntryEnds, FreshWithin
<1>5. ASSUME NEW r \in Reader, GetByID(r) PROVE IInv'
  BY <1>5, GetByIDInv
<1>6. ASSUME NEW r \in Reader, Set(r) \/ SetError(r) PROVE IInv'
  BY <1>6, ReplyInv
<1>7. CASE UNCHANGED vars
  BY <1>7 DEF vars, IInv, TypeOK, Past, HeldRow, EntryEnds, FreshWithin, Current
<1> QED BY <1>1, <1>2, <1>3, <1>4, <1>5, <1>6, <1>7 DEF Next, Read

(* The entry, the clock and the readers' variables of GetOrderUseCase.Execute
   stay well typed; in particular no reader holds a version there is not.  *)
THEOREM TypeCorrect == Spec => []TypeOK
<1>1. IInv => TypeOK
  BY DEF IInv
<1> QED BY <1>1, InitInv, NextInv, PTL DEF Spec

(* An answer of GET /orders/{id} is the current status or one that was
   replaced less than TTL + Slow before, for any number of readers that write
   old rows back over newer ones.                                          *)
THEOREM AnswersAreFresh == Spec => []FreshWithin
<1>1. IInv => FreshWithin
  BY DEF IInv
<1> QED BY <1>1, InitInv, NextInv, PTL DEF Spec
===============================================================================
