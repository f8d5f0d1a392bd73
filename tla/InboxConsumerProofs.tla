-------------------------- MODULE InboxConsumerProofs --------------------------
(***************************************************************************)
(* What InboxConsumer promises for any number of instances and events, any *)
(* retry limit and any budget of faults.  The inductive invariant:         *)
(*   TypeOK                                                                *)
(*   Working    an instance has a message exactly while it works on one    *)
(*   Exclusive  the event of an open transaction is in no inbox row and in *)
(*              no other open transaction                                  *)
(*   EffectOnce                                                            *)
(*   Sequential every message below the one an instance works on, below    *)
(*              its reader's position and below the group's offset is      *)
(*              settled                                                    *)
(*   Earned     the failures behind the drops and behind the messages in   *)
(*              hand are no more than the faults that account for them     *)
(*   ToldToStop only a SIGTERM stops an instance, and only an instance     *)
(*              that stops gives messages up for it                        *)
(***************************************************************************)
EXTENDS InboxConsumer, FiniteSetTheorems, TLAPS

USE DEF lost

Working ==
  \A m \in Member :
    /\ pc[m] = "fetch" <=> msg[m] = 0
    /\ pc[m] \in {"tx", "retry"} => Ev(m) \in Handled

\* An instance starts without a message (the loop before its first fetch).
LEMMA InitType == Init => TypeOK /\ Working
BY MaxRetriesAssumption DEF Init, TypeOK, Working, FaultKind

\* Counting a fault keeps the counters' type.
LEMMA FaultType ==
  ASSUME TypeOK, NEW k \in FaultKind, Fault(k) PROVE faults' \in [FaultKind -> Nat]
BY DEF TypeOK, Fault

(* A reader starts behind the offset, or at the end of the partition, with all
   there is before it given up.                                            *)
LEMMA StartFacts ==
  ASSUME TypeOK, NEW m \in Member, Assign(m)
  PROVE  /\ \E n \in Nat :
              /\ next' = [next EXCEPT ![m] = n] /\ next'[m] = n
              /\ \/ n = committed + 1 /\ late' = late
                 \/ n = Len(log) + 1 /\ late' = Len(log) /\ committed = 0
         /\ late' \in 0..Len(log) /\ late' >= late
         /\ UNCHANGED <<log, committed, msg, pc, attempt, stopping, inbox, effects>>
         /\ UNCHANGED <<dropped, cancelled>>
<1>1. PICK start \in StartOffset : StartAt(m, start)
  BY DEF Assign
<1>2. Len(log) \in Nat /\ committed \in Nat /\ late \in 0..Len(log)
  BY DEF TypeOK
<1>3. CASE StartsLate(start)
  BY <1>1, <1>2, <1>3 DEF StartAt, StartsLate, Assign, tables, TypeOK
<1>4. CASE ~StartsLate(start)
  BY <1>1, <1>2, <1>4 DEF StartAt, Assign, tables, TypeOK
<1> QED BY <1>3, <1>4

(* Each step of the loop keeps the types, and an instance has a message from
   its fetch to the end of the round.                                      *)
LEMMA NextType == TypeOK /\ Working /\ [Next]_vars => TypeOK' /\ Working'
<1> SUFFICES ASSUME TypeOK, Working, [Next]_vars PROVE TypeOK' /\ Working'
  OBVIOUS
<1> USE MaxRetriesAssumption DEF TypeOK, Working, broker, tables, Ev
<1>1. ASSUME NEW e \in Event, Append1(e) PROVE TypeOK' /\ Working'
  <2>1. /\ log' \in Seq(Event) /\ Len(log') = Len(log) + 1
        /\ \A i \in 1..Len(log) : log'[i] = log[i]
    BY <1>1 DEF Append1
  <2>2. \A m \in Member : msg[m] \in 0..Len(log') /\ (msg[m] # 0 => log'[msg[m]] = log[msg[m]])
    BY <2>1
  <2>3. {dropped, cancelled} \subseteq SUBSET (1..Len(log')) /\ late \in 0..Len(log')
    BY <2>1
  <2> QED BY <1>1, <2>1, <2>2, <2>3 DEF Append1
<1>2. ASSUME NEW m \in Member, Assign(m) PROVE TypeOK' /\ Working'
  <2>1. faults' \in [FaultKind -> Nat]
    BY <1>2, FaultType DEF Assign, FaultKind
  <2>2. PICK n \in Nat : next' = [next EXCEPT ![m] = n]
    BY <1>2, StartFacts
  <2> QED BY <1>2, <2>1, <2>2, StartFacts DEF Assign
<1>3. ASSUME NEW m \in Member, Revoke(m) PROVE TypeOK' /\ Working'
  BY <1>3 DEF Revoke
<1>4. ASSUME NEW m \in Member, FetchMessage(m) PROVE TypeOK' /\ Working'
  <2>1. TypeOK'
    BY <1>4 DEF FetchMessage, Goto
  <2>2. Working'
    BY <1>4 DEF FetchMessage, Goto
  <2> QED BY <2>1, <2>2
<1>13. ASSUME NEW m \in Member, Skip(m) \/ SaveNew(m) \/ SaveDuplicate(m)
       PROVE TypeOK' /\ Working'
  <2>1. pc[m] = "begin" /\ pc' \in {[pc EXCEPT ![m] = "offset"], [pc EXCEPT ![m] = "tx"]}
    BY <1>13 DEF Skip, SaveNew, SaveDuplicate, Goto
  <2>2. pc'[m] = "tx" => Ev(m) \in Handled
    BY <1>13, <2>1 DEF Skip, SaveNew, SaveDuplicate, Goto
  <2>3. UNCHANGED <<log, committed, owner, next, msg, attempt, stopping, inbox, effects,
                    dropped, cancelled, late, faults>>
    BY <1>13 DEF Skip, SaveNew, SaveDuplicate
  <2> QED BY <2>1, <2>2, <2>3
<1>14. ASSUME NEW m \in Member, Retry(m) PROVE TypeOK' /\ Working'
  BY <1>14 DEF Retry, Goto
<1>5. ASSUME NEW m \in Member, ProcessError(m) PROVE TypeOK' /\ Working'
  <2>1. faults' \in [FaultKind -> Nat]
    BY <1>5, FaultType DEF ProcessError, FaultKind
  <2> QED BY <1>5, <2>1 DEF ProcessError, Goto
<1>6. ASSUME NEW m \in Member, ProcessOK(m) \/ ProcessAmbiguous(m)
      PROVE TypeOK' /\ Working'
  <2>1. faults' \in [FaultKind -> Nat]
    BY <1>6, FaultType DEF ProcessOK, ProcessAmbiguous, FaultKind
  <2>2. Ev(m) \in Event
    <3>1. msg[m] \in 1..Len(log)
      BY <1>6 DEF ProcessOK, ProcessAmbiguous
    <3> QED BY <3>1
  <2>3. inbox' \in SUBSET Event /\ effects' \in [Event -> Nat]
    <3>1. inbox' = inbox \cup {Ev(m)} /\ effects' = [effects EXCEPT ![Ev(m)] = @ + 1]
      BY <1>6 DEF ProcessOK, ProcessAmbiguous, CommitTx
    <3> HIDE DEF Ev
    <3> QED BY <2>2, <3>1
  <2> QED BY <1>6, <2>1, <2>3 DEF ProcessOK, ProcessAmbiguous, Goto
<1>7. ASSUME NEW m \in Member, Drop(m) PROVE TypeOK' /\ Working'
  <2>1. msg[m] \in 1..Len(log)
    BY <1>7 DEF Drop
  <2>2. {dropped', cancelled'} \subseteq SUBSET (1..Len(log))
    BY <1>7, <2>1 DEF Drop, GiveUp
  <2> QED BY <1>7, <2>2 DEF Drop, Goto
<1>8. ASSUME NEW m \in Member, CommitMessages(m) PROVE TypeOK' /\ Working'
  BY <1>8 DEF CommitMessages, Done, Goto
<1>9. ASSUME NEW m \in Member, CommitMessagesError(m) PROVE TypeOK' /\ Working'
  <2>1. faults' \in [FaultKind -> Nat]
    BY <1>9, FaultType DEF CommitMessagesError, FaultKind
  <2> QED BY <1>9, <2>1 DEF CommitMessagesError, Done, Goto
<1>10. ASSUME NEW m \in Member, Terminate(m) PROVE TypeOK' /\ Working'
  <2>1. faults' \in [FaultKind -> Nat]
    BY <1>10, FaultType DEF Terminate, FaultKind
  <2> QED BY <1>10, <2>1 DEF Terminate
<1>11. ASSUME NEW m \in Member, Exit(m) \/ Crash(m) PROVE TypeOK' /\ Working'
  <2>1. faults' \in [FaultKind -> Nat]
    BY <1>11, FaultType DEF Exit, Crash, FaultKind
  <2>2. Restart(m)
    BY <1>11 DEF Exit, Crash
  <2>3. TypeOK'
    BY <2>1, <2>2 DEF Restart, Done, Goto
  <2>4. Working'
    BY <2>2 DEF Restart, Done, Goto
  <2> QED BY <2>3, <2>4
<1>12. CASE UNCHANGED vars
  BY <1>12 DEF vars
<1> QED
  BY <1>1, <1>2, <1>3, <1>4, <1>5, <1>6, <1>7, <1>8, <1>9, <1>10, <1>11, <1>12, <1>13, <1>14
  DEF Next, Step, Process

(* The variables keep their types: no instance records or commits a position
   outside the partition.                                                  *)
THEOREM TypeCorrect == Spec => []TypeOK
BY InitType, NextType, PTL DEF Spec

-------------------------------------------------------------------------------

(* The event of an open transaction is not in the inbox yet, and no second
   transaction is open for it.                                             *)
Exclusive ==
  \A m \in Member :
    pc[m] = "tx" =>
      /\ Ev(m) \notin inbox
      /\ \A o \in Member \ {m} : pc[o] = "tx" => Ev(o) # Ev(m)

Once == Exclusive /\ EffectOnce

\* No transaction is open and no effect committed at the start.
LEMMA InitOnce == Init => Once
BY DEF Init, Once, Exclusive, EffectOnce

\* Instance m has an open transaction.
Open(m) == pc[m] = "tx"

(* A step that opens no transaction and writes no table preserves Once.    *)
LEMMA OnceStays ==
  ASSUME Once, UNCHANGED <<inbox, effects>>,
         \A m \in Member : Open(m)' => Open(m) /\ Ev(m)' = Ev(m)
  PROVE  Once'
BY DEF Once, Exclusive, EffectOnce, Open

(* Each step keeps the inbox row and the effect of an event together, the
   unique key making a second transaction for it wait (SaveIfNotExists).   *)
LEMMA NextOnce == TypeOK /\ Working /\ Once /\ [Next]_vars => Once'
<1> SUFFICES ASSUME TypeOK, Working, Once, [Next]_vars PROVE Once'
  OBVIOUS
<1>1. ASSUME NEW e \in Event, Append1(e) PROVE Once'
  <2>1. \A m \in Member : msg[m] \in 0..Len(log) /\ (pc[m] = "tx" => msg[m] # 0)
    BY DEF TypeOK, Working
  <2>2. \A i \in 1..Len(log) : log'[i] = log[i]
    BY <1>1 DEF Append1, TypeOK
  <2>3. \A m \in Member : Open(m)' => Open(m) /\ Ev(m)' = Ev(m)
    BY <1>1, <2>1, <2>2 DEF Append1, Open, Ev
  <2> QED BY <1>1, <2>3, OnceStays DEF Append1, tables
<1>2. ASSUME NEW m \in Member,
             Assign(m) \/ Revoke(m) \/ FetchMessage(m) \/ Terminate(m)
      PROVE Once'
  <2>1. UNCHANGED <<log, inbox, effects>>
    BY <1>2 DEF Assign, Revoke, FetchMessage, Terminate, broker, tables
  <2>2. \A o \in Member : Open(o)' => Open(o) /\ Ev(o)' = Ev(o)
    BY <1>2 DEF Assign, Revoke, FetchMessage, Terminate, broker, Goto, Open, Ev, TypeOK
  <2> QED BY <2>1, <2>2, OnceStays
<1>3. ASSUME NEW m \in Member,
             Skip(m) \/ SaveDuplicate(m) \/ ProcessError(m) \/ Retry(m) \/ Drop(m)
      PROVE Once'
  <2>1. UNCHANGED <<log, msg, inbox, effects>>
    BY <1>3 DEF Skip, SaveDuplicate, ProcessError, Retry, Drop, broker, tables
  <2>2. \A o \in Member : Open(o)' => Open(o) /\ Ev(o)' = Ev(o)
    BY <1>3, <2>1 DEF Skip, SaveDuplicate, ProcessError, Retry, Drop, Goto, Open, Ev, TypeOK
  <2> QED BY <2>1, <2>2, OnceStays
<1>4. ASSUME NEW m \in Member, SaveNew(m) PROVE Once'
  <2>1. UNCHANGED <<log, msg, inbox, effects>> /\ pc' = [pc EXCEPT ![m] = "tx"]
    BY <1>4 DEF SaveNew, broker, tables, Goto
  <2>2. \A o \in Member : Ev(o)' = Ev(o)
    BY <2>1 DEF Ev
  <2>3. Ev(m) \notin inbox /\ \A o \in Member \ {m} : pc[o] = "tx" => Ev(o) # Ev(m)
    BY <1>4 DEF SaveNew, InsertBlocked
  <2> QED BY <2>1, <2>2, <2>3 DEF Once, Exclusive, EffectOnce, TypeOK
<1>5. ASSUME NEW m \in Member, ProcessOK(m) \/ ProcessAmbiguous(m) PROVE Once'
  <2>1. /\ pc[m] = "tx" /\ UNCHANGED <<log, msg>>
        /\ inbox' = inbox \cup {Ev(m)} /\ effects' = [effects EXCEPT ![Ev(m)] = @ + 1]
        /\ pc' \in {[pc EXCEPT ![m] = "offset"], [pc EXCEPT ![m] = "retry"]}
    BY <1>5 DEF ProcessOK, ProcessAmbiguous, CommitTx, broker, Goto
  <2>2. \A o \in Member : Ev(o)' = Ev(o)
    BY <2>1 DEF Ev
  <2>3. Ev(m) \notin inbox /\ \A o \in Member \ {m} : pc[o] = "tx" => Ev(o) # Ev(m)
    BY <2>1 DEF Once, Exclusive
  <2>4. Exclusive'
    BY <2>1, <2>2, <2>3 DEF Once, Exclusive, TypeOK
  <2>5. EffectOnce'
    BY <2>1, <2>3 DEF Once, EffectOnce, TypeOK
  <2> QED BY <2>4, <2>5 DEF Once
<1>6. ASSUME NEW m \in Member,
             CommitMessages(m) \/ CommitMessagesError(m) \/ Exit(m) \/ Crash(m)
      PROVE Once'
  <2>1. UNCHANGED <<log, inbox, effects>> /\ Done(m)
    BY <1>6 DEF CommitMessages, CommitMessagesError, Exit, Crash, Restart, broker, tables
  <2>2. \A o \in Member : Open(o)' => Open(o) /\ Ev(o)' = Ev(o)
    BY <2>1 DEF Done, Goto, Open, Ev, TypeOK
  <2> QED BY <2>1, <2>2, OnceStays
<1>7. CASE UNCHANGED vars
  BY <1>7 DEF vars, broker, tables, Once, Exclusive, EffectOnce, Ev
<1> QED
  BY <1>1, <1>2, <1>3, <1>4, <1>5, <1>6, <1>7 DEF Next, Step, Process

(* The effect of an event is committed exactly once, whatever number of copies
   and instances, and whatever fails: the unique inbox row and the one
   transaction are what it takes.                                          *)
THEOREM EffectsHappenOnce == Spec => []EffectOnce
<1>1. Once => EffectOnce
  BY DEF Once
<1>2. TypeOK /\ Working /\ Once /\ [Next]_vars => (TypeOK /\ Working /\ Once)'
  BY NextType, NextOnce
<1> QED BY <1>1, <1>2, InitType, InitOnce, PTL DEF Spec

-------------------------------------------------------------------------------

(* The part of the partition an instance has behind it is settled, and so is
   the part below the group's offset.                                      *)
Behind(m) ==
  /\ next[m] <= Len(log) + 1
  /\ \A i \in 1..(msg[m] - 1) : Settled(i)
  /\ \A i \in 1..(next[m] - 1) : Settled(i) \/ i = msg[m]
  /\ pc[m] = "offset" => Settled(msg[m])

Sequential ==
  /\ committed <= Len(log)
  /\ \A i \in 1..committed : Settled(i)
  /\ \A m \in Member : Behind(m)

\* At the start there is nothing behind anybody.
LEMMA InitSequential == Init => Sequential
BY DEF Init, Sequential, Behind

\* The log only grows, and what is settled stays settled.
Grows ==
  /\ Len(log') >= Len(log) /\ \A i \in 1..Len(log) : log'[i] = log[i]
  /\ inbox \subseteq inbox'
  /\ dropped \subseteq dropped' /\ cancelled \subseteq cancelled'
  /\ late' \in Nat /\ late <= late'

\* No step takes a message, an inbox row or the mark of a drop away.
LEMMA NextGrows == TypeOK /\ [Next]_vars => Grows
<1> SUFFICES ASSUME TypeOK, [Next]_vars PROVE Grows
  OBVIOUS
<1>1. ASSUME NEW e \in Event, Append1(e) PROVE Grows
  BY <1>1 DEF Append1, Grows, TypeOK, tables
<1>2. CASE /\ UNCHANGED log /\ inbox \subseteq inbox'
           /\ dropped \subseteq dropped' /\ cancelled \subseteq cancelled'
           /\ late' \in Nat /\ late <= late'
  BY <1>2 DEF Grows, TypeOK
<1>3. ASSUME NEW m \in Member, Step(m) PROVE Grows
  <2>1. CASE Assign(m)
    BY <1>2, <2>1, StartFacts
  <2>2. CASE ~Assign(m)
    <3>1. /\ UNCHANGED log /\ inbox \subseteq inbox'
          /\ dropped \subseteq dropped' /\ cancelled \subseteq cancelled'
          /\ late' = late
      BY <1>3, <2>2 DEF Step, Process, Revoke, FetchMessage, Skip, SaveNew, SaveDuplicate,
         ProcessError, ProcessOK, ProcessAmbiguous, CommitTx, Retry, Drop, GiveUp, CommitMessages,
         CommitMessagesError, Terminate, Exit, Crash, Restart, broker, tables
    <3> QED BY <1>2, <3>1 DEF TypeOK
  <2> QED BY <2>1, <2>2
<1>4. CASE UNCHANGED vars
  BY <1>2, <1>4 DEF vars, broker, tables, TypeOK
<1> QED BY <1>1, <1>2, <1>3, <1>4 DEF Next

\* A settled message of the partition stays settled.
LEMMA SettledStays ==
  ASSUME TypeOK, Grows, NEW i \in 1..Len(log), Settled(i) PROVE Settled(i)'
<1>1. log'[i] = log[i] /\ inbox \subseteq inbox'
  BY DEF Grows
<1>2. i \in GivenUp => i \in GivenUp'
  BY DEF Grows, GivenUp, TypeOK
<1> QED BY <1>1, <1>2 DEF Settled

(* An instance keeps what it has behind it as long as it takes no new message,
   gets no new position, and settles the message it is done with.          *)
LEMMA BehindStays ==
  ASSUME TypeOK, Working, Grows, NEW m \in Member, Behind(m),
         next'[m] = next[m], msg'[m] = msg[m],
         pc'[m] = "offset" => pc[m] = "offset" \/ Settled(msg[m])'
  PROVE  Behind(m)'
<1>1. next[m] \in Nat /\ msg[m] \in 0..Len(log) /\ (pc[m] = "offset" => msg[m] # 0)
  BY DEF TypeOK, Working
<1>2. Len(log) \in Nat /\ Len(log') >= Len(log) /\ next[m] <= Len(log) + 1
  BY DEF TypeOK, Grows, Behind
<1>3. \A i \in 1..(msg[m] - 1) : Settled(i)'
  BY <1>1, <1>2, SettledStays DEF Behind
<1>4. \A i \in 1..(next[m] - 1) : Settled(i)' \/ i = msg[m]
  BY <1>1, <1>2, SettledStays DEF Behind
<1>5. pc'[m] = "offset" => Settled(msg[m])'
  BY <1>1, <1>2, SettledStays DEF Behind
<1>6. next'[m] <= Len(log') + 1
  BY <1>1, <1>2, Len(log') \in Nat DEF Grows
<1> QED BY <1>3, <1>4, <1>5, <1>6 DEF Behind

\* Committed offsets are positions with everything below them settled.
CommittedSettled == committed <= Len(log) /\ \A i \in 1..committed : Settled(i)

(* Each step keeps settled what lies behind instances, readers and offset:
   FetchMessage follows a finished round, CommitMessages a settled message. *)
LEMMA NextSequential ==
  TypeOK /\ Working /\ Sequential /\ [Next]_vars => Sequential'
<1> SUFFICES ASSUME TypeOK, Working, Sequential, [Next]_vars PROVE Sequential'
  OBVIOUS
<1>1. TypeOK' /\ Working' /\ Grows
  BY NextType, NextGrows
<1>2. /\ committed \in Nat /\ committed <= Len(log) /\ Len(log) \in Nat
      /\ Len(log') \in Nat /\ Len(log') >= Len(log)
      /\ \A m \in Member : Behind(m) /\ next[m] \in Nat /\ msg[m] \in 0..Len(log)
  BY <1>1 DEF TypeOK, Sequential, Grows
<1>3. \A i \in 1..Len(log) : Settled(i) => Settled(i)'
  BY <1>1, SettledStays
<1>4. (committed' = committed) => CommittedSettled'
  BY <1>2, <1>3 DEF Sequential, CommittedSettled
<1>5. CommittedSettled' /\ (\A m \in Member : Behind(m)') => Sequential'
  BY DEF Sequential, CommittedSettled
\* An instance whose reader and message stay as they are.
<1>6. ASSUME NEW m \in Member, next'[m] = next[m], msg'[m] = msg[m],
             pc'[m] = "offset" => pc[m] = "offset" \/ Settled(msg[m])'
      PROVE Behind(m)'
  BY <1>1, <1>2, <1>6, BehindStays
<1>7. ASSUME NEW e \in Event, Append1(e) PROVE Sequential'
  <2>1. \A m \in Member : Behind(m)'
    BY <1>6, <1>7 DEF Append1
  <2> QED BY <1>4, <1>5, <1>7, <2>1 DEF Append1
<1>8. ASSUME NEW m \in Member, Assign(m) PROVE Sequential'
  <2>0. PICK n \in Nat :
          /\ next' = [next EXCEPT ![m] = n]
          /\ n = committed + 1 \/ (n = Len(log) + 1 /\ late' = Len(log))
    BY <1>8, StartFacts
  <2>1. UNCHANGED <<log, committed, msg, pc>> /\ next' = [next EXCEPT ![m] = n]
    BY <1>8, <2>0, StartFacts
  <2>2. \A o \in Member \ {m} : Behind(o)'
    BY <1>6, <2>1 DEF TypeOK
  <2>3. CommittedSettled'
    BY <1>4, <2>1
  <2>4. next'[m] = n /\ msg'[m] = msg[m] /\ pc'[m] = pc[m]
    BY <2>1 DEF TypeOK
  <2>5. \A i \in 1..(msg[m] - 1) : Settled(i)'
    BY <1>2, <1>3 DEF Behind
  <2>6. pc[m] = "offset" => Settled(msg[m])'
    <3> SUFFICES ASSUME pc[m] = "offset" PROVE Settled(msg[m])'
      OBVIOUS
    <3>1. msg[m] \in 1..Len(log)
      BY <1>2 DEF Working
    <3>2. Settled(msg[m])
      BY <1>2 DEF Behind
    <3>3. msg'[m] = msg[m]
      BY <2>4
    <3> QED BY <1>3, <3>1, <3>2, <3>3 DEF Settled
  <2>7. \A i \in 1..n - 1 : Settled(i)'
    <3>1. CASE n = committed + 1
      BY <1>2, <2>1, <2>3, <3>1 DEF CommittedSettled
    <3>2. CASE n = Len(log) + 1 /\ late' = Len(log)
      BY <1>2, <2>1, <3>2 DEF Settled, GivenUp
    <3> QED BY <2>0, <3>1, <3>2
  <2>8. Behind(m)'
    BY <1>2, <2>0, <2>1, <2>4, <2>5, <2>6, <2>7 DEF Behind
  <2> QED BY <1>5, <2>2, <2>3, <2>8
<1>9. ASSUME NEW m \in Member, Revoke(m) PROVE Sequential'
  <2>1. /\ next' = [next EXCEPT ![m] = 0]
        /\ UNCHANGED <<log, committed, msg, pc, inbox, lost>>
    BY <1>9 DEF Revoke, broker, tables
  <2>2. \A o \in Member \ {m} : Behind(o)'
    BY <1>6, <2>1 DEF TypeOK
  <2>3. Behind(m)'
    BY <1>2, <2>1 DEF TypeOK, Behind, Settled, GivenUp
  <2> QED BY <1>4, <1>5, <2>1, <2>2, <2>3
<1>10. ASSUME NEW m \in Member, FetchMessage(m) PROVE Sequential'
  <2>1. /\ next[m] \in 1..Len(log) /\ pc[m] = "fetch"
        /\ msg' = [msg EXCEPT ![m] = next[m]] /\ next' = [next EXCEPT ![m] = @ + 1]
        /\ pc' = [pc EXCEPT ![m] = "begin"]
        /\ UNCHANGED <<log, committed, inbox, dropped>>
    BY <1>10 DEF FetchMessage, Goto, broker, tables
  <2>2. msg[m] = 0
    BY <2>1 DEF Working
  <2>3. \A i \in 1..(next[m] - 1) : Settled(i)'
    BY <1>2, <1>3, <2>1, <2>2 DEF Behind
  <2>4. msg'[m] = next[m] /\ next'[m] = next[m] + 1 /\ pc'[m] = "begin"
    BY <2>1 DEF TypeOK
  <2>5. Behind(m)'
    BY <1>2, <2>1, <2>3, <2>4 DEF Behind
  <2>6. \A o \in Member \ {m} : Behind(o)'
    BY <1>6, <2>1 DEF TypeOK
  <2> QED BY <1>4, <1>5, <2>1, <2>5, <2>6
\* The steps inside one attempt: they may settle the message at hand.
<1>11. ASSUME NEW m \in Member, Process(m) \/ Terminate(m) PROVE Sequential'
  <2>1. /\ UNCHANGED <<log, committed, next, msg>>
        /\ \A o \in Member \ {m} : pc'[o] = pc[o]
    BY <1>11 DEF Process, Terminate, Skip, SaveNew, SaveDuplicate, ProcessError, ProcessOK,
       ProcessAmbiguous, Retry, Drop, Goto, broker, TypeOK
  <2>2. pc'[m] = "offset" => pc[m] = "offset" \/ Settled(msg[m])'
    <3>1. CASE Skip(m) \/ SaveDuplicate(m)
      BY <3>1 DEF Skip, SaveDuplicate, Settled, Ev, broker, tables
    <3>2. CASE ProcessOK(m)
      BY <3>2 DEF ProcessOK, CommitTx, Settled, Ev, broker
    <3>3. CASE Drop(m)
      BY <3>3 DEF Drop, GiveUp, Settled, GivenUp, broker, tables
    <3>4. CASE SaveNew(m) \/ ProcessError(m) \/ ProcessAmbiguous(m) \/ Retry(m) \/ Terminate(m)
      BY <3>4 DEF SaveNew, ProcessError, ProcessAmbiguous, Retry, Terminate, Goto, TypeOK
    <3> QED BY <1>11, <3>1, <3>2, <3>3, <3>4 DEF Process
  <2>3. \A o \in Member : Behind(o)'
    BY <1>6, <2>1, <2>2
  <2> QED BY <1>4, <1>5, <2>1, <2>3
<1>12. ASSUME NEW m \in Member, CommitMessages(m) \/ CommitMessagesError(m)
       PROVE Sequential'
  <2>1. /\ pc[m] = "offset" /\ Done(m) /\ UNCHANGED <<log, next, inbox, dropped>>
        /\ committed' \in {committed, msg[m]}
    BY <1>12 DEF CommitMessages, CommitMessagesError, broker, tables
  <2>2. msg[m] \in 1..Len(log) /\ Settled(msg[m]) /\ \A i \in 1..(msg[m] - 1) : Settled(i)
    BY <1>2, <2>1 DEF Behind, Working
  <2>3. \A i \in 1..msg[m] : Settled(i)'
    BY <1>2, <1>3, <2>2
  <2>4. CommittedSettled'
    BY <1>2, <1>4, <2>1, <2>2, <2>3 DEF CommittedSettled
  <2>5. msg'[m] = 0 /\ pc'[m] = "fetch"
    BY <2>1 DEF Done, Goto, TypeOK
  <2>6. \A i \in 1..(next[m] - 1) : Settled(i)'
    BY <1>2, <1>3, <2>2 DEF Behind
  <2>7. Behind(m)'
    BY <1>2, <2>1, <2>5, <2>6 DEF Behind
  <2>8. \A o \in Member \ {m} : Behind(o)'
    BY <1>6, <2>1 DEF Done, Goto, TypeOK
  <2> QED BY <1>5, <2>4, <2>7, <2>8
<1>13. ASSUME NEW m \in Member, Exit(m) \/ Crash(m) PROVE Sequential'
  <2>1. Done(m) /\ next' = [next EXCEPT ![m] = 0] /\ UNCHANGED <<log, committed>>
    BY <1>13 DEF Exit, Crash, Restart
  <2>2. msg'[m] = 0 /\ next'[m] = 0 /\ pc'[m] = "fetch"
    BY <2>1 DEF Done, Goto, TypeOK
  <2>3. Behind(m)'
    BY <1>2, <2>2 DEF Behind
  <2>4. \A o \in Member \ {m} : Behind(o)'
    BY <1>6, <2>1 DEF Done, Goto, TypeOK
  <2> QED BY <1>4, <1>5, <2>1, <2>3, <2>4
<1>14. CASE UNCHANGED vars
  <2>1. UNCHANGED <<log, committed, next, msg, pc>>
    BY <1>14 DEF vars, broker
  <2>2. \A m \in Member : Behind(m)'
    BY <1>6, <2>1
  <2> QED BY <1>4, <1>5, <2>1, <2>2
<1> QED
  BY <1>7, <1>8, <1>9, <1>10, <1>11, <1>12, <1>13, <1>14 DEF Next, Step

(* The group's offset passes no message that is neither processed nor given
   up, whatever instances commit in what order.                            *)
THEOREM NothingIsSkipped == Spec => []NothingSkipped
<1>1. Sequential => NothingSkipped
  BY DEF Sequential, NothingSkipped
<1>2. TypeOK /\ Working /\ Sequential /\ [Next]_vars => (TypeOK /\ Working /\ Sequential)'
  BY NextType, NextSequential
<1> QED BY <1>1, <1>2, InitType, InitSequential, PTL DEF Spec

(* The reader of the owner has a position, given by the assignment.        *)
Positioned == owner # None => owner \in Member /\ next[owner] >= 1

\* Nobody owns the partition at the start.
LEMMA InitPositioned == Init => Positioned
BY DEF Init, Positioned

\* A reader loses its position only with the partition.
LEMMA NextPositioned == TypeOK /\ Positioned /\ [Next]_vars => Positioned'
<1> SUFFICES ASSUME TypeOK, Positioned, [Next]_vars PROVE Positioned'
  OBVIOUS
<1>1. ASSUME NEW m \in Member, Assign(m) PROVE Positioned'
  <2>1. PICK n \in Nat : next'[m] = n /\ (n = committed + 1 \/ n = Len(log) + 1)
    BY <1>1, StartFacts
  <2>2. owner' = m /\ committed \in Nat /\ Len(log) \in Nat
    BY <1>1 DEF Assign, TypeOK
  <2> QED BY <2>1, <2>2 DEF Positioned
<1>2. ASSUME NEW m \in Member, Revoke(m) PROVE Positioned'
  BY <1>2 DEF Revoke, broker, Positioned, TypeOK
<1>3. ASSUME NEW m \in Member, FetchMessage(m) PROVE Positioned'
  BY <1>3 DEF FetchMessage, broker, Positioned, TypeOK
<1>4. ASSUME NEW m \in Member, Exit(m) \/ Crash(m) PROVE Positioned'
  BY <1>4 DEF Exit, Crash, Restart, Positioned, TypeOK
<1>5. CASE UNCHANGED <<owner, next>>
  BY <1>5 DEF Positioned
<1>6. ASSUME NEW m \in Member,
             \/ Process(m) \/ CommitMessages(m) \/ CommitMessagesError(m) \/ Terminate(m)
      PROVE UNCHANGED <<owner, next>>
  BY <1>6 DEF Process, Skip, SaveNew, SaveDuplicate, ProcessError, ProcessOK,
     ProcessAmbiguous, Retry, Drop, CommitMessages, CommitMessagesError, Terminate, broker
<1>7. ASSUME NEW e \in Event, Append1(e) PROVE UNCHANGED <<owner, next>>
  BY <1>7 DEF Append1
<1>8. CASE UNCHANGED vars
  BY <1>5, <1>8 DEF vars, broker
<1> QED BY <1>1, <1>2, <1>3, <1>4, <1>5, <1>6, <1>7, <1>8 DEF Next, Step

(* What the partition's owner has neither in its hands nor before it has been
   processed or given up, for any number of instances that come and go.    *)
THEOREM NothingIsPassedOver == Spec => []NothingPassedOver
<1>1. ASSUME TypeOK, Sequential, Positioned PROVE NothingPassedOver
  <2> SUFFICES ASSUME owner # None, NEW i \in 1..Len(log)
               PROVE  Settled(i) \/ i = msg[owner] \/ next[owner] \in 1..i
    BY DEF NothingPassedOver
  <2>1. next[owner] \in Nat /\ next[owner] >= 1 /\ i \in Nat
    BY <1>1 DEF Positioned, TypeOK
  <2>2. \A j \in 1..(next[owner] - 1) : Settled(j) \/ j = msg[owner]
    BY <1>1 DEF Sequential, Behind, Positioned
  <2> QED BY <2>1, <2>2
<1>2. TypeOK /\ Working /\ Sequential /\ [Next]_vars => (TypeOK /\ Working /\ Sequential)'
  BY NextType, NextSequential
<1> QED
  BY <1>1, <1>2, InitType, InitSequential, InitPositioned, NextPositioned, PTL DEF Spec

(* Every offset that is committed is the position of a message: from the first
   one on, KAFKA_START_OFFSET is not looked at any more.                   *)
THEOREM FirstCommitEndsLateStarts == Spec => LateStartsEnd
<1> DEFINE Ok == committed > 0 => committed' > 0 /\ late' = late
<1>1. ASSUME TypeOK, Working, [Next]_vars PROVE [Ok]_vars
  <2> SUFFICES ASSUME committed > 0, Next PROVE committed' > 0 /\ late' = late
    BY <1>1
  <2>1. ASSUME NEW m \in Member, Assign(m) PROVE committed' > 0 /\ late' = late
    BY <1>1, <2>1, StartFacts
  <2>2. ASSUME NEW m \in Member, CommitMessages(m) PROVE committed' > 0 /\ late' = late
    <3>1. committed' = msg[m] /\ msg[m] \in 1..Len(log)
      BY <1>1, <2>2 DEF CommitMessages, TypeOK, Working
    <3> QED BY <2>2, <3>1 DEF CommitMessages
  <2>3. ASSUME NEW m \in Member,
               \/ Revoke(m) \/ FetchMessage(m) \/ Process(m) \/ CommitMessagesError(m)
               \/ Terminate(m) \/ Exit(m) \/ Crash(m)
        PROVE  UNCHANGED <<committed, late>>
    BY <2>3 DEF Revoke, FetchMessage, Process, Skip, SaveNew, SaveDuplicate, ProcessError,
       ProcessOK, ProcessAmbiguous, Retry, Drop, CommitMessagesError, Terminate, Exit,
       Crash, Restart, broker
  <2>4. ASSUME NEW e \in Event, Append1(e) PROVE UNCHANGED <<committed, late>>
    BY <2>4 DEF Append1
  <2> QED BY <2>1, <2>2, <2>3, <2>4 DEF Next, Step
<1>2. Spec => [][Ok]_vars
  BY <1>1, InitType, NextType, PTL DEF Spec
<1> QED BY <1>2 DEF LateStartsEnd

-------------------------------------------------------------------------------

(* The steps of the promise.  Everything an instance does besides committing a
   transaction and giving a message up is a stutter.                       *)
LEMMA StepsKeepPromise ==
  TypeOK /\ Working /\ Once /\ Sequential /\ [Next]_vars
    => [Promise!Next]_(Promise!vars)
<1> SUFFICES ASSUME TypeOK, Working, Once, Sequential, [Next]_vars
             PROVE  [Promise!Next]_(Promise!vars)
  OBVIOUS
<1>1. ASSUME NEW e \in Event, Append1(e) PROVE Promise!Next
  BY <1>1 DEF Append1, tables, GivenUp, Promise!Next, Promise!Deliver
\* What the invariant says of the message an instance works on.
<1>2. ASSUME NEW m \in Member, pc[m] # "fetch"
      PROVE  /\ msg[m] \in 1..Len(log) /\ Promise!InOrder(msg[m])
             /\ \A i \in 1..msg[m]-1 : Promise!Settled(i)
  <2>1. msg[m] \in 1..Len(log) /\ Behind(m)
    BY <1>2 DEF TypeOK, Working, Sequential
  <2> QED BY <2>1 DEF Behind, Settled, Promise!InOrder, Promise!Settled
<1>3. ASSUME NEW m \in Member, ProcessOK(m) \/ ProcessAmbiguous(m) PROVE Promise!Next
  <2>1. /\ pc[m] = "tx" /\ UNCHANGED <<log, lost>>
        /\ inbox' = inbox \cup {Ev(m)} /\ effects' = [effects EXCEPT ![Ev(m)] = @ + 1]
    BY <1>3 DEF ProcessOK, ProcessAmbiguous, CommitTx, broker
  <2>2. Ev(m) \in Handled \ inbox
    BY <2>1 DEF Working, Once, Exclusive
  <2>3. Promise!Process(msg[m])
    BY <1>2, <2>1, <2>2 DEF Promise!Process, Ev, GivenUp
  <2> QED BY <1>2, <2>1, <2>3 DEF Promise!Next
<1>4. ASSUME NEW m \in Member, Drop(m) PROVE Promise!Next
  <2>1. /\ pc[m] = "retry" /\ GiveUp(m)
        /\ UNCHANGED <<log, inbox, effects, late>>
    BY <1>4 DEF Drop, broker, tables
  <2>2. GivenUp' = GivenUp \cup {msg[m]}
    BY <2>1 DEF GivenUp, GiveUp
  <2>3. Promise!GiveUp({msg[m]})
    BY <1>2, <2>1, <2>2 DEF Promise!GiveUp
  <2> QED BY <1>2, <2>1, <2>3 DEF Promise!Next
<1>7. ASSUME NEW m \in Member, Assign(m) PROVE [Promise!Next]_(Promise!vars)
  <2>1. /\ UNCHANGED <<log, inbox, effects, dropped, cancelled>>
        /\ late' = late \/ late' = Len(log)
    BY <1>7, StartFacts
  <2>2. CASE late' = late
    BY <2>1, <2>2 DEF Promise!vars, GivenUp
  <2>3. CASE late' = Len(log)
    <3>1. GivenUp' = GivenUp \cup (1..Len(log))
      BY <2>1, <2>3 DEF GivenUp, TypeOK
    <3>2. \A i \in 1..Len(log) : 1..i-1 \subseteq 1..Len(log)
      BY DEF TypeOK
    <3>3. Promise!GiveUp(1..Len(log))
      BY <2>1, <3>1, <3>2 DEF Promise!GiveUp
    <3> QED BY <3>3 DEF Promise!Next
  <2> QED BY <2>1, <2>2, <2>3
<1>5. ASSUME NEW m \in Member,
             \/ Revoke(m) \/ FetchMessage(m) \/ Skip(m) \/ SaveNew(m)
             \/ SaveDuplicate(m) \/ ProcessError(m) \/ Retry(m) \/ CommitMessages(m)
             \/ CommitMessagesError(m) \/ Terminate(m) \/ Exit(m) \/ Crash(m)
      PROVE  UNCHANGED Promise!vars
  BY <1>5 DEF Revoke, FetchMessage, Skip, SaveNew, SaveDuplicate, ProcessError, Retry, GivenUp,
     CommitMessages, CommitMessagesError, Terminate, Exit, Crash, Restart, broker, tables,
     Promise!vars
<1>6. CASE UNCHANGED vars
  BY <1>6 DEF vars, broker, tables, GivenUp, Promise!vars
<1> QED BY <1>1, <1>3, <1>4, <1>5, <1>6, <1>7 DEF Next, Step, Process

(* The group implements GroupPromise: any number of instances, in any
   interleaving and with every fault, act as one service that goes through
   the partition in order.                                                 *)
THEOREM GroupKeepsPromise == Spec => KeepsPromise
<1>1. Init => Promise!Init
  BY DEF Init, Promise!Init, GivenUp
<1>2. /\ TypeOK /\ Working /\ Once /\ Sequential /\ [Next]_vars
      => (TypeOK /\ Working /\ Once /\ Sequential)'
  BY NextType, NextOnce, NextSequential
<1> QED
  BY <1>1, <1>2, InitType, InitOnce, InitSequential, StepsKeepPromise, PTL
  DEF Spec, KeepsPromise, Promise!Spec

-------------------------------------------------------------------------------

(* The failures that the message in m's hands has behind it.  An instance that
   was told to stop has none to show for what it gives up.                 *)
Cost(m) ==
  IF pc[m] \in {"fetch", "offset"} \/ m \in stopping THEN 0
  ELSE IF pc[m] = "retry" THEN attempt[m] + 1 ELSE attempt[m]

\* One ticket for each of them.
Tickets == {t \in Member \X (1..(MaxRetries + 1)) : t[2] <= Cost(t[1])}

\* All tickets that m may ever hold at a time.
Row(m) == {m} \X (1..(MaxRetries + 1))

Paid == faults["db"] + faults["ambiguous"]

Earned == Cardinality(dropped) * (MaxRetries + 1) + Cardinality(Tickets) <= Paid

(* A row of tickets is as long as the retry loop.                          *)
LEMMA RowSize ==
  ASSUME NEW m \in Member
  PROVE  IsFiniteSet(Row(m)) /\ Cardinality(Row(m)) = MaxRetries + 1
<1>1. IsFiniteSet({m}) /\ Cardinality({m}) = 1
  BY FS_Singleton
<1>2. IsFiniteSet(1..(MaxRetries + 1)) /\ Cardinality(1..(MaxRetries + 1)) = MaxRetries + 1
  BY FS_Interval, MaxRetriesAssumption
<1>3. /\ IsFiniteSet({m} \X (1..(MaxRetries + 1)))
      /\ Cardinality({m} \X (1..(MaxRetries + 1)))
           = Cardinality({m}) * Cardinality(1..(MaxRetries + 1))
  BY <1>1, <1>2, FS_Product
<1> QED BY <1>1, <1>2, <1>3, MaxRetriesAssumption DEF Row

(* There are finitely many tickets, and finitely many dropped messages.    *)
LEMMA TicketsFinite ==
  ASSUME TypeOK
  PROVE  /\ IsFiniteSet(Tickets) /\ Cardinality(Tickets) \in Nat
         /\ IsFiniteSet(dropped) /\ Cardinality(dropped) \in Nat
<1>1. IsFiniteSet(1..(MaxRetries + 1)) /\ IsFiniteSet(1..Len(log))
  BY FS_Interval, MaxRetriesAssumption DEF TypeOK
<1>2. IsFiniteSet(Member \X (1..(MaxRetries + 1)))
  BY <1>1, MemberAssumption, FS_Product
<1>3. IsFiniteSet(Tickets) /\ IsFiniteSet(dropped)
  BY <1>1, <1>2, FS_Subset DEF Tickets, TypeOK
<1> QED BY <1>3, FS_CardinalityType

(* The ways in which tickets are taken and paid for.                       *)
LEMMA EarnedSum ==
  ASSUME TypeOK, TypeOK', Earned, NEW m \in Member, NEW t, NEW i,
         Paid \in Nat, Paid' \in Nat,
         \/ Tickets' \subseteq Tickets /\ dropped' = dropped /\ Paid <= Paid'
         \/ Tickets' \subseteq Tickets \cup {t} /\ dropped' = dropped /\ Paid' = Paid + 1
         \/ /\ Row(m) \subseteq Tickets /\ Tickets' \subseteq Tickets \ Row(m)
            /\ dropped' = dropped \cup {i} /\ Paid' = Paid
  PROVE  Earned'
<1> DEFINE n == MaxRetries + 1
           D == Cardinality(dropped) * n
<1>0. /\ IsFiniteSet(Tickets) /\ Cardinality(Tickets) \in Nat
      /\ IsFiniteSet(dropped) /\ Cardinality(dropped) \in Nat
      /\ IsFiniteSet(Row(m)) /\ Cardinality(Row(m)) = n
  BY TicketsFinite, RowSize
<1>1. n \in Nat /\ D \in Nat
  BY <1>0, MaxRetriesAssumption
<1>2. D + Cardinality(Tickets) <= Paid
  BY DEF Earned
<1>3. \A S : IsFiniteSet(S) /\ Tickets' \subseteq S =>
               /\ Cardinality(Tickets') <= Cardinality(S)
               /\ Cardinality(Tickets') \in Nat /\ Cardinality(S) \in Nat
  BY FS_Subset, FS_CardinalityType
<1>4. (dropped' = dropped => D' = D) /\ (Earned' <=> D' + Cardinality(Tickets') <= Paid')
  BY DEF Earned
<1> HIDE DEF n, D
<1>5. CASE Tickets' \subseteq Tickets /\ dropped' = dropped /\ Paid <= Paid'
  BY <1>0, <1>1, <1>2, <1>3, <1>4, <1>5
<1>6. CASE Tickets' \subseteq Tickets \cup {t} /\ dropped' = dropped /\ Paid' = Paid + 1
  <2>1. /\ IsFiniteSet(Tickets \cup {t})
        /\ Cardinality(Tickets \cup {t}) = IF t \in Tickets THEN Cardinality(Tickets)
                                           ELSE Cardinality(Tickets) + 1
    BY <1>0, FS_AddElement
  <2>2. Cardinality(Tickets') <= Cardinality(Tickets) + 1 /\ Cardinality(Tickets') \in Nat
    BY <1>0, <1>3, <1>6, <2>1
  <2> QED BY <1>0, <1>1, <1>2, <1>4, <1>6, <2>2
<1>8. CASE /\ Row(m) \subseteq Tickets /\ Tickets' \subseteq Tickets \ Row(m)
           /\ dropped' = dropped \cup {i} /\ Paid' = Paid
  <2>1. Tickets \cap Row(m) = Row(m)
    BY <1>8
  <2>2. /\ IsFiniteSet(Tickets \ Row(m))
        /\ Cardinality(Tickets \ Row(m)) = Cardinality(Tickets) - n
    BY <1>0, <2>1, FS_Difference
  <2>3. Cardinality(Tickets') <= Cardinality(Tickets) - n /\ Cardinality(Tickets') \in Nat
    BY <1>3, <1>8, <2>2
  <2>4. Cardinality(dropped') \in {Cardinality(dropped), Cardinality(dropped) + 1}
    BY <1>0, <1>8, FS_AddElement
  <2>5. D' = D \/ D' = D + n
    <3>1. Cardinality(dropped') = Cardinality(dropped) => D' = D
      BY DEF D, n
    <3>2. (Cardinality(dropped) + 1) * n = Cardinality(dropped) * n + n
      BY <1>0, <1>1
    <3>3. Cardinality(dropped') = Cardinality(dropped) + 1 => D' = D + n
      BY <3>2 DEF D, n
    <3> QED BY <2>4, <3>1, <3>3
  <2> QED BY <1>0, <1>1, <1>2, <1>4, <1>8, <2>3, <2>5
<1> QED BY <1>5, <1>6, <1>8

\* Nobody has failed and nothing is dropped at the start.
LEMMA InitEarned == Init => Earned
<1> SUFFICES ASSUME Init PROVE Earned
  OBVIOUS
<1>1. /\ \A m \in Member : Cost(m) = 0
      /\ dropped = {}
      /\ faults["db"] = 0 /\ faults["ambiguous"] = 0
  BY DEF Init, Cost, FaultKind
<1>2. Tickets = {}
  BY <1>1 DEF Tickets
<1>3. Paid = 0
  BY <1>1 DEF Paid
<1>4. Cardinality(dropped) * (MaxRetries + 1) = 0 /\ Cardinality(Tickets) = 0
  BY <1>1, <1>2, FS_EmptySet, MaxRetriesAssumption
<1> QED BY <1>3, <1>4 DEF Earned

(* What each kind of fault pays.                                           *)
LEMMA PaidBy ==
  ASSUME TypeOK, TypeOK'
  PROVE  /\ Paid \in Nat /\ Paid' \in Nat
         /\ UNCHANGED faults => Paid' = Paid
         /\ \A k \in FaultKind : Fault(k) => Paid <= Paid'
         /\ Fault("db") \/ Fault("ambiguous") => Paid' = Paid + 1
<1>1. /\ faults \in [FaultKind -> Nat] /\ faults' \in [FaultKind -> Nat]
      /\ {"db", "ambiguous"} \subseteq FaultKind
  BY DEF TypeOK, FaultKind
<1>2. ASSUME NEW k \in FaultKind, Fault(k)
      PROVE  Paid <= Paid' /\ (k \in {"db", "ambiguous"} => Paid' = Paid + 1)
  <2>1. \A j \in FaultKind : faults'[j] = IF j = k THEN faults[j] + 1 ELSE faults[j]
    BY <1>1, <1>2 DEF Fault
  <2> QED BY <1>1, <2>1 DEF Paid
<1>3. Paid \in Nat /\ Paid' \in Nat /\ (UNCHANGED faults => Paid' = Paid)
  BY <1>1 DEF Paid
<1> QED BY <1>1, <1>2, <1>3

(* Each attempt that fails has a failure of the database behind it, and an
   instance that goes on drops a message with all its attempts.            *)
LEMMA NextEarned == TypeOK /\ TypeOK' /\ Earned /\ [Next]_vars => Earned'
<1> SUFFICES ASSUME TypeOK, TypeOK', Earned, [Next]_vars PROVE Earned'
  OBVIOUS
<1>0. /\ pc \in [Member -> {"fetch", "begin", "tx", "retry", "offset"}]
      /\ attempt \in [Member -> 0..MaxRetries] /\ MaxRetries \in Nat
      /\ pc' \in [Member -> {"fetch", "begin", "tx", "retry", "offset"}]
      /\ attempt' \in [Member -> 0..MaxRetries]
  BY MaxRetriesAssumption DEF TypeOK
<1>1. \A m \in Member : Cost(m) \in Nat /\ Cost(m)' \in Nat
  BY <1>0 DEF Cost
<1>2. ASSUME NEW m \in Member, dropped' = dropped, Cost(m)' <= Cost(m),
             \A o \in Member \ {m} : Cost(o)' = Cost(o),
             UNCHANGED faults \/ \E k \in FaultKind : Fault(k)
      PROVE Earned'
  <2>1. Tickets' \subseteq Tickets
    BY <1>1, <1>2 DEF Tickets
  <2>2. Paid <= Paid' /\ Paid \in Nat /\ Paid' \in Nat
    BY <1>2, PaidBy
  <2> QED BY <1>2, <2>1, <2>2, EarnedSum
<1>3. ASSUME NEW m \in Member, dropped' = dropped, Cost(m)' = Cost(m) + 1,
             \A o \in Member \ {m} : Cost(o)' = Cost(o),
             Fault("db") \/ Fault("ambiguous")
      PROVE Earned'
  <2>1. Tickets' \subseteq Tickets \cup {<<m, Cost(m) + 1>>}
    BY <1>1, <1>3 DEF Tickets
  <2>2. Paid' = Paid + 1 /\ Paid \in Nat /\ Paid' \in Nat
    BY <1>3, PaidBy
  <2> QED BY <1>3, <2>1, <2>2, EarnedSum
<1>4. CASE UNCHANGED <<pc, attempt, stopping, dropped>> /\ UNCHANGED faults
  <2>1. Tickets' = Tickets
    BY <1>4 DEF Tickets, Cost
  <2>2. Paid' = Paid
    BY <1>4, PaidBy
  <2> QED BY <1>4, <2>1, <2>2 DEF Earned
<1>5. ASSUME NEW m \in Member, Assign(m) \/ Revoke(m) \/ FetchMessage(m)
      PROVE Earned'
  <2>1. /\ UNCHANGED <<stopping, dropped>>
        /\ \A o \in Member \ {m} : pc'[o] = pc[o] /\ attempt'[o] = attempt[o]
        /\ \/ pc'[m] = pc[m] /\ attempt'[m] = attempt[m]
           \/ pc'[m] = "begin" /\ attempt'[m] = 0
    BY <1>0, <1>5 DEF Assign, Revoke, FetchMessage, Goto
  <2>2. Cost(m)' <= Cost(m) /\ \A o \in Member \ {m} : Cost(o)' = Cost(o)
    BY <1>0, <2>1 DEF Cost
  <2>3. UNCHANGED faults \/ \E k \in FaultKind : Fault(k)
    BY <1>5 DEF Assign, Revoke, FetchMessage, FaultKind
  <2> QED BY <1>2, <2>1, <2>2, <2>3
<1>6. ASSUME NEW m \in Member,
             Skip(m) \/ SaveNew(m) \/ SaveDuplicate(m) \/ ProcessOK(m) \/ Retry(m)
      PROVE Earned'
  <2>1. /\ UNCHANGED <<stopping, dropped, faults>>
        /\ \A o \in Member \ {m} : pc'[o] = pc[o] /\ attempt'[o] = attempt[o]
        /\ \/ pc'[m] = "offset"
           \/ pc[m] = "begin" /\ pc'[m] = "tx" /\ attempt'[m] = attempt[m]
           \/ pc[m] = "retry" /\ pc'[m] = "begin" /\ attempt'[m] = attempt[m] + 1
    BY <1>0, <1>6 DEF Skip, SaveNew, SaveDuplicate, ProcessOK, Retry, Goto
  <2>2. Cost(m)' <= Cost(m) /\ \A o \in Member \ {m} : Cost(o)' = Cost(o)
    BY <1>0, <2>1 DEF Cost
  <2> QED BY <1>2, <2>1, <2>2
<1>7. ASSUME NEW m \in Member, ProcessError(m) \/ ProcessAmbiguous(m) PROVE Earned'
  <2>1. /\ UNCHANGED <<stopping, dropped, attempt>>
        /\ \A o \in Member \ {m} : pc'[o] = pc[o]
        /\ pc[m] \in {"begin", "tx"} /\ pc'[m] = "retry"
        /\ IF m \in stopping THEN UNCHANGED faults ELSE Fault("db") \/ Fault("ambiguous")
    BY <1>0, <1>7 DEF ProcessError, ProcessAmbiguous, Goto
  <2>2. \A o \in Member \ {m} : Cost(o)' = Cost(o)
    BY <2>1 DEF Cost
  <2>3. CASE m \in stopping
    BY <1>1, <1>2, <2>1, <2>2, <2>3 DEF Cost
  <2>4. CASE m \notin stopping
    <3>1. Cost(m)' = Cost(m) + 1
      BY <1>0, <2>1, <2>4 DEF Cost
    <3> QED BY <1>3, <2>1, <2>2, <2>4, <3>1
  <2> QED BY <2>3, <2>4
<1>8. ASSUME NEW m \in Member, Drop(m) PROVE Earned'
  <2>1. /\ UNCHANGED <<stopping, attempt, faults>>
        /\ \A o \in Member \ {m} : pc'[o] = pc[o]
        /\ pc[m] = "retry" /\ attempt[m] = MaxRetries /\ pc'[m] = "offset"
    BY <1>0, <1>8 DEF Drop, Goto
  <2>2. Cost(m)' = 0 /\ \A o \in Member \ {m} : Cost(o)' = Cost(o)
    BY <2>1 DEF Cost
  <2>3. CASE m \in stopping
    <3>1. dropped' = dropped
      BY <1>8, <2>3 DEF Drop, GiveUp
    <3> QED BY <1>1, <1>2, <2>1, <2>2, <3>1
  <2>4. CASE m \notin stopping
    <3>1. dropped' = dropped \cup {msg[m]}
      BY <1>8, <2>4 DEF Drop, GiveUp
    <3>2. Cost(m) = MaxRetries + 1
      BY <2>1, <2>4 DEF Cost
    <3>3. Row(m) \subseteq Tickets
      BY <1>0, <3>2 DEF Row, Tickets
    <3>4. Tickets' \subseteq Tickets \ Row(m)
      BY <1>0, <2>2 DEF Row, Tickets
    <3>5. Paid' = Paid /\ Paid \in Nat
      BY <2>1, PaidBy
    <3> QED BY <2>1, <3>1, <3>3, <3>4, <3>5, EarnedSum
  <2> QED BY <2>3, <2>4
<1>9. ASSUME NEW m \in Member,
             \/ CommitMessages(m) \/ CommitMessagesError(m)
             \/ Exit(m) \/ Crash(m)
      PROVE Earned'
  <2>1. /\ dropped' = dropped /\ Done(m)
        /\ stopping' \in {stopping, stopping \ {m}}
        /\ UNCHANGED faults \/ \E k \in FaultKind : Fault(k)
    BY <1>9 DEF CommitMessages, CommitMessagesError, Exit, Crash, Restart, FaultKind
  <2>2. /\ pc'[m] = "fetch"
        /\ \A o \in Member \ {m} : pc'[o] = pc[o] /\ attempt'[o] = attempt[o]
                                   /\ (o \in stopping' <=> o \in stopping)
    BY <1>0, <2>1 DEF Done, Goto
  <2>3. Cost(m)' = 0 /\ \A o \in Member \ {m} : Cost(o)' = Cost(o)
    BY <2>2 DEF Cost
  <2> QED BY <1>1, <1>2, <2>1, <2>3
<1>10. ASSUME NEW m \in Member, Terminate(m) PROVE Earned'
  <2>1. /\ UNCHANGED <<pc, attempt, dropped>> /\ Fault("term")
        /\ stopping' = stopping \cup {m}
    BY <1>10 DEF Terminate
  <2>2. Cost(m)' <= Cost(m) /\ \A o \in Member \ {m} : Cost(o)' = Cost(o)
    BY <1>1, <2>1 DEF Cost
  <2>3. \E k \in FaultKind : Fault(k)
    BY <2>1 DEF FaultKind
  <2> QED BY <1>2, <2>1, <2>2, <2>3
<1>11. CASE UNCHANGED vars \/ \E e \in Event : Append1(e)
  BY <1>4, <1>11 DEF vars, Append1
<1> QED BY <1>5, <1>6, <1>7, <1>8, <1>9, <1>10, <1>11 DEF Next, Step, Process

\* Instances are told to stop, and give messages up for it, only by SIGTERM.
ToldToStop == cancelled # {} \/ stopping # {} => faults["term"] > 0

\* Nobody is told to stop at the start.
LEMMA InitToldToStop == Init => ToldToStop
BY DEF Init, ToldToStop

(* Terminate counts the SIGTERM, and nothing takes it back.                *)
LEMMA NextToldToStop == TypeOK /\ ToldToStop /\ [Next]_vars => ToldToStop'
<1> SUFFICES ASSUME TypeOK, ToldToStop, [Next]_vars PROVE ToldToStop'
  OBVIOUS
<1>1. faults \in [FaultKind -> Nat] /\ "term" \in FaultKind
  BY DEF TypeOK, FaultKind
<1>2. ASSUME NEW m \in Member, Terminate(m) PROVE ToldToStop'
  BY <1>1, <1>2 DEF Terminate, Fault, ToldToStop
\* Every other step leaves the instances that stop and the count as they are.
<1>3. ASSUME UNCHANGED faults \/ \E k \in FaultKind : Fault(k),
             stopping' \subseteq stopping,
             cancelled' = cancelled \/ stopping # {}
      PROVE  ToldToStop'
  <2>1. faults'["term"] \in Nat /\ faults'["term"] >= faults["term"]
    BY <1>1, <1>3 DEF Fault
  <2> QED BY <1>1, <1>3, <2>1 DEF ToldToStop
<1>4. ASSUME NEW m \in Member, Drop(m) PROVE ToldToStop'
  BY <1>3, <1>4 DEF Drop, GiveUp
<1>5. ASSUME NEW m \in Member,
             \/ Assign(m) \/ Revoke(m) \/ FetchMessage(m) \/ Skip(m) \/ SaveNew(m)
             \/ SaveDuplicate(m) \/ ProcessError(m) \/ ProcessOK(m)
             \/ ProcessAmbiguous(m) \/ Retry(m) \/ CommitMessages(m)
             \/ CommitMessagesError(m) \/ Exit(m) \/ Crash(m)
      PROVE  ToldToStop'
  <2>1. cancelled' = cancelled /\ stopping' \subseteq stopping
    BY <1>5 DEF Assign, Revoke, FetchMessage, Skip, SaveNew, SaveDuplicate, ProcessError,
       ProcessOK, ProcessAmbiguous, Retry, CommitMessages, CommitMessagesError, Exit, Crash,
       Restart
  <2>2. UNCHANGED faults \/ \E k \in FaultKind : Fault(k)
    BY <1>5 DEF Assign, Revoke, FetchMessage, Skip, SaveNew, SaveDuplicate, ProcessError,
       ProcessOK, ProcessAmbiguous, Retry, CommitMessages, CommitMessagesError, Exit, Crash,
       FaultKind
  <2> QED BY <1>3, <2>1, <2>2
<1>6. CASE UNCHANGED vars \/ \E e \in Event : Append1(e)
  BY <1>3, <1>6 DEF vars, Append1
<1> QED BY <1>2, <1>4, <1>5, <1>6 DEF Next, Step, Process

(* An instance that goes on drops a message only after 1 + maxRetries failures
   of its own attempts, for any number of instances and messages, with
   messages that come again to be dropped again; an instance that was told to
   stop may give up any number of messages, and needs a SIGTERM for it.     *)
THEOREM DroppedIsEarned == Spec => []DropsAreEarned
<1>1. TypeOK /\ Earned /\ ToldToStop => DropsAreEarned
  <2> SUFFICES ASSUME TypeOK, Earned, ToldToStop PROVE DropsAreEarned
    OBVIOUS
  <2> DEFINE D == Cardinality(dropped) * (MaxRetries + 1)
  <2>1. D \in Nat /\ Cardinality(Tickets) \in Nat
    BY TicketsFinite, MaxRetriesAssumption
  <2>2. Paid \in Nat
    BY DEF TypeOK, FaultKind, Paid
  <2>3. D + Cardinality(Tickets) <= Paid
    BY DEF Earned
  <2> HIDE DEF D
  <2>4. D <= Paid
    BY <2>1, <2>2, <2>3
  <2> QED BY <2>4 DEF D, DropsAreEarned, Paid, ToldToStop
<1>2. TypeOK /\ Working /\ Earned /\ [Next]_vars => Earned'
  BY NextType, NextEarned
<1> QED
  BY <1>1, <1>2, InitType, InitEarned, NextType, InitToldToStop, NextToldToStop, PTL DEF Spec

(* Where README.md:58-59 is right about the code: with
   KAFKA_START_OFFSET=earliest, until there have been more failures than one
   message may have or an instance was told to stop, what is committed is
   processed.                                                              *)
THEOREM ProcessedWithoutDrops ==
  ASSUME StartOffset = {"earliest"}
  PROVE  Spec => [](faults["term"] = 0 /\ faults["db"] + faults["ambiguous"] <= MaxRetries
                      => CommittedIsProcessed)
<1> DEFINE Few == faults["term"] = 0 /\ faults["db"] + faults["ambiguous"] <= MaxRetries
           Punctual == late = 0
<1>1. Init => Punctual
  BY DEF Init
<1>2. ASSUME TypeOK, Punctual, [Next]_vars PROVE Punctual'
  <2>1. ASSUME NEW m \in Member, Assign(m) PROVE Punctual'
    BY <1>2, <2>1 DEF Assign, StartAt, StartsLate
  <2>2. ASSUME NEW m \in Member,
               \/ Revoke(m) \/ FetchMessage(m) \/ Process(m) \/ CommitMessages(m)
               \/ CommitMessagesError(m) \/ Terminate(m) \/ Exit(m) \/ Crash(m)
        PROVE  Punctual'
    BY <1>2, <2>2 DEF Revoke, FetchMessage, Process, Skip, SaveNew, SaveDuplicate,
       ProcessError, ProcessOK, ProcessAmbiguous, Retry, Drop, CommitMessages,
       CommitMessagesError, Terminate, Exit, Crash, Restart
  <2>3. ASSUME NEW e \in Event, Append1(e) PROVE Punctual'
    BY <1>2, <2>3 DEF Append1
  <2>4. CASE UNCHANGED vars
    BY <1>2, <2>4 DEF vars
  <2> QED BY <1>2, <2>1, <2>2, <2>3, <2>4 DEF Next, Step
<1>3. ASSUME TypeOK, Punctual, DropsAreEarned, NothingSkipped, Few
      PROVE  CommittedIsProcessed
  <2>1. IsFiniteSet(dropped)
    <3>1. IsFiniteSet(1..Len(log)) /\ dropped \subseteq 1..Len(log)
      BY <1>3, FS_Interval DEF TypeOK
    <3> QED BY <3>1, FS_Subset
  <2>2. Cardinality(dropped) \in Nat
    BY <2>1, FS_CardinalityType
  <2>3. Cardinality(dropped) * (MaxRetries + 1) <= MaxRetries
    <3>1. faults["db"] \in Nat /\ faults["ambiguous"] \in Nat
      BY <1>3 DEF TypeOK, FaultKind
    <3>2. Cardinality(dropped) * (MaxRetries + 1) \in Nat
      BY <2>2, MaxRetriesAssumption
    <3> QED BY <1>3, <3>1, <3>2, MaxRetriesAssumption DEF DropsAreEarned
  <2>4. Cardinality(dropped) = 0
    <3> DEFINE d == Cardinality(dropped)
    <3>1. d >= 1 => d * (MaxRetries + 1) >= MaxRetries + 1
      BY <2>2, MaxRetriesAssumption
    <3> HIDE DEF d
    <3>2. ~(d >= 1)
      BY <2>2, <2>3, <3>1, MaxRetriesAssumption DEF d
    <3> QED BY <2>2, <3>2 DEF d
  <2>5. cancelled = {}
    BY <1>3 DEF DropsAreEarned
  <2>6. GivenUp = {}
    BY <1>3, <2>1, <2>4, <2>5, FS_EmptySet DEF GivenUp
  <2> QED BY <1>3, <2>6 DEF NothingSkipped, Settled, CommittedIsProcessed
<1> QED
  BY <1>1, <1>2, <1>3, TypeCorrect, DroppedIsEarned, NothingIsSkipped, PTL DEF Spec
===============================================================================
