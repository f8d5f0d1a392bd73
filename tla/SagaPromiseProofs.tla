--------------------------- MODULE SagaPromiseProofs ---------------------------
(***************************************************************************)
(* The saga keeps to the promises of its parts.  Saga is written with the  *)
(* guards of OutboxPromise, GroupPromise and BookingPromise in mind, over  *)
(* other variables; here each step of it is shown to be a step, or a       *)
(* stutter, of each of the three, and the other way round: what a part     *)
(* may do, its step in the saga may do, up to the bounds.                  *)
(***************************************************************************)
EXTENDS SagaProofs, SequenceTheorems

(* An order's events: its creation, what became of it, and its refunds.    *)
Count ==
  /\ order = "absent" => payments = 0 /\ tickets = 0 /\ refunds = 0
  /\ order # "absent" => Len(outbox) = 1 + payments + tickets + refunds

\* At the start nothing is recorded.
LEMMA InitCount == Init => Count
BY DEF Init, Count

(* Each transaction that records an event makes the row, or grants the refund,
   that the event is about.                                                *)
LEMMA NextCount == IInv /\ Count /\ [Next]_vars => Count'
<1> SUFFICES ASSUME IInv, Count, [Next]_vars PROVE Count'
  OBVIOUS
<1>0. TypeOK /\ Len(outbox) \in Nat /\ Len(topic) \in Nat
      /\ (order = "absent" <=> Len(outbox) = 0)
  BY TypeFacts DEF IInv, Origin
<1>1. ASSUME NEW type \in EventType, Record(type), UNCHANGED topic
      PROVE  Len(outbox') = Len(outbox) + 1
  BY <1>0, <1>1, RecordFacts
<1>2. CASE CreateOrder
  <2>1. Len(outbox') = Len(outbox) + 1
    BY <1>1, <1>2 DEF CreateOrder, EventType
  <2> QED BY <1>0, <1>2, <2>1 DEF CreateOrder, InsertOrder, Count
<1>3. CASE RefundOrder
  <2>1. Len(outbox') = Len(outbox) + 1
    BY <1>1, <1>3 DEF RefundOrder, EventType
  <2> QED BY <1>0, <1>3, <2>1 DEF RefundOrder, UpdateStatus, Count, TypeOK
<1>4. CASE Relay
  BY <1>4 DEF Relay, Publish, Count
<1>5. ASSUME NEW i \in 1..Len(topic), AuthorizePayment(i) PROVE Count'
  <2>1. Len(outbox') = Len(outbox) + 1
    BY <1>1, <1>5 DEF AuthorizePayment, EventType
  <2>2. payments = 0 /\ order # "absent"
    BY <1>5, FirstPayment, SaveFacts DEF AuthorizePayment, Service
  <2> QED BY <1>0, <1>5, <2>1, <2>2
          DEF AuthorizePayment, InsertPayment, Count, TypeOK
<1>6. ASSUME NEW i \in 1..Len(topic), IssueTicket(i) PROVE Count'
  <2>1. Len(outbox') = Len(outbox) + 1
    BY <1>1, <1>6 DEF IssueTicket, EventType
  <2>2. tickets = 0 /\ order # "absent"
    BY <1>6, FirstTicket, SaveFacts DEF IssueTicket, Service
  <2> QED BY <1>0, <1>6, <2>1, <2>2 DEF IssueTicket, InsertTicket, Count, TypeOK
<1>7. ASSUME NEW i \in 1..Len(topic), UpdateOrder(i) PROVE Count'
  <2>1. order' # "absent"
    BY <1>7, FirstUpdate DEF StatusAfter
  <2> QED BY <1>7, <2>1 DEF UpdateOrder, UpdateStatus, Count
<1>8. ASSUME NEW s \in Service, NEW i \in 1..Len(topic), GiveUp(s, i) PROVE Count'
  BY <1>8 DEF GiveUp, Count
<1>9. CASE UNCHANGED vars
  BY <1>9 DEF vars, Count
<1> QED BY <1>2, <1>3, <1>4, <1>5, <1>6, <1>7, <1>8, <1>9 DEF Next, Api, Services

(* The ids of an order are among those that the promises are stated for.   *)
LEMMA IdsBounded == IInv /\ Count => Ids \subseteq EventId
<1> SUFFICES ASSUME IInv, Count PROVE Ids \subseteq EventId
  OBVIOUS
<1>1. Len(outbox) \in Nat /\ payments \in 0..1 /\ tickets \in 0..1
      /\ refunds \in 0..MaxRefunds /\ MaxRefunds \in Nat
      /\ (order = "absent" => Len(outbox) = 0)
  BY TypeFacts, BoundsAssumption DEF IInv, TypeOK, Origin
<1>2. Len(outbox) <= 3 + MaxRefunds
  BY <1>1 DEF Count
<1> QED BY <1>1, <1>2 DEF Ids, EventId

-------------------------------------------------------------------------------

Copies(id) == {i \in 1..Len(topic) : topic[i] = id}

(* One more message in the topic is one more copy of its event, and of no
   other.                                                                  *)
LEMMA CopyAdded ==
  ASSUME IInv, NEW id \in Ids, topic' = Append(topic, id)
  PROVE  /\ Cardinality(Copies(id))' = Cardinality(Copies(id)) + 1
         /\ \A e : e # id => Copies(e)' = Copies(e)
<1>1. /\ Len(topic) \in Nat /\ Len(topic') = Len(topic) + 1
      /\ topic'[Len(topic) + 1] = id
      /\ \A i \in 1..Len(topic) : topic'[i] = topic[i]
  BY AppendFacts DEF IInv, TypeOK, Ids
<1>2. Copies(id)' = Copies(id) \cup {Len(topic) + 1}
  BY <1>1 DEF Copies
<1>3. Len(topic) + 1 \notin Copies(id)
  BY <1>1 DEF Copies
<1>4. IsFiniteSet(Copies(id))
  <2>1. IsFiniteSet(1..Len(topic)) /\ Copies(id) \subseteq 1..Len(topic)
    BY <1>1, FS_Interval DEF Copies
  <2> QED BY <2>1, FS_Subset
<1>5. Cardinality(Copies(id) \cup {Len(topic) + 1}) = Cardinality(Copies(id)) + 1
  BY <1>3, <1>4, FS_AddElement
<1>6. \A e : e # id => Copies(e)' = Copies(e)
  BY <1>1 DEF Copies
<1> QED BY <1>2, <1>5, <1>6

(* The relay of the saga sends nothing that is not recorded: Saga's Publish is
   OutboxPromise's, and the transactions that call Save are its Record.    *)
THEOREM SagaBuiltOnOutbox == Spec => BuiltOnOutbox
<1> DEFINE N == [id \in EventId |-> Cardinality(Copies(id))]
<1>0. (IInv /\ Count => Ids \subseteq EventId)'
  BY IdsBounded, PTL
<1>1. ASSUME Init PROVE Outbox!Init
  <2>1. \A id \in EventId : Copies(id) = {}
    BY <1>1 DEF Init, Copies
  <2>2. \A id \in EventId : Cardinality(Copies(id)) = 0
    BY <2>1, FS_EmptySet
  <2> QED BY <1>1, <2>2 DEF Outbox!Init, Init, Copies
<1>2. ASSUME IInv, Count, IInv', Count', [Next]_vars
      PROVE  [Outbox!Next]_(Outbox!vars)
  <2>0. TypeOK /\ Len(outbox) \in Nat /\ Ids \subseteq EventId /\ Ids' \subseteq EventId
    BY <1>0, <1>2, IdsBounded, TypeFacts DEF IInv
  <2>1. ASSUME NEW type \in EventType, Record(type), UNCHANGED topic
        PROVE  Outbox!Record(Len(outbox) + 1) /\ Len(outbox) + 1 \in EventId
    <3>1. Ids' = Ids \cup {Len(outbox) + 1}
      BY <2>0, <2>1, RecordFacts
    <3> QED BY <2>0, <2>1, <3>1 DEF Outbox!Record, Ids
  <2>2. ASSUME NEW type \in EventType, Record(type), UNCHANGED topic
        PROVE  Outbox!Next
    BY <2>1, <2>2 DEF Outbox!Next
  <2>3. CASE UNCHANGED <<outbox, topic>>
    BY <2>3 DEF Outbox!vars
  <2>4. ASSUME NEW id \in Ids, Publish(id) PROVE Outbox!Next
    <3>1. topic' = Append(topic, id) /\ UNCHANGED outbox
      BY <2>4 DEF Publish
    <3>2. /\ Cardinality(Copies(id))' = Cardinality(Copies(id)) + 1
          /\ \A e : e # id => Copies(e)' = Copies(e)
      BY <1>2, <3>1, CopyAdded
    <3>3. N' = [N EXCEPT ![id] = @ + 1]
      BY <2>0, <3>2
    <3>4. Outbox!Publish(id, 1)
      BY <2>0, <3>1, <3>3 DEF Outbox!Publish, Copies, Ids
    <3> QED BY <2>0, <3>4 DEF Outbox!Next
  <2>5. CASE Api
    BY <2>2, <2>5 DEF Api, CreateOrder, RefundOrder, EventType
  <2>6. CASE Relay
    BY <2>4, <2>6 DEF Relay, Ids
  <2>7. CASE Services
    BY <2>2, <2>3, <2>7 DEF Services, AuthorizePayment, IssueTicket, UpdateOrder,
                            GiveUp, EventType
  <2> QED BY <1>2, <2>3, <2>5, <2>6, <2>7 DEF Next, vars
<1>3. Spec => Outbox!Spec
  BY <1>1, <1>2, InitInv, NextInv, InitCount, NextCount, PTL DEF Spec, Outbox!Spec
<1> QED BY <1>3 DEF BuiltOnOutbox
-------------------------------------------------------------------------------

\* The events that the API records.
Requests == Recorded("OrderCreated") \cup Recorded("RefundInitiated")

(* CreateOrder and RefundOrder change the order and record their event in one
   step, and nobody else does either: order-service only touches the status
   of an order that exists.                                                *)
THEOREM SagaBuiltOnBooking == Spec => BuiltOnBooking
<1>0. (IInv /\ Count => Ids \subseteq EventId)'
  BY IdsBounded, PTL
<1>1. Init => Booking!Init
  BY DEF Init, Booking!Init, Booked, Recorded
<1>2. ASSUME IInv, Count, IInv', Count', [Next]_vars
      PROVE  [Booking!Next]_<<[o \in {1} |-> Booked], Requests>>
  <2> DEFINE status == [o \in {1} |-> Booked]
  <2>0. /\ TypeOK /\ Len(outbox) \in Nat /\ Ids' \subseteq EventId
        /\ refunds \in Nat /\ (order = "absent" <=> Len(outbox) = 0)
        /\ order = "absent" => refunds = 0
    <3>1. TypeOK /\ Len(outbox) \in Nat /\ Ids' \subseteq EventId
      BY <1>0, <1>2, TypeFacts DEF IInv
    <3> QED BY <1>2, <3>1 DEF IInv, TypeOK, Origin, Count
  <2>1. ASSUME NEW type \in EventType, Record(type), UNCHANGED topic
        PROVE  /\ Len(outbox) + 1 \in EventId /\ Len(outbox) + 1 \notin Requests
               /\ type \in {"OrderCreated", "RefundInitiated"}
                    => Requests' = Requests \cup {Len(outbox) + 1}
               /\ type \notin {"OrderCreated", "RefundInitiated"}
                    => Requests' = Requests
    <3>1. /\ Ids' = Ids \cup {Len(outbox) + 1}
          /\ outbox'[Len(outbox) + 1] = type
          /\ \A id \in Ids : outbox'[id] = outbox[id]
      BY <2>0, <2>1, RecordFacts
    <3> QED BY <2>0, <3>1 DEF Requests, Recorded, Ids
  <2>2. ASSUME UNCHANGED outbox, UNCHANGED refunds, order' = order
        PROVE  UNCHANGED <<status, Requests>>
    BY <2>2 DEF Booked, Requests, Recorded
  <2>3. CASE CreateOrder
    <3>1. /\ order = "absent" /\ order' = "CREATED" /\ refunds' = 0
          /\ Record("OrderCreated") /\ UNCHANGED topic
      BY <2>0, <2>3 DEF CreateOrder, InsertOrder
    <3>2. Requests' = Requests \cup {1}
      BY <2>0, <2>1, <3>1 DEF EventType
    <3>3. status[1] = "absent" /\ status' = [status EXCEPT ![1] = "CREATED"]
      BY <3>1 DEF Booked
    <3>4. Booking!CreateOrder(1)
      BY <3>2, <3>3 DEF Booking!CreateOrder, Requests
    <3> QED BY <3>4 DEF Booking!Next
  <2>4. CASE RefundOrder
    <3>1. /\ order # "absent" /\ order' = "REFUND_PENDING" /\ refunds' = refunds + 1
          /\ Record("RefundInitiated") /\ UNCHANGED topic
      BY <2>4 DEF RefundOrder, UpdateStatus
    <3> DEFINE f == Len(outbox) + 1
    <3>2. /\ Requests' = Requests \cup {f} /\ f \in EventId \ {1} /\ f \notin Requests
      BY <2>0, <2>1, <3>1 DEF EventType
    <3>3. /\ status[1] # "absent"
          /\ status' = [status EXCEPT ![1] = "REFUND_PENDING"]
      BY <2>0, <3>1 DEF Booked
    <3>4. Booking!RefundOrder(f, 1)
      BY <3>2, <3>3 DEF Booking!RefundOrder, Requests
    <3> QED BY <3>2, <3>4 DEF Booking!Next
  <2>5. ASSUME NEW i \in 1..Len(topic), AuthorizePayment(i) \/ IssueTicket(i)
        PROVE  UNCHANGED <<status, Requests>>
    BY <2>1, <2>5 DEF AuthorizePayment, IssueTicket, EventType, Booked
  <2>6. ASSUME NEW i \in 1..Len(topic), UpdateOrder(i)
        PROVE  UNCHANGED <<status, Requests>>
    <3>1. order # "absent" /\ order' # "absent"
      BY <1>2, <2>6, FirstUpdate DEF StatusAfter, UpdateOrder, UpdateStatus
    <3> QED BY <2>6, <3>1 DEF UpdateOrder, Booked, Requests, Recorded
  <2>7. CASE Services
    BY <2>2, <2>5, <2>6, <2>7 DEF Services, GiveUp
  <2>8. CASE Relay \/ UNCHANGED vars
    BY <2>2, <2>8 DEF Relay, Publish, vars
  <2> QED BY <1>2, <2>3, <2>4, <2>7, <2>8 DEF Next, Api
<1>3. Spec => Booking!Spec
  BY <1>1, <1>2, InitInv, NextInv, InitCount, NextCount, PTL
     DEF Spec, Booking!Spec, Requests
<1> QED BY <1>3 DEF BuiltOnBooking

-------------------------------------------------------------------------------

\* The partition as GroupPromise sees it, and what service s has done of it.
Log == [i \in 1..Len(topic) |-> <<topic[i], Type(i)>>]

DoneBy(s) == Envelopes(inbox[s])

Effects(s) ==
  [e \in Envelope |->
     IF e \in Envelopes(1..Len(outbox)) /\ e[2] \in Handles(s) THEN Effect(s, e) ELSE 0]

(* The partition is one of envelopes: what the group makes of one of its
   messages is what the service makes of the event.                        *)
LEMMA LogFacts ==
  ASSUME IInv, Count
  PROVE  /\ Log \in Seq(Envelope) /\ Len(Log) = Len(topic)
         /\ \A s \in Service, i \in 1..Len(topic) :
              /\ Log[i] = <<topic[i], Type(i)>> /\ Log[i] \in Envelope
              /\ Log[i] \in DoneBy(s) <=> topic[i] \in inbox[s]
              /\ Log[i][2] = Type(i)
<1>1. /\ Len(topic) \in Nat /\ Ids \subseteq EventId
      /\ \A i \in 1..Len(topic) : topic[i] \in Ids /\ Type(i) \in EventType
  BY TypeFacts, IdsBounded DEF IInv
<1>2. Log \in [1..Len(topic) -> Envelope]
  BY <1>1 DEF Log, Envelope
<1>3. Log \in Seq(Envelope) /\ Len(Log) = Len(topic)
  BY <1>1, <1>2, SeqDef, LenProperties
<1>4. \A s \in Service, i \in 1..Len(topic) :
         <<topic[i], Type(i)>> \in DoneBy(s) <=> topic[i] \in inbox[s]
  BY DEF DoneBy, Envelopes, Type
<1> QED BY <1>2, <1>3, <1>4 DEF Log

(* What GroupPromise is given for the effects of a service is one for every
   event that the inbox of the service has, and nothing for the others: the
   events a service records tell its inbox.                                *)
LEMMA EffectsAreDone ==
  IInv => \A s \in Service :
            Effects(s) = [e \in Envelope |-> IF e \in DoneBy(s) THEN 1 ELSE 0]
<1> SUFFICES ASSUME IInv, NEW s \in Service, NEW e \in Envelope
             PROVE  (IF e \in Envelopes(Ids) /\ e[2] \in Handles(s) THEN Effect(s, e) ELSE 0)
                      = IF e \in DoneBy(s) THEN 1 ELSE 0
  BY DEF Effects, Ids
<1>1. /\ inbox[s] \subseteq Ids /\ \A id \in inbox[s] : outbox[id] \in Handles(s)
      /\ payments \in 0..1 /\ tickets \in 0..1
      /\ Cardinality(Recorded("PaymentAuthorized")) = payments
      /\ Cardinality(Recorded("TicketIssued")) = tickets
  BY OneEvent DEF IInv, TypeOK, Handled, Ids, Rows
<1>2. CASE ~(e \in Envelopes(Ids) /\ e[2] \in Handles(s))
  <2>1. e \notin DoneBy(s)
    BY <1>1, <1>2 DEF DoneBy, Envelopes
  <2> QED BY <1>2, <2>1
<1>3. ASSUME NEW id \in Ids, e = <<id, outbox[id]>>, outbox[id] \in Handles(s)
      PROVE  Effect(s, e) = IF e \in DoneBy(s) THEN 1 ELSE 0
  <2>1. e \in DoneBy(s) <=> id \in inbox[s]
    BY <1>3 DEF DoneBy, Envelopes
  <2>2. CASE s = "payment-service"
    <3>1. id = 1
      BY <1>3, <2>2 DEF Handles, IInv, Origin
    <3>2. payments = IF id \in inbox[s] THEN 1 ELSE 0
      BY <1>1, <2>2, <3>1 DEF IInv, Rows
    <3> QED BY <1>1, <2>1, <2>2, <3>2 DEF Effect
  <2>3. CASE s = "ticket-service"
    <3>1. outbox[id] = "PaymentAuthorized"
      BY <1>3, <2>3 DEF Handles
    <3>2. \A p \in inbox[s] : p \in Ids /\ outbox[p] = "PaymentAuthorized"
      BY <1>1, <2>3 DEF Handles
    <3>3. inbox[s] # {} <=> id \in inbox[s]
      BY <3>1, <3>2 DEF IInv, Rows
    <3>4. tickets = IF id \in inbox[s] THEN 1 ELSE 0
      BY <1>1, <2>3, <3>3 DEF IInv, Rows
    <3> QED BY <1>1, <2>1, <2>3, <3>4 DEF Effect
  <2>4. CASE s = "order-service"
    BY <1>3, <2>1, <2>4 DEF Effect
  <2> QED BY <2>2, <2>3, <2>4 DEF Service
<1> QED BY <1>2, <1>3 DEF Envelopes

(* A message is settled for the group when the service is done with it.    *)
LEMMA SameOrder ==
  ASSUME IInv, Count, NEW s \in Service
  PROVE  /\ \A i \in 1..Len(topic) : Group(s)!Settled(i) <=> Done(s, i)
         /\ \A i \in 1..Len(topic) : Group(s)!InOrder(i) <=> InOrder(s, i)
<1>1. \A i \in 1..Len(topic) : Group(s)!Settled(i) <=> Done(s, i)
  <2> TAKE i \in 1..Len(topic)
  <2>1. /\ Log[i] \in Envelope /\ Log[i][2] = Type(i)
        /\ Log[i] \in DoneBy(s) <=> topic[i] \in inbox[s]
    BY LogFacts
  <2>2. Log[i] \in {e \in Envelope : e[2] \in Handles(s)} <=> Type(i) \in Handles(s)
    BY <2>1
  <2> QED BY <2>1, <2>2 DEF Group!Settled, Done, Log, DoneBy
<1>2. \A i \in 1..Len(topic) : 1..i-1 \subseteq 1..Len(topic)
  BY TypeFacts DEF IInv
<1> QED BY <1>1, <1>2 DEF Group!InOrder, InOrder

(* A transaction of somebody else changes nothing that the group sees.     *)
LEMMA GroupStutters ==
  ASSUME IInv, NEW s \in Service, UNCHANGED topic,
         \A id \in Ids : outbox'[id] = outbox[id],
         inbox'[s] = inbox[s]
  PROVE  Log' = Log /\ DoneBy(s)' = DoneBy(s)
<1>1. /\ \A i \in 1..Len(topic) : Type(i)' = Type(i)
      /\ inbox[s] \subseteq Ids
  BY TypeFacts DEF IInv, TypeOK, Type, Ids
<1>2. Log' = Log
  BY <1>1 DEF Log
<1>3. DoneBy(s)' = DoneBy(s)
  BY <1>1 DEF DoneBy, Envelopes
<1> QED BY <1>2, <1>3

(* The transaction of a service is the group's Process: it makes the effect of
   the event once, in the order of the partition.                          *)
LEMMA GroupProcesses ==
  ASSUME IInv, Count, NEW s \in Service, NEW i \in 1..Len(topic),
         SaveNew(s, i), UNCHANGED <<topic, dropped>>,
         \A id \in Ids : outbox'[id] = outbox[id],
         Effects(s) = [e \in Envelope |-> IF e \in DoneBy(s) THEN 1 ELSE 0],
         Effects(s)' = [e \in Envelope |-> IF e \in DoneBy(s)' THEN 1 ELSE 0]
  PROVE  Group(s)!Process(i)
<1>1. /\ topic[i] \in Ids /\ inbox[s] \subseteq Ids /\ outbox[topic[i]] = Type(i)
      /\ topic[i] \notin inbox[s] /\ inbox'[s] = inbox[s] \cup {topic[i]}
      /\ Type(i) \in Handles(s) /\ InOrder(s, i)
  BY SaveFacts DEF SaveNew, Due
<1>2. /\ Log[i] = <<topic[i], Type(i)>> /\ Log[i] \in Envelope /\ Log[i][2] = Type(i)
      /\ Log[i] \in DoneBy(s) <=> topic[i] \in inbox[s]
  BY LogFacts
<1>3. Log' = Log
  BY TypeFacts DEF IInv, Log, Type
<1>4. DoneBy(s)' = DoneBy(s) \cup {Log[i]}
  BY <1>1, <1>2 DEF DoneBy, Envelopes
<1>5. Effects(s)' = [Effects(s) EXCEPT ![Log[i]] = @ + 1]
  BY <1>1, <1>2, <1>4
<1>6. Group(s)!InOrder(i) /\ Log[i] \in {e \in Envelope : e[2] \in Handles(s)} \ DoneBy(s)
  BY <1>1, <1>2, SameOrder
<1> QED BY <1>3, <1>4, <1>5, <1>6 DEF Group!Process, Log, DoneBy, Effects

(* One more message in the topic is a delivery, to each of the groups.     *)
LEMMA GroupReceives ==
  ASSUME IInv, Count, NEW s \in Service, NEW id \in Ids, Publish(id),
         NEW env \in Envelope, env = <<id, outbox[id]>>,
         Effects(s) = [e \in Envelope |-> IF e \in DoneBy(s) THEN 1 ELSE 0],
         Effects(s)' = [e \in Envelope |-> IF e \in DoneBy(s)' THEN 1 ELSE 0]
  PROVE  Group(s)!Deliver(env)
<1>1. /\ topic' = Append(topic, id) /\ UNCHANGED <<outbox, inbox, dropped>>
      /\ topic \in Seq(Ids) /\ Len(topic) \in Nat
      /\ id \in EventId /\ outbox[id] \in EventType
      /\ \A k \in 1..Len(topic) : topic[k] \in Ids
  BY IdsBounded, TypeFacts DEF Publish, IInv, TypeOK, Ids
<1>2. /\ Len(topic') = Len(topic) + 1 /\ topic'[Len(topic) + 1] = id
      /\ \A k \in 1..Len(topic) : topic'[k] = topic[k]
  BY <1>1, AppendFacts
<1>3. Log \in Seq(Envelope) /\ Len(Log) = Len(topic)
  BY LogFacts
<1>4. Log' = Append(Log, env)
  <2> DEFINE A == Append(Log, env)
  <2>1. /\ A \in Seq(Envelope) /\ Len(A) = Len(topic) + 1
        /\ A[Len(topic) + 1] = env
        /\ \A k \in 1..Len(topic) : A[k] = Log[k]
    BY <1>3, AppendProperties
  <2>2. A = [k \in 1..Len(topic) + 1 |-> A[k]]
    BY <1>1, <2>1, LenProperties
  <2>3. Log' = [k \in 1..Len(topic) + 1 |-> <<topic'[k], outbox[topic'[k]]>>]
    BY <1>1, <1>2 DEF Log, Type
  <2>4. \A k \in 1..Len(topic) + 1 : <<topic'[k], outbox[topic'[k]]>> = A[k]
    BY <1>1, <1>2, <2>1 DEF Log, Type
  <2> HIDE DEF A
  <2> QED BY <2>2, <2>3, <2>4 DEF A
<1>5. DoneBy(s)' = DoneBy(s)
  BY <1>1 DEF DoneBy, Envelopes
<1> QED BY <1>1, <1>3, <1>4, <1>5 DEF Group!Deliver, Log, DoneBy, Effects

(* No position of an empty partition is settled, or given up.              *)
LEMMA GroupInit ==
  ASSUME Init, NEW s \in Service
  PROVE  Group(s)!Init
<1>1. outbox = <<>> /\ Len(topic) = 0 /\ inbox[s] = {} /\ dropped[s] = {} /\ Len(outbox) = 0
  BY DEF Init
<1>2. Log = <<>>
  BY <1>1 DEF Log
<1>3. DoneBy(s) = {} /\ \A e : e \notin Envelopes(1..Len(outbox))
  BY <1>1 DEF DoneBy, Envelopes
<1>4. Effects(s) = [e \in Envelope |-> 0]
  BY <1>3 DEF Effects
<1> QED BY <1>1, <1>2, <1>3, <1>4 DEF Group!Init, Log, DoneBy, Effects

(* One transaction of the saga is one step of every group, or none.        *)
LEMMA GroupStep ==
  ASSUME IInv, Count, [Next]_vars, NEW s \in Service,
         Effects(s) = [e \in Envelope |-> IF e \in DoneBy(s) THEN 1 ELSE 0],
         Effects(s)' = [e \in Envelope |-> IF e \in DoneBy(s)' THEN 1 ELSE 0]
  PROVE  [Group(s)!Next]_(Group(s)!vars)
<1>0. TypeOK /\ Len(topic) \in Nat /\ Len(Log) = Len(topic) /\ inbox \in [Service -> SUBSET Ids]
  BY TypeFacts, LogFacts DEF IInv, TypeOK, Ids
<1>1. ASSUME UNCHANGED topic, \A id \in Ids : outbox'[id] = outbox[id],
             inbox'[s] = inbox[s], dropped'[s] = dropped[s]
      PROVE  UNCHANGED Group(s)!vars
  <2>1. Log' = Log /\ DoneBy(s)' = DoneBy(s)
    BY <1>1, GroupStutters
  <2>2. Effects(s)' = Effects(s)
    BY <2>1
  <2> QED BY <1>1, <2>1, <2>2 DEF Group!vars, Log, DoneBy, Effects
<1>2. ASSUME NEW i \in 1..Len(topic), SaveNew(s, i), UNCHANGED <<topic, dropped>>,
             \A id \in Ids : outbox'[id] = outbox[id]
      PROVE  Group(s)!Next
  <2>1. Group(s)!Process(i)
    BY <1>2, GroupProcesses
  <2> QED BY <1>0, <2>1 DEF Group!Next, Log
<1>3. ASSUME NEW type \in EventType, Record(type), UNCHANGED topic
      PROVE  \A id \in Ids : outbox'[id] = outbox[id]
  BY <1>0, <1>3, RecordFacts
<1>4. ASSUME NEW t \in Service, NEW i \in 1..Len(topic), SaveNew(t, i),
             UNCHANGED <<topic, dropped>>, \A id \in Ids : outbox'[id] = outbox[id]
      PROVE  [Group(s)!Next]_(Group(s)!vars)
  <2>1. CASE t = s
    BY <1>2, <1>4, <2>1
  <2>2. CASE t # s
    <3>1. inbox'[s] = inbox[s] /\ dropped'[s] = dropped[s]
      BY <1>0, <1>4, <2>2 DEF SaveNew
    <3> QED BY <1>1, <1>4, <3>1
  <2> QED BY <2>1, <2>2
<1>5. CASE Api
  BY <1>1, <1>3, <1>5 DEF Api, CreateOrder, RefundOrder, EventType
<1>6. CASE Relay
  <2>1. PICK id \in Ids : Publish(id)
    BY <1>6 DEF Relay, Ids
  <2>2. <<id, outbox[id]>> \in Envelope
    BY <1>0, IdsBounded, TypeFacts DEF Envelope
  <2>3. PICK env \in Envelope : env = <<id, outbox[id]>>
    BY <2>2
  <2>4. Group(s)!Deliver(env)
    BY <2>1, <2>3, GroupReceives
  <2>5. Group(s)!Next
    BY <2>4 DEF Group!Next
  <2> QED BY <2>5
<1>7. ASSUME NEW i \in 1..Len(topic), AuthorizePayment(i)
      PROVE  [Group(s)!Next]_(Group(s)!vars)
  BY <1>3, <1>4, <1>7 DEF AuthorizePayment, EventType, Service
<1>8. ASSUME NEW i \in 1..Len(topic), IssueTicket(i)
      PROVE  [Group(s)!Next]_(Group(s)!vars)
  BY <1>3, <1>4, <1>8 DEF IssueTicket, EventType, Service
<1>9. ASSUME NEW i \in 1..Len(topic), UpdateOrder(i)
      PROVE  [Group(s)!Next]_(Group(s)!vars)
  BY <1>4, <1>9 DEF UpdateOrder, Service
<1>10. ASSUME NEW t \in Service, NEW i \in 1..Len(topic), GiveUp(t, i)
       PROVE  [Group(s)!Next]_(Group(s)!vars)
  <2>1. CASE t # s
    BY <1>0, <1>1, <1>10, <2>1 DEF GiveUp, TypeOK
  <2>2. CASE t = s
    <3>1. /\ InOrder(s, i) /\ Type(i) \in Handles(s)
          /\ dropped'[s] = dropped[s] \cup {i}
          /\ UNCHANGED <<outbox, topic, inbox>>
      BY <1>0, <1>10, <2>2 DEF GiveUp, TypeOK
    <3>2. \A j \in 1..i-1 : Group(s)!Settled(j)
      BY <3>1, SameOrder DEF Group!InOrder
    <3>3. Log' = Log /\ DoneBy(s)' = DoneBy(s)
      BY <3>1, GroupStutters
    <3>4. Effects(s)' = Effects(s)
      BY <3>3
    <3>5. Group(s)!GiveUp({i})
      BY <3>1, <3>2, <3>3, <3>4 DEF Group!GiveUp, Log, DoneBy, Effects
    <3> QED BY <1>0, <3>5 DEF Group!Next, Log
  <2> QED BY <2>1, <2>2
<1>11. CASE UNCHANGED vars
  BY <1>1, <1>11 DEF vars
<1> QED BY <1>5, <1>6, <1>7, <1>8, <1>9, <1>10, <1>11 DEF Next, Services

(* The three services are groups of GroupPromise at once: each makes the effect
   of an event that it handles once, for any number of copies and whatever
   the others do, in the order of the partition, or gives a copy up.       *)
THEOREM SagaBuiltOnGroups == Spec => BuiltOnGroups
<1>1. Init => \A s \in Service : Group(s)!Init
  BY GroupInit
<1>2. (IInv => \A s \in Service :
         Effects(s) = [e \in Envelope |-> IF e \in DoneBy(s) THEN 1 ELSE 0])'
  BY EffectsAreDone, PTL
<1> DEFINE Step == \A s \in Service : [Group(s)!Next]_(Group(s)!vars)
<1>3. ASSUME IInv, Count, IInv', [Next]_vars PROVE Step
  <2> TAKE s \in Service
  <2>1. Effects(s) = [e \in Envelope |-> IF e \in DoneBy(s) THEN 1 ELSE 0]
    BY <1>3, EffectsAreDone
  <2>2. Effects(s)' = [e \in Envelope |-> IF e \in DoneBy(s)' THEN 1 ELSE 0]
    BY <1>2, <1>3
  <2> QED BY <1>3, <2>1, <2>2, GroupStep
<1> HIDE DEF Step
<1>4. Spec => [][Step]_vars
  BY <1>3, InitInv, NextInv, InitCount, NextCount, PTL DEF Spec
<1> QED BY <1>1, <1>4, PTL DEF BuiltOnGroups, Step, Spec

\* The guard of GroupPromise's Process: what the group of s may do next.
MayProcess(s, i) ==
  /\ Group(s)!InOrder(i)
  /\ <<topic[i], Type(i)>> \in {e \in Envelope : e[2] \in Handles(s)} \ DoneBy(s)

(* The saga takes nothing from its services either: whenever GroupPromise lets
   the group process a message, the service's transaction is enabled.      *)
THEOREM ServicesAreFree ==
  Spec => [](\A s \in Service, i \in 1..Len(topic) : MayProcess(s, i) <=> Due(s, i))
<1>1. ASSUME IInv, Count
      PROVE  \A s \in Service, i \in 1..Len(topic) : MayProcess(s, i) <=> Due(s, i)
  <2> TAKE s \in Service, i \in 1..Len(topic)
  <2>1. /\ Log[i] = <<topic[i], Type(i)>> /\ Log[i] \in Envelope
        /\ Log[i][2] = Type(i)
        /\ Log[i] \in DoneBy(s) <=> topic[i] \in inbox[s]
    BY <1>1, LogFacts
  <2>2. Group(s)!InOrder(i) <=> InOrder(s, i)
    BY <1>1, SameOrder
  <2> QED BY <2>1, <2>2 DEF MayProcess, Due
<1> QED BY <1>1, InitInv, NextInv, InitCount, NextCount, PTL DEF Spec
===============================================================================
