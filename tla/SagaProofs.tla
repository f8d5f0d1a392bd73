------------------------------ MODULE SagaProofs ------------------------------
(***************************************************************************)
(* The safety of the saga of one order, for any number of refunds, copies  *)
(* and given up messages.  The inductive invariant:                        *)
(*   TypeOK                                                                *)
(*   Handled  a service has processed only events that it handles          *)
(*   Origin   the order is recorded with the first event, and nobody       *)
(*            records a PaymentFailed                                      *)
(*   Rows     payment, PaymentAuthorized and the inbox entry that made     *)
(*            them are there together or not at all, and there is one of   *)
(*            each; the same for the ticket                                *)
(*   Causes   a TicketIssued has a PaymentAuthorized before it in the      *)
(*            topic                                                        *)
(*   Status   what the status of the order says has happened               *)
(***************************************************************************)
EXTENDS Saga, FiniteSetTheorems, WellFoundedInduction, TLAPS

Has(ids, type) == \E id \in ids : outbox[id] = type

Ids == 1..Len(outbox)

Handled == \A s \in Service : \A id \in inbox[s] : outbox[id] \in Handles(s)

Origin ==
  /\ order = "absent" <=> Len(outbox) = 0
  /\ Len(outbox) > 0 => outbox[1] = "OrderCreated"
  /\ \A id \in Ids : outbox[id] # "PaymentFailed"
  /\ \A id \in Ids : outbox[id] = "OrderCreated" => id = 1

Rows ==
  /\ \A a, b \in Ids :
       /\ outbox[a] = "PaymentAuthorized" /\ outbox[b] = "PaymentAuthorized" => a = b
       /\ outbox[a] = "TicketIssued" /\ outbox[b] = "TicketIssued" => a = b
  /\ payments = 1 <=> 1 \in inbox["payment-service"]
  /\ payments = 1 <=> Has(Ids, "PaymentAuthorized")
  /\ tickets = 1 <=> inbox["ticket-service"] # {}
  /\ tickets = 1 <=> Has(Ids, "TicketIssued")

InTopic(n, type) == \E i \in 1..n : Type(i) = type

Causes ==
  /\ \A j \in 1..Len(topic) :
       Type(j) = "TicketIssued" => InTopic(j - 1, "PaymentAuthorized")
  /\ Has(Ids, "TicketIssued") => InTopic(Len(topic), "PaymentAuthorized")

Status ==
  /\ order = "PAYMENT_AUTHORIZED" => Has(inbox["order-service"], "PaymentAuthorized")
  /\ order = "TICKET_ISSUED" => Has(inbox["order-service"], "TicketIssued")
  /\ order # "CANCELLED"
  /\ order = "REFUND_PENDING" => refunds > 0 /\ Has(Ids, "RefundInitiated")
  /\ dropped["order-service"] = {} /\ Has(inbox["order-service"], "TicketIssued")
       => Has(inbox["order-service"], "PaymentAuthorized")

IInv == TypeOK /\ Handled /\ Origin /\ Rows /\ Causes /\ Status

(* Appending keeps what is there and adds one element.                     *)
LEMMA AppendFacts ==
  ASSUME NEW S, NEW s \in Seq(S), NEW x \in S
  PROVE  /\ Append(s, x) \in Seq(S)
         /\ Len(s) \in Nat /\ Len(Append(s, x)) = Len(s) + 1
         /\ Append(s, x)[Len(s) + 1] = x
         /\ \A i \in 1..Len(s) : Append(s, x)[i] = s[i] /\ s[i] \in S
OBVIOUS

(* A sequence over a set is one over any larger set.                       *)
LEMMA Widen ==
  ASSUME NEW S, NEW T, S \subseteq T, NEW s \in Seq(S)
  PROVE  s \in Seq(T)
OBVIOUS

(* An element of the topic names an event.                                 *)
LEMMA TypeFacts ==
  ASSUME TypeOK
  PROVE  /\ Len(outbox) \in Nat /\ Len(topic) \in Nat
         /\ \A i \in 1..Len(topic) : topic[i] \in Ids /\ Type(i) \in EventType
         /\ \A id \in Ids : outbox[id] \in EventType
BY DEF TypeOK, Ids, Type

(* No event and no row: all of it holds at the start.                      *)
LEMMA InitInv == Init => IInv
<1> SUFFICES ASSUME Init PROVE IInv
  OBVIOUS
<1>1. Len(outbox) = 0 /\ Len(topic) = 0
  BY DEF Init
<1>2. TypeOK
  BY BoundsAssumption DEF Init, TypeOK, OrderStatus, EventType, Service
<1>3. Handled /\ Origin /\ Rows /\ Causes /\ Status
  BY <1>1 DEF Init, Handled, Origin, Rows, Causes, Status, Has, Ids, InTopic, Service
<1> QED BY <1>2, <1>3 DEF IInv

(* What a transaction that records an event of type leaves of the events and
   the topic.                                                              *)
LEMMA RecordFacts ==
  ASSUME TypeOK, NEW type \in EventType, Record(type), UNCHANGED topic
  PROVE  /\ outbox' \in Seq(EventType)
         /\ Len(outbox) \in Nat /\ Len(outbox') = Len(outbox) + 1
         /\ Ids \subseteq Ids' /\ Ids' = Ids \cup {Len(outbox) + 1}
         /\ outbox'[Len(outbox) + 1] = type
         /\ \A id \in Ids : outbox'[id] = outbox[id] /\ outbox[id] \in EventType
         /\ topic' \in Seq(1..Len(outbox'))
         /\ Len(topic) \in Nat
         /\ \A i \in 1..Len(topic) : topic[i] \in Ids /\ Type(i)' = Type(i)
<1>1. /\ outbox' \in Seq(EventType)
      /\ Len(outbox) \in Nat /\ Len(outbox') = Len(outbox) + 1
      /\ outbox'[Len(outbox) + 1] = type
      /\ \A id \in Ids : outbox'[id] = outbox[id] /\ outbox[id] \in EventType
  BY AppendFacts DEF TypeOK, Record, Ids
<1>2. Ids \subseteq Ids' /\ Ids' = Ids \cup {Len(outbox) + 1}
  BY <1>1 DEF Ids
<1>3. topic' \in Seq(1..Len(outbox'))
  BY <1>2, Widen DEF TypeOK, Ids
<1>4. \A i \in 1..Len(topic) : topic[i] \in Ids /\ Type(i)' = Type(i)
  <2>1. \A i \in 1..Len(topic) : topic[i] \in Ids
    BY TypeFacts
  <2> QED BY <1>1, <2>1 DEF Type
<1> QED BY <1>1, <1>2, <1>3, <1>4 DEF TypeOK

(* The order and the first event are recorded together.                    *)
LEMMA CreateInv == IInv /\ CreateOrder => IInv'
<1> SUFFICES ASSUME IInv, CreateOrder PROVE IInv'
  OBVIOUS
<1>1. TypeOK /\ order = "absent" /\ Len(outbox) = 0 /\ Ids = {}
  BY DEF IInv, CreateOrder, InsertOrder, Origin, Ids
<1>2. /\ order' = "CREATED" /\ Record("OrderCreated")
      /\ UNCHANGED <<payments, tickets, topic, inbox, dropped, refunds>>
  BY DEF CreateOrder, InsertOrder
<1>3. "OrderCreated" \in EventType
  BY DEF EventType
<1>4. /\ outbox' \in Seq(EventType) /\ Len(outbox') = 1
      /\ Ids' = {1} /\ outbox'[1] = "OrderCreated"
      /\ topic' \in Seq(1..Len(outbox')) /\ Len(topic) \in Nat
      /\ \A i \in 1..Len(topic) : topic[i] \in Ids
  BY <1>1, <1>2, <1>3, RecordFacts
<1>5. /\ Len(topic) = 0
      /\ \A s \in Service : inbox[s] = {}
  BY <1>1, <1>4 DEF TypeOK, Ids
<1>6. TypeOK'
  BY <1>1, <1>2, <1>4, <1>5 DEF TypeOK, OrderStatus
<1>7. Handled' /\ Origin' /\ Rows' /\ Causes' /\ Status'
  BY <1>1, <1>2, <1>4, <1>5
     DEF IInv, Handled, Origin, Rows, Causes, Status, Has, InTopic, Service
<1> QED BY <1>6, <1>7 DEF IInv

(* A refund changes the status and records an event that no service handles. *)
LEMMA RefundInv == IInv /\ RefundOrder => IInv'
<1> SUFFICES ASSUME IInv, RefundOrder PROVE IInv'
  OBVIOUS
<1>1. /\ TypeOK /\ order # "absent" /\ order' = "REFUND_PENDING"
      /\ refunds < MaxRefunds /\ refunds' = refunds + 1
      /\ Record("RefundInitiated")
      /\ UNCHANGED <<payments, tickets, topic, inbox, dropped>>
  BY DEF IInv, RefundOrder, UpdateStatus
<1>2. "RefundInitiated" \in EventType
  BY DEF EventType
<1>3. /\ outbox' \in Seq(EventType)
      /\ Len(outbox) \in Nat /\ Len(outbox') = Len(outbox) + 1
      /\ Ids \subseteq Ids' /\ Ids' = Ids \cup {Len(outbox) + 1}
      /\ outbox'[Len(outbox) + 1] = "RefundInitiated"
      /\ \A id \in Ids : outbox'[id] = outbox[id]
      /\ topic' \in Seq(1..Len(outbox')) /\ Len(topic) \in Nat
      /\ \A i \in 1..Len(topic) : topic[i] \in Ids /\ Type(i)' = Type(i)
  BY <1>1, <1>2, RecordFacts
<1>4. \A s \in Service : inbox[s] \subseteq Ids
  BY <1>1 DEF TypeOK, Ids
<1>5. TypeOK'
  <2>1. inbox' \in [Service -> SUBSET (1..Len(outbox'))]
    BY <1>1, <1>3, <1>4 DEF TypeOK, Ids
  <2>2. refunds' \in 0..MaxRefunds
    BY <1>1, BoundsAssumption DEF TypeOK
  <2> QED BY <1>1, <1>3, <2>1, <2>2 DEF TypeOK, OrderStatus
<1>6. Handled'
  BY <1>1, <1>3, <1>4 DEF IInv, Handled
<1>7. Origin'
  BY <1>1, <1>3 DEF IInv, Origin, Ids
<1>8. \A type \in {"PaymentAuthorized", "TicketIssued"} : Has(Ids, type)' = Has(Ids, type)
  BY <1>3 DEF Has
<1>9. Rows'
  BY <1>1, <1>3, <1>8 DEF IInv, Rows
<1>10. Causes'
  BY <1>1, <1>3, <1>8 DEF IInv, Causes, InTopic
<1>11. Status'
  <2>1. \A type : Has(inbox["order-service"], type)' = Has(inbox["order-service"], type)
    BY <1>1, <1>3, <1>4 DEF Has, Service
  <2>2. Has(Ids, "RefundInitiated")'
    BY <1>3 DEF Has
  <2>3. refunds' > 0
    BY <1>1 DEF TypeOK
  <2> QED BY <1>1, <2>1, <2>2, <2>3 DEF IInv, Status
<1> QED BY <1>5, <1>6, <1>7, <1>9, <1>10, <1>11 DEF IInv

(* A first copy is of a recorded event, so it comes after its cause.       *)
LEMMA PublishInv == ASSUME IInv, NEW id \in Ids, Publish(id) PROVE IInv'
<1>1. /\ TypeOK /\ topic' = Append(topic, id)
      /\ UNCHANGED <<order, payments, tickets, outbox, inbox, dropped, refunds>>
      /\ Ids' = Ids
  BY DEF IInv, Publish, Ids
<1>2. /\ topic' \in Seq(1..Len(outbox))
      /\ Len(topic) \in Nat /\ Len(topic') = Len(topic) + 1
      /\ topic'[Len(topic) + 1] = id
      /\ \A i \in 1..Len(topic) : topic'[i] = topic[i]
  BY <1>1, AppendFacts DEF TypeOK, Ids
<1>3. \A i \in 1..Len(topic) : Type(i)' = Type(i)
  BY <1>1, <1>2 DEF Type
<1>4. TypeOK'
  <2>1. 1..Len(topic) \subseteq 1..Len(topic')
    BY <1>2
  <2>2. dropped' \in [Service -> SUBSET (1..Len(topic'))]
    BY <1>1, <2>1 DEF TypeOK
  <2> QED BY <1>1, <1>2, <2>2 DEF TypeOK
<1>5. Handled' /\ Origin' /\ Rows' /\ Status'
  BY <1>1 DEF IInv, Handled, Origin, Rows, Status, Has
<1>6. Causes'
  <2>1. \A type : InTopic(Len(topic), type) => InTopic(Len(topic), type)'
    BY <1>2, <1>3 DEF InTopic
  <2>2. \A n \in 0..Len(topic) : \A type : InTopic(n, type) => InTopic(n, type)'
    BY <1>2, <1>3 DEF InTopic
  <2>3. ASSUME NEW j \in 1..Len(topic'), Type(j)' = "TicketIssued"
        PROVE  InTopic(j - 1, "PaymentAuthorized")'
    <3>1. CASE j \in 1..Len(topic)
      <4>1. Type(j) = "TicketIssued" /\ j - 1 \in 0..Len(topic)
        BY <1>2, <1>3, <2>3, <3>1
      <4>2. InTopic(j - 1, "PaymentAuthorized")
        BY <3>1, <4>1 DEF IInv, Causes
      <4> QED BY <2>2, <4>1, <4>2
    <3>2. CASE j = Len(topic) + 1
      <4>1. outbox[id] = "TicketIssued"
        BY <1>1, <1>2, <2>3, <3>2 DEF Type
      <4>2. InTopic(Len(topic), "PaymentAuthorized")
        BY <4>1 DEF IInv, Causes, Has
      <4>3. j - 1 = Len(topic) /\ Len(topic) \in 0..Len(topic)
        BY <1>2, <3>2
      <4> QED BY <2>2, <4>2, <4>3
    <3> QED BY <1>2, <2>3, <3>1, <3>2
  <2>4. (Has(Ids, "TicketIssued") => InTopic(Len(topic), "PaymentAuthorized"))'
    <3>1. Has(Ids, "TicketIssued")' => InTopic(Len(topic), "PaymentAuthorized")
      BY <1>1 DEF IInv, Causes, Has
    <3> QED BY <2>1, <3>1
  <2> QED BY <2>3, <2>4 DEF Causes
<1> QED BY <1>4, <1>5, <1>6 DEF IInv

(* What the service that processes position i for the first time knows.    *)
LEMMA SaveFacts ==
  ASSUME IInv, NEW s \in Service, NEW i \in 1..Len(topic), SaveNew(s, i)
  PROVE  /\ topic[i] \in Ids /\ outbox[topic[i]] = Type(i)
         /\ Type(i) \in Handles(s) /\ topic[i] \notin inbox[s]
         /\ inbox \in [Service -> SUBSET Ids]
         /\ inbox' = [inbox EXCEPT ![s] = @ \cup {topic[i]}]
         /\ inbox'[s] = inbox[s] \cup {topic[i]}
         /\ \A t \in Service : t # s => inbox'[t] = inbox[t]
         /\ order # "absent"
<1>1. topic[i] \in Ids /\ Len(outbox) \in Nat
  BY TypeFacts DEF IInv
<1>2. order # "absent"
  BY <1>1 DEF IInv, Origin, Ids
<1> QED BY <1>1, <1>2 DEF IInv, TypeOK, SaveNew, Due, Ids, Type

(* The only OrderCreated has not been processed before: the payment is the
   first, and so is its event.                                             *)
LEMMA AuthorizeInv ==
  ASSUME IInv, NEW i \in 1..Len(topic), AuthorizePayment(i)
  PROVE  IInv'
<1> DEFINE P == "payment-service"
<1>1. /\ P \in Service /\ SaveNew(P, i) /\ TypeOK
      /\ payments' = 1 /\ Record("PaymentAuthorized")
      /\ UNCHANGED <<order, tickets, topic, dropped, refunds>>
  BY DEF IInv, AuthorizePayment, InsertPayment, Service
<1>2. "PaymentAuthorized" \in EventType
  BY DEF EventType
<1>3. /\ outbox' \in Seq(EventType)
      /\ Len(outbox) \in Nat /\ Len(outbox') = Len(outbox) + 1
      /\ Ids \subseteq Ids' /\ Ids' = Ids \cup {Len(outbox) + 1}
      /\ outbox'[Len(outbox) + 1] = "PaymentAuthorized"
      /\ \A id \in Ids : outbox'[id] = outbox[id]
      /\ topic' \in Seq(1..Len(outbox')) /\ Len(topic) \in Nat
      /\ \A k \in 1..Len(topic) : topic[k] \in Ids /\ Type(k)' = Type(k)
  BY <1>1, <1>2, RecordFacts
<1>4. /\ topic[i] \in Ids /\ outbox[topic[i]] = "OrderCreated"
      /\ topic[i] \notin inbox[P]
      /\ inbox \in [Service -> SUBSET Ids]
      /\ inbox' = [inbox EXCEPT ![P] = @ \cup {topic[i]}]
      /\ inbox'[P] = inbox[P] \cup {topic[i]}
      /\ \A t \in Service : t # P => inbox'[t] = inbox[t]
      /\ order # "absent"
  BY <1>1, SaveFacts DEF Handles
<1>5. topic[i] = 1
  BY <1>4 DEF IInv, Origin
<1>6. payments # 1 /\ ~Has(Ids, "PaymentAuthorized")
  BY <1>4, <1>5 DEF IInv, Rows
<1>7. ~Has(Ids, "TicketIssued") /\ tickets # 1 /\ inbox["ticket-service"] = {}
  <2>1. ~InTopic(Len(topic), "PaymentAuthorized")
    BY <1>3, <1>6 DEF InTopic, Has, Type
  <2> QED BY <2>1 DEF IInv, Causes, Rows
<1>8. TypeOK'
  <2>1. inbox' \in [Service -> SUBSET (1..Len(outbox'))]
    BY <1>3, <1>4 DEF Ids
  <2> QED BY <1>1, <1>3, <2>1 DEF TypeOK
<1>9. Handled'
  <2>1. \A t \in Service : \A id \in inbox'[t] :
          outbox'[id] = outbox[id] /\ (id \in inbox[t] \/ (t = P /\ id = topic[i]))
    BY <1>3, <1>4
  <2>2. "OrderCreated" \in Handles(P)
    BY DEF Handles
  <2> QED BY <1>4, <2>1, <2>2 DEF IInv, Handled
<1>10. Origin'
  <2>1. 1 \in Ids /\ Len(outbox) > 0 /\ Len(outbox') > 0 /\ order' # "absent"
    BY <1>1, <1>3, <1>4 DEF Ids
  <2>2. outbox'[1] = "OrderCreated"
    BY <1>3, <2>1 DEF IInv, Origin
  <2>3. \A id \in Ids' : id \in Ids \/ outbox'[id] = "PaymentAuthorized"
    BY <1>3
  <2>4. \A id \in Ids' : outbox'[id] # "PaymentFailed"
                         /\ (outbox'[id] = "OrderCreated" => id = 1)
    BY <1>3, <2>3 DEF IInv, Origin
  <2> QED BY <2>1, <2>2, <2>4, <1>3 DEF Origin
<1>11. Has(Ids, "PaymentAuthorized")' /\ ~Has(Ids, "TicketIssued")'
  BY <1>3, <1>7 DEF Has
<1>12. Rows'
  <2>1. "ticket-service" \in Service /\ "ticket-service" # P
    BY DEF Service
  <2>2. inbox'["ticket-service"] = {}
    BY <1>4, <1>7, <2>1
  <2>3. \A a \in Ids' : outbox'[a] = "PaymentAuthorized" => a = Len(outbox) + 1
    BY <1>3, <1>6 DEF Has
  <2>4. \A a \in Ids' : outbox'[a] # "TicketIssued"
    BY <1>3, <1>7 DEF Has
  <2>5. payments' = 1 /\ tickets' # 1 /\ 1 \in inbox'[P]
    BY <1>1, <1>4, <1>5, <1>7
  <2> QED BY <1>11, <2>2, <2>3, <2>4, <2>5 DEF Rows
<1>13. Causes'
  BY <1>1, <1>3, <1>11 DEF IInv, Causes, InTopic
<1>14. Status'
  <2>1. \A type : Has(inbox["order-service"], type)' = Has(inbox["order-service"], type)
    BY <1>3, <1>4 DEF Has, Service
  <2>2. Has(Ids, "RefundInitiated") => Has(Ids, "RefundInitiated")'
    BY <1>3 DEF Has
  <2> QED BY <1>1, <2>1, <2>2 DEF IInv, Status
<1> QED BY <1>8, <1>9, <1>10, <1>12, <1>13, <1>14 DEF IInv

(* The only PaymentAuthorized has not been processed before: the ticket is the
   first, and its event comes after a copy of the PaymentAuthorized.       *)
LEMMA IssueInv ==
  ASSUME IInv, NEW i \in 1..Len(topic), IssueTicket(i)
  PROVE  IInv'
<1> DEFINE T == "ticket-service"
<1>1. /\ T \in Service /\ SaveNew(T, i) /\ TypeOK
      /\ tickets' = 1 /\ Record("TicketIssued")
      /\ UNCHANGED <<order, payments, topic, dropped, refunds>>
  BY DEF IInv, IssueTicket, InsertTicket, Service
<1>2. "TicketIssued" \in EventType
  BY DEF EventType
<1>3. /\ outbox' \in Seq(EventType)
      /\ Len(outbox) \in Nat /\ Len(outbox') = Len(outbox) + 1
      /\ Ids \subseteq Ids' /\ Ids' = Ids \cup {Len(outbox) + 1}
      /\ outbox'[Len(outbox) + 1] = "TicketIssued"
      /\ \A id \in Ids : outbox'[id] = outbox[id]
      /\ topic' \in Seq(1..Len(outbox')) /\ Len(topic) \in Nat
      /\ \A k \in 1..Len(topic) : topic[k] \in Ids /\ Type(k)' = Type(k)
  BY <1>1, <1>2, RecordFacts
<1>4. /\ topic[i] \in Ids /\ outbox[topic[i]] = "PaymentAuthorized"
      /\ Type(i) = "PaymentAuthorized" /\ topic[i] \notin inbox[T]
      /\ inbox \in [Service -> SUBSET Ids]
      /\ inbox' = [inbox EXCEPT ![T] = @ \cup {topic[i]}]
      /\ inbox'[T] = inbox[T] \cup {topic[i]}
      /\ \A t \in Service : t # T => inbox'[t] = inbox[t]
      /\ order # "absent"
  BY <1>1, SaveFacts DEF Handles
<1>5. inbox[T] = {}
  <2>1. \A id \in inbox[T] : id \in Ids /\ outbox[id] = "PaymentAuthorized"
    BY <1>1, <1>4 DEF IInv, Handled, Handles
  <2> QED BY <1>4, <2>1 DEF IInv, Rows
<1>6. tickets # 1 /\ ~Has(Ids, "TicketIssued")
  BY <1>5 DEF IInv, Rows
<1>7. InTopic(Len(topic), "PaymentAuthorized")
  BY <1>4 DEF InTopic
<1>8. TypeOK'
  <2>1. inbox' \in [Service -> SUBSET (1..Len(outbox'))]
    BY <1>3, <1>4 DEF Ids
  <2> QED BY <1>1, <1>3, <2>1 DEF TypeOK
<1>9. Handled'
  <2>1. \A t \in Service : \A id \in inbox'[t] :
          outbox'[id] = outbox[id] /\ (id \in inbox[t] \/ (t = T /\ id = topic[i]))
    BY <1>3, <1>4
  <2>2. "PaymentAuthorized" \in Handles(T)
    BY DEF Handles
  <2> QED BY <1>4, <2>1, <2>2 DEF IInv, Handled
<1>10. Origin'
  <2>1. 1 \in Ids /\ Len(outbox) > 0 /\ Len(outbox') > 0 /\ order' # "absent"
    BY <1>1, <1>3, <1>4 DEF Ids
  <2>2. outbox'[1] = "OrderCreated"
    BY <1>3, <2>1 DEF IInv, Origin
  <2>3. \A id \in Ids' : id \in Ids \/ outbox'[id] = "TicketIssued"
    BY <1>3
  <2>4. \A id \in Ids' : outbox'[id] # "PaymentFailed"
                         /\ (outbox'[id] = "OrderCreated" => id = 1)
    BY <1>3, <2>3 DEF IInv, Origin
  <2> QED BY <2>1, <2>2, <2>4, <1>3 DEF Origin
<1>11. /\ Has(Ids, "TicketIssued")'
       /\ Has(Ids, "PaymentAuthorized")' = Has(Ids, "PaymentAuthorized")
  BY <1>3 DEF Has
<1>12. Rows'
  <2>1. "payment-service" \in Service /\ "payment-service" # T
    BY DEF Service
  <2>2. inbox'["payment-service"] = inbox["payment-service"]
    BY <1>4, <2>1
  <2>3. \A a \in Ids' : outbox'[a] = "TicketIssued" => a = Len(outbox) + 1
    BY <1>3, <1>6 DEF Has
  <2>4. \A a \in Ids' : outbox'[a] = "PaymentAuthorized" =>
                           a \in Ids /\ outbox[a] = "PaymentAuthorized"
    BY <1>3
  <2>5. tickets' = 1 /\ inbox'[T] # {} /\ payments' = payments
    BY <1>1, <1>4
  <2>6. \A a, b \in Ids' :
          outbox'[a] = "PaymentAuthorized" /\ outbox'[b] = "PaymentAuthorized" => a = b
    BY <2>4 DEF IInv, Rows
  <2>7. \A a, b \in Ids' :
          outbox'[a] = "TicketIssued" /\ outbox'[b] = "TicketIssued" => a = b
    BY <2>3
  <2>8. payments = 1 <=> 1 \in inbox["payment-service"]
    BY DEF IInv, Rows
  <2>9. payments = 1 <=> Has(Ids, "PaymentAuthorized")
    BY DEF IInv, Rows
  <2> QED BY <1>11, <2>2, <2>5, <2>6, <2>7, <2>8, <2>9 DEF Rows
<1>13. Causes'
  <2>1. \A n \in 0..Len(topic) : \A type : InTopic(n, type)' = InTopic(n, type)
    BY <1>1, <1>3 DEF InTopic
  <2>2. InTopic(Len(topic), "PaymentAuthorized")'
    BY <1>1, <1>3, <1>7 DEF InTopic
  <2>3. ASSUME NEW j \in 1..Len(topic), Type(j) = "TicketIssued" PROVE FALSE
    BY <1>3, <1>6, <2>3 DEF Has, Type
  <2> QED BY <1>1, <1>3, <2>2, <2>3 DEF Causes
<1>14. Status'
  <2>1. \A type : Has(inbox["order-service"], type)' = Has(inbox["order-service"], type)
    BY <1>3, <1>4 DEF Has, Service
  <2>2. Has(Ids, "RefundInitiated") => Has(Ids, "RefundInitiated")'
    BY <1>3 DEF Has
  <2> QED BY <1>1, <2>1, <2>2 DEF IInv, Status
<1> QED BY <1>8, <1>9, <1>10, <1>12, <1>13, <1>14 DEF IInv

(* order-service comes to a TicketIssued after a copy of the PaymentAuthorized,
   and unless it has given one up it has processed that one.               *)
LEMMA UpdateInv ==
  ASSUME IInv, NEW i \in 1..Len(topic), UpdateOrder(i)
  PROVE  IInv'
<1> DEFINE O == "order-service"
<1>1. /\ O \in Service /\ SaveNew(O, i) /\ TypeOK
      /\ order' = StatusAfter(Type(i))
      /\ UNCHANGED <<payments, tickets, outbox, topic, dropped, refunds>>
      /\ Ids' = Ids
  BY DEF IInv, UpdateOrder, UpdateStatus, Service, Ids
<1>2. /\ topic[i] \in Ids /\ outbox[topic[i]] = Type(i)
      /\ Type(i) \in Handles(O) /\ topic[i] \notin inbox[O]
      /\ inbox \in [Service -> SUBSET Ids]
      /\ inbox' = [inbox EXCEPT ![O] = @ \cup {topic[i]}]
      /\ inbox'[O] = inbox[O] \cup {topic[i]}
      /\ \A t \in Service : t # O => inbox'[t] = inbox[t]
      /\ order # "absent"
  BY <1>1, SaveFacts
<1>3. \/ Type(i) = "PaymentAuthorized" /\ order' = "PAYMENT_AUTHORIZED"
      \/ Type(i) = "TicketIssued" /\ order' = "TICKET_ISSUED"
  <2>1. Type(i) \in {"PaymentAuthorized", "TicketIssued"}
    BY <1>2 DEF Handles, IInv, Origin
  <2> QED BY <1>1, <2>1 DEF StatusAfter
<1>4. TypeOK'
  <2>1. inbox' \in [Service -> SUBSET (1..Len(outbox'))]
    BY <1>1, <1>2 DEF Ids
  <2>2. order' \in OrderStatus
    BY <1>3 DEF OrderStatus
  <2> QED BY <1>1, <2>1, <2>2 DEF TypeOK
<1>5. Handled'
  <2>1. \A t \in Service : \A id \in inbox'[t] :
          id \in inbox[t] \/ (t = O /\ id = topic[i])
    BY <1>2
  <2> QED BY <1>1, <1>2, <2>1 DEF IInv, Handled
<1>6. Origin'
  BY <1>1, <1>2, <1>3 DEF IInv, Origin
<1>7. Rows'
  <2>1. /\ inbox'["payment-service"] = inbox["payment-service"]
        /\ inbox'["ticket-service"] = inbox["ticket-service"]
    BY <1>2 DEF Service
  <2> QED BY <1>1, <2>1 DEF IInv, Rows, Has
<1>8. Causes'
  BY <1>1 DEF IInv, Causes, Has, InTopic, Type
<1>9. Status'
  <2>1. order' = "PAYMENT_AUTHORIZED" => Has(inbox[O], "PaymentAuthorized")'
    BY <1>1, <1>2, <1>3 DEF Has
  <2>2. order' = "TICKET_ISSUED" => Has(inbox[O], "TicketIssued")'
    BY <1>1, <1>2, <1>3 DEF Has
  <2>3. ASSUME dropped[O] = {}, Has(inbox[O], "TicketIssued")'
        PROVE  Has(inbox[O], "PaymentAuthorized")'
    <3>1. CASE Has(inbox[O], "TicketIssued")
      <4>1. Has(inbox[O], "PaymentAuthorized")
        BY <2>3, <3>1 DEF IInv, Status
      <4> QED BY <1>1, <1>2, <4>1 DEF Has
    <3>2. CASE Type(i) = "TicketIssued"
      <4>1. InTopic(i - 1, "PaymentAuthorized")
        BY <3>2 DEF IInv, Causes
      <4>2. PICK k \in 1..i-1 : Type(k) = "PaymentAuthorized"
        BY <4>1 DEF InTopic
      <4>3. Done(O, k)
        BY <1>1 DEF SaveNew, Due, InOrder
      <4>4. topic[k] \in inbox[O]
        BY <2>3, <4>2, <4>3 DEF Done, Handles
      <4>5. outbox[topic[k]] = "PaymentAuthorized"
        BY <4>2 DEF Type
      <4> QED BY <1>1, <1>2, <4>4, <4>5 DEF Has
    <3> QED BY <1>1, <1>2, <2>3, <3>1, <3>2 DEF Has
  <2> QED BY <1>1, <1>3, <2>1, <2>2, <2>3 DEF Status
<1> QED BY <1>4, <1>5, <1>6, <1>7, <1>8, <1>9 DEF IInv

(* A message given up changes nothing but the promise of the order's status. *)
LEMMA GiveUpInv ==
  ASSUME IInv, NEW s \in Service, NEW i \in 1..Len(topic), GiveUp(s, i)
  PROVE  IInv'
<1>1. /\ TypeOK /\ dropped' = [dropped EXCEPT ![s] = @ \cup {i}]
      /\ UNCHANGED <<order, payments, tickets, outbox, topic, inbox, refunds>>
      /\ Ids' = Ids
  BY DEF IInv, GiveUp, Ids
<1>2. TypeOK'
  BY <1>1 DEF TypeOK
<1>3. Handled' /\ Origin' /\ Rows' /\ Causes'
  BY <1>1 DEF IInv, Handled, Origin, Rows, Causes, Has, InTopic, Type
<1>4. dropped'["order-service"] = {} => dropped["order-service"] = {}
  BY <1>1 DEF TypeOK, Service
<1>5. Status'
  BY <1>1, <1>4 DEF IInv, Status, Has
<1> QED BY <1>2, <1>3, <1>5 DEF IInv

(* Each transaction of the saga keeps the invariant.                       *)
LEMMA NextInv == IInv /\ [Next]_vars => IInv'
<1> SUFFICES ASSUME IInv, [Next]_vars PROVE IInv'
  OBVIOUS
<1>1. CASE Api
  BY <1>1, CreateInv, RefundInv DEF Api
<1>2. CASE Relay
  BY <1>2, PublishInv DEF Relay, Ids
<1>3. CASE Services
  BY <1>3, AuthorizeInv, IssueInv, UpdateInv, GiveUpInv DEF Services
<1>4. CASE UNCHANGED vars
  BY <1>4 DEF vars, IInv, TypeOK, Handled, Origin, Rows, Causes, Status,
              Has, Ids, InTopic, Type
<1> QED BY <1>1, <1>2, <1>3, <1>4 DEF Next

(* A row there is at most one of is there exactly when its only event is.  *)
LEMMA OneEvent ==
  ASSUME NEW type, NEW n \in 0..1,
         \A a, b \in Ids : outbox[a] = type /\ outbox[b] = type => a = b,
         n = 1 <=> Has(Ids, type)
  PROVE  Cardinality(Recorded(type)) = n
<1>1. Recorded(type) = {id \in Ids : outbox[id] = type}
  BY DEF Recorded, Ids
<1>2. CASE n = 0
  <2>1. Recorded(type) = {}
    BY <1>1, <1>2 DEF Has
  <2> QED BY <1>2, <2>1, FS_EmptySet
<1>3. CASE n = 1
  <2>1. PICK id \in Ids : outbox[id] = type
    BY <1>3 DEF Has
  <2>2. Recorded(type) = {id}
    BY <1>1, <2>1
  <2> QED BY <1>3, <2>2, FS_Singleton
<1> QED BY <1>2, <1>3

(* The rows, the events and the inboxes of an order stay well typed whatever
   the three services, the API and the relay do in whatever order.         *)
THEOREM TypeCorrect == Spec => []TypeOK
<1>1. IInv => TypeOK
  BY DEF IInv
<1> QED BY <1>1, InitInv, NextInv, PTL DEF Spec

(* Payment and ticket have one event each, for any number of copies in the
   topic: an inbox entry and the row it stands for are committed together. *)
THEOREM RowsHaveOneEvent == Spec => []OneEventPerRow
<1>1. IInv => OneEventPerRow
  BY OneEvent DEF IInv, TypeOK, Rows, OneEventPerRow
<1> QED BY <1>1, InitInv, NextInv, PTL DEF Spec

(* The status UpdateStatus writes is backed by the rows of the other services,
   for any number of copies and of messages given up.                      *)
THEOREM StatusHasRows == Spec => []StatusIsBacked
<1>1. ASSUME IInv PROVE StatusIsBacked
  <2>1. ASSUME order = "TICKET_ISSUED" PROVE payments = 1 /\ tickets = 1
    <3>1. PICK id \in inbox["order-service"] : outbox[id] = "TicketIssued"
      BY <1>1, <2>1 DEF IInv, Status, Has
    <3>2. id \in Ids
      BY <1>1 DEF IInv, TypeOK, Ids, Service
    <3>3. tickets = 1 /\ inbox["ticket-service"] # {}
      BY <1>1, <3>1, <3>2 DEF IInv, Rows, Has
    <3>4. PICK p \in inbox["ticket-service"] : TRUE
      BY <3>3
    <3>5. p \in Ids /\ outbox[p] = "PaymentAuthorized"
      BY <1>1 DEF IInv, TypeOK, Handled, Handles, Ids, Service
    <3> QED BY <1>1, <3>3, <3>5 DEF IInv, Rows, Has
  <2>2. ASSUME order = "PAYMENT_AUTHORIZED" PROVE payments = 1
    <3>1. PICK id \in inbox["order-service"] : outbox[id] = "PaymentAuthorized"
      BY <1>1, <2>2 DEF IInv, Status, Has
    <3>2. id \in Ids
      BY <1>1 DEF IInv, TypeOK, Ids, Service
    <3> QED BY <1>1, <3>1, <3>2 DEF IInv, Rows, Has
  <2> QED BY <2>1, <2>2 DEF StatusIsBacked
<1> QED BY <1>1, InitInv, NextInv, PTL DEF Spec

(* order-service sets a status only past all that it has set before, for any
   number of copies and of refunds, asked for midway or afterwards, until it
   gives a message up.                                                     *)
THEOREM StatusOnlyAdvances == Spec => StatusAdvances
<1> DEFINE Ok ==
      /\ inbox'["order-service"] # inbox["order-service"]
      /\ dropped["order-service"] = {}
      => \A s \in Given : Rank(s) < Rank(order')
<1>1. ASSUME IInv, [Next]_vars PROVE [Ok]_vars
  <2> SUFFICES ASSUME inbox'["order-service"] # inbox["order-service"],
                      dropped["order-service"] = {}, Next,
                      NEW id \in inbox["order-service"]
               PROVE  Rank(StatusAfter(outbox[id])) < Rank(order')
    BY <1>1 DEF Given
  <2>1. PICK i \in 1..Len(topic) : UpdateOrder(i)
    <3>1. ASSUME NEW i \in 1..Len(topic), AuthorizePayment(i) \/ IssueTicket(i)
          PROVE  inbox'["order-service"] = inbox["order-service"]
      BY <1>1, <3>1 DEF AuthorizePayment, IssueTicket, SaveNew, IInv, TypeOK, Service
    <3>2. ASSUME NEW s \in Service, NEW i \in 1..Len(topic), GiveUp(s, i)
          PROVE  inbox' = inbox
      BY <3>2 DEF GiveUp
    <3>3. Relay \/ Api => inbox' = inbox
      BY DEF Relay, Publish, Api, CreateOrder, RefundOrder
    <3> QED BY <3>1, <3>2, <3>3 DEF Next, Services
  <2>2. order' = StatusAfter(Type(i)) /\ SaveNew("order-service", i)
    BY <2>1 DEF UpdateOrder, UpdateStatus
  <2>3. /\ topic[i] \in Ids /\ outbox[topic[i]] = Type(i)
        /\ Type(i) \in Handles("order-service")
        /\ topic[i] \notin inbox["order-service"]
        /\ inbox["order-service"] \subseteq Ids
    BY <1>1, <2>2, SaveFacts DEF Service
  <2>4. outbox[id] \in {"PaymentAuthorized", "TicketIssued"}
    BY <1>1, <2>3 DEF IInv, Handled, Handles, Origin, Service
  <2>5. CASE Type(i) = "PaymentAuthorized"
    <3>1. ~Has(inbox["order-service"], "PaymentAuthorized")
      BY <1>1, <2>3, <2>5 DEF IInv, Rows, Has
    <3>2. ~Has(inbox["order-service"], "TicketIssued")
      BY <1>1, <3>1 DEF IInv, Status
    <3> QED BY <2>4, <3>1, <3>2 DEF Has
  <2>6. CASE Type(i) = "TicketIssued"
    <3>1. outbox[id] = "PaymentAuthorized"
      BY <1>1, <2>3, <2>4, <2>6 DEF IInv, Rows
    <3> QED BY <2>2, <2>6, <3>1 DEF StatusAfter, Rank
  <2> QED BY <1>1, <2>3, <2>5, <2>6 DEF Handles, IInv, Origin
<1>2. Spec => [][Ok]_vars
  BY <1>1, InitInv, NextInv, PTL DEF Spec
<1> QED BY <1>2 DEF StatusAdvances

-------------------------------------------------------------------------------

(* The service that records a PaymentAuthorized is the first to do so, and the
   ticket's turn has not come.                                             *)
LEMMA FirstPayment ==
  ASSUME IInv, NEW i \in 1..Len(topic), AuthorizePayment(i)
  PROVE  /\ topic[i] = 1 /\ payments = 0 /\ tickets = 0
         /\ ~Has(Ids, "PaymentAuthorized") /\ ~Has(Ids, "TicketIssued")
<1>1. SaveNew("payment-service", i) /\ "payment-service" \in Service
  BY DEF AuthorizePayment, Service
<1>2. /\ topic[i] \in Ids /\ outbox[topic[i]] = "OrderCreated"
      /\ topic[i] \notin inbox["payment-service"]
  BY <1>1, SaveFacts DEF Handles
<1>3. topic[i] = 1
  BY <1>2 DEF IInv, Origin
<1>4. payments # 1 /\ ~Has(Ids, "PaymentAuthorized")
  BY <1>2, <1>3 DEF IInv, Rows
<1>5. ~InTopic(Len(topic), "PaymentAuthorized")
  BY <1>4, TypeFacts DEF IInv, InTopic, Has, Type
<1>6. ~Has(Ids, "TicketIssued") /\ tickets # 1
  BY <1>5 DEF IInv, Causes, Rows
<1> QED BY <1>3, <1>4, <1>6 DEF IInv, TypeOK

(* The service that records a TicketIssued is the first to do so, for the
   PaymentAuthorized of a payment that is there.                           *)
LEMMA FirstTicket ==
  ASSUME IInv, NEW i \in 1..Len(topic), IssueTicket(i)
  PROVE  /\ tickets = 0 /\ payments = 1 /\ ~Has(Ids, "TicketIssued")
         /\ \A id \in Ids : outbox[id] = "PaymentAuthorized" => id = topic[i]
<1>1. SaveNew("ticket-service", i) /\ "ticket-service" \in Service
  BY DEF IssueTicket, Service
<1>2. /\ topic[i] \in Ids /\ outbox[topic[i]] = "PaymentAuthorized"
      /\ topic[i] \notin inbox["ticket-service"]
      /\ inbox["ticket-service"] \subseteq Ids
  BY <1>1, SaveFacts DEF Handles
<1>3. \A id \in inbox["ticket-service"] : outbox[id] = "PaymentAuthorized"
  BY <1>1 DEF IInv, Handled, Handles
<1>4. inbox["ticket-service"] = {}
  BY <1>2, <1>3 DEF IInv, Rows
<1>5. tickets # 1 /\ payments = 1 /\ ~Has(Ids, "TicketIssued")
  BY <1>2, <1>4 DEF IInv, Rows, Has
<1> QED BY <1>2, <1>5 DEF IInv, TypeOK, Rows

(* order-service updates the status for an event that it has not processed:
   a PaymentAuthorized or a TicketIssued, each of which there is one of.   *)
LEMMA FirstUpdate ==
  ASSUME IInv, NEW i \in 1..Len(topic), UpdateOrder(i)
  PROVE  /\ Type(i) \in {"PaymentAuthorized", "TicketIssued"}
         /\ topic[i] \in Recorded(Type(i)) \ inbox["order-service"]
         /\ ~Has(inbox["order-service"], Type(i))
         /\ order' = StatusAfter(Type(i))
<1>1. /\ SaveNew("order-service", i) /\ "order-service" \in Service
      /\ order' = StatusAfter(Type(i))
  BY DEF UpdateOrder, UpdateStatus, Service
<1>2. /\ topic[i] \in Ids /\ outbox[topic[i]] = Type(i)
      /\ Type(i) \in Handles("order-service")
      /\ topic[i] \notin inbox["order-service"]
      /\ inbox["order-service"] \subseteq Ids
  BY <1>1, SaveFacts
<1>3. Type(i) \in {"PaymentAuthorized", "TicketIssued"}
  BY <1>2 DEF Handles, IInv, Origin
<1>4. ~Has(inbox["order-service"], Type(i))
  BY <1>2, <1>3 DEF IInv, Rows, Has
<1> QED BY <1>1, <1>2, <1>3, <1>4 DEF Recorded, Ids

(* Completion needs both events, and there is only one of each: what comes
   after that are copies, and refunds.                                     *)
THEOREM CompletionStays == Spec => CompletionIsFinal
<1> DEFINE Ok == Finished => Finished' /\ (order' = order \/ refunds' > refunds)
<1>1. ASSUME IInv, [Next]_vars PROVE [Ok]_vars
  <2> SUFFICES ASSUME Finished, Next
               PROVE  Finished' /\ (order' = order \/ refunds' > refunds)
    BY <1>1
  <2>1. CASE UNCHANGED <<order, tickets, outbox, inbox>>
    BY <2>1 DEF Finished, Recorded
  <2>2. CASE CreateOrder
    BY <2>2 DEF CreateOrder, InsertOrder, Finished
  <2>3. CASE RefundOrder
    <3>1. /\ order' = "REFUND_PENDING" /\ refunds' = refunds + 1
          /\ Record("RefundInitiated") /\ UNCHANGED <<tickets, topic, inbox>>
          /\ TypeOK
      BY <1>1, <2>3 DEF RefundOrder, UpdateStatus, IInv
    <3>2. /\ Ids' = Ids \cup {Len(outbox) + 1}
          /\ outbox'[Len(outbox) + 1] = "RefundInitiated"
          /\ \A id \in Ids : outbox'[id] = outbox[id]
      BY <3>1, RecordFacts DEF EventType
    <3>3. \A type \in {"PaymentAuthorized", "TicketIssued"} :
            Recorded(type)' \subseteq Recorded(type)
      BY <3>2 DEF Recorded, Ids
    <3> QED BY <3>1, <3>3 DEF Finished, TypeOK
  <2>4. CASE Relay
    BY <2>1, <2>4 DEF Relay, Publish
  <2>5. ASSUME NEW i \in 1..Len(topic), AuthorizePayment(i) PROVE FALSE
    BY <1>1, <2>5, FirstPayment DEF Finished
  <2>6. ASSUME NEW i \in 1..Len(topic), IssueTicket(i) PROVE FALSE
    BY <1>1, <2>6, FirstTicket DEF Finished
  <2>7. ASSUME NEW i \in 1..Len(topic), UpdateOrder(i) PROVE FALSE
    BY <1>1, <2>7, FirstUpdate DEF Finished
  <2>8. CASE Services
    BY <2>1, <2>5, <2>6, <2>7, <2>8 DEF Services, GiveUp
  <2> QED BY <2>2, <2>3, <2>4, <2>8 DEF Next, Api
<1>2. Spec => [][Ok]_vars
  BY <1>1, InitInv, NextInv, PTL DEF Spec
<1> QED BY <1>2 DEF CompletionIsFinal
-------------------------------------------------------------------------------

(* Once order-service has processed the TicketIssued, and has given nothing up,
   the order is where it belongs.                                          *)
Landed ==
  dropped["order-service"] = {} /\ Has(inbox["order-service"], "TicketIssued")
    => order \in {"TICKET_ISSUED", "REFUND_PENDING"}

\* Nothing is processed at the start.
LEMMA InitLanded == Init => Landed
BY DEF Init, Landed, Has, Service

(* The PaymentAuthorized has been processed by then, and a refund only moves
   the order on.                                                           *)
LEMMA NextLanded == IInv /\ Landed /\ [Next]_vars => Landed'
<1> SUFFICES ASSUME IInv, Landed, [Next]_vars PROVE Landed'
  OBVIOUS
<1> DEFINE O == "order-service"
<1>0. /\ TypeOK /\ O \in Service /\ inbox[O] \subseteq Ids
      /\ order = "absent" => Ids = {}
  BY DEF IInv, TypeOK, Service, Ids, Origin
<1>1. ASSUME order' = order, inbox'[O] = inbox[O],
             \A id \in Ids : outbox'[id] = outbox[id],
             dropped'[O] = {} => dropped[O] = {}
      PROVE Landed'
  BY <1>0, <1>1 DEF Landed, Has
<1>2. CASE CreateOrder
  BY <1>0, <1>2 DEF CreateOrder, InsertOrder, Landed, Has
<1>3. CASE RefundOrder
  BY <1>3 DEF RefundOrder, UpdateStatus, Landed
<1>4. CASE Relay
  BY <1>1, <1>4 DEF Relay, Publish
<1>5. ASSUME NEW i \in 1..Len(topic), AuthorizePayment(i) \/ IssueTicket(i)
      PROVE Landed'
  <2>1. /\ order' = order /\ dropped' = dropped /\ inbox'[O] = inbox[O]
        /\ UNCHANGED topic
        /\ Record("PaymentAuthorized") \/ Record("TicketIssued")
    BY <1>0, <1>5 DEF AuthorizePayment, IssueTicket, SaveNew, TypeOK
  <2>2. \A id \in Ids : outbox'[id] = outbox[id]
    BY <1>0, <2>1, RecordFacts DEF EventType
  <2> QED BY <1>1, <2>1, <2>2
<1>6. ASSUME NEW i \in 1..Len(topic), UpdateOrder(i), dropped'[O] = {},
             Has(inbox[O], "TicketIssued")'
      PROVE order' \in {"TICKET_ISSUED", "REFUND_PENDING"}
  <2>1. /\ UNCHANGED <<outbox, dropped>>
        /\ inbox'[O] = inbox[O] \cup {topic[i]}
        /\ outbox[topic[i]] = Type(i)
    BY <1>0, <1>6 DEF UpdateOrder, SaveNew, TypeOK, Type
  <2>2. CASE Type(i) = "TicketIssued"
    BY <1>6, <2>2, FirstUpdate DEF StatusAfter
  <2>3. CASE Type(i) = "PaymentAuthorized"
    <3>1. Has(inbox[O], "TicketIssued")
      BY <1>6, <2>1, <2>3 DEF Has
    <3>2. Has(inbox[O], "PaymentAuthorized")
      BY <1>6, <2>1, <3>1 DEF IInv, Status
    <3> QED BY <1>6, <2>3, <3>2, FirstUpdate
  <2> QED BY <1>6, <2>2, <2>3, FirstUpdate
<1>7. ASSUME NEW s \in Service, NEW i \in 1..Len(topic), GiveUp(s, i)
      PROVE Landed'
  BY <1>0, <1>1, <1>7 DEF GiveUp, TypeOK
<1>8. CASE UNCHANGED vars
  BY <1>1, <1>8 DEF vars
<1> QED BY <1>2, <1>3, <1>4, <1>5, <1>6, <1>7, <1>8 DEF Next, Api, Services, Landed

(* A set of numbers that is not empty has a least one.                     *)
LEMMA Least ==
  ASSUME NEW T \in SUBSET Nat, T # {}
  PROVE  \E x \in T : \A y \in T : x <= y
<1> DEFINE R == OpToRel(<, Nat)
<1>1. \A x, y \in Nat : y < x => <<y, x>> \in R
  BY DEF OpToRel
<1>2. IsWellFoundedOn(R, Nat)
  BY NatLessThanWellFounded
<1> HIDE DEF R
<1>3. PICK x \in T : \A y \in T : ~(<<y, x>> \in R)
  BY <1>2, WFMin
<1>4. \A y \in T : ~(y < x)
  BY <1>1, <1>3
<1>5. \A y \in T : x <= y
  BY <1>4
<1> QED BY <1>5

(* A service that gives nothing up has something to do as long as there is a
   message that it handles and has not processed: the first one.           *)
LEMMA SomethingDue ==
  ASSUME NEW s \in Service, NEW i \in 1..Len(topic),
         Type(i) \in Handles(s), topic[i] \notin inbox[s]
  PROVE  \E j \in 1..Len(topic) : Due(s, j)
<1> DEFINE T == {j \in 1..Len(topic) : Type(j) \in Handles(s) /\ topic[j] \notin inbox[s]}
<1>1. T \in SUBSET Nat /\ T # {}
  OBVIOUS
<1>2. PICK j \in T : \A k \in T : j <= k
  BY <1>1, Least
<1>3. \A k \in 1..j-1 : k \in 1..Len(topic) /\ k \notin T
  BY <1>2
<1>4. InOrder(s, j)
  BY <1>3 DEF InOrder, Done
<1> QED BY <1>2, <1>4 DEF Due

(* Relay and services between them always find the next step of an order's
   saga, up to its end: nothing is dropped, and nobody waits for an event that
   is not on its way.                                                      *)
THEOREM SagaNeverStalls == Spec => []NeverStalls
<1>1. ASSUME IInv, Landed PROVE NeverStalls
  <2> SUFFICES ASSUME order # "absent",
                      \A id \in Ids : Published(id),
                      \A s \in Service : dropped[s] = {} /\ ~\E i \in 1..Len(topic) : Due(s, i)
               PROVE  Finished
    BY DEF NeverStalls, Ids
  <2>0. TypeOK /\ Len(outbox) \in Nat /\ 1 \in Ids /\ outbox[1] = "OrderCreated"
    BY <1>1, TypeFacts DEF IInv, Origin, Ids
  <2>1. \A s \in Service, id \in Ids : outbox[id] \in Handles(s) => id \in inbox[s]
    <3> TAKE s \in Service, id \in Ids
    <3>1. PICK i \in 1..Len(topic) : topic[i] = id
      BY DEF Published
    <3> QED BY <3>1, SomethingDue DEF Type
  <2>2. payments = 1
    BY <1>1, <2>0, <2>1 DEF Handles, Service, IInv, Rows
  <2>3. PICK p \in Ids : outbox[p] = "PaymentAuthorized"
    BY <1>1, <2>2 DEF IInv, Rows, Has
  <2>4. p \in inbox["ticket-service"]
    BY <2>1, <2>3 DEF Handles, Service
  <2>5. tickets = 1
    BY <1>1, <2>4 DEF IInv, Rows
  <2>6. PICK t \in Ids : outbox[t] = "TicketIssued"
    BY <1>1, <2>5 DEF IInv, Rows, Has
  <2>7. Recorded("PaymentAuthorized") \cup Recorded("TicketIssued")
          \subseteq inbox["order-service"]
    BY <2>1 DEF Handles, Service, Recorded, Ids
  <2>8. Has(inbox["order-service"], "TicketIssued")
    BY <2>6, <2>7 DEF Has, Recorded, Ids
  <2>9. order \in {"TICKET_ISSUED", "REFUND_PENDING"}
    BY <1>1, <2>8 DEF Landed, Service
  <2> QED BY <2>5, <2>7, <2>9 DEF Finished
<1> QED BY <1>1, InitInv, InitLanded, NextInv, NextLanded, PTL DEF Spec

(* README.md:69 holds of a saga whose services give nothing up: asking for no
   refund, the user does not see TICKET_ISSUED change any more.            *)
THEOREM FinalWithoutDrops ==
  ASSUME MaxDrops = 0
  PROVE  Spec => FinalStatusIsFinal
<1> DEFINE None == dropped["order-service"] = {}
           Ok == order = "TICKET_ISSUED" /\ refunds' = 0 => order' = "TICKET_ISSUED"
<1>1. Init => None
  BY DEF Init, Service
<1>2. ASSUME IInv, None, [Next]_vars PROVE None'
  <2>1. ASSUME NEW s \in Service, NEW i \in 1..Len(topic), GiveUp(s, i) PROVE None'
    <3>1. Cardinality(dropped[s]) < 0
      BY <2>1 DEF GiveUp
    <3>2. s # "order-service"
      <4> SUFFICES ASSUME s = "order-service" PROVE FALSE
        OBVIOUS
      <4>1. dropped[s] = {}
        BY <1>2
      <4>2. Cardinality(dropped[s]) = 0
        BY <4>1, FS_EmptySet
      <4> QED BY <3>1, <4>2
    <3> QED BY <1>2, <2>1, <3>2 DEF GiveUp, IInv, TypeOK, Service
  <2>2. CASE UNCHANGED dropped
    BY <1>2, <2>2
  <2> QED BY <1>2, <2>1, <2>2
          DEF Next, Api, CreateOrder, RefundOrder, Relay, Publish, Services,
              AuthorizePayment, IssueTicket, UpdateOrder, vars
<1>3. ASSUME IInv, None, [Next]_vars PROVE [Ok]_vars
  <2> SUFFICES ASSUME order = "TICKET_ISSUED", refunds' = 0, Next
               PROVE  order' = "TICKET_ISSUED"
    BY <1>3
  <2>1. CASE Api
    BY <1>3, <2>1 DEF Api, CreateOrder, InsertOrder, RefundOrder, IInv, TypeOK
  <2>2. ASSUME NEW i \in 1..Len(topic), UpdateOrder(i) PROVE FALSE
    <3>1. /\ Has(inbox["order-service"], "TicketIssued")
          /\ Has(inbox["order-service"], "PaymentAuthorized")
      BY <1>3 DEF IInv, Status
    <3> QED BY <1>3, <2>2, <3>1, FirstUpdate
  <2>3. CASE Relay
    BY <2>3 DEF Relay, Publish
  <2>4. CASE Services
    BY <2>2, <2>4 DEF Services, AuthorizePayment, IssueTicket, GiveUp
  <2> QED BY <2>1, <2>3, <2>4 DEF Next
<1>4. Spec => [][Ok]_vars
  BY <1>1, <1>2, <1>3, InitInv, NextInv, PTL DEF Spec
<1> QED BY <1>4 DEF FinalStatusIsFinal
===============================================================================
