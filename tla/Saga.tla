---------------------------------- MODULE Saga ----------------------------------
(***************************************************************************)
(* The booking saga of one order: the API, the outbox relay, the topic and *)
(* the three services (payment-service, ticket-service, order-service).    *)
(* Orders do not interact: rows, events and the partition key are per      *)
(* order.  A database transaction is one step.  The relay and the consumer *)
(* groups appear as what OutboxPromise and GroupPromise say of them, which *)
(* OutboxRelay and InboxConsumer implement.                                *)
(***************************************************************************)
EXTENDS Integers, Sequences, FiniteSets

CONSTANTS
  MaxRefunds,     \* bound on the refund requests of the user
  MaxDuplicates,  \* bound on the copies in the topic beyond the first ones
  MaxDrops        \* bound on the messages each service gives up

ASSUME BoundsAssumption == {MaxRefunds, MaxDuplicates, MaxDrops} \subseteq Nat

Service == {"payment-service", "ticket-service", "order-service"}

\* Nobody in this repository records a PaymentFailed; order-service handles it.
EventType == {"OrderCreated", "PaymentAuthorized", "PaymentFailed",
              "TicketIssued", "RefundInitiated"}

\* The event types each service's type switch lets through.
Handles(s) ==
  CASE s = "payment-service" -> {"OrderCreated"}
    [] s = "ticket-service" -> {"PaymentAuthorized"}
    [] s = "order-service" -> {"PaymentAuthorized", "TicketIssued", "PaymentFailed"}

OrderStatus == {"absent", "CREATED", "PAYMENT_AUTHORIZED", "TICKET_ISSUED",
                "CANCELLED", "REFUND_PENDING"}

VARIABLES
  order,     \* orders.status; "absent" before the row exists
  payments,  \* rows of payments for the order
  tickets,   \* rows of tickets for the order
  outbox,    \* the event types recorded for the order; an event's id is its place
  topic,     \* the partition: event ids, duplicates included
  inbox,     \* per service, the event ids in inbox_events
  dropped,   \* per service, the positions of the partition given up
  refunds    \* refund requests answered with "refund_initiated" (history)

vars == <<order, payments, tickets, outbox, topic, inbox, dropped, refunds>>

TypeOK ==
  /\ order \in OrderStatus
  /\ payments \in 0..1 /\ tickets \in 0..1
  /\ outbox \in Seq(EventType)
  /\ topic \in Seq(1..Len(outbox))
  /\ inbox \in [Service -> SUBSET (1..Len(outbox))]
  /\ dropped \in [Service -> SUBSET (1..Len(topic))]
  /\ refunds \in 0..MaxRefunds

Init ==
  /\ order = "absent" /\ payments = 0 /\ tickets = 0
  /\ outbox = <<>> /\ topic = <<>>
  /\ inbox = [s \in Service |-> {}]
  /\ dropped = [s \in Service |-> {}]
  /\ refunds = 0

-------------------------------------------------------------------------------

\* The outbox row of a new event, in the transaction that it belongs to.
Record(type) == outbox' = Append(outbox, type)

InsertOrder == order = "absent" /\ order' = "CREATED"

\* (mutant) the API sends the event itself, beside the outbox
CreateOrderAndSend ==
  /\ InsertOrder
  /\ Record("OrderCreated")
  /\ topic' = Append(topic, 1)
  /\ UNCHANGED <<payments, tickets, inbox, dropped, refunds>>

\* POST /orders: the order and its first event in one transaction.
CreateOrder ==
  /\ InsertOrder
  /\ Record("OrderCreated")
  /\ UNCHANGED <<payments, tickets, topic, inbox, dropped, refunds>>

\* (mutant) RowsAffected is not looked at
UpdateStatusUnchecked(status) == order' = status

(* UPDATE orders SET status: no condition on the status it replaces, and an
   error when there is no such order.                                      *)
UpdateStatus(status) == order # "absent" /\ order' = status

\* (mutant) the refund sets a status that the rest of the system does not know
RefundOrderTypo ==
  /\ refunds < MaxRefunds
  /\ UpdateStatus("REFUNDED")
  /\ Record("RefundInitiated")
  /\ refunds' = refunds + 1
  /\ UNCHANGED <<payments, tickets, topic, inbox, dropped>>

\* POST /orders/{id}/refund: the new status and the event in one transaction.
RefundOrder ==
  /\ refunds < MaxRefunds
  /\ UpdateStatus("REFUND_PENDING")
  /\ Record("RefundInitiated")
  /\ refunds' = refunds + 1
  /\ UNCHANGED <<payments, tickets, topic, inbox, dropped>>

-------------------------------------------------------------------------------

Published(id) == \E i \in 1..Len(topic) : topic[i] = id

Duplicates == Len(topic) - Cardinality({topic[i] : i \in 1..Len(topic)})

(* OutboxPromise: a recorded event is sent, for the first time or again, in any
   order; FetchBatch's RETURNING, failed and late sends and the replicas do
   not keep one.  That the row is 'processed' in the end changes nothing.  *)
Publish(id) ==
  /\ Published(id) => Duplicates < MaxDuplicates
  /\ topic' = Append(topic, id)
  /\ UNCHANGED <<order, payments, tickets, outbox, inbox, dropped, refunds>>

-------------------------------------------------------------------------------

Type(i) == outbox[topic[i]]

\* Service s has nothing to do, or nothing more to do, about position i.
Done(s, i) == Type(i) \in Handles(s) => topic[i] \in inbox[s] \/ i \in dropped[s]

\* (mutant) a goroutine per message instead of one message after the other
AnyOrder(s, i) == TRUE

\* GroupPromise: a service comes to a message when it is done with those before.
InOrder(s, i) == \A j \in 1..i-1 : Done(s, j)

\* (mutant) isNew is not looked at
SaveAgain(s, i) ==
  /\ InOrder(s, i)
  /\ Type(i) \in Handles(s)
  /\ inbox' = [inbox EXCEPT ![s] = @ \cup {topic[i]}]

\* Service s has come to a message that it handles and has not processed.
Due(s, i) ==
  InOrder(s, i) /\ Type(i) \in Handles(s) /\ topic[i] \notin inbox[s]

\* SaveIfNotExists finds the event to be new, in the service's transaction.
SaveNew(s, i) ==
  /\ Due(s, i)
  /\ inbox' = [inbox EXCEPT ![s] = @ \cup {topic[i]}]

\* INSERT .. ON CONFLICT (order_id) DO NOTHING: no error when there is a row.
InsertPayment == payments' = 1
InsertTicket == tickets' = 1

\* Should the order have a payment already, the event is recorded all the same.
AuthorizePayment(i) ==
  /\ SaveNew("payment-service", i)
  /\ InsertPayment
  /\ Record("PaymentAuthorized")
  /\ UNCHANGED <<order, tickets, topic, dropped, refunds>>

\* (mutant) the transaction does not record its event
IssueTicketUnrecorded(i) ==
  /\ SaveNew("ticket-service", i)
  /\ InsertTicket
  /\ UNCHANGED <<order, payments, outbox, topic, dropped, refunds>>

IssueTicket(i) ==
  /\ SaveNew("ticket-service", i)
  /\ InsertTicket
  /\ Record("TicketIssued")
  /\ UNCHANGED <<order, payments, topic, dropped, refunds>>

\* (mutant) two cases of the switch swapped
StatusAfterSwapped(type) ==
  CASE type = "PaymentAuthorized" -> "TICKET_ISSUED"
    [] type = "TicketIssued" -> "PAYMENT_AUTHORIZED"
    [] type = "PaymentFailed" -> "CANCELLED"

StatusAfter(type) ==
  CASE type = "PaymentAuthorized" -> "PAYMENT_AUTHORIZED"
    [] type = "TicketIssued" -> "TICKET_ISSUED"
    [] type = "PaymentFailed" -> "CANCELLED"

UpdateOrder(i) ==
  /\ SaveNew("order-service", i)
  /\ UpdateStatus(StatusAfter(Type(i)))
  /\ UNCHANGED <<payments, tickets, outbox, topic, dropped, refunds>>

(* The message is lost to the service: the retries are used up, the instance was
   stopped, or the group's first reader started behind it.                 *)
GiveUp(s, i) ==
  /\ Cardinality(dropped[s]) < MaxDrops
  /\ InOrder(s, i)
  /\ Type(i) \in Handles(s)
  /\ dropped' = [dropped EXCEPT ![s] = @ \cup {i}]
  /\ UNCHANGED <<order, payments, tickets, outbox, topic, inbox, refunds>>

Api == CreateOrder \/ RefundOrder

Relay == \E id \in 1..Len(outbox) : Publish(id)

Services ==
  \E i \in 1..Len(topic) :
    \/ AuthorizePayment(i) \/ IssueTicket(i) \/ UpdateOrder(i)
    \/ \E s \in Service : GiveUp(s, i)

Next == Api \/ Relay \/ Services

Spec == Init /\ [][Next]_vars

(* InboxConsumer!EventuallySettled: a published event is processed or given up.
   The relay owes nothing: it leaves a stranded row unpublished for ever
   (OutboxRelay!EventuallyProcessed) and believes false acknowledgements.
   Nobody owes an order, a refund or a duplicate.                          *)
FairSpec ==
  /\ Spec
  /\ WF_vars(\E i \in 1..Len(topic) : AuthorizePayment(i))
  /\ WF_vars(\E i \in 1..Len(topic) : IssueTicket(i))
  /\ WF_vars(\E i \in 1..Len(topic) : UpdateOrder(i))

-------------------------------------------------------------------------------

\* An order has one event for its creation, its payment, its ticket, each refund.
EventId == 1..(3 + MaxRefunds)

Recorded(type) == {id \in 1..Len(outbox) : outbox[id] = type}

(* The status the user sees is never ahead of what the other two services
   have done, which it learns of through the topic only.                   *)
StatusIsBacked ==
  /\ order = "PAYMENT_AUTHORIZED" => payments = 1
  /\ order = "TICKET_ISSUED" => payments = 1 /\ tickets = 1

(* Every PaymentAuthorized and TicketIssued names a row that exists: a second
   event for the order would carry the id of a row that ON CONFLICT DO
   NOTHING did not insert.  It is the inbox that keeps such events away.   *)
OneEventPerRow ==
  /\ Cardinality(Recorded("PaymentAuthorized")) = payments
  /\ Cardinality(Recorded("TicketIssued")) = tickets

Rank(status) ==
  CASE status = "absent" -> 0 [] status = "CREATED" -> 1
    [] status = "PAYMENT_AUTHORIZED" -> 2 [] OTHER -> 3

\* The statuses that order-service has given the order so far.
Given == {StatusAfter(outbox[id]) : id \in inbox["order-service"]}

(* A status that order-service sets ranks above all that it has set before,
   although UpdateStatus checks nothing, copies of older events keep coming
   and the relay keeps no order: a service takes the first copies in the
   order of their causes.  A refund asked for midway is overwritten, but by
   the next step of the saga and never by one the order has been through.
   Holds until order-service gives a message up.                           *)
StatusAdvances ==
  [][/\ inbox'["order-service"] # inbox["order-service"]
     /\ dropped["order-service"] = {}
     => \A s \in Given : Rank(s) < Rank(order')]_vars

(* The saga is through: the ticket is there, and order-service has processed
   both of the events that lead to it.                                     *)
Finished ==
  /\ tickets = 1 /\ order \in {"TICKET_ISSUED", "REFUND_PENDING"}
  /\ Recorded("PaymentAuthorized") \cup Recorded("TicketIssued")
       \subseteq inbox["order-service"]

(* A finished saga stays finished and a refund asked for then sticks: no late
   copy of an event brings an older status back, although UpdateStatus would
   write it.                                                               *)
CompletionIsFinal ==
  [][Finished => Finished' /\ (order' = order \/ refunds' > refunds)]_vars

(* No accepted order is ever at a standstill half way: until its saga is
   finished, an event is unpublished (it waits for the relay, for ever if its
   row is stranded) or a service has a message to process, unless one gave a
   message up.                                                             *)
NeverStalls ==
  order # "absent" =>
    \/ Finished
    \/ \E id \in 1..Len(outbox) : ~Published(id)
    \/ \E s \in Service : dropped[s] # {} \/ \E i \in 1..Len(topic) : Due(s, i)

\* A step of the saga that the relay has not made known.
Unpublished(id) ==
  /\ id <= Len(outbox) /\ ~Published(id)
  /\ outbox[id] # "RefundInitiated"

(* Every accepted order gets its payment and its ticket and comes to rest in a
   final status, unless a service gives a message of the order up or the
   relay never publishes one of the events that lead there.                *)
EventuallyTicketed ==
  order = "CREATED"
    ~> \/ [](tickets = 1 /\ order \in {"TICKET_ISSUED", "REFUND_PENDING"})
       \/ \E s \in Service : dropped[s] # {}
       \/ \E id \in EventId : []Unpublished(id)

(* README.md:69: TicketIssued takes the order to its final status; asking for
   no refund, the user does not see it change any more.                    *)
FinalStatusIsFinal ==
  [][order = "TICKET_ISSUED" /\ refunds' = 0 => order' = "TICKET_ISSUED"]_vars

-------------------------------------------------------------------------------

(* The saga as its parts see it.                                           *)
Outbox == INSTANCE OutboxPromise WITH
  Event <- EventId,
  recorded <- 1..Len(outbox),
  copies <- [id \in EventId |-> Cardinality({i \in 1..Len(topic) : topic[i] = id})],
  settled <- {}

(* No event is in the topic that a transaction has not recorded: the relay of
   the saga does nothing that OutboxPromise does not allow.                *)
BuiltOnOutbox == Outbox!Spec

\* The status that the API has given the order, order-service aside.
Booked ==
  IF order = "absent" THEN "absent"
  ELSE IF refunds = 0 THEN "CREATED" ELSE "REFUND_PENDING"

Booking == INSTANCE BookingPromise WITH
  Create <- {1}, Refund <- EventId \ {1},
  status <- [o \in {1} |-> Booked],
  events <- Recorded("OrderCreated") \cup Recorded("RefundInitiated")

(* The API of the saga is the one of BookingPromise: no order, and no refund,
   without its event.                                                      *)
BuiltOnBooking == Booking!Spec

Envelope == EventId \X EventType

\* The events of a set of ids, with their types.
Envelopes(ids) == {<<id, outbox[id]>> : id \in ids}

(* What service s has made of the events that it handles: the event that its
   transaction records, or the new status, of which only the inbox tells.  *)
Effect(s, e) ==
  CASE s = "payment-service" -> Cardinality(Recorded("PaymentAuthorized"))
    [] s = "ticket-service" -> Cardinality(Recorded("TicketIssued"))
    [] s = "order-service" -> IF e[1] \in inbox[s] THEN 1 ELSE 0

Group(s) == INSTANCE GroupPromise WITH
  Event <- Envelope,
  Handled <- {e \in Envelope : e[2] \in Handles(s)},
  log <- [i \in 1..Len(topic) |-> <<topic[i], Type(i)>>],
  done <- Envelopes(inbox[s]),
  effects <- [e \in Envelope |->
                IF e \in Envelopes(1..Len(outbox)) /\ e[2] \in Handles(s)
                THEN Effect(s, e) ELSE 0],
  dropped <- dropped[s]

(* Each service of the saga is a group of GroupPromise, whose effects are the
   events it records: one for each event that it handles, in the order of the
   partition, or none if the message is given up.                          *)
BuiltOnGroups ==
  /\ \A s \in Service : Group(s)!Init
  /\ [][\A s \in Service : [Group(s)!Next]_(Group(s)!vars)]_vars
===============================================================================
