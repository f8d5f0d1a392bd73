----------------------------- MODULE WorkflowView -----------------------------
(***************************************************************************)
(* GET /orders/{id}/workflow (internal/usecase/get_workflow.go), which the *)
(* frontend polls: the story of an order, put together from five queries   *)
(* that are not in a transaction, while the saga goes on.  The reader adds *)
(* a view of its own to the saga and changes nothing there.                *)
(***************************************************************************)
EXTENDS Saga

VARIABLES
  reads,  \* how many of the five queries have been made
  view,   \* what they returned
  cut     \* a list of the view is incomplete (history)

reader == <<reads, view, cut>>

(* What each query returns: a status, the ids of events, per service the ids
   of processed events, and the number of rows.                            *)
Table ==
  [order |-> order, outbox |-> 1..Len(outbox), inbox |-> inbox,
   payment |-> payments, ticket |-> tickets]

\* Nothing read yet.
Blank ==
  [order |-> "absent", outbox |-> {}, inbox |-> [s \in Service |-> {}],
   payment |-> 0, ticket |-> 0]

\* (mutant) the inbox and the rows first, for they are on other tables
OutboxLast == <<"order", "inbox", "payment", "ticket", "outbox">>

\* (mutant) the order is read when the rest is there
OrderLast == <<"outbox", "inbox", "payment", "ticket", "order">>

\* The order of the queries in Execute.
Queries == <<"order", "outbox", "inbox", "payment", "ticket">>

ViewTypeOK ==
  /\ reads \in 0..Len(Queries) /\ cut \in BOOLEAN
  /\ view \in [order : OrderStatus, outbox : SUBSET (1..Len(outbox)),
               inbox : [Service -> SUBSET (1..Len(outbox))],
               payment : 0..1, ticket : 0..1]

ViewInit == Init /\ reads = 0 /\ view = Blank /\ cut = FALSE

\* The query whose turn it is returns v.
Query(v) ==
  /\ view' = [view EXCEPT ![Queries[reads + 1]] = v]
  /\ reads' = reads + 1
  /\ UNCHANGED vars

\* Which query is next.
Asks(tables) == reads < Len(Queries) /\ Queries[reads + 1] \in tables

\* GetByID: a missing order is an error, and the view is not made.
ReadOrder ==
  /\ Asks({"order"}) /\ order # "absent"
  /\ Query(order)
  /\ UNCHANGED cut

\* ListByCorrelationID, of the outbox and of the inbox.
ReadList ==
  /\ Asks({"outbox", "inbox"})
  /\ Query(Table[Queries[reads + 1]])
  /\ UNCHANGED cut

(* The connection breaks amid a list: rows.Err is not looked at, and the rows
   that have arrived are taken for all.                                    *)
ReadCut ==
  /\ \E ids \in SUBSET Table.outbox :
       \/ Asks({"outbox"}) /\ Query(ids)
       \/ Asks({"inbox"}) /\ Query([s \in Service |-> inbox[s] \cap ids])
  /\ cut' = TRUE

\* GetByOrderID, of the payment and of the ticket: no row is no error.
ReadRow ==
  /\ Asks({"payment", "ticket"})
  /\ Query(Table[Queries[reads + 1]])
  /\ UNCHANGED cut

\* The answer is sent, or a query failed and the answer is 500: the next poll.
Poll ==
  /\ reads > 0
  /\ reads' = 0 /\ view' = Blank /\ cut' = FALSE
  /\ UNCHANGED vars

Reader == ReadOrder \/ ReadList \/ ReadCut \/ ReadRow \/ Poll

ViewNext == (Next /\ UNCHANGED reader) \/ Reader

ViewSpec == ViewInit /\ [][ViewNext]_<<vars, reader>>

-------------------------------------------------------------------------------

Complete == reads = Len(Queries) /\ ~cut

\* The events of a type that the view shows, and those a service has processed.
Shown(type) == {id \in view.outbox : outbox[id] = type}
Processed(s, type) == {id \in view.inbox[s] : outbox[id] = type}

(* The status at the head of the view is explained by the rest of it: the
   event that brought it about is in both lists, and so are the rows.  The
   five queries go from effect to cause, so that whatever the saga does
   between them can only add to the explanation.                           *)
StatusIsExplained ==
  Complete =>
    /\ view.order = "PAYMENT_AUTHORIZED" =>
         /\ Shown("PaymentAuthorized") # {} /\ view.payment = 1
         /\ Processed("order-service", "PaymentAuthorized") # {}
    /\ view.order = "TICKET_ISSUED" =>
         /\ Shown("TicketIssued") # {} /\ view.ticket = 1 /\ view.payment = 1
         /\ Processed("order-service", "TicketIssued") # {}
    /\ view.order = "REFUND_PENDING" => Shown("RefundInitiated") # {}

(* Every event of the view comes with what its transaction wrote besides: the
   row it announces, and the inbox entry of the event it answers, which the
   view shows as well.                                                     *)
EventsAreExplained ==
  Complete =>
    /\ Shown("OrderCreated") # {}
    /\ Shown("PaymentAuthorized") # {} =>
         /\ view.payment = 1
         /\ Processed("payment-service", "OrderCreated") \cap view.outbox # {}
    /\ Shown("TicketIssued") # {} =>
         /\ view.ticket = 1
         /\ Processed("ticket-service", "PaymentAuthorized") \cap view.outbox # {}
===============================================================================
