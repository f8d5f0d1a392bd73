-------------------------- MODULE WorkflowViewProofs --------------------------
(***************************************************************************)
(* The workflow view is consistent, however far the saga gets between its  *)
(* queries.  To the invariant of the saga comes, for each query that has   *)
(* been made, what its answer implies now.  Inboxes and outbox only grow,  *)
(* so that it goes on to hold.                                             *)
(***************************************************************************)
EXTENDS WorkflowView, SagaProofs

(* The status in the view was brought about by an event that order-service has
   processed, or by a recorded refund.                                     *)
OrderRead ==
  reads >= 1 =>
    /\ view.order = "PAYMENT_AUTHORIZED" => Has(inbox["order-service"], "PaymentAuthorized")
    /\ view.order = "TICKET_ISSUED" => Has(inbox["order-service"], "TicketIssued")
    /\ view.order = "REFUND_PENDING" => Has(Ids, "RefundInitiated")
    /\ Has(Ids, "OrderCreated")

(* The list of events has the event behind the status and is closed under
   causes.                                                                 *)
OutboxRead ==
  reads >= 2 /\ ~cut =>
    /\ view.order = "PAYMENT_AUTHORIZED" => Has(view.outbox, "PaymentAuthorized")
    /\ view.order = "TICKET_ISSUED" => Has(view.outbox, "TicketIssued")
    /\ view.order = "REFUND_PENDING" => Has(view.outbox, "RefundInitiated")
    /\ Has(view.outbox, "OrderCreated")
    /\ Has(view.outbox, "TicketIssued") => Has(view.outbox, "PaymentAuthorized")

(* The lists of processed events have the causes of all that is shown.     *)
InboxRead ==
  reads >= 3 /\ ~cut =>
    /\ view.order = "PAYMENT_AUTHORIZED" => Has(view.inbox["order-service"], "PaymentAuthorized")
    /\ view.order = "TICKET_ISSUED" => Has(view.inbox["order-service"], "TicketIssued")
    /\ Has(view.outbox, "PaymentAuthorized") =>
         Has(view.inbox["payment-service"] \cap view.outbox, "OrderCreated")
    /\ Has(view.outbox, "TicketIssued") =>
         Has(view.inbox["ticket-service"] \cap view.outbox, "PaymentAuthorized")

(* The rows that are shown are those of the events that are shown.         *)
RowsRead ==
  ~cut =>
    /\ reads >= 4 /\ Has(view.outbox, "PaymentAuthorized") => view.payment = 1
    /\ reads >= 5 /\ Has(view.outbox, "TicketIssued") => view.ticket = 1

ViewInv == IInv /\ ViewTypeOK /\ OrderRead /\ OutboxRead /\ InboxRead /\ RowsRead

(* The five queries and their turns.                                       *)
LEMMA QueriesFacts ==
  /\ Len(Queries) = 5
  /\ Queries[1] = "order" /\ Queries[2] = "outbox" /\ Queries[3] = "inbox"
  /\ Queries[4] = "payment" /\ Queries[5] = "ticket"
BY DEF Queries

(* What a view may hold.                                                   *)
Views == [order : OrderStatus, outbox : SUBSET Ids, inbox : [Service -> SUBSET Ids],
          payment : 0..1, ticket : 0..1]

(* The type invariant with the number of queries for what it is.           *)
LEMMA ViewTypes ==
  /\ ViewTypeOK <=> reads \in 0..5 /\ cut \in BOOLEAN /\ view \in Views
  /\ ViewTypeOK' <=> reads' \in 0..5 /\ cut' \in BOOLEAN /\ view' \in Views'
BY QueriesFacts DEF ViewTypeOK, Views, Ids

(* A view that nothing has been read for may be had at any time.            *)
LEMMA BlankIsView == Blank \in Views /\ Blank \in Views'
BY DEF Blank, Views, OrderStatus

(* Nothing has been read at the start.                                     *)
LEMMA ViewInitInv == ViewInit => ViewInv
<1> SUFFICES ASSUME ViewInit PROVE ViewInv
  OBVIOUS
<1>1. IInv
  BY InitInv DEF ViewInit
<1>2. ViewTypeOK
  <2>1. cut \in BOOLEAN
    BY Zenon DEF ViewInit
  <2>2. reads \in 0..5 /\ view \in Views
    BY BlankIsView DEF ViewInit
  <2> QED BY <2>1, <2>2, ViewTypes, Zenon
<1> QED BY <1>1, <1>2
        DEF ViewInit, ViewInv, OrderRead, OutboxRead, InboxRead, RowsRead

(* Events and inbox entries are never taken back.                          *)
LEMMA SagaGrows ==
  ASSUME IInv, [Next]_vars
  PROVE  /\ Ids \subseteq Ids'
         /\ \A id \in Ids : outbox'[id] = outbox[id]
         /\ \A s \in Service : inbox[s] \subseteq inbox'[s]
         /\ \A s \in Service : inbox[s] \subseteq Ids
<1>1. TypeOK /\ \A s \in Service : inbox[s] \subseteq Ids
  BY DEF IInv, TypeOK, Ids
<1>2. CASE UNCHANGED <<outbox, inbox>>
  BY <1>1, <1>2 DEF Ids
<1>3. ASSUME NEW type \in EventType, Record(type), UNCHANGED topic
      PROVE  Ids \subseteq Ids' /\ \A id \in Ids : outbox'[id] = outbox[id]
  BY <1>1, <1>3, RecordFacts
<1>4. ASSUME NEW s \in Service, NEW i \in 1..Len(topic), SaveNew(s, i)
      PROVE  \A t \in Service : inbox[t] \subseteq inbox'[t]
  BY <1>1, <1>4, SaveFacts
<1>5. CASE Api
  BY <1>1, <1>3, <1>5 DEF Api, CreateOrder, RefundOrder, EventType
<1>6. CASE Relay
  BY <1>2, <1>6 DEF Relay, Publish
<1>7. ASSUME NEW i \in 1..Len(topic), AuthorizePayment(i) \/ IssueTicket(i)
      PROVE  /\ Ids \subseteq Ids' /\ \A id \in Ids : outbox'[id] = outbox[id]
             /\ \A t \in Service : inbox[t] \subseteq inbox'[t]
  BY <1>3, <1>4, <1>7 DEF AuthorizePayment, IssueTicket, EventType, Service
<1>8. ASSUME NEW i \in 1..Len(topic), UpdateOrder(i)
      PROVE  UNCHANGED outbox /\ \A t \in Service : inbox[t] \subseteq inbox'[t]
  BY <1>4, <1>8 DEF UpdateOrder, Service
<1>9. CASE Services
  <2>1. CASE \E i \in 1..Len(topic) : AuthorizePayment(i) \/ IssueTicket(i)
    BY <1>1, <1>7, <2>1
  <2>2. CASE \E i \in 1..Len(topic) : UpdateOrder(i)
    BY <1>1, <1>8, <2>2 DEF Ids
  <2>3. CASE \E i \in 1..Len(topic) : \E s \in Service : GiveUp(s, i)
    BY <1>2, <2>3 DEF GiveUp
  <2> QED BY <1>9, <2>1, <2>2, <2>3 DEF Services
<1> QED BY <1>2, <1>5, <1>6, <1>9 DEF Next, vars

(* Whatever the saga does, what has been read goes on to be explained.     *)
LEMMA SagaStepInv == ViewInv /\ [Next]_vars /\ UNCHANGED reader => ViewInv'
<1> SUFFICES ASSUME ViewInv, [Next]_vars, UNCHANGED reader PROVE ViewInv'
  OBVIOUS
<1>1. IInv /\ IInv'
  BY NextInv DEF ViewInv
<1>2. UNCHANGED <<reads, view, cut>>
  BY DEF reader
<1>3. /\ Ids \subseteq Ids'
      /\ \A id \in Ids : outbox'[id] = outbox[id]
      /\ \A s \in Service : inbox[s] \subseteq inbox'[s]
      /\ \A s \in Service : inbox[s] \subseteq Ids
  BY <1>1, SagaGrows
<1>4. /\ ViewTypeOK /\ view.outbox \subseteq Ids
      /\ \A s \in Service : view.inbox[s] \subseteq Ids
  BY DEF ViewInv, ViewTypeOK, Ids
<1>5. ViewTypeOK'
  <2>1. 1..Len(outbox) \subseteq 1..Len(outbox')
    BY <1>3 DEF Ids
  <2>2. view \in [order : OrderStatus, outbox : SUBSET (1..Len(outbox')),
                  inbox : [Service -> SUBSET (1..Len(outbox'))],
                  payment : 0..1, ticket : 0..1]
    BY <1>4, <2>1 DEF ViewTypeOK
  <2> QED BY <1>2, <1>4, <2>2 DEF ViewTypeOK
<1>6. \A type : /\ Has(Ids, type) => Has(Ids, type)'
                /\ Has(view.outbox, type)' = Has(view.outbox, type)
  BY <1>2, <1>3, <1>4 DEF Has
<1>7. \A s \in Service : \A type :
        /\ Has(inbox[s], type) => Has(inbox[s], type)'
        /\ Has(view.inbox[s], type)' = Has(view.inbox[s], type)
        /\ Has(view.inbox[s] \cap view.outbox, type)'
             = Has(view.inbox[s] \cap view.outbox, type)
  BY <1>2, <1>3, <1>4 DEF Has
<1>8. OrderRead'
  BY <1>2, <1>6, <1>7 DEF ViewInv, OrderRead, Service
<1>9. OutboxRead' /\ RowsRead'
  BY <1>2, <1>6 DEF ViewInv, OutboxRead, RowsRead
<1>10. InboxRead'
  BY <1>2, <1>6, <1>7 DEF ViewInv, InboxRead, Service
<1> QED BY <1>1, <1>5, <1>8, <1>9, <1>10 DEF ViewInv

(* A query adds its answer to the view and touches nothing else.           *)
LEMMA QueryFacts ==
  ASSUME ViewInv, NEW v, Query(v), reads \in 0..4
  PROVE  /\ IInv' /\ reads' = reads + 1 /\ UNCHANGED <<vars, Ids>>
         /\ Queries[reads + 1] = "order" => view' = [view EXCEPT !.order = v]
         /\ Queries[reads + 1] = "outbox" => view' = [view EXCEPT !.outbox = v]
         /\ Queries[reads + 1] = "inbox" => view' = [view EXCEPT !.inbox = v]
         /\ Queries[reads + 1] = "payment" => view' = [view EXCEPT !.payment = v]
         /\ Queries[reads + 1] = "ticket" => view' = [view EXCEPT !.ticket = v]
<1>1. IInv' /\ UNCHANGED <<vars, Ids>>
  <2>1. IInv /\ UNCHANGED vars
    BY DEF ViewInv, Query
  <2> QED BY <2>1, NextInv DEF vars, Ids
<1>2. view' = [view EXCEPT ![Queries[reads + 1]] = v] /\ reads' = reads + 1
  BY DEF Query
<1> QED BY <1>1, <1>2

(* Whose turn it is.                                                       *)
LEMMA Turns ==
  ASSUME ViewTypeOK, reads < Len(Queries)
  PROVE  /\ reads \in 0..4
         /\ Queries[reads + 1] = "order" <=> reads = 0
         /\ Queries[reads + 1] = "outbox" <=> reads = 1
         /\ Queries[reads + 1] = "inbox" <=> reads = 2
         /\ Queries[reads + 1] = "payment" <=> reads = 3
         /\ Queries[reads + 1] = "ticket" <=> reads = 4
<1>1. reads \in 0..4
  BY QueriesFacts DEF ViewTypeOK
<1>2. CASE reads = 0
  BY <1>2, QueriesFacts
<1>3. CASE reads = 1
  BY <1>3, QueriesFacts
<1>4. CASE reads = 2
  BY <1>4, QueriesFacts
<1>5. CASE reads = 3
  BY <1>5, QueriesFacts
<1>6. CASE reads = 4
  BY <1>6, QueriesFacts
<1> QED BY <1>1, <1>2, <1>3, <1>4, <1>5, <1>6

(* GetByID: the status that is read has its event.                         *)
LEMMA ReadOrderInv == ViewInv /\ ReadOrder => ViewInv'
<1> SUFFICES ASSUME ViewInv, ReadOrder PROVE ViewInv'
  OBVIOUS
<1>1. ViewTypeOK /\ IInv /\ TypeOK /\ Query(order) /\ order # "absent" /\ cut' = cut
      /\ Queries[reads + 1] = "order" /\ reads < Len(Queries)
  BY DEF ViewInv, IInv, ReadOrder, Asks
<1>2. reads = 0
  BY <1>1, Turns
<1>3. /\ IInv' /\ reads' = 1 /\ UNCHANGED <<vars, Ids>>
      /\ view' = [view EXCEPT !.order = order]
  BY <1>1, <1>2, QueryFacts
<1>4. ViewTypeOK'
  BY <1>1, <1>3, QueriesFacts DEF ViewTypeOK, TypeOK, vars
<1>5. view'.order = order
  BY <1>1, <1>3 DEF ViewTypeOK
<1>6. Has(Ids, "OrderCreated")
  <2>1. Len(outbox) \in Nat /\ Len(outbox) > 0
    BY <1>1, TypeFacts DEF IInv, Origin
  <2> QED BY <1>1, <2>1 DEF IInv, Origin, Has, Ids
<1>7. OrderRead'
  BY <1>1, <1>3, <1>5, <1>6 DEF IInv, Status, OrderRead, Has, vars
<1>8. OutboxRead' /\ InboxRead' /\ RowsRead'
  BY <1>3 DEF OutboxRead, InboxRead, RowsRead
<1> QED BY <1>3, <1>4, <1>7, <1>8 DEF ViewInv

(* What the inboxes say of the outbox, and the events of one another.      *)
LEMMA Explained ==
  ASSUME IInv
  PROVE  /\ \A s \in Service : \A type : Has(inbox[s], type) => Has(Ids, type)
         /\ Has(Ids, "TicketIssued") => Has(inbox["ticket-service"], "PaymentAuthorized")
         /\ Has(Ids, "PaymentAuthorized") => 1 \in inbox["payment-service"] /\ payments = 1
         /\ Has(Ids, "TicketIssued") => tickets = 1
         /\ \A s \in Service : inbox[s] \subseteq Ids
<1>1. \A s \in Service : inbox[s] \subseteq Ids
  BY DEF IInv, TypeOK, Ids
<1>2. \A s \in Service : \A type : Has(inbox[s], type) => Has(Ids, type)
  BY <1>1 DEF Has
<1>3. ASSUME Has(Ids, "TicketIssued")
      PROVE  Has(inbox["ticket-service"], "PaymentAuthorized")
  <2>1. PICK id \in inbox["ticket-service"] : TRUE
    BY <1>3 DEF IInv, Rows
  <2>2. outbox[id] = "PaymentAuthorized"
    BY <2>1 DEF IInv, Handled, Handles, Service
  <2> QED BY <2>2 DEF Has
<1> QED BY <1>1, <1>2, <1>3 DEF IInv, Rows

(* A list is read: what it returns has whatever the earlier answers need.  *)
LEMMA ReadListInv == ViewInv /\ ReadList => ViewInv'
<1> SUFFICES ASSUME ViewInv, ReadList PROVE ViewInv'
  OBVIOUS
<1>1. /\ ViewTypeOK /\ IInv /\ TypeOK /\ cut' = cut /\ reads < Len(Queries)
      /\ Query(Table[Queries[reads + 1]])
      /\ Queries[reads + 1] \in {"outbox", "inbox"}
  BY DEF ViewInv, IInv, ReadList, Asks
<1>2. CASE Queries[reads + 1] = "outbox"
  <2>1. reads = 1
    BY <1>1, <1>2, Turns
  <2>2. /\ IInv' /\ reads' = 2 /\ UNCHANGED <<vars, Ids>>
        /\ view' = [view EXCEPT !.outbox = Table["outbox"]]
    BY <1>1, <1>2, <2>1, QueryFacts
  <2>3. Table["outbox"] = Ids
    BY DEF Table, Ids
  <2>4. ViewTypeOK'
    BY <1>1, <2>2, <2>3, QueriesFacts DEF ViewTypeOK, vars, Ids
  <2>5. view'.outbox = Ids /\ view'.order = view.order
    BY <1>1, <2>2, <2>3 DEF ViewTypeOK
  <2>6. OrderRead /\ OrderRead'
    BY <2>1, <2>2, <2>5 DEF ViewInv, OrderRead, Has, vars
  <2>7. \A type : Has(view.outbox, type)' = Has(Ids, type)
    BY <2>2, <2>5 DEF Has, vars
  <2>8. OutboxRead'
    <3>1. "order-service" \in Service /\ "ticket-service" \in Service
      BY DEF Service
    <3> QED BY <1>1, <2>1, <2>5, <2>6, <2>7, <3>1, Explained DEF OutboxRead, OrderRead
  <2>9. InboxRead' /\ RowsRead'
    BY <2>2 DEF InboxRead, RowsRead
  <2> QED BY <2>2, <2>4, <2>6, <2>8, <2>9 DEF ViewInv
<1>3. CASE Queries[reads + 1] = "inbox"
  <2>1. reads = 2
    BY <1>1, <1>3, Turns
  <2>2. /\ IInv' /\ reads' = 3 /\ UNCHANGED <<vars, Ids>>
        /\ view' = [view EXCEPT !.inbox = Table["inbox"]]
    BY <1>1, <1>3, <2>1, QueryFacts
  <2>3. Table["inbox"] = inbox
    BY DEF Table
  <2>4. ViewTypeOK'
    BY <1>1, <2>2, <2>3, ViewTypes DEF Views, TypeOK, Ids, vars
  <2>5. view'.inbox = inbox /\ view'.order = view.order /\ view'.outbox = view.outbox
    BY <1>1, <2>2, <2>3 DEF ViewTypeOK
  <2>6. OrderRead' /\ OutboxRead'
    BY <2>1, <2>2, <2>5, <1>1 DEF ViewInv, OrderRead, OutboxRead, Has, vars
  <2>7. /\ \A type : Has(view.outbox, type)' = Has(view.outbox, type)
        /\ \A s \in Service : \A type :
             /\ Has(view.inbox[s], type)' = Has(inbox[s], type)
             /\ Has(view.inbox[s] \cap view.outbox, type)'
                  = Has(inbox[s] \cap view.outbox, type)
    BY <2>2, <2>5 DEF Has, vars
  <2>8. ASSUME ~cut PROVE InboxRead'
    <3>1. /\ view.order = "PAYMENT_AUTHORIZED" => Has(inbox["order-service"], "PaymentAuthorized")
          /\ view.order = "TICKET_ISSUED" => Has(inbox["order-service"], "TicketIssued")
      BY <2>1 DEF ViewInv, OrderRead
    <3>2. /\ Has(view.outbox, "OrderCreated")
          /\ Has(view.outbox, "TicketIssued") => Has(view.outbox, "PaymentAuthorized")
          /\ view.outbox \subseteq Ids
      BY <2>1, <2>8 DEF ViewInv, OutboxRead, ViewTypeOK, Ids
    <3>3. Has(view.outbox, "PaymentAuthorized") =>
            Has(inbox["payment-service"] \cap view.outbox, "OrderCreated")
      <4>1. 1 \in view.outbox /\ outbox[1] = "OrderCreated"
        BY <1>1, <3>2 DEF Has, IInv, Origin
      <4>2. Has(view.outbox, "PaymentAuthorized") => 1 \in inbox["payment-service"]
        BY <1>1, <3>2, Explained DEF Has
      <4> QED BY <4>1, <4>2 DEF Has
    <3>4. Has(view.outbox, "TicketIssued") =>
            Has(inbox["ticket-service"] \cap view.outbox, "PaymentAuthorized")
      <4> SUFFICES ASSUME Has(view.outbox, "TicketIssued")
                   PROVE  Has(inbox["ticket-service"] \cap view.outbox, "PaymentAuthorized")
        OBVIOUS
      <4>1. PICK p \in view.outbox : outbox[p] = "PaymentAuthorized"
        BY <3>2 DEF Has
      <4>2. Has(inbox["ticket-service"], "PaymentAuthorized")
        BY <1>1, <3>2, Explained DEF Has
      <4>3. PICK q \in inbox["ticket-service"] : outbox[q] = "PaymentAuthorized"
        BY <4>2 DEF Has
      <4>4. p \in Ids /\ q \in Ids
        BY <1>1, <3>2, <4>1, <4>3, Explained DEF Service
      <4>5. p = q
        BY <1>1, <4>1, <4>3, <4>4 DEF IInv, Rows
      <4> QED BY <4>1, <4>3, <4>5 DEF Has
    <3> QED BY <2>5, <2>7, <3>1, <3>3, <3>4 DEF InboxRead, Service
  <2>9. InboxRead'
    BY <1>1, <2>8 DEF InboxRead
  <2>10. RowsRead'
    BY <2>2 DEF RowsRead
  <2> QED BY <2>2, <2>4, <2>6, <2>9, <2>10 DEF ViewInv
<1> QED BY <1>1, <1>2, <1>3

(* A list that breaks off makes no promise.                                *)
LEMMA ReadCutInv == ViewInv /\ ReadCut => ViewInv'
<1> SUFFICES ASSUME ViewInv, ReadCut PROVE ViewInv'
  OBVIOUS
<1>1. ViewTypeOK /\ IInv /\ TypeOK /\ cut' = TRUE
  BY DEF ViewInv, IInv, ReadCut
<1>2. PICK ids \in SUBSET Table.outbox :
        \/ Asks({"outbox"}) /\ Query(ids)
        \/ Asks({"inbox"}) /\ Query([s \in Service |-> inbox[s] \cap ids])
  BY DEF ReadCut
<1>3. ids \subseteq 1..Len(outbox)
  BY DEF Table
<1>4. CASE Asks({"outbox"}) /\ Query(ids)
  <2>1. reads = 1 /\ Queries[reads + 1] = "outbox"
    BY <1>1, <1>4, Turns DEF Asks
  <2>2. /\ IInv' /\ reads' = 2 /\ UNCHANGED <<vars, Ids>>
        /\ view' = [view EXCEPT !.outbox = ids]
    BY <1>4, <2>1, QueryFacts
  <2>3. ViewTypeOK'
    BY <1>1, <1>3, <2>2, QueriesFacts DEF ViewTypeOK, vars
  <2>4. OrderRead'
    <3>1. view'.order = view.order
      BY <1>1, <2>2 DEF ViewTypeOK
    <3> QED BY <2>1, <2>2, <3>1 DEF ViewInv, OrderRead, Has, vars
  <2> QED BY <1>1, <2>2, <2>3, <2>4 DEF ViewInv, OutboxRead, InboxRead, RowsRead
<1>5. CASE Asks({"inbox"}) /\ Query([s \in Service |-> inbox[s] \cap ids])
  <2>1. reads = 2 /\ Queries[reads + 1] = "inbox"
    BY <1>1, <1>5, Turns DEF Asks
  <2>2. /\ IInv' /\ reads' = 3 /\ UNCHANGED <<vars, Ids>>
        /\ view' = [view EXCEPT !.inbox = [s \in Service |-> inbox[s] \cap ids]]
    BY <1>5, <2>1, QueryFacts
  <2>3. ViewTypeOK'
    <3>1. [s \in Service |-> inbox[s] \cap ids] \in [Service -> SUBSET (1..Len(outbox))]
      BY <1>3
    <3> QED BY <1>1, <2>2, <3>1, QueriesFacts DEF ViewTypeOK, vars
  <2>4. OrderRead'
    <3>1. view'.order = view.order
      BY <1>1, <2>2 DEF ViewTypeOK
    <3> QED BY <2>1, <2>2, <3>1 DEF ViewInv, OrderRead, Has, vars
  <2> QED BY <1>1, <2>2, <2>3, <2>4 DEF ViewInv, OutboxRead, InboxRead, RowsRead
<1> QED BY <1>2, <1>4, <1>5

(* A row is read after its event, and committed with it.                   *)
LEMMA ReadRowInv == ViewInv /\ ReadRow => ViewInv'
<1> SUFFICES ASSUME ViewInv, ReadRow PROVE ViewInv'
  OBVIOUS
<1>1. /\ ViewTypeOK /\ IInv /\ TypeOK /\ cut' = cut /\ reads < Len(Queries)
      /\ Query(Table[Queries[reads + 1]])
      /\ Queries[reads + 1] \in {"payment", "ticket"}
  BY DEF ViewInv, IInv, ReadRow, Asks
<1>2. view.outbox \subseteq Ids
  BY <1>1 DEF ViewTypeOK, Ids
<1>3. ASSUME NEW type, Has(view.outbox, type) PROVE Has(Ids, type)
  BY <1>2, <1>3 DEF Has
<1>4. ASSUME reads' = reads + 1, reads \in 3..4, UNCHANGED <<vars, Ids>>,
             view'.order = view.order, view'.outbox = view.outbox,
             view'.inbox = view.inbox
      PROVE  OrderRead' /\ OutboxRead' /\ InboxRead'
  BY <1>1, <1>4 DEF ViewInv, OrderRead, OutboxRead, InboxRead, Has, vars
<1>5. CASE Queries[reads + 1] = "payment"
  <2>1. reads = 3
    BY <1>1, <1>5, Turns
  <2>2. /\ IInv' /\ reads' = 4 /\ UNCHANGED <<vars, Ids>>
        /\ view' = [view EXCEPT !.payment = Table["payment"]]
    BY <1>1, <1>5, <2>1, QueryFacts
  <2>3. Table["payment"] = payments
    BY DEF Table
  <2>4. ViewTypeOK'
    BY <1>1, <2>2, <2>3, ViewTypes DEF Views, TypeOK, Ids, vars
  <2>5. /\ view'.payment = payments /\ view'.order = view.order
        /\ view'.outbox = view.outbox /\ view'.inbox = view.inbox
    BY <1>1, <2>2, <2>3 DEF ViewTypeOK
  <2>6. RowsRead'
    <3>1. Has(view.outbox, "PaymentAuthorized")' => payments = 1
      BY <1>1, <1>3, <2>2, <2>5, Explained DEF Has, vars
    <3> QED BY <2>2, <2>5, <3>1 DEF RowsRead
  <2> QED BY <1>4, <2>1, <2>2, <2>4, <2>5, <2>6 DEF ViewInv
<1>6. CASE Queries[reads + 1] = "ticket"
  <2>1. reads = 4
    BY <1>1, <1>6, Turns
  <2>2. /\ IInv' /\ reads' = 5 /\ UNCHANGED <<vars, Ids>>
        /\ view' = [view EXCEPT !.ticket = Table["ticket"]]
    BY <1>1, <1>6, <2>1, QueryFacts
  <2>3. Table["ticket"] = tickets
    BY DEF Table
  <2>4. ViewTypeOK'
    <3>1. cut' \in BOOLEAN
      BY <1>1, Zenon DEF ViewTypeOK
    <3>2. reads' \in 0..5
      BY <2>2
    <3>3. view' \in Views'
      BY <1>1, <2>2, <2>3, ViewTypes DEF Views, TypeOK, vars
    <3> QED BY <3>1, <3>2, <3>3, ViewTypes, Zenon
  <2>5. /\ view'.ticket = tickets /\ view'.payment = view.payment
        /\ view'.order = view.order
        /\ view'.outbox = view.outbox /\ view'.inbox = view.inbox
    BY <1>1, <2>2, <2>3 DEF ViewTypeOK
  <2>6. RowsRead'
    <3>1. Has(view.outbox, "TicketIssued")' => tickets = 1
      BY <1>1, <1>3, <2>2, <2>5, Explained DEF Has, vars
    <3>2. ~cut /\ Has(view.outbox, "PaymentAuthorized")' => view.payment = 1
      BY <2>1, <2>2, <2>5 DEF ViewInv, RowsRead, Has, vars
    <3> QED BY <1>1, <2>2, <2>5, <3>1, <3>2 DEF RowsRead
  <2> QED BY <1>4, <2>1, <2>2, <2>4, <2>5, <2>6 DEF ViewInv
<1> QED BY <1>1, <1>5, <1>6

(* The next poll starts from nothing.                                      *)
LEMMA PollInv == ViewInv /\ Poll => ViewInv'
<1> SUFFICES ASSUME ViewInv, Poll PROVE ViewInv'
  OBVIOUS
<1>1. reads' = 0 /\ view' = Blank /\ cut' = FALSE /\ UNCHANGED vars
  BY DEF Poll
<1>2. IInv'
  BY <1>1, NextInv DEF ViewInv
<1>3. ViewTypeOK'
  <2>1. cut' \in BOOLEAN
    BY <1>1, Zenon
  <2>2. reads' \in 0..5 /\ view' \in Views'
    BY <1>1, BlankIsView
  <2> QED BY <2>1, <2>2, ViewTypes, Zenon
<1> QED BY <1>1, <1>2, <1>3 DEF ViewInv, OrderRead, OutboxRead, InboxRead, RowsRead

(* Each step of the saga and each query keeps the invariant.               *)
LEMMA ViewNextInv == ViewInv /\ [ViewNext]_<<vars, reader>> => ViewInv'
BY SagaStepInv, ReadOrderInv, ReadListInv, ReadCutInv, ReadRowInv, PollInv
   DEF ViewNext, Reader, reader

(* The view holds what the tables can hold: no event and no entry that was
   never recorded.                                                         *)
THEOREM ViewTypeCorrect == ViewSpec => []ViewTypeOK
<1>1. ViewInv => ViewTypeOK
  BY DEF ViewInv
<1> QED BY <1>1, ViewInitInv, ViewNextInv, PTL DEF ViewSpec

(* What Execute returns explains the status at its head, for any number of
   steps of the saga between any two of its queries.                       *)
THEOREM StatusExplained == ViewSpec => []StatusIsExplained
<1>1. ASSUME ViewInv PROVE StatusIsExplained
  <2> SUFFICES ASSUME Complete PROVE StatusIsExplained
    BY DEF StatusIsExplained
  <2>1. reads = 5 /\ ~cut
    BY QueriesFacts DEF Complete
  <2>2. OutboxRead /\ InboxRead /\ RowsRead
    BY <1>1 DEF ViewInv
  <2> QED BY <2>1, <2>2
          DEF StatusIsExplained, OutboxRead, InboxRead, RowsRead, Has, Shown, Processed
<1> QED BY <1>1, ViewInitInv, ViewNextInv, PTL DEF ViewSpec

(* Each event that Execute returns comes with its row and with the entry of its
   cause, whatever the saga does between the queries.                      *)
THEOREM EventsExplained == ViewSpec => []EventsAreExplained
<1>1. ASSUME ViewInv PROVE EventsAreExplained
  <2> SUFFICES ASSUME Complete PROVE EventsAreExplained
    BY DEF EventsAreExplained
  <2>1. reads = 5 /\ ~cut
    BY QueriesFacts DEF Complete
  <2>2. OutboxRead /\ InboxRead /\ RowsRead
    BY <1>1 DEF ViewInv
  <2> QED BY <2>1, <2>2
          DEF EventsAreExplained, OutboxRead, InboxRead, RowsRead, Has, Shown, Processed
<1> QED BY <1>1, ViewInitInv, ViewNextInv, PTL DEF ViewSpec
===============================================================================
