---------------------------- MODULE BookingPromise ----------------------------
(***************************************************************************)
(* What the API promises the rest of the saga: the status of an order and  *)
(* the event that tells the other services of it appear in one step, or    *)
(* neither does; an order is created once and refunded only if it exists.  *)
(* The API steps of Saga are these two.                                    *)
(***************************************************************************)
CONSTANTS
  Create,  \* the requests that may create an order, each an order of its own
  Refund   \* the requests that may refund one

VARIABLES
  status,  \* orders.status, "absent" for an order that does not exist
  events   \* the requests whose event is recorded in the outbox

Init ==
  /\ status = [o \in Create |-> "absent"]
  /\ events = {}

CreateOrder(o) ==
  /\ status[o] = "absent"
  /\ status' = [status EXCEPT ![o] = "CREATED"]
  /\ events' = events \cup {o}

RefundOrder(f, o) ==
  /\ f \notin events
  /\ status[o] # "absent"
  /\ status' = [status EXCEPT ![o] = "REFUND_PENDING"]
  /\ events' = events \cup {f}

Next ==
  \E o \in Create : CreateOrder(o) \/ \E f \in Refund : RefundOrder(f, o)

Spec == Init /\ [][Next]_<<status, events>>
===============================================================================
