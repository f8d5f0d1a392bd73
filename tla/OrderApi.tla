------------------------------- MODULE OrderApi -------------------------------
(***************************************************************************)
(* The requests that write: POST /orders behind the idempotency middleware *)
(* (internal/api/middleware/idempotency.go) and POST /orders/{id}/refund,  *)
(* from the router to the answer, through WithinTransaction                *)
(* (internal/infrastructure/postgres/tx_manager.go).  One call to Redis or *)
(* PostgreSQL is one step; the requests, at one instance of the API or at  *)
(* several, share the idempotency keys and the tables and nothing else.    *)
(*                                                                         *)
(* A request is its own order (uuid.New) and its own outbox event.         *)
(***************************************************************************)
EXTENDS Integers, FiniteSets

CONSTANTS
  Create,  \* POST /orders requests
  Refund,  \* POST /orders/{id}/refund requests
  Key,     \* values of the header Idempotency-Key
  KeyOf,   \* the header of each Create; None when it has none
  Budget   \* how many faults of each kind may happen

(* What can go wrong, by the call it happens in:
     redis   Get, SetNX or Set reports an error; a write may have happened
     ttl     a key runs out: 10 s after SetNX, 24 h after Set
     db      Begin or a statement of the transaction fails
     commit  Commit reports an error, the server having committed or not
     panic   the handler panics
     cancel  the client goes away, which cancels the request's context
     kill    the instance dies, or Shutdown's 5 s end, amid the request   *)
FaultKind == {"redis", "ttl", "db", "commit", "panic", "cancel", "kill"}

None == "none"

Request == Create \cup Refund

ASSUME CreateAssumption == IsFiniteSet(Create) /\ None \notin Create
ASSUME RefundAssumption == IsFiniteSet(Refund) /\ Create \cap Refund = {}
ASSUME KeyAssumption == None \notin Key
ASSUME KeyOfAssumption == KeyOf \in [Create -> Key \cup {None}]
ASSUME BudgetAssumption == Budget \in [FaultKind -> Nat]

VARIABLES
  pc,       \* where each request is
  target,   \* the order it is about
  answer,   \* what its handler wrote; the client has it when pc is "done"
  guarded,  \* requests that acquired the lock of their key
  gone,     \* requests whose context is cancelled
  tx,       \* what each request's open transaction has written
  redis,    \* the idempotency keys in Redis, None when there is no such key
  status,   \* orders.status, "absent" before the row is committed
  events,   \* requests whose outbox event is committed
  faults    \* faults so far, by kind (history; bounded by Budget)

request == <<pc, target, answer, guarded, gone>>
tables == <<status, events>>
vars == <<request, tx, redis, tables, faults>>

TypeOK ==
  /\ pc \in [Request -> {"idle", "setnx", "begin", "outbox", "commit",
                         "complete", "done"}]
  /\ target \in [Request -> Create \cup {None}]
  /\ answer \in [Request -> {None, "success", "error", "conflict", "lost"}]
  /\ guarded \subseteq Create /\ gone \subseteq Request
  /\ tx \in [Request -> SUBSET {"row", "event"}]
  /\ redis \in [Key -> {None, "PROCESSING", "COMPLETED"}]
  /\ status \in [Create -> {"absent", "CREATED", "REFUND_PENDING"}]
  /\ events \subseteq Request
  /\ faults \in [FaultKind -> Nat]

Init ==
  /\ pc = [r \in Request |-> "idle"]
  /\ target = [r \in Request |-> IF r \in Create THEN r ELSE None]
  /\ answer = [r \in Request |-> None]
  /\ guarded = {} /\ gone = {}
  /\ tx = [r \in Request |-> {}]
  /\ redis = [k \in Key |-> None]
  /\ status = [o \in Create |-> "absent"] /\ events = {}
  /\ faults = [k \in FaultKind |-> 0]

-------------------------------------------------------------------------------

Fault(k) ==
  /\ faults[k] < Budget[k]
  /\ faults' = [faults EXCEPT ![k] = @ + 1]

(* A call to Redis or PostgreSQL fails: by a fault or, the context being
   cancelled, without one; a call that starts after that always fails.     *)
Fails(r, k) == IF r \in gone THEN UNCHANGED faults ELSE Fault(k)

Works(r) == r \notin gone /\ UNCHANGED faults

Goto(r, label) == pc' = [pc EXCEPT ![r] = label]

\* The middleware answers by itself, without the handler.
Conflict(r) ==
  /\ answer' = [answer EXCEPT ![r] = "conflict"]
  /\ Goto(r, "done")

\* The handler returns to the middleware, or to the router if it was not locked.
Return(r, a) ==
  /\ answer' = [answer EXCEPT ![r] = a]
  /\ Goto(r, IF r \in guarded THEN "complete" ELSE "done")

\* The header of a request; refunds are not behind the middleware.
IdemKey(r) == IF r \in Create THEN KeyOf[r] ELSE None

\* Redis holds v under r's key.
SetKey(r, v) == redis' = [redis EXCEPT ![IdemKey(r)] = v]

(* The orders a request can be about: a new one, or one that the client of a
   refund has been told of.                                                *)
Addressed(r) ==
  IF r \in Create THEN {r}
  ELSE {o \in Create : pc[o] = "done" /\ answer[o] = "success" /\ o \notin gone}

\* Nothing to do for the middleware: the handler starts.
Receive(r) ==
  /\ pc[r] = "idle" /\ IdemKey(r) = None
  /\ \E o \in Addressed(r) : target' = [target EXCEPT ![r] = o]
  /\ Goto(r, "begin")
  /\ UNCHANGED <<answer, guarded, gone, tx, redis, tables, faults>>

\* Get: whatever the key holds, the request counts as processed already.
Get(r) ==
  /\ pc[r] = "idle" /\ IdemKey(r) # None
  /\ UNCHANGED faults
  /\ IF redis[IdemKey(r)] # None
     THEN Conflict(r)
     ELSE Goto(r, "setnx") /\ UNCHANGED answer
  /\ UNCHANGED <<target, guarded, gone, tx, redis, tables>>

\* Any error but redis.Nil: the handler runs, without a lock.
GetError(r) ==
  /\ pc[r] = "idle" /\ IdemKey(r) # None
  /\ Fault("redis")
  /\ Goto(r, "begin")
  /\ UNCHANGED <<target, answer, guarded, gone, tx, redis, tables>>

\* (mutant) Set instead of SetNX: the Get before it was thought to be enough
SetAnyway(r) ==
  /\ pc[r] = "setnx" /\ Works(r)
  /\ SetKey(r, "PROCESSING") /\ guarded' = guarded \cup {r}
  /\ Goto(r, "begin")
  /\ UNCHANGED <<target, answer, gone, tx, tables>>

\* (mutant) the middleware is mounted twice, and the second time finds the key
SetNXTwice(r) ==
  /\ pc[r] = "setnx" /\ Works(r)
  /\ IF redis[IdemKey(r)] = None
     THEN /\ SetKey(r, "PROCESSING") /\ guarded' = guarded \cup {r}
          /\ UNCHANGED <<pc, answer>>
     ELSE Conflict(r) /\ UNCHANGED <<redis, guarded>>
  /\ UNCHANGED <<target, gone, tx, tables>>

\* SetNX: the first of those that saw no key gets it, for 10 s.
SetNX(r) ==
  /\ pc[r] = "setnx" /\ Works(r)
  /\ IF redis[IdemKey(r)] = None
     THEN /\ SetKey(r, "PROCESSING") /\ guarded' = guarded \cup {r}
          /\ Goto(r, "begin")
          /\ UNCHANGED answer
     ELSE Conflict(r) /\ UNCHANGED <<redis, guarded>>
  /\ UNCHANGED <<target, gone, tx, tables>>

(* SetNX reports an error, or false because the client library repeated an
   attempt that had set the key: a conflict with nobody.                   *)
SetNXError(r) ==
  /\ pc[r] = "setnx" /\ Fails(r, "redis")
  /\ \/ UNCHANGED redis
     \/ redis[IdemKey(r)] = None /\ SetKey(r, "PROCESSING")
  /\ Conflict(r)
  /\ UNCHANGED <<target, guarded, gone, tx, tables>>

-------------------------------------------------------------------------------

(* UPDATE orders waits for a transaction that has updated the same row; the
   INSERT of a fresh id waits for nobody.                                  *)
RowLocked(r) == \E q \in Request \ {r} : tx[q] # {} /\ target[q] = target[r]

\* Begin and the first statement: INSERT INTO orders, or UPDATE orders.
WriteRow(r) ==
  /\ pc[r] = "begin" /\ Works(r)
  /\ ~RowLocked(r)
  /\ r \in Refund => status[target[r]] # "absent"
  /\ tx' = [tx EXCEPT ![r] = {"row"}]
  /\ Goto(r, "outbox")
  /\ UNCHANGED <<target, answer, guarded, gone, redis, tables>>

\* (mutant) the outbox repository takes the pool and not the transaction in ctx
WriteEventOutside(r) ==
  /\ pc[r] = "outbox" /\ Works(r)
  /\ events' = events \cup {r}
  /\ Goto(r, "commit")
  /\ UNCHANGED <<target, answer, guarded, gone, tx, redis, status>>

\* INSERT INTO outbox, in the transaction that GetTx finds in the context.
WriteEvent(r) ==
  /\ pc[r] = "outbox" /\ Works(r)
  /\ tx' = [tx EXCEPT ![r] = @ \cup {"event"}]
  /\ Goto(r, "commit")
  /\ UNCHANGED <<target, answer, guarded, gone, redis, tables>>

Rollback(r) == tx' = [tx EXCEPT ![r] = {}]

\* (mutant) the error of the transaction is not handed on
HandlerErrorSwallowed(r) ==
  /\ pc[r] \in {"begin", "outbox"} /\ Fails(r, "db")
  /\ Rollback(r)
  /\ Return(r, "success")
  /\ UNCHANGED <<target, guarded, gone, redis, tables>>

\* Begin or a statement fails, the transaction rolls back: 500.
HandlerError(r) ==
  /\ pc[r] \in {"begin", "outbox"} /\ Fails(r, "db")
  /\ Rollback(r)
  /\ Return(r, "error")
  /\ UNCHANGED <<target, guarded, gone, redis, tables>>

\* An undecodable body of POST /orders (400), or a refund of no order (500).
Reject(r) ==
  /\ pc[r] = "begin"
  /\ r \in Refund => status[target[r]] = "absent"
  /\ Return(r, "error")
  /\ UNCHANGED <<target, guarded, gone, tx, redis, tables, faults>>

\* (mutant) WithinTransaction does not recover: the transaction stays open
PanicUnrecovered(r) ==
  /\ pc[r] \in {"begin", "outbox"} /\ Fault("panic")
  /\ answer' = [answer EXCEPT ![r] = "error"]
  /\ Goto(r, "done")
  /\ UNCHANGED <<target, guarded, gone, tx, redis, tables>>

(* The deferred function rolls back and panics on, past the middleware, whose
   key stays as it is, to the Recoverer, which answers 500.                *)
Panic(r) ==
  /\ pc[r] \in {"begin", "outbox"} /\ Fault("panic")
  /\ Rollback(r)
  /\ answer' = [answer EXCEPT ![r] = "error"]
  /\ Goto(r, "done")
  /\ UNCHANGED <<target, guarded, gone, redis, tables>>

\* What the transaction wrote becomes visible, all of it.
Apply(r) ==
  /\ status' = [status EXCEPT ![target[r]] =
                  IF "row" \notin tx[r] THEN @
                  ELSE IF r \in Create THEN "CREATED" ELSE "REFUND_PENDING"]
  /\ events' = IF "event" \in tx[r] THEN events \cup {r} ELSE events

\* The deferred Commit, after which the handler answers 201 or 202.
Commit(r) ==
  /\ pc[r] = "commit" /\ Works(r)
  /\ Apply(r) /\ Rollback(r)
  /\ Return(r, "success")
  /\ UNCHANGED <<target, guarded, gone, redis>>

(* Its error is assigned to a variable that `return err` has read already:
   WithinTransaction returns nil and the handler answers as if all was well. *)
CommitError(r) ==
  /\ pc[r] = "commit" /\ Fails(r, "commit")
  /\ Apply(r) \/ UNCHANGED tables
  /\ Rollback(r)
  /\ Return(r, "success")
  /\ UNCHANGED <<target, guarded, gone, redis>>

\* (mutant) the answer is stored, as the comment at idempotency.go:63 suggests
CompleteWithAnswer(r) ==
  /\ pc[r] = "complete" /\ Works(r)
  /\ SetKey(r, answer[r])
  /\ Goto(r, "done")
  /\ UNCHANGED <<target, answer, guarded, gone, tx, tables>>

\* Back in the middleware: the key is taken for 24 h, whatever the answer was.
Complete(r) ==
  /\ pc[r] = "complete" /\ Works(r)
  /\ SetKey(r, "COMPLETED")
  /\ Goto(r, "done")
  /\ UNCHANGED <<target, answer, guarded, gone, tx, tables>>

\* The error of Set is not looked at; the lock may be left to its 10 s.
CompleteError(r) ==
  /\ pc[r] = "complete" /\ Fails(r, "redis")
  /\ UNCHANGED redis \/ SetKey(r, "COMPLETED")
  /\ Goto(r, "done")
  /\ UNCHANGED <<target, answer, guarded, gone, tx, tables>>

-------------------------------------------------------------------------------

InFlight(r) == pc[r] \notin {"idle", "done"}

\* The client disconnects: nobody reads the answer, later calls all fail.
Cancel(r) ==
  /\ InFlight(r) /\ r \notin gone
  /\ Fault("cancel")
  /\ gone' = gone \cup {r}
  /\ UNCHANGED <<pc, target, answer, guarded, tx, redis, tables>>

(* The instance that serves r dies: PostgreSQL rolls back, unless the commit
   was on its way.  An answer is flushed when the middleware has returned,
   so the client gets none.                                                *)
Kill(r) ==
  /\ InFlight(r) /\ Fault("kill")
  /\ UNCHANGED tables \/ (pc[r] = "commit" /\ Apply(r))
  /\ Rollback(r)
  /\ answer' = [answer EXCEPT ![r] = "lost"]
  /\ Goto(r, "done")
  /\ UNCHANGED <<target, guarded, gone, redis>>

\* A key runs out, its request being handled or not.
Expire(k) ==
  /\ redis[k] # None
  /\ redis' = [redis EXCEPT ![k] = None]
  /\ Fault("ttl")
  /\ UNCHANGED <<request, tx, tables>>

Middleware(r) ==
  \/ SetNX(r) \/ SetNXError(r) \/ Complete(r) \/ CompleteError(r)

Handler(r) ==
  \/ WriteRow(r) \/ WriteEvent(r) \/ HandlerError(r) \/ Reject(r) \/ Panic(r)
  \/ Commit(r) \/ CommitError(r)

Next ==
  \/ \E r \in Request :
       \/ Receive(r) \/ Get(r) \/ GetError(r)
       \/ Middleware(r) \/ Handler(r)
       \/ Cancel(r) \/ Kill(r)
  \/ \E k \in Key : Expire(k)

Spec == Init /\ [][Next]_vars

(* A request that was received goes on: its calls are answered, with an error
   once its context is cancelled, and PostgreSQL wakes an UPDATE that waited
   for another transaction.  Nobody has to send a request, nothing else has
   to fail and no key has to expire.                                       *)
FairSpec ==
  /\ Spec
  /\ \A r \in Request :
       /\ WF_vars(\/ SetNX(r) \/ Complete(r) \/ WriteRow(r) \/ WriteEvent(r)
                  \/ Reject(r) \/ Commit(r))
       /\ WF_vars(/\ r \in gone
                  /\ \/ SetNXError(r) \/ CompleteError(r)
                     \/ HandlerError(r) \/ CommitError(r))

-------------------------------------------------------------------------------

OrdersOf(k) == {o \in Create : KeyOf[o] = k /\ status[o] # "absent"}

(* README.md:112: requests with the same key create one order, in whatever
   order their calls to Redis interleave and whoever of them fails, goes away
   or dies.  What may add an order is a key that ran out (a handler slower
   than the 10 s of the lock included) and a Redis call that failed.       *)
OrdersPerKey ==
  \A k \in Key : Cardinality(OrdersOf(k)) <= 1 + faults["ttl"] + faults["redis"]

\* The clients that wait for an answer and have got one.
Answered(a) == {r \in Request : pc[r] = "done" /\ answer[r] = a /\ r \notin gone}

(* The answer agrees with the tables: after an error or a conflict there is
   nothing of the request in them, after a success everything, but for one
   request per failed commit.                                              *)
AnswersAreAccountedFor ==
  /\ (Answered("error") \cup Answered("conflict")) \cap events = {}
  /\ Cardinality(Answered("success") \ events) <= faults["commit"]

(* A client is told of a conflict only if another request with its key got
   past the middleware, or a call to Redis failed: keys do not interfere,
   and no request runs into its own lock.                                  *)
ConflictIsJustified ==
  \A c \in Answered("conflict") :
    \/ \E d \in Create \ {c} : KeyOf[d] = KeyOf[c] /\ d \in guarded \cup gone
    \/ faults["redis"] > 0

(* Whoever waits for the row of an order waits for one request, and that one is
   about to commit: no transaction is left open by a request that is answered,
   failed, panicked or died, and no two have updated the same order.       *)
RowLocksEnd ==
  \A r \in Request : tx[r] # {} => pc[r] \in {"outbox", "commit"} /\ ~RowLocked(r)

(* Every request that was received is answered: no update waits for ever for a
   row, whatever became of the transaction that held it.                   *)
EventuallyAnswered ==
  \A r \in Request : InFlight(r) ~> pc[r] = "done"

(* docs/architecture_v2.md:52-53: the client gets its OK after the transaction
   was committed; an order it was told of exists.                          *)
CreatedMeansStored ==
  \A c \in Create \cap Answered("success") : status[c] # "absent"

Promise == INSTANCE BookingPromise

(* Status and event of an order change together, for any interleaving of the
   requests and with every fault: what the saga rests on.                  *)
KeepsPromise == Promise!Spec
===============================================================================
