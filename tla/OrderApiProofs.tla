---------------------------- MODULE OrderApiProofs ----------------------------
(***************************************************************************)
(* What OrderApi promises for any number of requests, orders and keys and  *)
(* any budget of faults.  The inductive invariants:                        *)
(*   TypeOK                                                                *)
(*   Aimed    a request is about one order, and a refund has no lock       *)
(*   Stored   an order is there when its event is; a request that has not  *)
(*            come to its commit has left no event, and one that is about  *)
(*            to commit has written its row and its event                  *)
(*   Told     what a request is answered with agrees with its event, but   *)
(*            for one success per failed commit                            *)
(*   Locks    a key in Redis is the trace of a request that took the lock  *)
(*            or went away, or of an error of Redis                        *)
(*   Claims   the requests that may create an order under a key, and the   *)
(*            key while it is free, are one more than the keys that ran    *)
(*            out and the errors of Redis, at most                         *)
(***************************************************************************)
EXTENDS OrderApi, FiniteSetTheorems, TLAPS

Aimed ==
  /\ \A c \in Create : target[c] = c
  /\ \A f \in Refund : pc[f] # "setnx" /\ (pc[f] # "idle" => target[f] \in Create)

\* Where a request has not committed anything.
Early == {"idle", "setnx", "begin", "outbox", "commit"}

Stored ==
  /\ \A f \in Refund : pc[f] \in {"outbox", "commit"} => status[target[f]] # "absent"
  /\ \A r \in Request : pc[r] = "outbox" => tx[r] = {"row"}
  /\ \A r \in Request : pc[r] = "commit" => tx[r] = {"row", "event"}
  /\ \A r \in Request : pc[r] \in Early => r \notin events
  /\ \A o \in Create : status[o] = "absent" <=> o \notin events

TypeInv == TypeOK /\ Aimed

(* Requests start idle, with no order, no event and no answer.             *)
LEMMA InitInv == Init => TypeInv /\ Stored
BY RefundAssumption DEF Init, TypeInv, TypeOK, Aimed, Stored, Request, Early

(* A fault, whether it takes place or not, is counted.                     *)
LEMMA FaultType ==
  ASSUME TypeOK
  PROVE  /\ \A k : Fault(k) => faults' \in [FaultKind -> Nat]
         /\ \A r, k : Fails(r, k) => faults' \in [FaultKind -> Nat]
         /\ \A r : Works(r) => faults' \in [FaultKind -> Nat]
BY DEF TypeOK, Fault, Fails, Works, FaultKind

(* A request past the middleware has the order that a commit writes.       *)
LEMMA ApplyType ==
  ASSUME TypeInv, NEW r \in Request, pc[r] # "idle", Apply(r)
  PROVE  /\ status' \in [Create -> {"absent", "CREATED", "REFUND_PENDING"}]
         /\ events' \subseteq Request
<1>1. target[r] \in Create
  BY DEF TypeInv, Aimed, Request
<1> QED BY <1>1 DEF Apply, TypeInv, TypeOK

(* Every call of the middleware and of the handlers, and every fault, leaves
   the variables well typed and the requests with the order they are about. *)
LEMMA NextType == TypeInv /\ [Next]_vars => TypeInv'
<1> SUFFICES ASSUME TypeInv, [Next]_vars PROVE TypeInv'
  OBVIOUS
<1>0. TypeOK /\ Aimed /\ Refund \subseteq Request /\ Create \subseteq Request
  BY DEF TypeInv, Request
<1>1. ASSUME NEW r \in Request, NEW v \in {"PROCESSING", "COMPLETED"}, SetKey(r, v)
      PROVE redis' \in [Key -> {None, "PROCESSING", "COMPLETED"}]
  BY <1>0, <1>1 DEF SetKey, TypeOK
<1>2. ASSUME NEW r \in Request, NEW l \in {"begin", "outbox", "commit", "complete", "done"},
             pc' = [pc EXCEPT ![r] = l], pc[r] # "idle" \/ r \in Create,
             UNCHANGED target
      PROVE Aimed'
  BY <1>0, <1>2, RefundAssumption DEF Aimed, TypeOK
<1>3. ASSUME NEW r \in Request, Receive(r) PROVE TypeInv'
  <2>1. PICK o \in Addressed(r) : target' = [target EXCEPT ![r] = o]
    BY <1>3 DEF Receive
  <2>2. o \in Create /\ (r \in Create => o = r)
    BY DEF Addressed
  <2>3. target' \in [Request -> Create \cup {None}]
    BY <1>0, <2>1, <2>2 DEF TypeOK
  <2>4. TypeOK'
    BY <1>0, <1>3, <2>3 DEF Receive, Goto, TypeOK, tables
  <2>5. Aimed'
    BY <1>0, <1>3, <2>1, <2>2, RefundAssumption DEF Receive, Goto, TypeOK, Aimed
  <2> QED BY <2>4, <2>5 DEF TypeInv
<1>4. ASSUME NEW r \in Request, Get(r) \/ GetError(r) PROVE TypeInv'
  <2>1. TypeOK'
    BY <1>0, <1>4, FaultType DEF Get, GetError, Conflict, Goto, TypeOK, tables
  <2>2. r \in Create
    BY <1>4 DEF Get, GetError, IdemKey
  <2>3. Aimed'
    BY <1>0, <1>4, <2>2, RefundAssumption
       DEF Get, GetError, Conflict, Goto, TypeOK, Aimed
  <2> QED BY <2>1, <2>3 DEF TypeInv
<1>5. ASSUME NEW r \in Request, Middleware(r) PROVE TypeInv'
  <2>0. pc[r] \in {"setnx", "complete"} /\ UNCHANGED <<target, gone, tx, tables>>
    BY <1>5 DEF Middleware, SetNX, SetNXError, Complete, CompleteError
  <2>1. redis' \in [Key -> {None, "PROCESSING", "COMPLETED"}]
    BY <1>0, <1>1, <1>5
       DEF Middleware, SetNX, SetNXError, Complete, CompleteError, TypeOK
  <2>2. faults' \in [FaultKind -> Nat]
    BY <1>0, <1>5, FaultType
       DEF Middleware, SetNX, SetNXError, Complete, CompleteError
  <2>3. guarded' \subseteq Create
    BY <1>0, <1>5
       DEF Middleware, SetNX, SetNXError, Complete, CompleteError, TypeOK, Aimed, Request
  <2>4. /\ answer' = answer \/ answer' = [answer EXCEPT ![r] = "conflict"]
        /\ \E l \in {"begin", "done"} : pc' = [pc EXCEPT ![r] = l]
    BY <1>5 DEF Middleware, SetNX, SetNXError, Complete, CompleteError, Conflict, Goto
  <2>5. TypeOK'
    BY <1>0, <2>0, <2>1, <2>2, <2>3, <2>4 DEF TypeOK, tables
  <2>6. Aimed'
    BY <1>2, <2>0, <2>4
  <2> QED BY <2>5, <2>6 DEF TypeInv
<1>6. ASSUME NEW r \in Request, Handler(r) \/ Kill(r) PROVE TypeInv'
  <2>0. pc[r] # "idle" /\ UNCHANGED <<target, gone, guarded, redis>>
    BY <1>6 DEF Handler, WriteRow, WriteEvent, HandlerError, Reject, Panic,
                Commit, CommitError, Kill, InFlight
  <2>1. faults' \in [FaultKind -> Nat]
    BY <1>0, <1>6, FaultType
       DEF Handler, WriteRow, WriteEvent, HandlerError, Reject, Panic,
           Commit, CommitError, Kill, TypeOK
  <2>2. tx' \in [Request -> SUBSET {"row", "event"}]
    BY <1>0, <1>6
       DEF Handler, WriteRow, WriteEvent, HandlerError, Reject, Panic,
           Commit, CommitError, Kill, Rollback, TypeOK
  <2>3. \E l \in {"begin", "outbox", "commit", "complete", "done"} :
          pc' = [pc EXCEPT ![r] = l]
    BY <1>6
       DEF Handler, WriteRow, WriteEvent, HandlerError, Reject, Panic,
           Commit, CommitError, Kill, Return, Goto
  <2>4. \E a \in {"success", "error", "lost"} :
          answer' = answer \/ answer' = [answer EXCEPT ![r] = a]
    BY <1>6
       DEF Handler, WriteRow, WriteEvent, HandlerError, Reject, Panic,
           Commit, CommitError, Kill, Return
  <2>5. Apply(r) \/ UNCHANGED tables
    BY <1>6
       DEF Handler, WriteRow, WriteEvent, HandlerError, Reject, Panic,
           Commit, CommitError, Kill
  <2>6. /\ status' \in [Create -> {"absent", "CREATED", "REFUND_PENDING"}]
        /\ events' \subseteq Request
    BY <1>0, <2>0, <2>5, ApplyType DEF TypeOK, tables
  <2>7. TypeOK'
    BY <1>0, <2>0, <2>1, <2>2, <2>3, <2>4, <2>6 DEF TypeOK
  <2>8. Aimed'
    BY <1>2, <2>0, <2>3
  <2> QED BY <2>7, <2>8 DEF TypeInv
<1>7. ASSUME NEW r \in Request, Cancel(r) PROVE TypeInv'
  BY <1>0, <1>7, FaultType DEF Cancel, TypeInv, TypeOK, Aimed, tables
<1>8. ASSUME NEW k \in Key, Expire(k) PROVE TypeInv'
  BY <1>0, <1>8, FaultType DEF Expire, TypeInv, TypeOK, Aimed, tables, request
<1>9. CASE UNCHANGED vars
  BY <1>0, <1>9 DEF vars, request, tables, TypeInv, TypeOK, Aimed
<1> QED BY <1>3, <1>4, <1>5, <1>6, <1>7, <1>8, <1>9 DEF Next

(* The keys, tables and requests of the API stay well typed, whatever fails. *)
THEOREM TypeCorrect == Spec => []TypeOK
<1>1. TypeInv => TypeOK
  BY DEF TypeInv
<1> QED BY <1>1, InitInv, NextType, PTL DEF Spec

-------------------------------------------------------------------------------

(* What a commit makes visible is a step of the promise: a new order and its
   event, or a refund of an order that is there and its event.             *)
LEMMA ApplyStored ==
  ASSUME TypeInv, Stored, NEW r \in Request, pc[r] = "commit", Apply(r)
  PROVE  /\ events' = events \cup {r}
         /\ \A o \in Create : status'[o] = "absent" <=> o \notin events'
         /\ \A o \in Create : status[o] # "absent" => status'[o] # "absent"
         /\ Promise!Next
<1>0. /\ tx[r] = {"row", "event"} /\ r \notin events
      /\ status \in [Create -> {"absent", "CREATED", "REFUND_PENDING"}]
      /\ \A o \in Create : status[o] = "absent" <=> o \notin events
  BY DEF Stored, Early, TypeInv, TypeOK
<1>1. CASE r \in Create
  <2>1. target[r] = r
    BY <1>1 DEF TypeInv, Aimed
  <2>2. events' = events \cup {r} /\ status' = [status EXCEPT ![r] = "CREATED"]
    BY <1>0, <1>1, <2>1 DEF Apply
  <2>3. Promise!CreateOrder(r)
    BY <1>0, <1>1, <2>2 DEF Promise!CreateOrder
  <2>4. Promise!Next
    BY <1>1, <2>3 DEF Promise!Next
  <2> QED BY <1>0, <1>1, <2>2, <2>4
<1>2. CASE r \in Refund
  <2>1. /\ target[r] \in Create /\ r \notin Create
        /\ status[target[r]] # "absent"
    BY <1>2, RefundAssumption DEF TypeInv, Aimed, Stored
  <2>2. /\ events' = events \cup {r}
        /\ status' = [status EXCEPT ![target[r]] = "REFUND_PENDING"]
    BY <1>0, <2>1 DEF Apply
  <2>3. Promise!RefundOrder(r, target[r])
    BY <1>0, <2>1, <2>2 DEF Promise!RefundOrder
  <2>4. Promise!Next
    BY <1>2, <2>1, <2>3 DEF Promise!Next
  <2>5. \A o \in Create : o \in events' <=> o \in events
    BY <2>1, <2>2
  <2>6. \A o \in Create : status'[o] = "absent" <=> status[o] = "absent"
    BY <1>0, <2>1, <2>2
  <2> QED BY <1>0, <2>2, <2>4, <2>5, <2>6
<1> QED BY <1>1, <1>2 DEF Request

(* The tables change by a commit only, and a request's transaction holds what
   its handler has written so far.                                         *)
LEMMA NextStored ==
  ASSUME TypeInv, Stored, [Next]_vars
  PROVE  Stored' /\ (Promise!Next \/ UNCHANGED tables)
<1>0. TypeOK /\ Aimed /\ pc \in [Request -> {"idle", "setnx", "begin", "outbox",
                                           "commit", "complete", "done"}]
      /\ tx \in [Request -> SUBSET {"row", "event"}]
      /\ target \in [Request -> Create \cup {None}]
      /\ Refund \subseteq Request /\ Create \subseteq Request
  BY DEF TypeInv, TypeOK, Request
<1>1. ASSUME NEW r \in Request, Receive(r) \/ Get(r) \/ GetError(r) \/ Middleware(r)
      PROVE Stored' /\ UNCHANGED tables
  <2>1. UNCHANGED <<tx, tables>>
    BY <1>1 DEF Receive, Get, GetError, Middleware, SetNX, SetNXError,
                Complete, CompleteError
  <2>2. \E l \in {"setnx", "begin", "done"} :
          pc' = [pc EXCEPT ![r] = l] /\ (pc[r] = "complete" => l = "done")
    BY <1>1 DEF Receive, Get, GetError, Middleware, SetNX, SetNXError,
                Complete, CompleteError, Conflict, Goto
  <2>3. pc[r] \in Early \cup {"complete"}
    BY <1>1 DEF Receive, Get, GetError, Middleware, SetNX, SetNXError,
                Complete, CompleteError, Early
  <2>4. \A q \in Request : q # r => target'[q] = target[q]
    BY <1>0, <1>1 DEF Receive, Get, GetError, Middleware, SetNX, SetNXError,
                Complete, CompleteError
  <2> QED BY <1>0, <2>1, <2>2, <2>3, <2>4 DEF Stored, Early, tables
<1>2. ASSUME NEW r \in Request, WriteRow(r) \/ WriteEvent(r)
      PROVE Stored' /\ UNCHANGED tables
  BY <1>0, <1>2 DEF WriteRow, WriteEvent, Goto, Stored, Early, tables
<1>3. ASSUME NEW r \in Request, pc[r] # "idle", UNCHANGED target,
             \E l \in {"complete", "done"} : pc' = [pc EXCEPT ![r] = l],
             tx' = tx \/ Rollback(r),
             UNCHANGED tables \/ (pc[r] = "commit" /\ Apply(r))
      PROVE Stored' /\ (Promise!Next \/ UNCHANGED tables)
  <2>1. \A q \in Request : q # r => pc'[q] = pc[q] /\ tx'[q] = tx[q]
    BY <1>0, <1>3 DEF Rollback
  <2>2. pc'[r] \in {"complete", "done"}
    BY <1>0, <1>3
  <2>3. CASE UNCHANGED tables
    BY <1>0, <1>3, <2>1, <2>2, <2>3 DEF Stored, Early, tables
  <2>4. CASE pc[r] = "commit" /\ Apply(r)
    <3>1. /\ events' = events \cup {r} /\ Promise!Next
          /\ \A o \in Create : status'[o] = "absent" <=> o \notin events'
          /\ \A o \in Create : status[o] # "absent" => status'[o] # "absent"
      BY <2>4, ApplyStored
    <3> QED BY <1>0, <1>3, <2>1, <2>2, <3>1 DEF Stored, Early, Aimed
  <2> QED BY <1>3, <2>3, <2>4
<1>4. ASSUME NEW r \in Request, HandlerError(r) \/ Reject(r) \/ Panic(r)
      PROVE Stored' /\ (Promise!Next \/ UNCHANGED tables)
  BY <1>3, <1>4 DEF HandlerError, Reject, Panic, Return, Goto
<1>5. ASSUME NEW r \in Request, Commit(r) \/ CommitError(r) \/ Kill(r)
      PROVE Stored' /\ (Promise!Next \/ UNCHANGED tables)
  BY <1>3, <1>5 DEF Commit, CommitError, Kill, InFlight, Return, Goto
<1>6. ASSUME NEW r \in Request, Cancel(r) PROVE Stored' /\ UNCHANGED tables
  BY <1>6 DEF Cancel, Stored, Early, tables
<1>7. ASSUME NEW k \in Key, Expire(k) PROVE Stored' /\ UNCHANGED tables
  BY <1>7 DEF Expire, Stored, Early, tables, request
<1>8. CASE UNCHANGED vars
  BY <1>8 DEF vars, request, tables, Stored, Early
<1> QED BY <1>1, <1>2, <1>4, <1>5, <1>6, <1>7, <1>8 DEF Next, Handler

(* Status and event of an order change together in WithinTransaction, for
   every interleaving of the requests and every fault: the API implements
   BookingPromise.                                                         *)
THEOREM ApiKeepsPromise == Spec => KeepsPromise
<1>1. Init => Promise!Init
  BY DEF Init, Promise!Init
<1>2. TypeInv /\ Stored /\ [Next]_vars => [Promise!Next]_<<status, events>>
  BY NextStored DEF tables
<1>3. TypeInv /\ Stored /\ [Next]_vars => Stored'
  BY NextStored
<1> QED BY <1>1, <1>2, <1>3, InitInv, NextType, PTL DEF Spec, KeepsPromise, Promise!Spec

-------------------------------------------------------------------------------

\* Who was told of a success that is not in the tables, and listened.
Unbacked == {r \in Request \ gone : answer[r] = "success" /\ r \notin events}

Told ==
  /\ \A r \in Request : pc[r] \in Early => answer[r] = None
  /\ \A r \in Request : answer[r] \in {"error", "conflict"} => r \notin events
  /\ Cardinality(Unbacked) <= faults["commit"]

(* Nobody has been answered at the start.                                  *)
LEMMA InitTold == Init => Told
<1> SUFFICES ASSUME Init PROVE Told
  OBVIOUS
<1>1. Unbacked = {} /\ faults["commit"] = 0
  BY DEF Init, Unbacked, FaultKind, None
<1> QED BY <1>1, FS_EmptySet DEF Init, Told

(* The requests are finitely many.                                         *)
LEMMA UnbackedFinite == IsFiniteSet(Unbacked) /\ Cardinality(Unbacked) \in Nat
<1>1. IsFiniteSet(Request)
  BY CreateAssumption, RefundAssumption, FS_Union DEF Request
<1>2. IsFiniteSet(Unbacked)
  BY <1>1, FS_Subset DEF Unbacked
<1> QED BY <1>2, FS_CardinalityType

(* Faults are counted, never forgotten.                                    *)
LEMMA FaultsGrow ==
  ASSUME TypeOK, UNCHANGED faults \/ \E k \in FaultKind : Fault(k)
  PROVE  faults'["commit"] \in Nat /\ faults["commit"] <= faults'["commit"]
<1>1. faults \in [FaultKind -> Nat] /\ "commit" \in FaultKind
  BY DEF TypeOK, FaultKind
<1> QED BY <1>1 DEF Fault

(* The count of unbacked answers holds while nobody joins them, and with a
   failed commit one request may.                                          *)
LEMMA UnbackedCount ==
  ASSUME TypeOK, Told, NEW r \in Request,
         faults["commit"] <= faults'["commit"], faults'["commit"] \in Nat,
         \/ Unbacked' \subseteq Unbacked
         \/ Unbacked' \subseteq Unbacked \cup {r} /\ faults'["commit"] = faults["commit"] + 1
  PROVE  Cardinality(Unbacked') <= faults'["commit"]
<1>1. IsFiniteSet(Unbacked)
  BY UnbackedFinite
<1>2. Cardinality(Unbacked) \in Nat /\ Cardinality(Unbacked) <= faults["commit"]
      /\ faults["commit"] \in Nat
  BY UnbackedFinite DEF Told, TypeOK, FaultKind
<1>3. CASE Unbacked' \subseteq Unbacked
  <2>1. Cardinality(Unbacked') \in Nat /\ Cardinality(Unbacked') <= Cardinality(Unbacked)
    BY <1>1, <1>3, FS_Subset, FS_CardinalityType
  <2> QED BY <1>2, <2>1
<1>4. CASE Unbacked' \subseteq Unbacked \cup {r} /\ faults'["commit"] = faults["commit"] + 1
  <2> DEFINE U == Unbacked \cup {r}
  <2>1. IsFiniteSet(U) /\ Cardinality(U) \in Nat /\ Cardinality(U) <= Cardinality(Unbacked) + 1
    BY <1>1, <1>2, FS_AddElement, FS_CardinalityType
  <2>2. Cardinality(Unbacked') \in Nat /\ Cardinality(Unbacked') <= Cardinality(U)
    BY <1>4, <2>1, FS_Subset, FS_CardinalityType
  <2> HIDE DEF U
  <2> QED BY <1>2, <1>4, <2>1, <2>2
<1> QED BY <1>3, <1>4

(* A request is answered once, and with a success that the tables do not show
   only by CommitError.                                                    *)
LEMMA NextTold == TypeInv /\ Stored /\ Told /\ [Next]_vars => Told'
<1> SUFFICES ASSUME TypeInv, Stored, Told, [Next]_vars PROVE Told'
  OBVIOUS
<1>0. /\ TypeOK /\ Aimed /\ Refund \subseteq Request /\ Create \subseteq Request
      /\ pc \in [Request -> {"idle", "setnx", "begin", "outbox",
                             "commit", "complete", "done"}]
      /\ answer \in [Request -> {None, "success", "error", "conflict", "lost"}]
  BY DEF TypeInv, TypeOK, Request
<1>1. UNCHANGED vars \/ UNCHANGED faults \/ \E k \in FaultKind : Fault(k)
  BY DEF Next, Receive, Get, GetError, Middleware, SetNX, SetNXError, Complete,
         CompleteError, Handler, WriteRow, WriteEvent, HandlerError, Reject, Panic,
         Commit, CommitError, Cancel, Kill, Expire, Works, Fails, FaultKind
<1>2. faults'["commit"] \in Nat /\ faults["commit"] <= faults'["commit"]
  BY <1>0, <1>1, FaultsGrow DEF vars
<1>3. ASSUME NEW r \in Request, UNCHANGED <<events, gone>>,
             \/ UNCHANGED answer /\ \E l \in Early : pc' = [pc EXCEPT ![r] = l]
                                                /\ pc[r] \in Early
             \/ UNCHANGED answer /\ pc' = [pc EXCEPT ![r] = "done"]
             \/ /\ \E a \in {"error", "conflict"} : answer' = [answer EXCEPT ![r] = a]
                /\ \E l \in {"complete", "done"} : pc' = [pc EXCEPT ![r] = l]
                /\ pc[r] \in Early
      PROVE Told'
  <2>1. Unbacked' \subseteq Unbacked
    BY <1>0, <1>3 DEF Unbacked
  <2>2. Cardinality(Unbacked') <= faults'["commit"]
    BY <1>0, <1>2, <2>1, UnbackedCount
  <2> QED BY <1>0, <1>3, <2>2 DEF Told, Stored, Early
<1>4. ASSUME NEW r \in Request, Receive(r) \/ Get(r) \/ GetError(r) \/ Middleware(r)
      PROVE Told'
  BY <1>3, <1>4 DEF Receive, Get, GetError, Middleware, SetNX, SetNXError,
                    Complete, CompleteError, Conflict, Goto, Early, tables
<1>5. ASSUME NEW r \in Request,
             WriteRow(r) \/ WriteEvent(r) \/ HandlerError(r) \/ Reject(r) \/ Panic(r)
      PROVE Told'
  BY <1>3, <1>5 DEF WriteRow, WriteEvent, HandlerError, Reject, Panic, Return,
                    Goto, Early, tables
<1>6. ASSUME NEW r \in Request, Commit(r) \/ CommitError(r) PROVE Told'
  <2>0. /\ pc[r] = "commit" /\ UNCHANGED gone
        /\ answer' = [answer EXCEPT ![r] = "success"]
        /\ \E l \in {"complete", "done"} : pc' = [pc EXCEPT ![r] = l]
    BY <1>6 DEF Commit, CommitError, Return, Goto
  <2>1. events' = events \cup {r} \/ events' = events
    BY <1>6, <2>0, ApplyStored DEF Commit, CommitError, tables
  <2>2. \/ events' = events \cup {r}
        \/ r \in gone
        \/ faults'["commit"] = faults["commit"] + 1
    BY <1>0, <1>6, <2>0, ApplyStored
       DEF Commit, CommitError, Fails, Fault, TypeOK, FaultKind
  <2>3. \/ Unbacked' \subseteq Unbacked
        \/ Unbacked' \subseteq Unbacked \cup {r} /\ faults'["commit"] = faults["commit"] + 1
    BY <1>0, <2>0, <2>1, <2>2 DEF Unbacked
  <2>4. Cardinality(Unbacked') <= faults'["commit"]
    BY <1>0, <1>2, <2>3, UnbackedCount
  <2>5. \A q \in Request : answer'[q] \in {"error", "conflict"} => q # r /\ q \notin events
    BY <1>0, <2>0 DEF Told
  <2> QED BY <1>0, <2>0, <2>1, <2>4, <2>5 DEF Told, Early
<1>7. ASSUME NEW r \in Request, Kill(r) PROVE Told'
  <2>0. /\ pc[r] # "idle" /\ UNCHANGED gone
        /\ answer' = [answer EXCEPT ![r] = "lost"] /\ pc' = [pc EXCEPT ![r] = "done"]
    BY <1>7 DEF Kill, InFlight, Goto
  <2>1. events' = events \cup {r} \/ events' = events
    BY <1>7, ApplyStored DEF Kill, tables
  <2>2. Unbacked' \subseteq Unbacked
    BY <1>0, <2>0, <2>1 DEF Unbacked
  <2>3. Cardinality(Unbacked') <= faults'["commit"]
    BY <1>0, <1>2, <2>2, <2>0, UnbackedCount
  <2> QED BY <1>0, <2>0, <2>1, <2>3 DEF Told, Early
<1>8. ASSUME NEW r \in Request, Cancel(r) PROVE Told'
  <2>1. UNCHANGED <<pc, answer, events>> /\ Unbacked' \subseteq Unbacked
    BY <1>8 DEF Cancel, Unbacked, tables
  <2>2. Cardinality(Unbacked') <= faults'["commit"]
    BY <1>0, <1>2, <2>1, UnbackedCount
  <2> QED BY <2>1, <2>2 DEF Told
<1>9. CASE UNCHANGED <<request, events>> /\ (UNCHANGED vars \/ \E k \in Key : Expire(k))
  <2>1. UNCHANGED <<pc, answer, gone, events>>
    BY <1>9 DEF request
  <2>2. Unbacked' = Unbacked
    BY <2>1 DEF Unbacked
  <2>3. Cardinality(Unbacked') <= faults'["commit"]
    BY <1>0, <1>2, <2>2, UnbackedFinite DEF Told, TypeOK, FaultKind
  <2> QED BY <2>1, <2>3 DEF Told
<1> QED BY <1>4, <1>5, <1>6, <1>7, <1>8, <1>9 DEF Next, Handler, Expire, vars, tables

(* After an error or a conflict nothing of the request is in the tables, after
   a success everything, but for one request per failed commit: for every
   interleaving, any number of requests and any faults.                    *)
THEOREM AnswersAgree == Spec => []AnswersAreAccountedFor
<1>1. TypeInv /\ Stored /\ Told => AnswersAreAccountedFor
  <2> SUFFICES ASSUME TypeInv, Told PROVE AnswersAreAccountedFor
    OBVIOUS
  <2>1. Answered("success") \ events \subseteq Unbacked
    BY DEF Answered, Unbacked
  <2>2. IsFiniteSet(Unbacked)
    BY UnbackedFinite
  <2>3. /\ Cardinality(Answered("success") \ events) <= Cardinality(Unbacked)
        /\ Cardinality(Answered("success") \ events) \in Nat
        /\ Cardinality(Unbacked) \in Nat
    BY <2>1, <2>2, FS_Subset, FS_CardinalityType
  <2>4. Cardinality(Answered("success") \ events) <= faults["commit"]
    BY <2>3 DEF Told, TypeInv, TypeOK, FaultKind
  <2>5. (Answered("error") \cup Answered("conflict")) \cap events = {}
    BY DEF Told, Answered
  <2> QED BY <2>4, <2>5 DEF AnswersAreAccountedFor
<1> QED BY <1>1, InitInv, InitTold, NextType, NextStored, NextTold, PTL DEF Spec

-------------------------------------------------------------------------------

\* Whose key a request found, and that it did not find its own.
Locks ==
  /\ \A k \in Key : redis[k] # None =>
       \/ faults["redis"] > 0
       \/ \E d \in guarded \cup gone : d \in Create /\ KeyOf[d] = k
  /\ \A r \in Request : pc[r] = "complete" => r \in guarded
  /\ \A r \in Request : pc[r] \in {"idle", "setnx"} => r \notin guarded
  /\ \A r \in Request : pc[r] = "idle" => r \notin gone
  /\ \A c \in Create : pc[c] = "setnx" => KeyOf[c] \in Key
  /\ \A c \in Request \ gone : answer[c] = "conflict" =>
       \/ faults["redis"] > 0
       \/ \E d \in (guarded \cup gone) \ {c} : d \in Create /\ KeyOf[d] = KeyOf[c]

(* There is no key at the start and nobody has one.                        *)
LEMMA InitLocks == Init => Locks
BY DEF Init, Locks, None, Request

(* Keys come from requests that took the lock, went away or saw Redis fail. *)
LEMMA NextLocks == TypeInv /\ Locks /\ [Next]_vars => Locks'
<1> SUFFICES ASSUME TypeInv, Locks, [Next]_vars PROVE Locks'
  OBVIOUS
<1>0. /\ TypeOK /\ Aimed /\ Refund \subseteq Request /\ Create \subseteq Request
      /\ pc \in [Request -> {"idle", "setnx", "begin", "outbox",
                             "commit", "complete", "done"}]
      /\ answer \in [Request -> {None, "success", "error", "conflict", "lost"}]
      /\ redis \in [Key -> {None, "PROCESSING", "COMPLETED"}]
      /\ guarded \subseteq Create /\ gone \subseteq Request
      /\ faults \in [FaultKind -> Nat]
      /\ faults["redis"] \in Nat /\ "redis" \in FaultKind
  BY DEF TypeInv, TypeOK, Request, FaultKind
<1>1. /\ \A k \in FaultKind : Fault(k) => faults'["redis"] \in Nat /\ faults["redis"] <= faults'["redis"]
      /\ Fault("redis") => faults'["redis"] > 0
  BY <1>0 DEF Fault
<1>2. ASSUME NEW r \in Request, UNCHANGED <<guarded, gone, redis>>,
             UNCHANGED faults \/ \E k \in FaultKind : Fault(k),
             \/ UNCHANGED answer
             \/ \E a \in {"success", "error", "lost"} : answer' = [answer EXCEPT ![r] = a],
             \E l \in {"begin", "outbox", "commit", "complete", "done"} :
               pc' = [pc EXCEPT ![r] = l] /\ (l = "complete" => r \in guarded)
      PROVE Locks'
  BY <1>0, <1>1, <1>2 DEF Locks, None
<1>3. ASSUME NEW r \in Request, Receive(r) PROVE Locks'
  BY <1>2, <1>3 DEF Receive, Goto
<1>4. ASSUME NEW r \in Request, Get(r) PROVE Locks'
  <2>1. /\ pc[r] = "idle" /\ r \in Create /\ UNCHANGED <<guarded, gone, redis, faults>>
        /\ IdemKey(r) = KeyOf[r] /\ KeyOf[r] \in Key
    BY <1>0, <1>4, KeyOfAssumption DEF Get, IdemKey
  <2>2. CASE redis[KeyOf[r]] # None
    <3>1. answer' = [answer EXCEPT ![r] = "conflict"] /\ pc' = [pc EXCEPT ![r] = "done"]
      BY <1>4, <2>1, <2>2 DEF Get, Conflict, Goto
    <3> QED BY <1>0, <2>1, <2>2, <3>1 DEF Locks
  <2>3. CASE redis[KeyOf[r]] = None
    <3>1. answer' = answer /\ pc' = [pc EXCEPT ![r] = "setnx"]
      BY <1>4, <2>1, <2>3 DEF Get, Goto
    <3> QED BY <1>0, <2>1, <3>1 DEF Locks
  <2> QED BY <2>2, <2>3
<1>5. ASSUME NEW r \in Request, GetError(r) PROVE Locks'
  BY <1>2, <1>5 DEF GetError, Goto, FaultKind
<1>6. ASSUME NEW r \in Request, SetNX(r) PROVE Locks'
  <2>1. /\ pc[r] = "setnx" /\ r \in Create /\ r \notin gone /\ r \notin guarded
        /\ UNCHANGED <<gone, faults>>
        /\ IdemKey(r) = KeyOf[r] /\ KeyOf[r] \in Key
    BY <1>0, <1>6 DEF SetNX, IdemKey, Works, Aimed, Request, Locks
  <2>2. CASE redis[KeyOf[r]] = None
    <3>1. /\ redis' = [redis EXCEPT ![KeyOf[r]] = "PROCESSING"]
          /\ guarded' = guarded \cup {r} /\ answer' = answer
          /\ pc' = [pc EXCEPT ![r] = "begin"]
      BY <1>6, <2>1, <2>2 DEF SetNX, SetKey, Goto
    <3> QED BY <1>0, <2>1, <3>1 DEF Locks
  <2>3. CASE redis[KeyOf[r]] # None
    <3>1. /\ UNCHANGED <<redis, guarded>> /\ answer' = [answer EXCEPT ![r] = "conflict"]
          /\ pc' = [pc EXCEPT ![r] = "done"]
      BY <1>6, <2>1, <2>3 DEF SetNX, Conflict, Goto
    <3> QED BY <1>0, <2>1, <2>3, <3>1 DEF Locks
  <2> QED BY <2>2, <2>3
<1>7. ASSUME NEW r \in Request, SetNXError(r) PROVE Locks'
  <2>1. /\ pc[r] = "setnx" /\ r \in Create /\ r \notin guarded
        /\ UNCHANGED <<gone, guarded>>
        /\ IdemKey(r) = KeyOf[r] /\ KeyOf[r] \in Key
        /\ answer' = [answer EXCEPT ![r] = "conflict"]
        /\ pc' = [pc EXCEPT ![r] = "done"]
        /\ redis' = redis \/ redis' = [redis EXCEPT ![KeyOf[r]] = "PROCESSING"]
    BY <1>0, <1>7 DEF SetNXError, IdemKey, Conflict, Goto, SetKey, Aimed, Request, Locks
  <2>2. CASE r \in gone /\ UNCHANGED faults
    BY <1>0, <2>1, <2>2 DEF Locks
  <2>3. CASE Fault("redis")
    BY <1>0, <1>1, <2>1, <2>3 DEF Locks
  <2> QED BY <1>7, <2>2, <2>3 DEF SetNXError, Fails
<1>8. ASSUME NEW r \in Request, Complete(r) \/ CompleteError(r) PROVE Locks'
  <2>1. /\ pc[r] = "complete" /\ r \in guarded /\ r \in Create
        /\ UNCHANGED <<gone, guarded, answer>>
        /\ IdemKey(r) = KeyOf[r]
        /\ pc' = [pc EXCEPT ![r] = "done"]
        /\ redis' = redis \/ redis' = [redis EXCEPT ![KeyOf[r]] = "COMPLETED"]
        /\ UNCHANGED faults \/ Fault("redis")
    BY <1>0, <1>8
       DEF Complete, CompleteError, Works, Fails, IdemKey, Goto, SetKey, Locks
  <2> QED BY <1>0, <1>1, <2>1 DEF Locks
<1>9. ASSUME NEW r \in Request, Handler(r) \/ Kill(r) PROVE Locks'
  <2>1. UNCHANGED <<guarded, gone, redis>>
    BY <1>9 DEF Handler, WriteRow, WriteEvent, HandlerError, Reject, Panic,
                Commit, CommitError, Kill
  <2>2. UNCHANGED faults \/ \E k \in FaultKind : Fault(k)
    BY <1>9 DEF Handler, WriteRow, WriteEvent, HandlerError, Reject, Panic,
                Commit, CommitError, Kill, Works, Fails, FaultKind
  <2>3. \/ UNCHANGED answer
        \/ \E a \in {"success", "error", "lost"} : answer' = [answer EXCEPT ![r] = a]
    BY <1>9 DEF Handler, WriteRow, WriteEvent, HandlerError, Reject, Panic,
                Commit, CommitError, Kill, Return
  <2>4. \E l \in {"begin", "outbox", "commit", "complete", "done"} :
          pc' = [pc EXCEPT ![r] = l] /\ (l = "complete" => r \in guarded)
    BY <1>9 DEF Handler, WriteRow, WriteEvent, HandlerError, Reject, Panic,
                Commit, CommitError, Kill, Return, Goto
  <2> QED BY <1>2, <2>1, <2>2, <2>3, <2>4
<1>10. ASSUME NEW r \in Request, Cancel(r) PROVE Locks'
  <2>1. /\ pc[r] # "idle" /\ gone' = gone \cup {r} /\ Fault("cancel")
        /\ UNCHANGED <<pc, answer, guarded, redis>>
    BY <1>10 DEF Cancel, InFlight
  <2>2. faults["redis"] <= faults'["redis"] /\ faults'["redis"] \in Nat
    BY <1>1, <2>1 DEF FaultKind
  <2> QED BY <1>0, <2>1, <2>2 DEF Locks
<1>11. ASSUME NEW k \in Key, Expire(k) PROVE Locks'
  <2>1. /\ redis' = [redis EXCEPT ![k] = None] /\ Fault("ttl")
        /\ UNCHANGED <<pc, answer, guarded, gone>>
    BY <1>11 DEF Expire, request
  <2>2. faults["redis"] <= faults'["redis"] /\ faults'["redis"] \in Nat
    BY <1>1, <2>1 DEF FaultKind
  <2> QED BY <1>0, <2>1, <2>2 DEF Locks
<1>12. CASE UNCHANGED vars
  BY <1>12 DEF vars, request, Locks
<1> QED BY <1>3, <1>4, <1>5, <1>6, <1>7, <1>8, <1>9, <1>10, <1>11, <1>12
        DEF Next, Middleware

(* A client is told of a conflict only if another request with its key got
   past the middleware or went away in it, or a call to Redis failed.      *)
THEOREM ConflictsAreJustified == Spec => []ConflictIsJustified
<1>1. TypeInv /\ Locks => ConflictIsJustified
  BY DEF Locks, TypeInv, TypeOK, ConflictIsJustified, Answered, Request
<1> QED BY <1>1, InitInv, InitLocks, NextType, NextLocks, PTL DEF Spec

-------------------------------------------------------------------------------

\* Who may still create an order under k, or has; and whether k can be taken.
Claimants(k) ==
  {c \in Create : /\ KeyOf[c] = k
                  /\ pc[c] \in {"begin", "outbox", "commit"} \/ status[c] # "absent"}

Free(k) == IF redis[k] = None THEN 1 ELSE 0

Claims ==
  \A k \in Key :
    Cardinality(Claimants(k)) + Free(k) <= 1 + faults["ttl"] + faults["redis"]

(* A key is taken with one claimant; every other one has been paid for.    *)
LEMMA ClaimCount ==
  ASSUME TypeOK, Claims, NEW k \in Key,
         NEW old \in Nat, old = faults["ttl"] + faults["redis"],
         NEW new \in Nat, new = faults'["ttl"] + faults'["redis"], old <= new,
         \/ /\ Claimants(k)' \subseteq Claimants(k)
            /\ Free(k)' = Free(k) \/ Free(k)' = 0 \/ new = old + 1
         \/ \E c \in Create :
            /\ Claimants(k)' \subseteq Claimants(k) \cup {c}
            /\ (Free(k)' = 0 /\ Free(k) = 1) \/ (Free(k)' = Free(k) /\ new = old + 1)
  PROVE  Cardinality(Claimants(k)') + Free(k)' <= 1 + new
<1>1. IsFiniteSet(Claimants(k)) /\ Cardinality(Claimants(k)) \in Nat
  BY CreateAssumption, FS_Subset, FS_CardinalityType DEF Claimants
<1>2. Free(k) \in {0, 1} /\ Free(k)' \in {0, 1}
  BY DEF Free
<1>3. Cardinality(Claimants(k)) + Free(k) <= 1 + old
  BY DEF Claims, TypeOK, FaultKind
<1>4. CASE /\ Claimants(k)' \subseteq Claimants(k)
           /\ Free(k)' = Free(k) \/ Free(k)' = 0 \/ new = old + 1
  <2>1. /\ Cardinality(Claimants(k)') \in Nat
        /\ Cardinality(Claimants(k)') <= Cardinality(Claimants(k))
    BY <1>1, <1>4, FS_Subset, FS_CardinalityType
  <2> QED BY <1>1, <1>2, <1>3, <1>4, <2>1
<1>5. ASSUME NEW c \in Create, Claimants(k)' \subseteq Claimants(k) \cup {c},
             (Free(k)' = 0 /\ Free(k) = 1) \/ (Free(k)' = Free(k) /\ new = old + 1)
      PROVE  Cardinality(Claimants(k)') + Free(k)' <= 1 + new
  <2> DEFINE C == Claimants(k) \cup {c}
  <2>0. /\ IsFiniteSet(C)
        /\ Cardinality(C) = IF c \in Claimants(k) THEN Cardinality(Claimants(k))
                            ELSE Cardinality(Claimants(k)) + 1
    BY <1>1, FS_AddElement
  <2>1. /\ IsFiniteSet(C) /\ Cardinality(C) \in Nat
        /\ Cardinality(C) <= Cardinality(Claimants(k)) + 1
    BY <1>1, <2>0
  <2>2. Cardinality(Claimants(k)') \in Nat /\ Cardinality(Claimants(k)') <= Cardinality(C)
    BY <1>5, <2>1, FS_Subset, FS_CardinalityType
  <2> HIDE DEF C
  <2> QED BY <1>1, <1>2, <1>3, <1>5, <2>1, <2>2
<1> QED BY <1>4, <1>5

(* Nobody claims a key at the start, and every key is free.                *)
LEMMA InitClaims == Init => Claims
<1> SUFFICES ASSUME Init, NEW k \in Key
             PROVE Cardinality(Claimants(k)) + Free(k) <= 1 + faults["ttl"] + faults["redis"]
  BY DEF Claims
<1>1. Claimants(k) = {} /\ Free(k) = 1 /\ faults["ttl"] = 0 /\ faults["redis"] = 0
  BY DEF Init, Claimants, Free, FaultKind, Request
<1> QED BY <1>1, FS_EmptySet

(* A request gets to its transaction with the lock, and then the key was free,
   or by an error of Redis; the key gets free again by its TTL only.       *)
LEMMA NextClaims == TypeInv /\ Stored /\ Locks /\ Claims /\ [Next]_vars => Claims'
<1> SUFFICES ASSUME TypeInv, Stored, Locks, Claims, [Next]_vars, NEW k \in Key
             PROVE Cardinality(Claimants(k)') + Free(k)'
                     <= 1 + faults'["ttl"] + faults'["redis"]
  BY DEF Claims
<1> DEFINE old == faults["ttl"] + faults["redis"]
           new == faults'["ttl"] + faults'["redis"]
<1>0. /\ TypeOK /\ Aimed /\ Refund \subseteq Request /\ Create \subseteq Request
      /\ pc \in [Request -> {"idle", "setnx", "begin", "outbox",
                             "commit", "complete", "done"}]
      /\ redis \in [Key -> {None, "PROCESSING", "COMPLETED"}]
      /\ faults \in [FaultKind -> Nat] /\ faults' \in [FaultKind -> Nat]
      /\ "ttl" \in FaultKind /\ "redis" \in FaultKind
      /\ faults["ttl"] \in Nat /\ faults["redis"] \in Nat
      /\ faults'["ttl"] \in Nat /\ faults'["redis"] \in Nat
  BY NextType DEF TypeInv, TypeOK, Request, FaultKind
<1>1. /\ old \in Nat /\ new \in Nat
      /\ \A f \in FaultKind : Fault(f) => old <= new
      /\ UNCHANGED faults => old <= new
      /\ Fault("ttl") \/ Fault("redis") => new = old + 1
  BY <1>0 DEF Fault
<1> SUFFICES Cardinality(Claimants(k)') + Free(k)' <= 1 + new
  BY <1>0
<1> HIDE DEF old, new
<1>2. old <= new
  BY <1>1 DEF Next, Receive, Get, GetError, Middleware, SetNX, SetNXError, Complete,
         CompleteError, Handler, WriteRow, WriteEvent, HandlerError, Reject, Panic,
         Commit, CommitError, Cancel, Kill, Expire, Works, Fails, FaultKind, vars
<1>3. ASSUME Claimants(k)' \subseteq Claimants(k),
             Free(k)' = Free(k) \/ Free(k)' = 0 \/ new = old + 1
      PROVE Cardinality(Claimants(k)') + Free(k)' <= 1 + new
  BY <1>0, <1>1, <1>2, <1>3, ClaimCount DEF old, new
<1>4. ASSUME NEW c \in Create, Claimants(k)' \subseteq Claimants(k) \cup {c},
             (Free(k)' = 0 /\ Free(k) = 1) \/ (Free(k)' = Free(k) /\ new = old + 1)
      PROVE Cardinality(Claimants(k)') + Free(k)' <= 1 + new
  BY <1>0, <1>1, <1>2, <1>4, ClaimCount DEF old, new
<1>5. ASSUME NEW r \in Request, Receive(r) \/ Get(r) \/ SetNXError(r)
      PROVE Cardinality(Claimants(k)') + Free(k)' <= 1 + new
  <2>1. /\ status' = status
        /\ \E l \in {"setnx", "begin", "done"} : pc' = [pc EXCEPT ![r] = l]
        /\ pc'[r] = "begin" => IdemKey(r) = None
    BY <1>0, <1>5 DEF Receive, Get, SetNXError, Conflict, Goto, tables
  <2>2. r \in Create /\ pc'[r] = "begin" => KeyOf[r] # k
    BY <2>1, KeyAssumption DEF IdemKey
  <2>3. Claimants(k)' \subseteq Claimants(k)
    BY <1>0, <2>1, <2>2 DEF Claimants
  <2>4. Free(k)' = Free(k) \/ Free(k)' = 0
    BY <1>0, <1>5, KeyAssumption DEF Receive, Get, SetNXError, SetKey, Free
  <2> QED BY <1>3, <2>3, <2>4
<1>6. ASSUME NEW r \in Request, GetError(r)
      PROVE Cardinality(Claimants(k)') + Free(k)' <= 1 + new
  <2>1. /\ r \in Create /\ UNCHANGED <<redis, status>> /\ pc' = [pc EXCEPT ![r] = "begin"]
        /\ new = old + 1
    BY <1>0, <1>1, <1>6 DEF GetError, IdemKey, Goto, tables
  <2>2. Claimants(k)' \subseteq Claimants(k) \cup {r} /\ Free(k)' = Free(k)
    BY <1>0, <2>1 DEF Claimants, Free
  <2> QED BY <1>4, <2>1, <2>2
<1>7. ASSUME NEW r \in Request, SetNX(r)
      PROVE Cardinality(Claimants(k)') + Free(k)' <= 1 + new
  <2>1. /\ r \in Create /\ IdemKey(r) = KeyOf[r] /\ KeyOf[r] \in Key /\ status' = status
    BY <1>0, <1>7 DEF SetNX, IdemKey, Aimed, Request, Locks, tables
  <2>2. CASE redis[KeyOf[r]] = None
    <3>1. /\ redis' = [redis EXCEPT ![KeyOf[r]] = "PROCESSING"]
          /\ pc' = [pc EXCEPT ![r] = "begin"]
      BY <1>7, <2>1, <2>2 DEF SetNX, SetKey, Goto
    <3>2. CASE KeyOf[r] = k
      <4>1. Claimants(k)' \subseteq Claimants(k) \cup {r} /\ Free(k) = 1 /\ Free(k)' = 0
        BY <1>0, <2>1, <2>2, <3>1, <3>2 DEF Claimants, Free, None
      <4> QED BY <1>4, <2>1, <4>1
    <3>3. CASE KeyOf[r] # k
      <4>1. Claimants(k)' \subseteq Claimants(k) /\ Free(k)' = Free(k)
        BY <1>0, <2>1, <3>1, <3>3 DEF Claimants, Free
      <4> QED BY <1>3, <4>1
    <3> QED BY <3>2, <3>3
  <2>3. CASE redis[KeyOf[r]] # None
    <3>1. UNCHANGED redis /\ pc' = [pc EXCEPT ![r] = "done"]
      BY <1>7, <2>1, <2>3 DEF SetNX, Conflict, Goto
    <3>2. Claimants(k)' \subseteq Claimants(k) /\ Free(k)' = Free(k)
      BY <1>0, <2>1, <3>1 DEF Claimants, Free
    <3> QED BY <1>3, <3>2
  <2> QED BY <2>2, <2>3
<1>8. ASSUME NEW r \in Request, Complete(r) \/ CompleteError(r)
      PROVE Cardinality(Claimants(k)') + Free(k)' <= 1 + new
  <2>1. /\ status' = status /\ pc' = [pc EXCEPT ![r] = "done"]
        /\ redis' = redis \/ redis' = [redis EXCEPT ![IdemKey(r)] = "COMPLETED"]
    BY <1>8 DEF Complete, CompleteError, Goto, SetKey, tables
  <2>2. Claimants(k)' \subseteq Claimants(k)
    BY <1>0, <2>1 DEF Claimants
  <2>3. Free(k)' = Free(k) \/ Free(k)' = 0
    BY <1>0, <2>1 DEF Free, None
  <2> QED BY <1>3, <2>2, <2>3
<1>9. ASSUME NEW r \in Request, Handler(r) \/ Kill(r)
      PROVE Cardinality(Claimants(k)') + Free(k)' <= 1 + new
  <2>1. /\ redis' = redis
        /\ \E l \in {"outbox", "commit", "complete", "done"} : pc' = [pc EXCEPT ![r] = l]
        /\ pc'[r] \in {"outbox", "commit"} => pc[r] \in {"begin", "outbox"}
    BY <1>0, <1>9
       DEF Handler, WriteRow, WriteEvent, HandlerError, Reject, Panic,
           Commit, CommitError, Kill, Return, Goto
  <2>2. UNCHANGED tables \/ (pc[r] = "commit" /\ Apply(r))
    BY <1>9 DEF Handler, WriteRow, WriteEvent, HandlerError, Reject, Panic,
                Commit, CommitError, Kill
  <2>3. \A c \in Create : status'[c] # "absent" =>
          status[c] # "absent" \/ (c = r /\ pc[r] = "commit")
    BY <1>0, <2>2, ApplyStored DEF tables, Stored
  <2>4. Claimants(k)' \subseteq Claimants(k)
    BY <1>0, <2>1, <2>3 DEF Claimants
  <2>5. Free(k)' = Free(k)
    BY <2>1 DEF Free
  <2> QED BY <1>3, <2>4, <2>5
<1>10. ASSUME NEW j \in Key, Expire(j)
       PROVE Cardinality(Claimants(k)') + Free(k)' <= 1 + new
  <2>1. UNCHANGED <<pc, status>> /\ new = old + 1
    BY <1>1, <1>10 DEF Expire, request, tables
  <2>2. Claimants(k)' \subseteq Claimants(k)
    BY <2>1 DEF Claimants
  <2> QED BY <1>3, <2>1, <2>2
<1>11. ASSUME UNCHANGED <<pc, status, redis>>
       PROVE Cardinality(Claimants(k)') + Free(k)' <= 1 + new
  BY <1>3, <1>11 DEF Claimants, Free
<1> QED BY <1>5, <1>6, <1>7, <1>8, <1>9, <1>10, <1>11
        DEF Next, Middleware, Cancel, vars, request, tables

(* README.md:112 for any number of requests and keys: the requests with one
   key create one order, and one more for each key that runs out and each call
   to Redis that fails, at most.                                           *)
THEOREM OneOrderPerKey == Spec => []OrdersPerKey
<1>1. TypeInv /\ Claims => OrdersPerKey
  <2> SUFFICES ASSUME TypeInv, Claims, NEW k \in Key
               PROVE Cardinality(OrdersOf(k)) <= 1 + faults["ttl"] + faults["redis"]
    BY DEF OrdersPerKey
  <2>1. OrdersOf(k) \subseteq Claimants(k) /\ IsFiniteSet(Claimants(k))
    BY CreateAssumption, FS_Subset DEF OrdersOf, Claimants
  <2>2. /\ Cardinality(OrdersOf(k)) <= Cardinality(Claimants(k))
        /\ Cardinality(OrdersOf(k)) \in Nat /\ Cardinality(Claimants(k)) \in Nat
    BY <2>1, FS_Subset, FS_CardinalityType
  <2>3. faults["ttl"] \in Nat /\ faults["redis"] \in Nat /\ Free(k) \in {0, 1}
    BY DEF TypeInv, TypeOK, FaultKind, Free
  <2>4. Cardinality(Claimants(k)) + Free(k) <= 1 + faults["ttl"] + faults["redis"]
    BY DEF Claims
  <2> QED BY <2>2, <2>3, <2>4
<1>2. TypeInv /\ Stored /\ [Next]_vars => Stored'
  BY NextStored
<1> QED BY <1>1, <1>2, InitInv, InitLocks, InitClaims, NextType, NextLocks, NextClaims,
           PTL DEF Spec

-------------------------------------------------------------------------------

\* No request has a transaction at the start.
LEMMA InitRows == Init => RowLocksEnd
BY DEF Init, RowLocksEnd

(* A request that ends its transaction frees its row, and one that writes a row
   has found it free; nobody else's transaction matters to that.           *)
LEMMA RowsStay ==
  ASSUME RowLocksEnd, NEW r \in Request,
         \A q \in Request \ {r} : /\ tx'[q] = tx[q] /\ pc'[q] = pc[q]
                                  /\ target'[q] = target[q],
         \/ tx'[r] = {}
         \/ /\ tx[r] # {} \/ ~RowLocked(r)
            /\ target'[r] = target[r] /\ pc'[r] \in {"outbox", "commit"}
  PROVE  RowLocksEnd'
<1>1. tx'[r] # {} => /\ target'[r] = target[r] /\ pc'[r] \in {"outbox", "commit"}
                      /\ \A q \in Request \ {r} : tx[q] # {} => target[q] # target[r]
  BY DEF RowLocksEnd, RowLocked
<1>2. \A q \in Request \ {r} :
        tx[q] # {} => /\ pc[q] \in {"outbox", "commit"}
                      /\ \A p \in Request \ {q} : tx[p] # {} => target[p] # target[q]
  BY DEF RowLocksEnd, RowLocked
<1>3. \A q \in Request : tx'[q] # {} => pc'[q] \in {"outbox", "commit"}
  BY <1>1, <1>2
<1>4. \A q \in Request : \A p \in Request \ {q} :
        tx'[q] # {} /\ tx'[p] # {} => target'[p] # target'[q]
  BY <1>1, <1>2
<1> QED BY <1>3, <1>4 DEF RowLocksEnd, RowLocked

(* Each handler, the middleware and each fault leave at most one transaction
   for an order, and none behind.                                          *)
LEMMA NextRows == TypeInv /\ Stored /\ RowLocksEnd /\ [Next]_vars => RowLocksEnd'
<1> SUFFICES ASSUME TypeInv, Stored, RowLocksEnd, [Next]_vars PROVE RowLocksEnd'
  OBVIOUS
<1>0. /\ pc \in [Request -> {"idle", "setnx", "begin", "outbox", "commit", "complete", "done"}]
      /\ tx \in [Request -> SUBSET {"row", "event"}]
      /\ target \in [Request -> Create \cup {None}]
  BY DEF TypeInv, TypeOK
<1>1. ASSUME NEW r \in Request, Receive(r) \/ Get(r) \/ GetError(r) \/ Middleware(r) \/ Reject(r)
      PROVE RowLocksEnd'
  <2>1. tx[r] = {}
    BY <1>1 DEF Receive, Get, GetError, Middleware, SetNX, SetNXError, Complete,
                CompleteError, Reject, RowLocksEnd
  <2>2. /\ UNCHANGED tx
        /\ \A q \in Request \ {r} : pc'[q] = pc[q] /\ target'[q] = target[q]
    BY <1>0, <1>1 DEF Receive, Get, GetError, Middleware, SetNX, SetNXError, Complete,
                CompleteError, Reject, Conflict, Return, Goto
  <2> QED BY <2>1, <2>2, RowsStay
<1>2. ASSUME NEW r \in Request, WriteRow(r) PROVE RowLocksEnd'
  <2>1. /\ ~RowLocked(r) /\ UNCHANGED target
        /\ tx' = [tx EXCEPT ![r] = {"row"}] /\ pc' = [pc EXCEPT ![r] = "outbox"]
    BY <1>2 DEF WriteRow, Goto
  <2> QED BY <1>0, <2>1, RowsStay
<1>3. ASSUME NEW r \in Request, WriteEvent(r) PROVE RowLocksEnd'
  <2>1. /\ pc[r] = "outbox" /\ UNCHANGED target
        /\ tx' = [tx EXCEPT ![r] = @ \cup {"event"}] /\ pc' = [pc EXCEPT ![r] = "commit"]
    BY <1>3 DEF WriteEvent, Goto
  <2>2. tx[r] # {}
    BY <2>1 DEF Stored
  <2> QED BY <1>0, <2>1, <2>2, RowsStay
<1>4. ASSUME NEW r \in Request,
             HandlerError(r) \/ Panic(r) \/ Commit(r) \/ CommitError(r) \/ Kill(r)
      PROVE RowLocksEnd'
  <2>1. /\ tx' = [tx EXCEPT ![r] = {}] /\ UNCHANGED target
        /\ \A q \in Request \ {r} : pc'[q] = pc[q]
    BY <1>0, <1>4 DEF HandlerError, Panic, Commit, CommitError, Kill, Rollback, Return, Goto
  <2> QED BY <1>0, <2>1, RowsStay
<1>5. CASE UNCHANGED <<pc, target, tx>>
  BY <1>5 DEF RowLocksEnd, RowLocked
<1>6. ASSUME NEW r \in Request, Cancel(r) PROVE RowLocksEnd'
  BY <1>5, <1>6 DEF Cancel
<1>7. ASSUME NEW k \in Key, Expire(k) PROVE RowLocksEnd'
  BY <1>5, <1>7 DEF Expire, request
<1>8. CASE UNCHANGED vars
  BY <1>5, <1>8 DEF vars, request
<1> QED BY <1>1, <1>2, <1>3, <1>4, <1>6, <1>7, <1>8 DEF Next, Handler

(* WithinTransaction ends every transaction that it begins, by return, error,
   panic or death, and the row lock of an UPDATE has one owner: whoever waits
   waits for a request that is on its way to its commit.                   *)
THEOREM RowLocksAreReleased == Spec => []RowLocksEnd
<1>1. TypeInv /\ Stored /\ [Next]_vars => Stored'
  BY NextStored
<1> QED BY <1>1, InitInv, InitRows, NextType, NextRows, PTL DEF Spec

(* Where docs/architecture_v2.md:52-53 is right about the code: as long as no
   Commit has reported an error, an order that its client was told of exists. *)
THEOREM StoredWithoutCommitErrors ==
  Spec => [](faults["commit"] = 0 => CreatedMeansStored)
<1>1. ASSUME TypeInv, Stored, Told, faults["commit"] = 0 PROVE CreatedMeansStored
  <2>1. Unbacked = {}
    <3>1. Cardinality(Unbacked) = 0
      BY <1>1, UnbackedFinite DEF Told
    <3> QED BY <3>1, UnbackedFinite, FS_EmptySet
  <2>2. \A c \in Create \cap Answered("success") : c \in events
    BY <2>1 DEF Answered, Unbacked
  <2> QED BY <1>1, <2>2 DEF Stored, CreatedMeansStored
<1>2. TypeInv /\ Stored /\ [Next]_vars => Stored'
  BY NextStored
<1> QED BY <1>1, <1>2, InitInv, InitTold, NextType, NextTold, PTL DEF Spec
===============================================================================
