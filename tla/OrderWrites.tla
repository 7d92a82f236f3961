------------------------------ MODULE OrderWrites ------------------------------
(***************************************************************************)
(* The write path (test case TC6) of the three benchmark services.  A      *)
(* CreateOrder handler (REST, gRPC or GraphQL) builds an order with a      *)
(* fresh identifier, offers it to the bounded channel of its process's     *)
(* OrderRepo without blocking, and answers at once.  Background workers    *)
(* drain the channel and insert each order in one PostgreSQL transaction,  *)
(* without retry.  The channel lives in memory, so it dies with its        *)
(* process; the database runs with synchronous_commit=off, so its last     *)
(* commits may die with it.                                                *)
(*                                                                         *)
(* An element of Order is one create request and the order it builds:      *)
(* GenerateOrderID makes the identifier on the server, from 122 random     *)
(* bits, and identifiers are taken to be distinct.                         *)
(***************************************************************************)
EXTENDS Naturals, Sequences, FiniteSets, Functions

CONSTANTS
  Api,            \* the service processes: REST, GraphQL, gRPC
  Worker,         \* the worker goroutines of one process (10 in the code)
  Order,          \* the create requests
  Via,            \* Via[o]: the service request o is sent to
  KnownCustomer,  \* requests whose customer_id is in the customers table
  Malformed,      \* requests whose payload does not bind
  QueueCap,       \* capacity of the channel (50000 in the code)
  Faults,         \* what may fail: "api" (a process), "db" (PostgreSQL or a connection)
  NoOrder         \* an idle worker's order

ASSUME ConstantsAssumption ==
  /\ Via \in [Order -> Api]
  /\ KnownCustomer \subseteq Order
  /\ Malformed \subseteq Order
  /\ QueueCap \in Nat
  /\ Faults \subseteq {"api", "db"}
  /\ NoOrder \notin Order

ASSUME WorkersAssumption == IsFiniteSet(Worker)

VARIABLES
  apiUp,      \* apiUp[a]: process a is serving
  dbUp,       \* PostgreSQL is running
  outcome,    \* outcome[o]: how far the handler of request o came
  answer,     \* answer[o]: what the client of request o was told
  queue,      \* queue[a]: the buffered channel OrderRepo.orderQueue of process a
  job,        \* job[a][w]: the order worker w of process a is inserting
  tx,         \* tx[o]: the fate of the COMMIT of order o's transaction
  table,      \* the rows of olist_orders_dataset that these requests created
  flushed,    \* the rows whose commit record has reached the disk
  failed,     \* history: orders whose insert was logged as failed
  orphaned,   \* history: orders a process held when it died
  entered     \* history: entered[a], the orders process a enqueued since it started

vars == <<apiUp, dbUp, outcome, answer, queue, job, tx, table, flushed,
          failed, orphaned, entered>>

handlerVars == <<outcome, answer>>
dbVars      == <<dbUp, tx, table, flushed>>

Queued(a)  == Range(queue[a])
InHand(a)  == {job[a][w] : w \in Worker} \ {NoOrder}
Pending(a) == Queued(a) \cup InHand(a)

Init ==
  /\ apiUp = [a \in Api |-> TRUE]
  /\ dbUp = TRUE
  /\ outcome = [o \in Order |-> "unsent"]
  /\ answer = [o \in Order |-> "none"]
  /\ queue = [a \in Api |-> <<>>]
  /\ job = [a \in Api |-> [w \in Worker |-> NoOrder]]
  /\ tx = [o \in Order |-> "none"]
  /\ table = {}
  /\ flushed = {}
  /\ failed = {}
  /\ orphaned = {}
  /\ entered = [a \in Api |-> <<>>]

-----------------------------------------------------------------------------
(* The CreateOrder handlers.  The handler runs in a goroutine of its own    *)
(* per request and takes no lock: its only shared step is the channel send. *)

Receive(o) ==
  /\ outcome[o] = "unsent"
  /\ apiUp[Via[o]]
  /\ outcome' = [outcome EXCEPT ![o] = "handling"]
  /\ UNCHANGED <<apiUp, answer, queue, job, dbVars, failed, orphaned, entered>>

(* ShouldBindJSON fails (or the gRPC and GraphQL runtimes reject the         *)
(* message before the handler): nothing is built, the client gets a 400.    *)
BadRequest(o) ==
  /\ outcome[o] = "handling"
  /\ answer[o] = "none"
  /\ o \in Malformed
  /\ answer' = [answer EXCEPT ![o] = "bad"]
  /\ UNCHANGED <<apiUp, outcome, queue, job, dbVars, failed, orphaned, entered>>

(* CreateOrderTransaction: a select whose default branch makes it never wait. *)
(* Operators named Bug... are the mutated forms the mutation runs put in the *)
(* place of the definition that follows them; no specification uses them.   *)
BugHasRoom(a) == Len(queue[a]) <= QueueCap
HasRoom(a)    == Len(queue[a]) < QueueCap

BugSent(a, o) == <<o>> \o queue[a]
Sent(a, o)    == Append(queue[a], o)

Enqueue(o) ==
  /\ HasRoom(Via[o])
  /\ outcome' = [outcome EXCEPT ![o] = "accepted"]
  /\ queue' = [queue EXCEPT ![Via[o]] = Sent(Via[o], o)]
  /\ entered' = [entered EXCEPT ![Via[o]] = Append(@, o)]

BugQueueFull(o) == FALSE
QueueFull(o) ==
  /\ ~HasRoom(Via[o])
  /\ outcome' = [outcome EXCEPT ![o] = "refused"]
  /\ UNCHANGED <<queue, entered>>

CreateOrderTransaction(o) ==
  /\ outcome[o] = "handling"
  /\ answer[o] = "none"
  /\ o \notin Malformed
  /\ Enqueue(o) \/ QueueFull(o)
  /\ UNCHANGED <<apiUp, answer, job, dbVars, failed, orphaned>>

(* 201 "Order created successfully" / Success: true, or 500 / Internal.      *)
BugReply(o) == IF outcome[o] = "refused" THEN "created" ELSE "busy"
Reply(o) == IF outcome[o] = "accepted" THEN "created" ELSE "busy"

Answer(o) ==
  /\ outcome[o] \in {"accepted", "refused"}
  /\ answer[o] = "none"
  /\ answer' = [answer EXCEPT ![o] = Reply(o)]
  /\ UNCHANGED <<apiUp, outcome, queue, job, dbVars, failed, orphaned, entered>>

-----------------------------------------------------------------------------
(* asyncWorker and insertToDB.                                               *)

Busy(a, w) == job[a][w] # NoOrder

(* Worker w receives from the channel.                                      *)
BugRemaining(a) == queue[a]
Remaining(a)    == Tail(queue[a])

Take(a, w) ==
  /\ apiUp[a]
  /\ ~Busy(a, w)
  /\ queue[a] # <<>>
  /\ job' = [job EXCEPT ![a][w] = Head(queue[a])]
  /\ queue' = [queue EXCEPT ![a] = Remaining(a)]
  /\ UNCHANGED <<apiUp, handlerVars, dbVars, failed, orphaned, entered>>

(* BEGIN and INSERT succeeded (the foreign key found the customer) and the   *)
(* COMMIT is on its way.                                                     *)
SendCommit(a, w) ==
  /\ Busy(a, w)
  /\ dbUp
  /\ job[a][w] \in KnownCustomer
  /\ tx[job[a][w]] = "none"
  /\ tx' = [tx EXCEPT ![job[a][w]] = "open"]
  /\ UNCHANGED <<apiUp, dbUp, handlerVars, queue, job, table, flushed,
                 failed, orphaned, entered>>

(* Back to the head of the worker's loop, whatever insertToDB returned.      *)
BugNextOrder(a, w) == UNCHANGED job
NextOrder(a, w)    == job' = [job EXCEPT ![a][w] = NoOrder]

BugLogFailure(o) == UNCHANGED failed
LogFailure(o)    == failed' = failed \cup {o}

(* insertToDB returned nil: the worker takes no note and loops.              *)
InsertOk(a, w) ==
  /\ Busy(a, w)
  /\ tx[job[a][w]] = "committed"
  /\ NextOrder(a, w)
  /\ UNCHANGED <<apiUp, handlerVars, queue, dbVars, failed, orphaned, entered>>

(* insertToDB returned an error: one log line, and the order is dropped.     *)
(* An unknown customer violates the foreign key; a failing connection may   *)
(* also lose the reply of a COMMIT that the server carries out.             *)
InsertError(a, w) ==
  /\ Busy(a, w)
  /\ \/ "db" \in Faults
     \/ job[a][w] \notin KnownCustomer
  /\ LogFailure(job[a][w])
  /\ NextOrder(a, w)
  /\ UNCHANGED <<apiUp, handlerVars, queue, dbVars, orphaned, entered>>

-----------------------------------------------------------------------------
(* PostgreSQL, with synchronous_commit=off.                                  *)

DbCommit(o) ==
  /\ dbUp
  /\ tx[o] = "open"
  /\ tx' = [tx EXCEPT ![o] = "committed"]
  /\ table' = table \cup {o}
  /\ UNCHANGED <<apiUp, dbUp, handlerVars, queue, job, flushed, failed,
                 orphaned, entered>>

(* The connection broke before the COMMIT arrived.                           *)
DbAbort(o) ==
  /\ "db" \in Faults
  /\ tx[o] = "open"
  /\ tx' = [tx EXCEPT ![o] = "aborted"]
  /\ UNCHANGED <<apiUp, dbUp, handlerVars, queue, job, table, flushed, failed,
                 orphaned, entered>>

(* The WAL writer: everything committed so far is now durable.               *)
DbFlush ==
  /\ dbUp
  /\ flushed # table
  /\ flushed' = table
  /\ UNCHANGED <<apiUp, dbUp, handlerVars, queue, job, tx, table, failed,
                 orphaned, entered>>

DbCrash ==
  /\ "db" \in Faults
  /\ dbUp
  /\ dbUp' = FALSE
  /\ table' = flushed
  /\ tx' = [o \in Order |-> IF tx[o] = "open" THEN "aborted" ELSE tx[o]]
  /\ UNCHANGED <<apiUp, handlerVars, queue, job, flushed, failed, orphaned,
                 entered>>

DbStart ==
  /\ ~dbUp
  /\ dbUp' = TRUE
  /\ UNCHANGED <<apiUp, handlerVars, queue, job, tx, table, flushed, failed,
                 orphaned, entered>>

-----------------------------------------------------------------------------
(* Process a dies, or experiments_de.sh recreates its container: the channel *)
(* and the workers' orders go with it and its open requests break.  A COMMIT *)
(* already sent is still PostgreSQL's to carry out.                          *)
ApiCrash(a) ==
  /\ "api" \in Faults
  /\ apiUp[a]
  /\ apiUp' = [apiUp EXCEPT ![a] = FALSE]
  /\ orphaned' = orphaned \cup Pending(a)
  /\ queue' = [queue EXCEPT ![a] = <<>>]
  /\ job' = [job EXCEPT ![a] = [w \in Worker |-> NoOrder]]
  /\ entered' = [entered EXCEPT ![a] = <<>>]
  /\ answer' = [o \in Order |->
                  IF Via[o] = a /\ outcome[o] # "unsent" /\ answer[o] = "none"
                  THEN "broken" ELSE answer[o]]
  /\ UNCHANGED <<outcome, dbVars, failed>>

(* main: ConnectDB succeeds, NewOrderRepo makes an empty channel and idle   *)
(* workers, and the server starts to listen.                                *)
ApiStart(a) ==
  /\ ~apiUp[a]
  /\ dbUp
  /\ apiUp' = [apiUp EXCEPT ![a] = TRUE]
  /\ UNCHANGED <<handlerVars, queue, job, dbVars, failed, orphaned, entered>>

-----------------------------------------------------------------------------
Handler(o) ==
  \/ Receive(o)
  \/ BadRequest(o)
  \/ CreateOrderTransaction(o)
  \/ Answer(o)

insertToDB(a, w) ==
  \/ SendCommit(a, w)
  \/ InsertOk(a, w)
  \/ InsertError(a, w)

Database ==
  \/ \E o \in Order : DbCommit(o) \/ DbAbort(o)
  \/ DbFlush
  \/ DbCrash
  \/ DbStart

Next ==
  \/ \E o \in Order : Handler(o)
  \/ \E a \in Api, w \in Worker : Take(a, w) \/ insertToDB(a, w)
  \/ Database
  \/ \E a \in Api : ApiCrash(a) \/ ApiStart(a)

Spec == Init /\ [][Next]_vars

(* Fairness.  A runnable handler goroutine is scheduled.  Nothing else is   *)
(* assumed: the workers and the database may hang.                          *)
HandlerFairness ==
  \A o \in Order :
    /\ WF_vars(BadRequest(o))
    /\ WF_vars(CreateOrderTransaction(o))
    /\ WF_vars(Answer(o))

(* A worker that can receive does, an insert that has been started returns, *)
(* and a running PostgreSQL carries out the COMMITs it was sent.            *)
WorkerFairness ==
  /\ \A a \in Api, w \in Worker :
       /\ WF_vars(Take(a, w))
       /\ WF_vars(insertToDB(a, w))
  /\ \A o \in Order : WF_vars(DbCommit(o))

HandlerFairSpec == Spec /\ HandlerFairness
FairSpec        == Spec /\ HandlerFairness /\ WorkerFairness

-----------------------------------------------------------------------------
(* Properties.                                                               *)

Outcomes == {"unsent", "handling", "accepted", "refused"}
Answers  == {"none", "created", "busy", "bad", "broken"}
Fates    == {"none", "open", "committed", "aborted"}

(* Every variable has its type; a channel never holds more than its         *)
(* capacity, and what is on disk is in the table.                           *)
TypeOK ==
  /\ apiUp \in [Api -> BOOLEAN]
  /\ dbUp \in BOOLEAN
  /\ outcome \in [Order -> Outcomes]
  /\ answer \in [Order -> Answers]
  /\ queue \in [Api -> Seq(Order)]
  /\ \A a \in Api : Len(queue[a]) <= QueueCap
  /\ job \in [Api -> [Worker -> Order \cup {NoOrder}]]
  /\ tx \in [Order -> Fates]
  /\ table \subseteq Order
  /\ flushed \subseteq table
  /\ failed \subseteq Order
  /\ orphaned \subseteq Order
  /\ entered \in [Api -> Seq(Order)]

(* An error answer (500, Internal, 400) means the order was not taken: it is *)
(* in no channel, no worker and no transaction, now or later, so the client *)
(* may send the request again without creating two orders                   *)
(* (rest/controller.go CreateOrder, order_repo.go CreateOrderTransaction).   *)
NoStoreAfterError ==
  \A o \in Order : answer[o] \in {"busy", "bad"} =>
    /\ tx[o] = "none"
    /\ o \notin table
    /\ \A a \in Api : o \notin Pending(a)

(* An accepted order is in one place: one slot of the channel of the service *)
(* it was sent to, or the hands of one worker of that service.  No two      *)
(* workers, of one process or of two, ever insert the same order.           *)
AtMostOneCustodian ==
  /\ \A a \in Api : IsInjective(queue[a])
  /\ \A a, b \in Api : \A v, w \in Worker :
       Busy(a, v) /\ job[a][v] = job[b][w] => a = b /\ v = w
  /\ \A a, b \in Api : Queued(a) \cap InHand(b) = {}
  /\ \A a \in Api : \A o \in Pending(a) : Via[o] = a

(* No accepted order vanishes without a trace: it is waiting, in a worker's  *)
(* hands, in a transaction PostgreSQL has been asked to commit, or its      *)
(* failure was logged, or it was in the memory of a process that died.      *)
Accounted ==
  \A o \in Order : outcome[o] = "accepted" =>
    \/ o \in Pending(Via[o])
    \/ tx[o] \in {"open", "committed"}
    \/ o \in failed
    \/ o \in orphaned

(* What the steps keep of an order's life: only accepted orders are held,   *)
(* and none of them was sent before a worker took it; a transaction belongs *)
(* to an accepted order, and while its COMMIT is on the wire the order is   *)
(* held, or its failure was logged, or its process died; the table holds    *)
(* committed orders; an error answer is the handler's last word.            *)
Ledger ==
  /\ \A a \in Api : \A o \in Pending(a) : outcome[o] = "accepted"
  /\ \A a \in Api : \A o \in Queued(a) : tx[o] = "none"
  /\ \A o \in Order : tx[o] # "none" => outcome[o] = "accepted"
  /\ \A o \in Order : tx[o] = "open" =>
       o \in Pending(Via[o]) \cup failed \cup orphaned
  /\ \A o \in table : tx[o] = "committed"
  /\ \A o \in Order : /\ answer[o] = "busy" => outcome[o] = "refused"
                      /\ answer[o] = "bad"  => outcome[o] = "handling"

Earlier(a, k) == {entered[a][i] : i \in 1..(k - 1)}

(* The channel is first in, first out, but ten workers commit in any order:  *)
(* when an order has left the channel, every order the process accepted     *)
(* before it has left it too, and at most Worker - 1 of those are still     *)
(* being inserted.                                                          *)
BoundedOvertaking ==
  \A a \in Api : \A k \in 1..Len(entered[a]) :
    entered[a][k] \notin Queued(a) =>
      /\ Earlier(a, k) \cap Queued(a) = {}
      /\ Cardinality(Earlier(a, k) \cap InHand(a)) < Cardinality(Worker)

(* The death of a process loses at most what its channel and its workers    *)
(* can hold: 50000 + 10 orders that were answered "created".                *)
CrashLossBounded ==
  [][Cardinality(orphaned' \ orphaned) <= QueueCap + Cardinality(Worker)]_vars

(* Every request that reaches a service is answered (or its connection is   *)
(* broken by the death of the process), even when neither the workers nor   *)
(* the database ever make a step: the handler's channel send has a default. *)
EveryRequestAnswered ==
  \A o \in Order : outcome[o] # "unsent" ~> answer[o] # "none"

(* Every accepted order settles: its transaction ends, or its failure is    *)
(* logged, or its process dies.  It never waits in the channel for ever,    *)
(* whatever happened to the orders before it.                               *)
EveryAcceptedSettles ==
  \A o \in Order : outcome[o] = "accepted" ~>
    \/ tx[o] \in {"committed", "aborted"}
    \/ o \in failed
    \/ o \in orphaned

(* What the answer says ("Order created successfully", Success: true): an    *)
(* order the client was told is created is, sooner or later, in the table.  *)
CreatedIsStored ==
  \A o \in Order : answer[o] = "created" ~> o \in table

-----------------------------------------------------------------------------
(* The write path implements OrderPromise.  An order is open while its      *)
(* COMMIT is on its way, or while it has not been sent and a process still  *)
(* holds it; once accepted it is stored or gone when it is not open.        *)

Open(o) ==
  \/ tx[o] = "open"
  \/ tx[o] = "none" /\ \E a \in Api : o \in Pending(a)

StageOf(o) ==
  CASE outcome[o] \in {"unsent", "handling"} -> "new"
    [] outcome[o] = "refused"  -> "refused"
    [] outcome[o] = "accepted" -> IF o \in table THEN "stored"
                                  ELSE IF Open(o) THEN "open" ELSE "gone"

Promise == INSTANCE OrderPromise
             WITH stage <- [o \in Order |-> StageOf(o)]

(* Every behaviour of the write path keeps the promise, and an order it     *)
(* takes does not stay open for ever.                                       *)
KeepsPromise == Promise!FairSpec
=============================================================================
