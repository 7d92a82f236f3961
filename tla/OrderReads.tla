------------------------------- MODULE OrderReads -------------------------------
(***************************************************************************)
(* The read requests of one service process over its connection pool, and  *)
(* the worker that inserts the order they ask for.                         *)
(*                                                                         *)
(* A request becomes statements of the repository (order_repo.go,          *)
(* order_repo_slim.go); each takes a connection of the pool and gives it   *)
(* back before the next one starts.  A GraphQL request with two root       *)
(* fields runs them in two goroutines, its lanes.  All requests are about  *)
(* one order, which was loaded with the data set or was accepted by        *)
(* CreateOrder and waits for its insert.                                   *)
(***************************************************************************)
EXTENDS ConnPool

CONSTANTS
  User,         \* clients of the service, each with one request at a time
  Inserter,     \* the worker that received the order from the channel
  Args,         \* the values of limit and offset: [given, n]
  Pages,        \* the pairs of limit and offset that clients ask for
  Asked,        \* the requests made: pairs of a protocol and a kind
  DefaultLimit, \* 100 in the code
  Rows          \* orders in the table

Lane == User \X {1, 2}

ASSUME ReadsAssumption ==
  /\ Client = Lane \cup {Inserter}
  /\ Inserter \notin Lane
  /\ Args \subseteq [given : {"no", "junk", "number"}, n : Int]
  /\ [given |-> "no", n |-> 0] \in Args
  /\ Pages \subseteq Args \X Args
  /\ DefaultLimit \in Nat \ {0}
  /\ Rows \in Nat

VARIABLES
  service,  \* the protocol this process serves
  order,    \* where the order is: queued, stored, flushed (to disk), lost
  seeded,   \* it belongs to the data set: it has items
  stage,    \* stage[u]: idle, running, answered
  request,  \* request[u]: what u asked for last
  left,     \* left[l]: statements lane l has still to run
  result,   \* result[l]: ok, missing, failed
  rows,     \* rows[u]: length of the page read for u
  met       \* met[u]: what was true at some moment of the request of u

readVars == <<service, order, seeded, stage, request, left, result, rows, met>>
allVars  == <<vars, readVars>>

-----------------------------------------------------------------------------
(* Requests.                                                                *)

Services == {"rest", "grpc", "graphql"}

(* The GET routes of the REST router, the methods of the gRPC service and    *)
(* the root fields of a GraphQL query; "light" asks for two of these at once.*)
RestRoutes  == {"simple", "page", "items", "details", "slim"}
GrpcMethods == {"simple", "page", "items", "details"}
RootFields  == {"simple", "page", "items", "details", "light"}

Offered(s) ==
  CASE s = "rest"    -> RestRoutes
    [] s = "grpc"    -> GrpcMethods
    [] s = "graphql" -> RootFields

Kinds == {"simple", "page", "items", "details", "slim", "light"}

(* gRPC has no absent number (proto3 sends 0), and neither it nor GraphQL    *)
(* lets anything but a number through to the handler.                        *)
Expressible(s) ==
  {a \in Args : CASE s = "rest"    -> TRUE
                  [] s = "grpc"    -> a.given = "number"
                  [] s = "graphql" -> a.given # "junk"}

Requests  == [kind : Kinds, limit : Args, offset : Args]
Unset     == [given |-> "no", n |-> 0]
NoRequest == [kind |-> "simple", limit |-> Unset, offset |-> Unset]

(* What lane i of a request runs.                                            *)
Part(kind, i) ==
  IF kind = "light" THEN (IF i = 1 THEN "simple" ELSE "items")
  ELSE IF i = 1 THEN kind ELSE "nothing"

(* An order with its associations: the order, customers, items, payments,   *)
(* reviews, and for the items found products and sellers.                   *)
Details == IF seeded THEN 7 ELSE 5

(* The slim query leaves out sellers, payments and reviews.                  *)
Slim == IF seeded THEN 4 ELSE 3

Statements(part) ==
  CASE part = "details" -> Details
    [] part = "slim"    -> Slim
    [] part = "nothing" -> 0
    [] OTHER            -> 1

(* These begin with First, which fails when there is no such order.          *)
AsksForOrder(part) == part \in {"simple", "details", "slim"}

-----------------------------------------------------------------------------
(* Paging.                                                                  *)

(* ctx.DefaultQuery and strconv.Atoi, whose error is dropped.                *)
RestLimit(a) ==
  CASE a.given = "no"     -> DefaultLimit
    [] a.given = "junk"   -> 0
    [] a.given = "number" -> a.n

BugGrpcLimit(a) == IF a.n <= 1 THEN DefaultLimit ELSE a.n
GrpcLimit(a)    == IF a.n <= 0 THEN DefaultLimit ELSE a.n

GraphqlLimit(a) == IF a.given = "no" THEN DefaultLimit ELSE a.n

Limit(s, a) ==
  CASE s = "rest"    -> RestLimit(a)
    [] s = "grpc"    -> GrpcLimit(a)
    [] s = "graphql" -> GraphqlLimit(a)

Offset(a) == IF a.given = "number" THEN a.n ELSE 0

Skipped(offset) == IF offset > 0 THEN Lesser(offset, Rows) ELSE 0

(* A negative limit is no LIMIT clause, a negative offset no OFFSET clause.  *)
PageLength(limit, offset) ==
  IF limit >= 0 THEN Lesser(limit, Rows - Skipped(offset)) ELSE Rows - Skipped(offset)

-----------------------------------------------------------------------------

ReadsInit ==
  /\ Init
  /\ service \in Services
  /\ seeded \in BOOLEAN
  /\ order = IF seeded THEN "flushed" ELSE "queued"
  /\ stage = [u \in User |-> "idle"]
  /\ request = [u \in User |-> NoRequest]
  /\ left = [l \in Lane |-> 0]
  /\ result = [l \in Lane |-> "ok"]
  /\ rows = [u \in User |-> 0]
  /\ met = [u \in User |-> {}]

Present == order \in {"stored", "flushed"}

Facts ==
  {IF Present THEN "present" ELSE "absent"} \cup (IF dbUp THEN {} ELSE {"outage"})

Notice(facts) ==
  met' = [u \in User |-> IF stage[u] = "running" THEN met[u] \cup facts ELSE met[u]]

(* A request that is given a connection which died in an outage meets it.   *)
MeetDead ==
  met' = [u \in User |-> IF \E i \in {1, 2} : <<u, i>> \in broken' \ broken
                         THEN met[u] \cup {"outage"} ELSE met[u]]

(* A request arrives and its statements are known.                           *)
Begin(u, kind, limit, offset) ==
  /\ phase = "serving"
  /\ stage[u] = "idle"
  /\ stage' = [stage EXCEPT ![u] = "running"]
  /\ request' = [request EXCEPT ![u] = [kind |-> kind, limit |-> limit, offset |-> offset]]
  /\ left' = [l \in Lane |-> IF l[1] = u THEN Statements(Part(kind, l[2])) ELSE left[l]]
  /\ met' = [met EXCEPT ![u] = Facts]
  /\ UNCHANGED <<vars, service, order, seeded, result, rows>>

Receive(u) ==
  \E kind \in Offered(service) :
    /\ <<service, kind>> \in Asked
    /\ IF kind = "page"
       THEN \E limit, offset \in Expressible(service) :
              /\ <<limit, offset>> \in Pages
              /\ Begin(u, kind, limit, offset)
       ELSE Begin(u, kind, Unset, Unset)

(* A client of the pool that has a statement to run.                         *)
BugWants(c) == IF c = Inserter THEN order = "queued" ELSE left[c] > 1
Wants(c)    == IF c = Inserter THEN order = "queued" ELSE left[c] > 0

Start(c) ==
  /\ Wants(c)
  /\ Acquire(c)
  /\ MeetDead
  /\ UNCHANGED <<service, order, seeded, stage, request, left, result, rows>>

(* The transaction of insertToDB commits, or a constraint refuses it.        *)
Insert(outcome) ==
  /\ pc[Inserter] = "using"
  /\ Inserter \notin broken
  /\ dbUp
  /\ order = "queued"
  /\ order' = outcome
  /\ IF outcome = "stored" THEN Notice({"present"}) ELSE UNCHANGED met
  /\ UNCHANGED <<vars, service, seeded, stage, request, left, result, rows>>

(* The statement of client c was answered by the database: an order that is  *)
(* not there ends its query, and a page has its length.                      *)
Missing(l) ==
  /\ AsksForOrder(Part(request[l[1]].kind, l[2]))
  /\ left[l] = Statements(Part(request[l[1]].kind, l[2]))
  /\ ~Present

BugRemaining(l) == left[l] - 2
Remaining(l)    == left[l] - 1

Served(c) ==
  IF c = Inserter
  THEN order # "queued" /\ UNCHANGED <<left, result, rows>>
  ELSE LET u == c[1] IN
    /\ left' = [left EXCEPT ![c] = IF Missing(c) THEN 0 ELSE Remaining(c)]
    /\ result' = [result EXCEPT ![c] = IF Missing(c) THEN "missing" ELSE "ok"]
    /\ rows' = IF request[u].kind # "page" THEN rows
               ELSE [rows EXCEPT ![u] = PageLength(Limit(service, request[u].limit),
                                                   Offset(request[u].offset))]

Finish(c) ==
  /\ c \notin broken
  /\ Release(c)
  /\ Served(c)
  /\ UNCHANGED <<service, order, seeded, stage, request, met>>

(* No connection, or one that died under the statement: the repository turns *)
(* every error that is not ErrRecordNotFound into ErrDatabaseQuery and runs *)
(* no further statement; the worker logs the order and drops it.            *)
BugFailure == "missing"
Failure    == "failed"

Failed(c) ==
  IF c = Inserter
  THEN /\ order' = IF order = "queued" THEN "lost" ELSE order
       /\ UNCHANGED <<left, result>>
  ELSE /\ left' = [left EXCEPT ![c] = 0]
       /\ result' = [result EXCEPT ![c] = Failure]
       /\ UNCHANGED order

Fail(c) ==
  /\ DialFail(c) \/ FailedFor(c) \/ (c \in broken /\ Release(c))
  /\ Failed(c)
  /\ MeetDead
  /\ UNCHANGED <<service, seeded, stage, request, rows>>

(* All lanes of the request are through: 200, OK or data, if none of them    *)
(* failed; 404, NotFound or "order not found"; 500, Internal or an error.    *)
Answer(u) ==
  /\ stage[u] = "running"
  /\ \A i \in {1, 2} : left[<<u, i>>] = 0
  /\ stage' = [stage EXCEPT ![u] = "answered"]
  /\ UNCHANGED <<vars, service, order, seeded, request, left, result, rows, met>>

(* The handler has returned.                                                 *)
Return(u) ==
  /\ stage[u] = "answered"
  /\ stage' = [stage EXCEPT ![u] = "idle"]
  /\ request' = [request EXCEPT ![u] = NoRequest]
  /\ result' = [l \in Lane |-> IF l[1] = u THEN "ok" ELSE result[l]]
  /\ rows' = [rows EXCEPT ![u] = 0]
  /\ met' = [met EXCEPT ![u] = {}]
  /\ UNCHANGED <<vars, service, order, seeded, left>>

-----------------------------------------------------------------------------
(* PostgreSQL, with synchronous_commit=off: a stop may lose an order whose   *)
(* commit record has not reached the disk.                                  *)

Flush ==
  /\ dbUp
  /\ order = "stored"
  /\ order' = "flushed"
  /\ UNCHANGED <<vars, service, seeded, stage, request, left, result, rows, met>>

Survives == IF order = "stored" THEN {"stored", "lost"} ELSE {order}

Stop ==
  /\ DbStop
  /\ order' \in Survives
  /\ Notice({"outage"} \cup (IF order' = order THEN {} ELSE {"absent"}))
  /\ UNCHANGED <<service, seeded, stage, request, left, result, rows>>

-----------------------------------------------------------------------------
(* What the requests do not see: start-up and the pool's own steps.         *)
Unseen ==
  /\ \/ Boot
     \/ \E c \in Client : DialOk(c) \/ OpenedFor(c) \/ (Wants(c) /\ Retry(c))
     \/ OpenedForNobody
     \/ FailedForNobody
     \/ Expire
     \/ DbStart
  /\ UNCHANGED readVars

ReadsNext ==
  \/ \E u \in User : Receive(u) \/ Answer(u) \/ Return(u)
  \/ \E c \in Client : Start(c) \/ Finish(c) \/ Fail(c)
  \/ \E outcome \in {"stored", "lost"} : Insert(outcome)
  \/ Flush
  \/ Stop
  \/ Unseen

ReadsSpec == ReadsInit /\ [][ReadsNext]_allVars

(* Whatever reaches a waiting client, a connection or an error.              *)
Reached(w) ==
  /\ pc[w] = "waiting"
  /\ (\E c \in Client : Finish(c) \/ Fail(c)) \/ (OpenedFor(w) /\ UNCHANGED readVars)
  /\ pc'[w] # "waiting"

(* ConnectDB and the handlers go on, dialling and statements end, and the    *)
(* opener runs.  The client that is served is picked at random: whoever      *)
(* waits while others are served again and again is served, too, which is   *)
(* strong fairness.  A connection that stays idle while somebody waits for   *)
(* a new one is closed after ConnMaxIdleTime.                               *)
ReadsFairness ==
  /\ WF_allVars(Boot /\ UNCHANGED readVars)
  /\ WF_allVars((OpenedForNobody \/ FailedForNobody) /\ UNCHANGED readVars)
  /\ WF_allVars(Waiting # {} /\ Expire /\ UNCHANGED readVars)
  /\ WF_allVars(\E outcome \in {"stored", "lost"} : Insert(outcome))
  /\ \A u \in User : WF_allVars(Answer(u))
  /\ \A c \in Client :
       /\ WF_allVars(Start(c))
       /\ WF_allVars(DialOk(c) /\ UNCHANGED readVars)
       /\ WF_allVars(Finish(c) \/ Fail(c) \/ (Wants(c) /\ Retry(c) /\ UNCHANGED readVars))
       /\ SF_allVars(Reached(c))

ReadsFairSpec == ReadsSpec /\ ReadsFairness

-----------------------------------------------------------------------------
(* Properties.                                                               *)

(* Every variable has its type; no lane owes a negative number of statements.*)
ReadsTypeOK ==
  /\ service \in Services
  /\ order \in {"queued", "stored", "flushed", "lost"}
  /\ seeded \in BOOLEAN
  /\ stage \in [User -> {"idle", "running", "answered"}]
  /\ request \in [User -> Requests]
  /\ left \in [Lane -> 0..7]
  /\ result \in [Lane -> {"ok", "missing", "failed"}]
  /\ rows \in [User -> 0..Rows]
  /\ met \in [User -> SUBSET {"present", "absent", "outage"}]

(* An answer is true of some moment between the request and its answer: the  *)
(* order is returned only if it was in the table, it is reported missing     *)
(* only if it was not, and an internal error means that the database was    *)
(* down or had left the request a dead connection (the mapping of GORM's    *)
(* errors in order_repo.go and of the repository's in the three protocols). *)
Truthful ==
  \A l \in Lane :
    LET u == l[1]
        part == Part(request[u].kind, l[2]) IN
    stage[u] = "answered" =>
      /\ result[l] = "ok" /\ AsksForOrder(part) => "present" \in met[u]
      /\ result[l] = "missing" => "absent" \in met[u]
      /\ result[l] = "failed" => "outage" \in met[u]

(* How many rows a page has, for every limit and offset a client can send,  *)
(* although each protocol parses and defaults them in its own way           *)
(* (controller.go, server.go, schema.resolvers.go).  For a limit that is     *)
(* positive or left out all three agree: TC2 compares pages of equal size   *)
(* (not the same rows: GetOrdersWithPaging has no ORDER BY).  They differ    *)
(* for the others: gRPC takes zero and less for "left out", to REST and      *)
(* GraphQL zero is an empty page and less than zero the rest of the table,   *)
(* and to REST what is not a number is zero.                                *)
PageLengths ==
  \A u \in User :
    LET limit  == request[u].limit
        offset == request[u].offset
        first  == IF offset.given = "number" /\ offset.n > 0 THEN offset.n ELSE 0
        Page(wanted) == Cardinality({i \in 1..Rows : first < i /\ i <= first + wanted}) IN
    /\ stage[u] = "answered"
    /\ request[u].kind = "page"
    /\ result[<<u, 1>>] = "ok"
    => /\ limit.given = "no" => rows[u] = Page(DefaultLimit)
       /\ limit.given = "junk" => rows[u] = 0
       /\ limit.given = "number" /\ limit.n > 0 => rows[u] = Page(limit.n)
       /\ limit.given = "number" /\ limit.n <= 0 =>
            rows[u] = IF service = "grpc" THEN Page(DefaultLimit)
                      ELSE IF limit.n = 0 THEN 0 ELSE Page(Rows)

(* An accepted order is inserted or logged as failed, although its worker    *)
(* waits for a connection without a limit, beside requests that go on for   *)
(* ever, in a pool that may be as small as one connection and that picks    *)
(* the next in line at random.                                              *)
InsertEnds == order = "queued" /\ phase = "serving" ~> order # "queued"

(* Every request is answered, also with a pool of a single connection: no    *)
(* goroutine keeps one while it waits for another.                          *)
RequestsEnd == \A u \in User : stage[u] = "running" ~> stage[u] = "answered"

(* A process that starts does not hang before it serves or exits.            *)
BootEnds == <>(phase # "connecting")

================================================================================
