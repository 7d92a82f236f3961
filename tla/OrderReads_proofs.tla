---------------------------- MODULE OrderReads_proofs ----------------------------
(***************************************************************************)
(* Proofs about OrderReads: the requests and the worker use the pool only  *)
(* in ways ConnPool allows, so that what is proved of the pool holds in    *)
(* the service; and every answer is true of a moment of its request, for   *)
(* any number of users, connections and interruptions of the database.     *)
(* What is stored is found until a stop of PostgreSQL takes it, load alone *)
(* fails no request, an outage answers none, and the insert does what      *)
(* OrderPromise allows.                                                    *)
(***************************************************************************)
EXTENDS OrderReads, ConnPool_proofs

(* A lane is busy only for a request that runs, and has then not failed.    *)
Busy ==
  \A l \in Lane :
    /\ pc[l] # "out" => left[l] > 0
    /\ left[l] > 0 => stage[l[1]] = "running" /\ result[l] = "ok"
    /\ stage[l[1]] = "idle" => result[l] = "ok"
    /\ left[l] <= Statements(Part(request[l[1]].kind, l[2]))

(* What is true now was noticed by every request that runs.                 *)
Noticed == \A u \in User : stage[u] = "running" => Facts \subseteq met[u]

(* Whoever holds a dead connection noticed the outage it died of.           *)
Blamed == \A l \in Lane : l \in broken => "outage" \in met[l[1]]

(* Every result has its reason.                                             *)
Explained ==
  \A l \in Lane :
    LET u == l[1]
        part == Part(request[u].kind, l[2]) IN
    stage[u] # "idle" =>
      /\ result[l] = "missing" => "absent" \in met[u]
      /\ result[l] = "failed" => "outage" \in met[u]
      /\ result[l] = "ok" /\ AsksForOrder(part) /\ left[l] < Statements(part)
           => "present" \in met[u]

RInv == ReadsTypeOK /\ Busy /\ Noticed /\ Blamed /\ Explained

-----------------------------------------------------------------------------
(* The composition.                                                         *)

LEMMA StepOfPool == ReadsNext => Next \/ UNCHANGED vars
<1> SUFFICES ASSUME ReadsNext PROVE Next \/ UNCHANGED vars
  OBVIOUS
<1>1. ASSUME NEW u \in User, Receive(u) \/ Answer(u) \/ Return(u) PROVE UNCHANGED vars
  BY <1>1 DEF Receive, Begin, Answer, Return
<1>2. ASSUME NEW c \in Client, Start(c) PROVE Next
  BY <1>2 DEF Start, Next
<1>3. ASSUME NEW c \in Client, Finish(c) PROVE Next
  BY <1>3 DEF Finish, Next
<1>4. ASSUME NEW c \in Client, Fail(c) PROVE Next
  BY <1>4 DEF Fail, Dialed, Opener, Next
<1>5. ASSUME NEW outcome, Insert(outcome) \/ Flush PROVE UNCHANGED vars
  BY <1>5 DEF Insert, Flush
<1>6. Stop => Next
  BY DEF Stop, Next
<1>7. Unseen => Next
  BY DEF Unseen, Next, Dialed, Opener
<1> QED
  BY <1>1, <1>2, <1>3, <1>4, <1>5, <1>6, <1>7 DEF ReadsNext

(* The service implements the pool: every behaviour of the requests and the  *)
(* worker is one of ConnPool, whose theorems hold for it.                    *)
THEOREM Composed == ReadsSpec => Spec
<1>1. ReadsInit => Init
  BY DEF ReadsInit
<1>2. [ReadsNext]_allVars => [Next]_vars
  BY StepOfPool DEF allVars
<1> QED
  BY <1>1, <1>2, PTL DEF ReadsSpec, Spec

(* No place in the pool leaks, and its limits hold, in the whole service.    *)
THEOREM ServiceBounded == ReadsSpec => [](TypeOK /\ PoolBound /\ WaitOnlyWhenFull)
BY Composed, Inductive, PTL DEF IInv

-----------------------------------------------------------------------------
(* Facts about the helpers.                                                 *)

LEMMA StatementsType ==
  ASSUME ReadsTypeOK, NEW part
  PROVE Statements(part) \in 0..7 /\ (AsksForOrder(part) => Statements(part) > 0)
BY DEF ReadsTypeOK, Statements, Details, Slim, AsksForOrder

LEMMA LimitType ==
  ASSUME ReadsTypeOK, NEW a \in Args
  PROVE Limit(service, a) \in Int /\ Offset(a) \in Int
<1>1. a.n \in Int /\ a.given \in {"no", "junk", "number"}
  BY ReadsAssumption
<1> QED
  BY <1>1, ReadsAssumption DEF ReadsTypeOK, Services, Limit, RestLimit, GrpcLimit,
                               GraphqlLimit, Offset

(* A page never has more rows than the table.                               *)
LEMMA PageFits ==
  ASSUME NEW limit \in Int, NEW offset \in Int
  PROVE PageLength(limit, offset) \in 0..Rows
BY ReadsAssumption DEF PageLength, Skipped, Lesser

LEMMA LaneUser == \A l \in Lane : l[1] \in User /\ l[2] \in {1, 2} /\ l \in Client /\ l # Inserter
BY ReadsAssumption DEF Lane

-----------------------------------------------------------------------------
(* The requests.                                                            *)

LEMMA InitRInv == ReadsInit => RInv
<1> SUFFICES ASSUME ReadsInit PROVE RInv
  OBVIOUS
<1> USE DEF ReadsInit, Init
<1>1. NoRequest \in Requests
  BY ReadsAssumption DEF NoRequest, Unset, Requests, Kinds
<1>2. ReadsTypeOK
  BY <1>1, ReadsAssumption DEF ReadsTypeOK
<1>3. \A l \in Lane : Statements(Part(request[l[1]].kind, l[2])) \in Nat
  BY <1>2, StatementsType
<1>4. Busy
  BY <1>3, LaneUser DEF Busy
<1>5. Noticed /\ Blamed /\ Explained
  BY LaneUser DEF Noticed, Blamed, Explained
<1> QED
  BY <1>2, <1>4, <1>5 DEF RInv

(* A request begins with nothing run and everything noticed.                 *)
LEMMA BeginRInv ==
  ASSUME TypeOK, RInv, NEW u \in User, NEW kind \in Kinds,
         NEW limit \in Args, NEW offset \in Args, Begin(u, kind, limit, offset)
  PROVE RInv'
<1> USE DEF RInv, Begin
<1>0. [kind |-> kind, limit |-> limit, offset |-> offset] \in Requests
  BY DEF Requests
<1>1. Facts \subseteq {"present", "absent", "outage"}
  BY DEF Facts
<1>2. \A l \in Lane : Statements(Part(kind, l[2])) \in 0..7
  BY StatementsType
<1>3. ReadsTypeOK'
  BY <1>0, <1>1, <1>2 DEF ReadsTypeOK
<1>4. seeded' = seeded /\ pc' = pc /\ broken' = broken /\ order' = order /\ dbUp' = dbUp
  BY DEF vars, poolVars, dbVars
<1>5. \A part : Statements(part)' = Statements(part)
  BY <1>4 DEF Statements, Details, Slim
<1>6. ASSUME NEW l \in Lane, l[1] = u
      PROVE /\ pc[l] = "out" /\ result[l] = "ok" /\ l \notin broken
            /\ left'[l] = Statements(Part(kind, l[2])) /\ request'[l[1]].kind = kind
            /\ stage'[l[1]] = "running" /\ met'[l[1]] = Facts
    <2>1. stage[l[1]] = "idle"
      BY <1>6
    <2>2. pc[l] = "out" /\ result[l] = "ok"
      BY <2>1 DEF Busy, ReadsTypeOK
    <2>3. l \notin broken
      BY <2>2 DEF TypeOK, In
    <2> QED
      BY <2>2, <2>3, <1>6, LaneUser DEF ReadsTypeOK
<1>7. ASSUME NEW l \in Lane, l[1] # u
      PROVE /\ left'[l] = left[l] /\ request'[l[1]] = request[l[1]]
            /\ stage'[l[1]] = stage[l[1]] /\ met'[l[1]] = met[l[1]]
  BY <1>7, LaneUser DEF ReadsTypeOK
<1>8. Busy'
  <2> SUFFICES ASSUME NEW l \in Lane
               PROVE /\ pc'[l] # "out" => left'[l] > 0
                     /\ left'[l] > 0 => stage'[l[1]] = "running" /\ result'[l] = "ok"
                     /\ stage'[l[1]] = "idle" => result'[l] = "ok"
                     /\ left'[l] <= Statements(Part(request'[l[1]].kind, l[2]))
    BY <1>5 DEF Busy, Statements, Details, Slim
  <2>1. CASE l[1] = u
    BY <2>1, <1>2, <1>4, <1>6
  <2>2. CASE l[1] # u
    BY <2>2, <1>4, <1>7 DEF Busy
  <2> QED
    BY <2>1, <2>2
<1>9. Noticed'
  <2> SUFFICES ASSUME NEW v \in User, stage'[v] = "running" PROVE Facts \subseteq met'[v]
    BY <1>4 DEF Noticed, Facts, Present
  <2> QED
    BY DEF Noticed, ReadsTypeOK
<1>10. Blamed'
  BY <1>4, <1>6, <1>7 DEF Blamed
<1>11. Explained'
  <2> SUFFICES ASSUME NEW l \in Lane, stage'[l[1]] # "idle"
               PROVE LET part == Part(request'[l[1]].kind, l[2]) IN
                     /\ result'[l] = "missing" => "absent" \in met'[l[1]]
                     /\ result'[l] = "failed" => "outage" \in met'[l[1]]
                     /\ result'[l] = "ok" /\ AsksForOrder(part) /\ left'[l] < Statements(part)
                          => "present" \in met'[l[1]]
    BY <1>5 DEF Explained, Statements, Details, Slim
  <2>1. CASE l[1] = u
    BY <2>1, <1>2, <1>6
  <2>2. CASE l[1] # u
    BY <2>2, <1>7 DEF Explained
  <2> QED
    BY <2>1, <2>2
<1> QED
  BY <1>3, <1>8, <1>9, <1>10, <1>11

(* What a request that is given a dead connection notices.                  *)
LEMMA DeadMet ==
  ASSUME ReadsTypeOK, MeetDead
  PROVE /\ met' \in [User -> SUBSET {"present", "absent", "outage"}]
        /\ \A u \in User : met'[u] = met[u] \/ met'[u] = met[u] \cup {"outage"}
        /\ \A l \in Lane : l \in broken' \ broken => "outage" \in met'[l[1]]
<1>1. \A u \in User : met'[u] = met[u] \/ met'[u] = met[u] \cup {"outage"}
  BY DEF MeetDead
<1>2. met' \in [User -> SUBSET {"present", "absent", "outage"}]
  BY DEF MeetDead, ReadsTypeOK
<1>3. ASSUME NEW l \in Lane, l \in broken' \ broken PROVE "outage" \in met'[l[1]]
  <2>1. l = <<l[1], l[2]>> /\ l[1] \in User /\ l[2] \in {1, 2}
    BY DEF Lane
  <2> QED
    BY <1>3, <2>1 DEF MeetDead
<1> QED
  BY <1>1, <1>2, <1>3

(* A step of the pool that starts no client without a statement disturbs     *)
(* none of this, if dead connections are noticed.                           *)
LEMMA QuietRInv ==
  ASSUME RInv, UNCHANGED <<service, order, seeded, stage, request, left, result, rows>>,
         met' \in [User -> SUBSET {"present", "absent", "outage"}],
         \A u \in User : met[u] \subseteq met'[u],
         \A l \in Lane : l \in broken' \ broken => "outage" \in met'[l[1]],
         dbUp => dbUp',
         \A l \in Lane : pc'[l] # "out" => left[l] > 0
  PROVE RInv'
<1> USE DEF RInv
<1>1. ReadsTypeOK'
  BY DEF ReadsTypeOK
<1>2. Busy'
  BY DEF Busy, Statements, Details, Slim
<1>3. Noticed'
  BY DEF Noticed, Facts, Present
<1>4. Blamed'
  BY LaneUser DEF Blamed
<1>5. Explained'
  <2> SUFFICES ASSUME NEW l \in Lane, stage[l[1]] # "idle"
               PROVE LET part == Part(request[l[1]].kind, l[2]) IN
                     /\ result[l] = "missing" => "absent" \in met'[l[1]]
                     /\ result[l] = "failed" => "outage" \in met'[l[1]]
                     /\ result[l] = "ok" /\ AsksForOrder(part) /\ left[l] < Statements(part)
                          => "present" \in met'[l[1]]
    BY DEF Explained, Statements, Details, Slim
  <2>1. met[l[1]] \subseteq met'[l[1]]
    BY LaneUser
  <2> QED
    BY <2>1 DEF Explained
<1> QED
  BY <1>1, <1>2, <1>3, <1>4, <1>5

LEMMA StartRInv == ASSUME TypeOK, RInv, NEW c \in Client, Start(c) PROVE RInv'
<1>1. /\ UNCHANGED <<service, order, seeded, stage, request, left, result, rows>>
      /\ Wants(c) /\ Acquire(c) /\ MeetDead
  BY DEF Start
<1>2. dbUp' = dbUp
  BY <1>1 DEF Acquire, Reuse, Dial, Queue, dbVars
<1>3. \E v : pc' = [pc EXCEPT ![c] = v]
  BY <1>1 DEF Acquire, Reuse, Dial, Queue
<1>4. ASSUME NEW l \in Lane, pc'[l] # "out" PROVE left[l] > 0
  <2>1. CASE l = c
    BY <2>1, <1>1, LaneUser DEF Wants
  <2>2. CASE l # c
    BY <2>2, <1>3, <1>4, LaneUser DEF TypeOK, RInv, Busy
  <2> QED
    BY <2>1, <2>2
<1>5. /\ met' \in [User -> SUBSET {"present", "absent", "outage"}]
      /\ \A u \in User : met[u] \subseteq met'[u]
      /\ \A l \in Lane : l \in broken' \ broken => "outage" \in met'[l[1]]
  BY <1>1, DeadMet DEF RInv
<1> QED
  BY <1>1, <1>2, <1>4, <1>5, QuietRInv

LEMMA UnseenRInv == ASSUME TypeOK, RInv, Unseen PROVE RInv'
<1>1. UNCHANGED readVars
  BY DEF Unseen
<1>2. broken' \subseteq broken /\ (dbUp => dbUp')
  BY DEF Unseen, Boot, Connected, ConnectFailed, DialOk, OpenedFor, Retry, OpenedForNobody,
         FailedForNobody, Expire, DbStart, poolVars, dbVars
<1>3. \/ pc' = pc
      \/ \E c \in Client : pc[c] # "out" /\ \E s : pc' = [pc EXCEPT ![c] = s]
  BY DEF Unseen, Boot, Connected, ConnectFailed, DialOk, OpenedFor, Retry, OpenedForNobody,
         FailedForNobody, Expire, DbStart, poolVars
<1>4. ASSUME NEW l \in Lane, pc'[l] # "out" PROVE left[l] > 0
  BY <1>3, <1>4, LaneUser DEF TypeOK, RInv, Busy
<1>5. met' \in [User -> SUBSET {"present", "absent", "outage"}] /\ met' = met
  BY <1>1 DEF readVars, RInv, ReadsTypeOK
<1> QED
  BY <1>1, <1>2, <1>4, <1>5, QuietRInv DEF readVars

LEMMA StutterRInv == ASSUME TypeOK, RInv, UNCHANGED allVars PROVE RInv'
<1>1. UNCHANGED <<readVars, pc, broken, dbUp>>
  BY DEF allVars, vars, poolVars, dbVars
<1>2. met' \in [User -> SUBSET {"present", "absent", "outage"}] /\ met' = met
  BY <1>1 DEF readVars, RInv, ReadsTypeOK
<1>3. \A l \in Lane : pc'[l] # "out" => left[l] > 0
  BY <1>1 DEF RInv, Busy
<1> QED
  BY <1>1, <1>2, <1>3, QuietRInv DEF readVars

(* The database stops: every request that runs notices that, and that an     *)
(* order which was not on disk is gone.                                     *)
LEMMA StopRInv == ASSUME TypeOK, RInv, Stop PROVE RInv'
<1> USE DEF RInv, Stop
<1> DEFINE facts == {"outage"} \cup (IF order' = order THEN {} ELSE {"absent"})
<1>1. UNCHANGED <<service, seeded, stage, request, left, result, rows, pc>>
  BY DEF DbStop
<1>2. broken' = In("using") /\ ~dbUp'
  BY DEF DbStop
<1>3. /\ \A u \in User : met'[u] = IF stage[u] = "running" THEN met[u] \cup facts ELSE met[u]
      /\ met' \in [User -> SUBSET {"present", "absent", "outage"}]
  BY DEF Notice, ReadsTypeOK
<1>4. order' = order \/ (order = "stored" /\ order' = "lost")
  BY DEF Survives
<1>5. ReadsTypeOK'
  BY <1>1, <1>3, <1>4 DEF ReadsTypeOK
<1>6. Busy'
  BY <1>1 DEF Busy, Statements, Details, Slim
<1>7. Facts' \subseteq Facts \cup facts
  BY <1>2, <1>4 DEF Facts, Present
<1>8. Noticed'
  BY <1>1, <1>3, <1>7 DEF Noticed
<1>9. Blamed'
  BY <1>1, <1>2, <1>3, LaneUser DEF Blamed, Busy, In
<1>10. Explained'
  <2> SUFFICES ASSUME NEW l \in Lane, stage[l[1]] # "idle"
               PROVE LET part == Part(request[l[1]].kind, l[2]) IN
                     /\ result[l] = "missing" => "absent" \in met'[l[1]]
                     /\ result[l] = "failed" => "outage" \in met'[l[1]]
                     /\ result[l] = "ok" /\ AsksForOrder(part) /\ left[l] < Statements(part)
                          => "present" \in met'[l[1]]
    BY <1>1 DEF Explained, Statements, Details, Slim
  <2>1. met[l[1]] \subseteq met'[l[1]]
    BY <1>3, LaneUser
  <2> QED
    BY <2>1 DEF Explained
<1> QED
  BY <1>5, <1>6, <1>8, <1>9, <1>10

(* On disk an order is as present as before.                                *)
LEMMA FlushRInv == ASSUME RInv, Flush PROVE RInv'
<1> USE DEF RInv, Flush
<1>1. UNCHANGED <<service, seeded, stage, request, left, result, rows, met, pc, broken, dbUp>>
  BY DEF vars, poolVars, dbVars
<1>2. Facts' = Facts
  BY <1>1 DEF Facts, Present
<1>3. ReadsTypeOK'
  BY <1>1 DEF ReadsTypeOK
<1>4. Busy' /\ Explained'
  BY <1>1 DEF Busy, Explained, Statements, Details, Slim
<1>5. Noticed' /\ Blamed'
  BY <1>1, <1>2 DEF Noticed, Blamed
<1> QED
  BY <1>3, <1>4, <1>5

(* The order is stored, or never will be.                                   *)
LEMMA InsertRInv == ASSUME TypeOK, RInv, NEW outcome \in {"stored", "lost"}, Insert(outcome) PROVE RInv'
<1> USE DEF RInv, Insert
<1>1. UNCHANGED <<service, seeded, stage, request, left, result, rows, pc, broken, dbUp>>
  BY DEF vars, poolVars, dbVars
<1>2. order = "queued" /\ order' = outcome
  OBVIOUS
<1>3. \A u \in User :
        met'[u] = IF stage[u] = "running" /\ outcome = "stored"
                  THEN met[u] \cup {"present"} ELSE met[u]
  BY DEF Notice
<1>4. ReadsTypeOK'
  BY <1>1, <1>2 DEF ReadsTypeOK, Notice
<1>5. Busy'
  BY <1>1 DEF Busy, Statements, Details, Slim
<1>6. Noticed'
  BY <1>1, <1>2, <1>3 DEF Noticed, Facts, Present
<1>7. \A u \in User : met[u] \subseteq met'[u]
  BY <1>3
<1>8. Blamed'
  BY <1>1, <1>7, LaneUser DEF Blamed
<1>9. Explained'
  <2> SUFFICES ASSUME NEW l \in Lane, stage[l[1]] # "idle"
               PROVE LET part == Part(request[l[1]].kind, l[2]) IN
                     /\ result[l] = "missing" => "absent" \in met'[l[1]]
                     /\ result[l] = "failed" => "outage" \in met'[l[1]]
                     /\ result[l] = "ok" /\ AsksForOrder(part) /\ left[l] < Statements(part)
                          => "present" \in met'[l[1]]
    BY <1>1 DEF Explained, Statements, Details, Slim
  <2>1. met[l[1]] \subseteq met'[l[1]]
    BY <1>7, LaneUser
  <2> QED
    BY <2>1 DEF Explained
<1> QED
  BY <1>4, <1>5, <1>6, <1>8, <1>9

LEMMA AnswerRInv == ASSUME TypeOK, RInv, NEW u \in User, Answer(u) PROVE RInv'
<1> USE DEF RInv, Answer
<1>1. UNCHANGED <<service, order, seeded, request, left, result, rows, met, pc, broken, dbUp>>
  BY DEF vars, poolVars, dbVars
<1>2. stage[u] = "running" /\ stage' = [stage EXCEPT ![u] = "answered"]
  OBVIOUS
<1>3. \A v \in User : v # u => stage'[v] = stage[v]
  BY <1>2 DEF ReadsTypeOK
<1>4. stage'[u] = "answered"
  BY <1>2 DEF ReadsTypeOK
<1>5. \A l \in Lane : l[1] = u => left[l] = 0
  <2> SUFFICES ASSUME NEW l \in Lane, l[1] = u PROVE left[l] = 0
    OBVIOUS
  <2>1. l = <<u, l[2]>> /\ l[2] \in {1, 2}
    BY DEF Lane
  <2> QED
    BY <2>1
<1>6. ReadsTypeOK'
  BY <1>1, <1>2 DEF ReadsTypeOK
<1>7. Busy'
  BY <1>1, <1>3, <1>4, <1>5, LaneUser DEF Busy, Statements, Details, Slim
<1>8. Noticed' /\ Blamed'
  BY <1>1, <1>3, <1>4 DEF Noticed, Blamed, Facts, Present
<1>9. Explained'
  BY <1>1, <1>2, <1>3, LaneUser DEF Explained, Statements, Details, Slim
<1> QED
  BY <1>6, <1>7, <1>8, <1>9

LEMMA ReturnRInv == ASSUME TypeOK, RInv, NEW u \in User, Return(u) PROVE RInv'
<1> USE DEF RInv, Return
<1>1. UNCHANGED <<service, order, seeded, left, pc, broken, dbUp>>
  BY DEF vars, poolVars, dbVars
<1>2. ASSUME NEW v \in User, v # u
      PROVE stage'[v] = stage[v] /\ request'[v] = request[v] /\ met'[v] = met[v]
  BY <1>2 DEF ReadsTypeOK
<1>3. stage'[u] = "idle" /\ met'[u] = {} /\ stage[u] = "answered"
  BY DEF ReadsTypeOK
<1>4. \A l \in Lane : result'[l] = IF l[1] = u THEN "ok" ELSE result[l]
  OBVIOUS
<1>5. NoRequest \in Requests
  BY ReadsAssumption DEF NoRequest, Unset, Requests, Kinds
<1>6. ReadsTypeOK'
  BY <1>1, <1>5, ReadsAssumption DEF ReadsTypeOK
<1>7. \A part : Statements(part)' = Statements(part) /\ Statements(part) \in 0..7
  BY <1>1, StatementsType DEF Statements, Details, Slim
<1>8. ASSUME NEW l \in Lane, l[1] = u PROVE left[l] = 0 /\ pc[l] = "out"
  BY <1>3, <1>8, LaneUser DEF Busy, ReadsTypeOK
<1>9. Busy'
  <2> SUFFICES ASSUME NEW l \in Lane
               PROVE /\ pc'[l] # "out" => left'[l] > 0
                     /\ left'[l] > 0 => stage'[l[1]] = "running" /\ result'[l] = "ok"
                     /\ stage'[l[1]] = "idle" => result'[l] = "ok"
                     /\ left'[l] <= Statements(Part(request'[l[1]].kind, l[2]))
    BY <1>7 DEF Busy, Statements, Details, Slim
  <2>1. CASE l[1] = u
    BY <2>1, <1>1, <1>4, <1>7, <1>8
  <2>2. CASE l[1] # u
    BY <2>2, <1>1, <1>2, <1>4, LaneUser DEF Busy
  <2> QED
    BY <2>1, <2>2
<1>10. Noticed'
  BY <1>1, <1>2, <1>3 DEF Noticed, Facts, Present
<1>11. Blamed'
  BY <1>1, <1>2, <1>8, LaneUser DEF Blamed, TypeOK, In
<1>12. Explained'
  <2> SUFFICES ASSUME NEW l \in Lane, stage'[l[1]] # "idle"
               PROVE LET part == Part(request'[l[1]].kind, l[2]) IN
                     /\ result'[l] = "missing" => "absent" \in met'[l[1]]
                     /\ result'[l] = "failed" => "outage" \in met'[l[1]]
                     /\ result'[l] = "ok" /\ AsksForOrder(part) /\ left'[l] < Statements(part)
                          => "present" \in met'[l[1]]
    BY <1>7 DEF Explained, Statements, Details, Slim
  <2>1. l[1] # u /\ l[1] \in User
    BY <1>3, LaneUser
  <2> QED
    BY <2>1, <1>1, <1>2, <1>4 DEF Explained
<1> QED
  BY <1>6, <1>9, <1>10, <1>11, <1>12

(* A statement was answered.                                                *)
LEMMA FinishRInv == ASSUME TypeOK, RInv, NEW c \in Client, Finish(c) PROVE RInv'
<1> USE DEF RInv
<1>1. /\ UNCHANGED <<service, order, seeded, stage, request, met, broken, dbUp>>
      /\ pc[c] = "using" /\ c \notin broken
      /\ Served(c)
  BY DEF Finish, Release, HandOver, Keep, CloseSurplus, Discard, dbVars
<1>2. /\ pc'[c] = "out"
      /\ \A d \in Client : d # c => (pc'[d] # "out" => pc[d] # "out")
  BY DEF Finish, Release, HandOver, Keep, CloseSurplus, Discard, TypeOK
<1>3. CASE c = Inserter
  <2>1. UNCHANGED readVars
    BY <1>1, <1>3 DEF Served, readVars
  <2>2. ASSUME NEW l \in Lane, pc'[l] # "out" PROVE left[l] > 0
    BY <1>2, <1>3, <2>2, LaneUser DEF Busy
  <2>3. met' \in [User -> SUBSET {"present", "absent", "outage"}] /\ met' = met
    BY <2>1 DEF readVars, ReadsTypeOK
  <2> QED
    BY <1>1, <2>1, <2>2, <2>3, QuietRInv DEF readVars
<1>4. CASE c # Inserter
  <2> DEFINE part == Part(request[c[1]].kind, c[2])
  <2>0. c \in Lane /\ c[1] \in User
    BY <1>4, ReadsAssumption, LaneUser
  <2>1. /\ left[c] > 0 /\ left[c] <= Statements(part) /\ left[c] \in 0..7
        /\ stage[c[1]] = "running"
    BY <1>1, <2>0 DEF Busy, ReadsTypeOK
  <2>2. /\ left' = [left EXCEPT ![c] = IF Missing(c) THEN 0 ELSE Remaining(c)]
        /\ result' = [result EXCEPT ![c] = IF Missing(c) THEN "missing" ELSE "ok"]
    BY <1>1, <1>4 DEF Served
  <2>3. left'[c] \in 0..6 /\ left'[c] < left[c]
    BY <2>0, <2>1, <2>2 DEF Remaining, ReadsTypeOK
  <2>4. \A l \in Lane : l # c => left'[l] = left[l] /\ result'[l] = result[l]
    BY <2>2 DEF ReadsTypeOK
  <2>5. rows' \in [User -> 0..Rows]
    <3>1. request[c[1]].limit \in Args /\ request[c[1]].offset \in Args
      BY <2>0 DEF ReadsTypeOK, Requests
    <3>2. PageLength(Limit(service, request[c[1]].limit), Offset(request[c[1]].offset)) \in 0..Rows
      BY <3>1, LimitType, PageFits
    <3> QED
      BY <3>2, <1>1, <1>4 DEF Served, ReadsTypeOK
  <2>6. left' \in [Lane -> 0..7] /\ result' \in [Lane -> {"ok", "missing", "failed"}]
    BY <2>2, <2>3, <2>0 DEF ReadsTypeOK
  <2>7. ReadsTypeOK'
    BY <1>1, <2>5, <2>6 DEF ReadsTypeOK
  <2>8. \A q : Statements(q)' = Statements(q) /\ Statements(q) \in 0..7
    BY <1>1, StatementsType DEF Statements, Details, Slim
  <2>9. Facts \subseteq met[c[1]]
    BY <2>0, <2>1 DEF Noticed
  <2>10. result'[c] = IF Missing(c) THEN "missing" ELSE "ok"
    BY <2>0, <2>2 DEF ReadsTypeOK
  <2>11. Missing(c) => left'[c] = 0 /\ "absent" \in met[c[1]]
    BY <2>0, <2>2, <2>9 DEF Missing, Facts, Present, ReadsTypeOK
  <2>12. ~Missing(c) /\ AsksForOrder(part) => "present" \in met[c[1]]
    <3>1. CASE left[c] = Statements(part)
      BY <3>1, <2>9 DEF Missing, Facts, Present
    <3>2. CASE left[c] < Statements(part)
      BY <3>2, <2>0, <2>1 DEF Busy, Explained
    <3> QED
      BY <3>1, <3>2, <2>1, <2>8
  <2>13. Busy'
    <3> SUFFICES ASSUME NEW l \in Lane
                 PROVE /\ pc'[l] # "out" => left'[l] > 0
                       /\ left'[l] > 0 => stage[l[1]] = "running" /\ result'[l] = "ok"
                       /\ stage[l[1]] = "idle" => result'[l] = "ok"
                       /\ left'[l] <= Statements(Part(request[l[1]].kind, l[2]))
      BY <1>1, <2>8 DEF Busy, Statements, Details, Slim
    <3>1. CASE l = c
      BY <3>1, <1>2, <2>1, <2>3, <2>8, <2>10, <2>11
    <3>2. CASE l # c
      BY <3>2, <1>2, <2>4, LaneUser DEF Busy
    <3> QED
      BY <3>1, <3>2
  <2>14. Noticed' /\ Blamed'
    BY <1>1 DEF Noticed, Blamed, Facts, Present
  <2>15. Explained'
    <3> SUFFICES ASSUME NEW l \in Lane, stage[l[1]] # "idle"
                 PROVE LET q == Part(request[l[1]].kind, l[2]) IN
                       /\ result'[l] = "missing" => "absent" \in met[l[1]]
                       /\ result'[l] = "failed" => "outage" \in met[l[1]]
                       /\ result'[l] = "ok" /\ AsksForOrder(q) /\ left'[l] < Statements(q)
                            => "present" \in met[l[1]]
      BY <1>1, <2>8 DEF Explained, Statements, Details, Slim
    <3>1. CASE l = c
      BY <3>1, <2>10, <2>11, <2>12
    <3>2. CASE l # c
      BY <3>2, <2>4 DEF Explained
    <3> QED
      BY <3>1, <3>2
  <2> QED
    BY <2>7, <2>13, <2>14, <2>15
<1> QED
  BY <1>3, <1>4

(* A statement or a dial failed: the request has met an outage.              *)
LEMMA FailRInv == ASSUME TypeOK, RInv, NEW c \in Client, Fail(c) PROVE RInv'
<1> USE DEF RInv
<1>0. /\ UNCHANGED <<service, seeded, stage, request, rows, dbUp>>
      /\ Failed(c) /\ MeetDead
  BY DEF Fail, DialFail, Release, HandOver, Keep, CloseSurplus, Discard, FailedFor, dbVars
<1>1. /\ pc[c] # "out" /\ (~dbUp \/ c \in broken)
      /\ pc'[c] = "out"
      /\ \A d \in Client : d # c => (pc'[d] # "out" => pc[d] # "out")
  BY DEF Fail, DialFail, Release, HandOver, Keep, CloseSurplus, Discard, FailedFor, TypeOK
<1>2. /\ met' \in [User -> SUBSET {"present", "absent", "outage"}]
      /\ \A u \in User : met[u] \subseteq met'[u]
      /\ \A l \in Lane : l \in broken' \ broken => "outage" \in met'[l[1]]
  BY <1>0, DeadMet
<1>3. \A d \in Client : pc'[d] # "out" => d # c /\ pc[d] # "out"
  BY <1>1
<1>4. Present <=> Present'
  BY <1>0 DEF Failed, Present
<1>5. Facts' = Facts
  BY <1>0, <1>4 DEF Facts
<1>6. Noticed' /\ Blamed'
  BY <1>0, <1>2, <1>5, LaneUser DEF Noticed, Blamed
<1>7. \A q : Statements(q)' = Statements(q) /\ Statements(q) \in 0..7
  BY <1>0, StatementsType DEF Statements, Details, Slim
<1>8. CASE c = Inserter
  <2>1. /\ order' \in {"queued", "stored", "flushed", "lost"}
        /\ UNCHANGED <<left, result>>
    BY <1>0, <1>8 DEF Failed, ReadsTypeOK
  <2>2. ReadsTypeOK'
    BY <1>0, <1>2, <2>1 DEF ReadsTypeOK
  <2>3. Busy'
    BY <1>0, <1>3, <2>1, LaneUser DEF Busy, Statements, Details, Slim
  <2>4. Explained'
    <3> SUFFICES ASSUME NEW l \in Lane, stage[l[1]] # "idle"
                 PROVE LET q == Part(request[l[1]].kind, l[2]) IN
                       /\ result[l] = "missing" => "absent" \in met'[l[1]]
                       /\ result[l] = "failed" => "outage" \in met'[l[1]]
                       /\ result[l] = "ok" /\ AsksForOrder(q) /\ left[l] < Statements(q)
                            => "present" \in met'[l[1]]
      BY <1>0, <1>7, <2>1 DEF Explained, Statements, Details, Slim
    <3>1. met[l[1]] \subseteq met'[l[1]]
      BY <1>2, LaneUser
    <3> QED
      BY <3>1 DEF Explained
  <2> QED
    BY <1>6, <2>2, <2>3, <2>4
<1>9. CASE c # Inserter
  <2>0. c \in Lane /\ c[1] \in User
    BY <1>9, ReadsAssumption, LaneUser
  <2>1. /\ left' = [left EXCEPT ![c] = 0]
        /\ result' = [result EXCEPT ![c] = "failed"]
        /\ order' = order
    BY <1>0, <1>9 DEF Failed, Failure
  <2>2. ReadsTypeOK'
    <3>1. left' \in [Lane -> 0..7]
      <4>1. 0 \in 0..7 /\ left \in [Lane -> 0..7]
        BY DEF ReadsTypeOK
      <4> QED
        BY <4>1, <2>1, Zenon
    <3>2. result' \in [Lane -> {"ok", "missing", "failed"}]
      BY <2>1 DEF ReadsTypeOK
    <3> QED
      BY <1>0, <1>2, <2>1, <3>1, <3>2 DEF ReadsTypeOK
  <2>3. stage[c[1]] = "running"
    BY <1>1, <2>0 DEF Busy
  <2>4. "outage" \in met'[c[1]]
    BY <1>1, <1>2, <2>0, <2>3 DEF Noticed, Blamed, Facts
  <2>5. left'[c] = 0 /\ result'[c] = "failed"
    BY <2>0, <2>1 DEF ReadsTypeOK
  <2>6. \A l \in Lane : l # c => left'[l] = left[l] /\ result'[l] = result[l]
    BY <2>1 DEF ReadsTypeOK
  <2>7. Busy'
    <3> SUFFICES ASSUME NEW l \in Lane
                 PROVE /\ pc'[l] # "out" => left'[l] > 0
                       /\ left'[l] > 0 => stage[l[1]] = "running" /\ result'[l] = "ok"
                       /\ stage[l[1]] = "idle" => result'[l] = "ok"
                       /\ left'[l] <= Statements(Part(request[l[1]].kind, l[2]))
      BY <1>0, <1>7 DEF Busy, Statements, Details, Slim
    <3>1. CASE l = c
      BY <3>1, <1>3, <1>7, <2>3, <2>5, LaneUser
    <3>2. CASE l # c
      BY <3>2, <1>3, <2>6, LaneUser DEF Busy
    <3> QED
      BY <3>1, <3>2
  <2>8. Explained'
    <3> SUFFICES ASSUME NEW l \in Lane, stage[l[1]] # "idle"
                 PROVE LET q == Part(request[l[1]].kind, l[2]) IN
                       /\ result'[l] = "missing" => "absent" \in met'[l[1]]
                       /\ result'[l] = "failed" => "outage" \in met'[l[1]]
                       /\ result'[l] = "ok" /\ AsksForOrder(q) /\ left'[l] < Statements(q)
                            => "present" \in met'[l[1]]
      BY <1>0, <1>7 DEF Explained, Statements, Details, Slim
    <3>1. CASE l = c
      BY <3>1, <2>4, <2>5
    <3>2. CASE l # c
      BY <3>2, <2>6, <1>2, LaneUser DEF Explained
    <3> QED
      BY <3>1, <3>2
  <2> QED
    BY <1>6, <2>2, <2>7, <2>8
<1> QED
  BY <1>8, <1>9

-----------------------------------------------------------------------------

(* The inductive invariant of the requests.                                 *)
THEOREM RequestsInductive == ReadsSpec => []RInv
<1>1. TypeOK /\ RInv /\ [ReadsNext]_allVars => RInv'
  <2> SUFFICES ASSUME TypeOK, RInv, [ReadsNext]_allVars PROVE RInv'
    OBVIOUS
  <2>1. ASSUME NEW u \in User, Receive(u) PROVE RInv'
    <3>1. /\ service \in Services
          /\ \A a \in Expressible(service) : a \in Args
          /\ Unset \in Args
      BY ReadsAssumption DEF RInv, ReadsTypeOK, Expressible, Unset
    <3>2. Offered(service) \subseteq Kinds /\ "page" \in Kinds
      BY <3>1 DEF Services, Offered, RestRoutes, GrpcMethods, RootFields, Kinds
    <3> QED
      BY <2>1, <3>1, <3>2, BeginRInv DEF Receive
  <2>2. ASSUME NEW u \in User, Answer(u) \/ Return(u) PROVE RInv'
    BY <2>2, AnswerRInv, ReturnRInv
  <2>3. ASSUME NEW c \in Client, Start(c) \/ Finish(c) \/ Fail(c) PROVE RInv'
    BY <2>3, StartRInv, FinishRInv, FailRInv
  <2>4. ASSUME NEW outcome \in {"stored", "lost"}, Insert(outcome) PROVE RInv'
    BY <2>4, InsertRInv
  <2>5. CASE Flush \/ Stop \/ Unseen
    BY <2>5, FlushRInv, StopRInv, UnseenRInv
  <2>6. CASE UNCHANGED allVars
    BY <2>6, StutterRInv
  <2> QED
    BY <2>1, <2>2, <2>3, <2>4, <2>5, <2>6 DEF ReadsNext
<1>2. ReadsSpec => []TypeOK
  BY Composed, TypeCorrect, PTL
<1> QED
  BY InitRInv, <1>1, <1>2, PTL DEF ReadsSpec

(* The types of the requests, and that no lane runs more statements than its *)
(* query has.                                                               *)
THEOREM ReadsTypeCorrect == ReadsSpec => []ReadsTypeOK
BY RequestsInductive, PTL DEF RInv

(* Every answer is true of a moment of its request.                         *)
THEOREM AnswersTrue == ReadsSpec => []Truthful
<1>1. RInv => Truthful
  <2> SUFFICES ASSUME RInv, NEW l \in Lane, stage[l[1]] = "answered"
               PROVE LET part == Part(request[l[1]].kind, l[2]) IN
                     /\ result[l] = "ok" /\ AsksForOrder(part) => "present" \in met[l[1]]
                     /\ result[l] = "missing" => "absent" \in met[l[1]]
                     /\ result[l] = "failed" => "outage" \in met[l[1]]
    BY DEF Truthful
  <2>1. left[l] = 0
    BY DEF RInv, Busy, ReadsTypeOK
  <2>2. \A q : AsksForOrder(q) => left[l] < Statements(q)
    BY <2>1, StatementsType DEF RInv
  <2> QED
    BY <2>2 DEF RInv, Explained
<1> QED
  BY <1>1, RequestsInductive, PTL

-----------------------------------------------------------------------------
(* Pages.                                                                   *)

(* A page that was read has the length its arguments ask for.               *)
PageOf(r) == PageLength(Limit(service, r.limit), Offset(r.offset))

PageRead ==
  \A u \in User :
    stage[u] # "idle" /\ request[u].kind = "page" =>
      /\ request[u].limit \in Expressible(service)
      /\ result[<<u, 1>>] = "ok" /\ left[<<u, 1>>] = 0 => rows[u] = PageOf(request[u])

LEMMA PageReadKept ==
  ASSUME TypeOK, RInv, PageRead, [ReadsNext]_allVars
  PROVE PageRead'
<1> USE DEF RInv
<1>1. CASE UNCHANGED <<service, stage, request, left, result, rows>>
  BY <1>1 DEF PageRead, PageOf, Limit, RestLimit, GrpcLimit, GraphqlLimit, Expressible
<1>2. ASSUME NEW u \in User, NEW kind, NEW limit, NEW offset, Begin(u, kind, limit, offset),
             kind = "page" => limit \in Expressible(service)
      PROVE PageRead'
  <2> SUFFICES ASSUME NEW v \in User, stage'[v] # "idle", request'[v].kind = "page"
               PROVE /\ request'[v].limit \in Expressible(service)
                     /\ result'[<<v, 1>>] = "ok" /\ left'[<<v, 1>>] = 0
                          => rows'[v] = PageOf(request'[v])
    BY <1>2 DEF PageRead, PageOf, Begin, Limit, RestLimit, GrpcLimit, GraphqlLimit, Expressible
  <2>1. <<v, 1>> \in Lane /\ <<v, 1>>[1] = v /\ <<v, 1>>[2] = 1
    BY DEF Lane
  <2>2. CASE v = u
    <3>1. request'[v].limit = limit /\ kind = "page"
      BY <1>2, <2>2 DEF Begin, ReadsTypeOK
    <3>2. left'[<<v, 1>>] = Statements(Part(kind, 1))
      BY <1>2, <2>1, <2>2 DEF Begin
    <3>3. left'[<<v, 1>>] = 1
      BY <3>1, <3>2 DEF Statements, Part
    <3> QED
      BY <1>2, <3>1, <3>3
  <2>3. CASE v # u
    <3>1. /\ stage'[v] = stage[v] /\ request'[v] = request[v] /\ rows'[v] = rows[v]
          /\ left'[<<v, 1>>] = left[<<v, 1>>] /\ result' = result
      BY <1>2, <2>1, <2>3 DEF Begin, ReadsTypeOK
    <3> QED
      BY <3>1 DEF PageRead
  <2> QED
    BY <2>2, <2>3
<1>3. ASSUME NEW u \in User, Answer(u) PROVE PageRead'
  BY <1>3 DEF Answer, PageRead, PageOf, ReadsTypeOK, Limit, RestLimit, GrpcLimit, GraphqlLimit,
              Expressible
<1>4. ASSUME NEW u \in User, Return(u) PROVE PageRead'
  <2> SUFFICES ASSUME NEW v \in User, stage'[v] # "idle", request'[v].kind = "page"
               PROVE /\ request'[v].limit \in Expressible(service)
                     /\ result'[<<v, 1>>] = "ok" /\ left'[<<v, 1>>] = 0
                          => rows'[v] = PageOf(request'[v])
    BY <1>4 DEF PageRead, PageOf, Return, Limit, RestLimit, GrpcLimit, GraphqlLimit, Expressible
  <2>1. v # u
    BY <1>4 DEF Return, ReadsTypeOK
  <2>2. /\ stage'[v] = stage[v] /\ request'[v] = request[v] /\ rows'[v] = rows[v]
        /\ left' = left /\ result'[<<v, 1>>] = result[<<v, 1>>]
    BY <1>4, <2>1 DEF Return, ReadsTypeOK, Lane
  <2> QED
    BY <2>2 DEF PageRead
<1>5. ASSUME NEW c \in Client, Finish(c) PROVE PageRead'
  <2>1. UNCHANGED <<service, stage, request>> /\ Served(c) /\ pc[c] = "using"
    BY <1>5 DEF Finish, Release, HandOver, Keep, CloseSurplus, Discard
  <2>2. CASE c = Inserter
    BY <2>1, <2>2, <1>1 DEF Served
  <2>3. CASE c # Inserter
    <3>1. c \in Lane /\ c[1] \in User /\ c[2] \in {1, 2} /\ c = <<c[1], c[2]>>
      BY <2>3, ReadsAssumption DEF Lane
    <3>2. /\ left[c] > 0 /\ left[c] <= Statements(Part(request[c[1]].kind, c[2]))
          /\ left[c] \in Nat
      BY <2>1, <3>1 DEF Busy, ReadsTypeOK
    <3> SUFFICES ASSUME NEW v \in User, stage[v] # "idle", request[v].kind = "page"
                 PROVE /\ request[v].limit \in Expressible(service)
                       /\ result'[<<v, 1>>] = "ok" /\ left'[<<v, 1>>] = 0
                            => rows'[v] = PageOf(request[v])
      BY <2>1 DEF PageRead, PageOf, Limit, RestLimit, GrpcLimit, GraphqlLimit, Expressible
    <3>3. request[v].limit \in Expressible(service)
      BY DEF PageRead
    <3>4. CASE c[1] = v
      <4>1. c[2] = 1
        BY <3>1, <3>2, <3>4 DEF Part, Statements
      <4>2. rows'[v] = PageOf(request[v])
        BY <2>1, <2>3, <3>1, <3>4 DEF Served, PageOf, ReadsTypeOK
      <4> QED
        BY <3>3, <4>2
    <3>5. CASE c[1] # v
      <4>1. <<v, 1>> # c /\ <<v, 1>> \in Lane
        BY <3>1, <3>5 DEF Lane
      <4>2. /\ left'[<<v, 1>>] = left[<<v, 1>>] /\ result'[<<v, 1>>] = result[<<v, 1>>]
            /\ rows'[v] = rows[v]
        BY <2>1, <2>3, <3>5, <4>1 DEF Served, ReadsTypeOK
      <4> QED
        BY <4>2 DEF PageRead
    <3> QED
      BY <3>4, <3>5
  <2> QED
    BY <2>2, <2>3
<1>6. ASSUME NEW c \in Client, Fail(c) PROVE PageRead'
  <2>1. UNCHANGED <<service, stage, request, rows>> /\ Failed(c)
    BY <1>6 DEF Fail
  <2>2. CASE c = Inserter
    BY <2>1, <2>2, <1>1 DEF Failed
  <2>3. CASE c # Inserter
    <3> SUFFICES ASSUME NEW v \in User, stage[v] # "idle", request[v].kind = "page"
                 PROVE /\ request[v].limit \in Expressible(service)
                       /\ result'[<<v, 1>>] = "ok" /\ left'[<<v, 1>>] = 0
                            => rows[v] = PageOf(request[v])
      BY <2>1 DEF PageRead, PageOf, Limit, RestLimit, GrpcLimit, GraphqlLimit, Expressible
    <3>1. <<v, 1>> \in Lane
      BY DEF Lane
    <3>2. CASE <<v, 1>> = c
      <4>1. result'[<<v, 1>>] = "failed"
        BY <2>1, <2>3, <3>1, <3>2 DEF Failed, Failure, ReadsTypeOK
      <4> QED
        BY <4>1 DEF PageRead
    <3>3. CASE <<v, 1>> # c
      BY <2>1, <2>3, <3>1, <3>3 DEF Failed, PageRead, ReadsTypeOK
    <3> QED
      BY <3>2, <3>3
  <2> QED
    BY <2>2, <2>3
<1>7. ASSUME NEW u \in User, Receive(u) PROVE PageRead'
  <2>1. \E kind, limit, offset :
          Begin(u, kind, limit, offset) /\ (kind = "page" => limit \in Expressible(service))
    BY <1>7 DEF Receive
  <2> QED
    BY <2>1, <1>2
<1>8. ASSUME NEW c \in Client, Start(c) PROVE PageRead'
  BY <1>8, <1>1 DEF Start
<1>9. ASSUME NEW outcome, Insert(outcome) PROVE PageRead'
  BY <1>9, <1>1 DEF Insert
<1>10. CASE Flush \/ Stop \/ Unseen \/ UNCHANGED allVars
  BY <1>10, <1>1 DEF Flush, Stop, Unseen, readVars, allVars
<1> QED
  BY <1>3, <1>4, <1>5, <1>6, <1>7, <1>8, <1>9, <1>10 DEF ReadsNext

(* The rows that OFFSET and LIMIT leave, counted one by one.                 *)
LEMMA PageCounted ==
  ASSUME NEW wanted \in Nat, NEW first \in Nat
  PROVE PageLength(wanted, first)
          = Cardinality({i \in 1..Rows : first < i /\ i <= first + wanted})
<1> DEFINE last == IF first + wanted <= Rows THEN first + wanted ELSE Rows
<1>1. {i \in 1..Rows : first < i /\ i <= first + wanted} = (first + 1)..last
  BY ReadsAssumption
<1>2. Cardinality((first + 1)..last) = IF first + 1 > last THEN 0 ELSE last - (first + 1) + 1
  <2>1. first + 1 \in Int /\ last \in Int
    BY ReadsAssumption
  <2> QED
    BY <2>1, FS_Interval
<1>3. PageLength(wanted, first) = IF first + 1 > last THEN 0 ELSE last - first
  BY ReadsAssumption DEF PageLength, Skipped, Lesser
<1>4. last \in Int
  BY ReadsAssumption
<1> HIDE DEF last
<1>5. Cardinality((first + 1)..last) = PageLength(wanted, first)
  BY <1>2, <1>3, <1>4
<1> QED
  BY <1>1, <1>5

(* An offset of zero or less skips nothing, a limit of less than zero limits *)
(* nothing.                                                                 *)
LEMMA PageAtEdges ==
  ASSUME NEW limit \in Int, NEW offset \in Int
  PROVE /\ PageLength(limit, offset) = PageLength(limit, IF offset > 0 THEN offset ELSE 0)
        /\ limit < 0 => PageLength(limit, offset) = PageLength(Rows, offset)
        /\ PageLength(0, offset) = 0
BY ReadsAssumption DEF PageLength, Skipped, Lesser

(* A page has as many rows as its protocol makes of limit and offset, for    *)
(* every limit and offset a client can send, the left out, zero, negative   *)
(* and unparsable ones included (controller.go, server.go,                  *)
(* schema.resolvers.go).  Which rows it has is not said: the query has no    *)
(* ORDER BY.                                                                *)
THEOREM PageLengthsKept == ReadsSpec => []PageLengths
<1>1. ReadsInit => PageRead
  BY DEF ReadsInit, PageRead
<1>2. RInv /\ PageRead => PageLengths
  <2> SUFFICES ASSUME RInv, PageRead, NEW u \in User, stage[u] = "answered",
                      request[u].kind = "page", result[<<u, 1>>] = "ok"
               PROVE LET limit  == request[u].limit
                         offset == request[u].offset
                         first  == IF offset.given = "number" /\ offset.n > 0 THEN offset.n ELSE 0
                         Page(wanted) ==
                           Cardinality({i \in 1..Rows : first < i /\ i <= first + wanted}) IN
                     /\ limit.given = "no" => rows[u] = Page(DefaultLimit)
                     /\ limit.given = "junk" => rows[u] = 0
                     /\ limit.given = "number" /\ limit.n > 0 => rows[u] = Page(limit.n)
                     /\ limit.given = "number" /\ limit.n <= 0 =>
                          rows[u] = IF service = "grpc" THEN Page(DefaultLimit)
                                    ELSE IF limit.n = 0 THEN 0 ELSE Page(Rows)
    BY DEF PageLengths
  <2> DEFINE limit  == request[u].limit
             offset == request[u].offset
             first  == IF offset.given = "number" /\ offset.n > 0 THEN offset.n ELSE 0
             Page(wanted) == Cardinality({i \in 1..Rows : first < i /\ i <= first + wanted})
  <2>1. /\ limit \in Args /\ offset \in Args /\ service \in Services
        /\ limit \in Expressible(service)
    BY DEF RInv, ReadsTypeOK, Requests, PageRead
  <2>2. limit.n \in Int /\ offset.n \in Int /\ limit.given \in {"no", "junk", "number"}
    BY <2>1, ReadsAssumption
  <2>3. first \in Nat /\ first = IF Offset(offset) > 0 THEN Offset(offset) ELSE 0
    BY <2>2 DEF Offset
  <2>4. Limit(service, limit) \in Int /\ Offset(offset) \in Int
    BY <2>1, LimitType DEF RInv
  <2>5. left[<<u, 1>>] = 0
    <3>1. <<u, 1>> \in Lane /\ <<u, 1>>[1] = u
      BY DEF Lane
    <3> QED
      BY <3>1 DEF RInv, Busy, ReadsTypeOK
  <2>6. rows[u] = PageLength(Limit(service, limit), first)
    <3>1. rows[u] = PageLength(Limit(service, limit), Offset(offset))
      BY <2>5 DEF PageRead, PageOf
    <3> QED
      BY <3>1, <2>3, <2>4, PageAtEdges
  <2>7. \A wanted \in Nat : PageLength(wanted, first) = Page(wanted)
    BY <2>3, PageCounted
  <2>8. PageLength(0, first) = 0
    BY <2>3, PageAtEdges
  <2> HIDE DEF first, Page
  <2>9. ASSUME limit.given = "no" PROVE rows[u] = Page(DefaultLimit)
    <3>1. service \in {"rest", "graphql"}
      BY <2>1, <2>9 DEF Services, Expressible
    <3>2. Limit(service, limit) = DefaultLimit
      BY <2>9, <3>1 DEF Limit, RestLimit, GraphqlLimit
    <3> QED
      BY <3>2, <2>6, <2>7, ReadsAssumption
  <2>10. ASSUME limit.given = "junk" PROVE rows[u] = 0
    <3>1. service = "rest"
      BY <2>1, <2>10 DEF Services, Expressible
    <3>2. Limit(service, limit) = 0
      BY <2>10, <3>1 DEF Limit, RestLimit
    <3> QED
      BY <3>2, <2>6, <2>8
  <2>11. ASSUME limit.given = "number", limit.n > 0 PROVE rows[u] = Page(limit.n)
    <3>1. Limit(service, limit) = limit.n
      BY <2>1, <2>2, <2>11 DEF Services, Limit, RestLimit, GrpcLimit, GraphqlLimit
    <3> QED
      BY <3>1, <2>2, <2>6, <2>7, <2>11
  <2>12. ASSUME limit.given = "number", limit.n <= 0
         PROVE rows[u] = IF service = "grpc" THEN Page(DefaultLimit)
                         ELSE IF limit.n = 0 THEN 0 ELSE Page(Rows)
    <3>1. CASE service = "grpc"
      <4>1. Limit(service, limit) = DefaultLimit
        BY <2>2, <2>12, <3>1 DEF Limit, GrpcLimit
      <4> QED
        BY <4>1, <3>1, <2>6, <2>7, ReadsAssumption
    <3>2. CASE service # "grpc"
      <4>1. Limit(service, limit) = limit.n
        BY <2>1, <2>12, <3>2 DEF Services, Limit, RestLimit, GraphqlLimit
      <4>2. limit.n < 0 => PageLength(limit.n, first) = PageLength(Rows, first)
        BY <2>2, <2>3, PageAtEdges
      <4> QED
        BY <4>1, <4>2, <3>2, <2>2, <2>6, <2>7, <2>8, <2>12, ReadsAssumption
    <3> QED
      BY <3>1, <3>2
  <2> QED
    BY <2>9, <2>10, <2>11, <2>12 DEF first, Page
<1>3. ReadsSpec => []TypeOK
  BY Composed, TypeCorrect, PTL
<1> QED
  BY <1>1, <1>2, <1>3, PageReadKept, RequestsInductive, PTL DEF ReadsSpec

-----------------------------------------------------------------------------
(* The order the requests ask for.                                          *)

(* An order of the data set stays in the table and is never reported        *)
(* missing.                                                                 *)
SeededFound == seeded => order = "flushed" /\ \A l \in Lane : result[l] # "missing"

(* An order on disk stays there and a lost one does not come back; one that  *)
(* is only committed goes only with a stop of PostgreSQL; and as long as it  *)
(* is in the table, no request notices its absence that had not before.      *)
Settled ==
  /\ order \in {"flushed", "lost"} => order' = order
  /\ order = "stored" /\ order' \notin {"stored", "flushed"} => dbUp /\ ~dbUp'
  /\ Present /\ Present' => \A u \in User : "absent" \in met'[u] => "absent" \in met[u]

(* A step leaves the order and the results alone, or ends one statement, or  *)
(* is one of PostgreSQL.                                                    *)
LEMMA OrderSteps ==
  ASSUME ReadsTypeOK, [ReadsNext]_allVars
  PROVE \/ /\ UNCHANGED <<order, seeded, result>>
           /\ \A u \in User : met'[u] = met[u] \/ met'[u] = met[u] \cup {"outage"}
        \/ \E u \in User :
             /\ Return(u) \/ \E kind, limit, offset : Begin(u, kind, limit, offset)
             /\ UNCHANGED <<order, seeded>>
        \/ \E c \in Client : Finish(c) \/ Fail(c)
        \/ \E outcome \in {"stored", "lost"} : Insert(outcome)
        \/ Flush
        \/ Stop
<1>1. ASSUME NEW u \in User, Receive(u)
      PROVE (\E kind, limit, offset : Begin(u, kind, limit, offset)) /\ UNCHANGED <<order, seeded>>
  <2>1. PICK kind, limit, offset : Begin(u, kind, limit, offset)
    BY <1>1 DEF Receive
  <2> QED
    BY <2>1 DEF Begin
<1>2. ASSUME NEW u \in User, Answer(u) PROVE UNCHANGED <<order, seeded, result, met>>
  BY <1>2 DEF Answer
<1>3. ASSUME NEW u \in User, Return(u) PROVE UNCHANGED <<order, seeded>>
  BY <1>3 DEF Return
<1>4. ASSUME NEW c \in Client, Start(c)
      PROVE /\ UNCHANGED <<order, seeded, result>>
            /\ \A u \in User : met'[u] = met[u] \/ met'[u] = met[u] \cup {"outage"}
  BY <1>4, DeadMet DEF Start
<1>5. ASSUME Unseen \/ UNCHANGED allVars PROVE UNCHANGED <<order, seeded, result, met>>
  BY <1>5 DEF Unseen, readVars, allVars
<1> QED
  BY <1>1, <1>2, <1>3, <1>4, <1>5 DEF ReadsNext

LEMMA SettledStep == ASSUME ReadsTypeOK, [ReadsNext]_allVars PROVE Settled
<1> USE DEF Settled, Present
<1>1. CASE /\ UNCHANGED <<order, seeded, result>>
           /\ \A u \in User : met'[u] = met[u] \/ met'[u] = met[u] \cup {"outage"}
  BY <1>1
<1>2. ASSUME NEW u \in User, UNCHANGED order,
             Return(u) \/ \E kind, limit, offset : Begin(u, kind, limit, offset)
      PROVE Settled
  <2>1. met' = [met EXCEPT ![u] = {}] \/ met' = [met EXCEPT ![u] = Facts]
    BY <1>2 DEF Return, Begin
  <2>2. Present => "absent" \notin Facts
    BY DEF Facts
  <2> QED
    BY <1>2, <2>1, <2>2 DEF ReadsTypeOK
<1>3. ASSUME NEW c \in Client, Finish(c) PROVE Settled
  BY <1>3 DEF Finish
<1>4. ASSUME NEW c \in Client, Fail(c) PROVE Settled
  <2>1. \A u \in User : met'[u] = met[u] \/ met'[u] = met[u] \cup {"outage"}
    BY <1>4, DeadMet DEF Fail
  <2>2. order' = order \/ (order = "queued" /\ order' = "lost")
    BY <1>4 DEF Fail, Failed
  <2> QED
    BY <2>1, <2>2
<1>5. ASSUME NEW outcome \in {"stored", "lost"}, Insert(outcome) PROVE Settled
  BY <1>5 DEF Insert
<1>6. CASE Flush
  BY <1>6 DEF Flush
<1>7. CASE Stop
  <2>1. order' = order \/ (order = "stored" /\ order' = "lost")
    BY <1>7 DEF Stop, Survives
  <2>2. dbUp /\ ~dbUp'
    BY <1>7 DEF Stop, DbStop
  <2>3. order' = order => \A u \in User : met'[u] = met[u] \/ met'[u] = met[u] \cup {"outage"}
    BY <1>7 DEF Stop, Notice
  <2> QED
    BY <2>1, <2>2, <2>3
<1> QED
  BY <1>1, <1>2, <1>3, <1>4, <1>5, <1>6, <1>7, OrderSteps

(* PostgreSQL answers a commit before it is on disk                          *)
(* (synchronous_commit=off, docker-compose.yml), so a stored order may be    *)
(* gone after a stop, and reads that found it may then report it missing:   *)
(* but by nothing else, not once it is flushed, and while it is in the      *)
(* table no request that begins is told (by AnswersTrue) that it is not.     *)
THEOREM FoundUntilStop == ReadsSpec => [][Settled]_allVars
BY SettledStep, ReadsTypeCorrect, PTL DEF ReadsSpec

LEMMA SeededStep == ASSUME ReadsTypeOK, SeededFound, [ReadsNext]_allVars PROVE SeededFound'
<1> USE DEF SeededFound, ReadsTypeOK
<1>1. CASE UNCHANGED <<order, seeded, result>>
  BY <1>1
<1>2. ASSUME NEW u \in User, UNCHANGED <<order, seeded>>,
             Return(u) \/ \E kind, limit, offset : Begin(u, kind, limit, offset)
      PROVE SeededFound'
  BY <1>2 DEF Return, Begin
<1>3. ASSUME NEW c \in Client, Finish(c) PROVE SeededFound'
  <2>1. UNCHANGED <<order, seeded>> /\ Served(c)
    BY <1>3 DEF Finish
  <2>2. CASE c = Inserter
    BY <2>1, <2>2 DEF Served
  <2>3. CASE c # Inserter
    BY <2>1, <2>3 DEF Served, Missing, Present
  <2> QED
    BY <2>2, <2>3
<1>4. ASSUME NEW c \in Client, Fail(c) PROVE SeededFound'
  BY <1>4 DEF Fail, Failed, Failure
<1>5. ASSUME NEW outcome \in {"stored", "lost"}, Insert(outcome) PROVE SeededFound'
  BY <1>5 DEF Insert
<1>6. CASE Flush \/ Stop
  BY <1>6 DEF Flush, Stop, Survives
<1> QED
  BY <1>1, <1>2, <1>3, <1>4, <1>5, <1>6, OrderSteps

(* Whatever breaks, no protocol answers 404, NotFound or "order not found"   *)
(* for an order of the data set: only ErrRecordNotFound becomes             *)
(* ErrOrderNotFound, every other error of GORM stays an internal one.       *)
THEOREM DataSetNeverMissing == ReadsSpec => []SeededFound
<1>1. ReadsInit => SeededFound
  BY DEF ReadsInit, SeededFound
<1> QED
  BY <1>1, SeededStep, ReadsTypeCorrect, PTL DEF ReadsSpec

-----------------------------------------------------------------------------
(* Without an outage.                                                        *)

NoOutage   == stops = 0
NoneFailed == \A l \in Lane : result[l] # "failed"

(* A serving process has its database, and no connection has died.           *)
Calm == (phase = "serving" => dbUp) /\ broken = {} /\ dead = 0 /\ NoneFailed

LEMMA NoFailInCalm ==
  ASSUME IInv, Calm, NEW c \in Client, Fail(c)
  PROVE FALSE
<1>1. pc[c] # "out"
  BY DEF Fail, DialFail, Release, HandOver, Keep, CloseSurplus, Discard, FailedFor
<1>2. phase = "serving"
  BY <1>1, Serving
<1> QED
  BY <1>2 DEF Calm, Fail, DialFail, FailedFor

LEMMA CalmStep ==
  ASSUME IInv, ReadsTypeOK, Calm, [ReadsNext]_allVars, NoOutage, NoOutage'
  PROVE Calm'
<1>1. [Next]_vars
  BY StepOfPool DEF allVars
<1>2. ~DbStop
  BY DEF DbStop, NoOutage
<1>3. (phase = "serving" => dbUp)' /\ broken' = {} /\ dead' = 0
  <2> USE DEF Calm, IInv, TypeOK
  <2>1. CASE Boot
    BY <2>1 DEF Boot, Connected, ConnectFailed, poolVars, dbVars
  <2>2. ASSUME NEW c \in Client, Acquire(c)
        PROVE (phase = "serving" => dbUp)' /\ broken' = {} /\ dead' = 0
    <3>1. CASE Reuse(c)
      BY <3>1 DEF Reuse, FromIdle, processVars, dbVars
    <3>2. CASE Dial(c) \/ Queue(c)
      BY <3>2 DEF Dial, Queue, processVars, dbVars
    <3> QED
      BY <2>2, <3>1, <3>2 DEF Acquire
  <2>3. ASSUME NEW c \in Client, Dialed(c) \/ Retry(c)
        PROVE (phase = "serving" => dbUp)' /\ broken' = {} /\ dead' = 0
    BY <2>3 DEF Dialed, DialOk, DialFail, Retry, processVars, dbVars
  <2>4. ASSUME NEW c \in Client, Release(c)
        PROVE (phase = "serving" => dbUp)' /\ broken' = {} /\ dead' = 0
    BY <2>4 DEF Release, HandOver, Keep, CloseSurplus, Discard, processVars, dbVars
  <2>5. CASE Opener
    BY <2>5 DEF Opener, OpenedFor, FailedFor, OpenedForNobody, FailedForNobody,
                processVars, dbVars
  <2>6. CASE Expire
    BY <2>6 DEF Expire, FromIdle, processVars, dbVars
  <2>7. CASE DbStart \/ UNCHANGED vars
    BY <2>7 DEF DbStart, vars, processVars, poolVars, dbVars
  <2> QED
    BY <1>1, <1>2, <2>1, <2>2, <2>3, <2>4, <2>5, <2>6, <2>7 DEF Next
<1>4. NoneFailed'
  <2> USE DEF Calm, NoneFailed, ReadsTypeOK
  <2>1. CASE UNCHANGED <<order, seeded, result>>
    BY <2>1
  <2>2. ASSUME NEW u \in User, Return(u) \/ \E kind, limit, offset : Begin(u, kind, limit, offset)
        PROVE NoneFailed'
    BY <2>2 DEF Return, Begin
  <2>3. ASSUME NEW c \in Client, Finish(c) PROVE NoneFailed'
    BY <2>3 DEF Finish, Served
  <2>4. ASSUME (\E outcome \in {"stored", "lost"} : Insert(outcome)) \/ Flush PROVE NoneFailed'
    BY <2>4 DEF Insert, Flush
  <2>5. ~Stop
    BY <1>2 DEF Stop
  <2> QED
    BY <2>1, <2>2, <2>3, <2>4, <2>5, NoFailInCalm, OrderSteps
<1> QED
  BY <1>3, <1>4 DEF Calm

(* As long as PostgreSQL does not stop, no read is answered with an internal *)
(* error: load alone never fails a request, because a client that finds the *)
(* pool exhausted waits instead (db.go sets no deadline and the handlers    *)
(* pass none).  The premise is about the behaviour, not the constants.      *)
THEOREM NoErrorWithoutOutage == ReadsSpec /\ []NoOutage => []NoneFailed
<1>1. ReadsInit => Calm
  BY DEF ReadsInit, Init, Calm, NoneFailed
<1>2. ReadsSpec => []IInv
  BY Composed, Inductive, PTL
<1>3. Calm => NoneFailed
  BY DEF Calm
<1> QED
  BY <1>1, <1>2, <1>3, CalmStep, ReadsTypeCorrect, PTL DEF ReadsSpec

-----------------------------------------------------------------------------
(* In an outage.                                                             *)

(* A statement that ends while the database is down ends with an error.      *)
OnlyErrors ==
  ~dbUp => \A l \in Lane : left'[l] < left[l] => result'[l] = "failed"

LEMMA OnlyErrorsStep ==
  ASSUME TypeOK, RInv, NoneWorks, [ReadsNext]_allVars
  PROVE OnlyErrors
<1> SUFFICES ASSUME ~dbUp, NEW l \in Lane, left'[l] < left[l] PROVE result'[l] = "failed"
  BY DEF OnlyErrors
<1> USE DEF RInv, ReadsTypeOK
<1>1. ASSUME NEW u \in User, Receive(u) PROVE FALSE
  <2>1. PICK kind, limit, offset : Begin(u, kind, limit, offset)
    BY <1>1 DEF Receive
  <2>2. l[1] = u /\ left'[l] = Statements(Part(kind, l[2])) /\ stage[u] = "idle"
    BY <2>1 DEF Begin
  <2> QED
    BY <2>2, StatementsType DEF Busy
<1>2. ASSUME NEW c \in Client, Finish(c) PROVE FALSE
  BY <1>2 DEF Finish, Release, HandOver, Keep, CloseSurplus, Discard, NoneWorks, In
<1>3. ASSUME NEW c \in Client, Fail(c) PROVE result'[l] = "failed"
  BY <1>3 DEF Fail, Failed, Failure
<1>4. ASSUME NEW u \in User, Answer(u) \/ Return(u) PROVE left' = left
  BY <1>4 DEF Answer, Return
<1>5. ASSUME NEW c \in Client, Start(c) PROVE left' = left
  BY <1>5 DEF Start
<1>6. ASSUME NEW outcome, Insert(outcome) PROVE left' = left
  BY <1>6 DEF Insert
<1>7. ASSUME Flush \/ Stop \/ Unseen \/ UNCHANGED allVars PROVE left' = left
  BY <1>7 DEF Flush, Stop, Unseen, readVars, allVars
<1>8. left' # left
  BY DEF ReadsTypeOK
<1> QED
  BY <1>1, <1>2, <1>3, <1>4, <1>5, <1>6, <1>7, <1>8 DEF ReadsNext

(* While PostgreSQL is down no statement is answered, however many           *)
(* connections the pool still counts as good: it does not know that they    *)
(* are dead, but none of them, idle, in use or handed on, works, and the     *)
(* request that gets one ends with an internal error (or retries).           *)
THEOREM NoAnswerInOutage == ReadsSpec => [][OnlyErrors]_allVars
<1>1. ReadsSpec => [](TypeOK /\ NoneWorks)
  BY Composed, TypeCorrect, NoneWorksAlways, PTL
<1> QED
  BY <1>1, OnlyErrorsStep, RequestsInductive, PTL DEF ReadsSpec

-----------------------------------------------------------------------------
(* The order that waits for its insert is one of OrderPromise: its client    *)
(* was told "created", and it is open until the worker ends.                *)

StageOfOrder ==
  CASE order = "queued" -> "open"
    [] Present          -> "stored"
    [] order = "lost"   -> "gone"

Kept == INSTANCE OrderPromise
          WITH Order <- {Inserter},
               stage  <- [o \in {Inserter} |-> StageOfOrder],
               answer <- [o \in {Inserter} |-> "created"]

LEMMA KeptStep ==
  ASSUME ReadsTypeOK, [ReadsNext]_allVars
  PROVE [Kept!Next]_(Kept!vars)
<1> USE DEF StageOfOrder, Present, ReadsTypeOK
<1>1. ASSUME order = "queued", order' = "stored" PROVE Kept!Next
  <2>1. Kept!Store(Inserter)
    BY <1>1 DEF Kept!Store
  <2> QED
    BY <2>1 DEF Kept!Next
<1>2. ASSUME order \in {"queued", "stored"}, order' = "lost" PROVE Kept!Next
  <2>1. Kept!Lose({Inserter}, {})
    BY <1>2 DEF Kept!Lose
  <2>2. {Inserter} \in SUBSET {Inserter} /\ {} \in SUBSET {Inserter}
    OBVIOUS
  <2> QED
    BY <2>1, <2>2 DEF Kept!Next
<1>3. ASSUME order' = order \/ (order = "stored" /\ order' = "flushed") PROVE UNCHANGED Kept!vars
  BY <1>3 DEF Kept!vars
<1>4. \/ order' = order
      \/ order = "queued" /\ order' \in {"stored", "lost"}
      \/ order = "stored" /\ order' \in {"flushed", "lost"}
  BY OrderSteps DEF Finish, Fail, Failed, Insert, Flush, Stop, Survives
<1> QED
  BY <1>1, <1>2, <1>3, <1>4

(* Seen from the client that created the order, the worker over the real     *)
(* pool does what OrderPromise allows: the order is stored once or goes,    *)
(* and what is gone stays gone.  (It begins where Promise!Admit has          *)
(* happened, so the initial state is not the abstract one.)                 *)
THEOREM InsertKeepsPromise == ReadsSpec => [][Kept!Next]_(Kept!vars)
BY KeptStep, ReadsTypeCorrect, PTL DEF ReadsSpec

================================================================================
