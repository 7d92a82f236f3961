-------------------------- MODULE OrderPromise_proofs --------------------------
(***************************************************************************)
(* Proof that the write path keeps the promise of OrderPromise: its        *)
(* initial state maps to the promise's, and each of its steps maps to a    *)
(* step of the promise or to none.                                         *)
(***************************************************************************)
EXTENDS OrderWrites_proofs

(* The stage of an order, read off its handler's outcome.                    *)
LEMMA StageByOutcome ==
  ASSUME NEW o \in Order
  PROVE  /\ outcome[o] \in {"unsent", "handling"} => StageOf(o) = "new"
         /\ outcome[o] = "refused" => StageOf(o) = "refused"
         /\ outcome[o] = "accepted" =>
              StageOf(o) = IF o \in table THEN "stored"
                           ELSE IF Open(o) THEN "open" ELSE "gone"
BY DEF StageOf

(* The same one step later.                                                  *)
LEMMA StageByOutcomeNext ==
  ASSUME NEW o \in Order
  PROVE  /\ outcome'[o] \in {"unsent", "handling"} => StageOf(o)' = "new"
         /\ outcome'[o] = "refused" => StageOf(o)' = "refused"
         /\ outcome'[o] = "accepted" =>
              StageOf(o)' = IF o \in table' THEN "stored"
                            ELSE IF Open(o)' THEN "open" ELSE "gone"
BY DEF StageOf

(* An order whose outcome, row and openness do not change keeps its stage.   *)
LEMMA StageKept ==
  ASSUME TypeOK, NEW o \in Order,
         \/ outcome'[o] = outcome[o]
         \/ {outcome[o], outcome'[o]} \subseteq {"unsent", "handling"},
         o \in table' <=> o \in table,
         Open(o)' <=> Open(o)
  PROVE  StageOf(o)' = StageOf(o)
<1>1. outcome[o] \in Outcomes
  BY DEF TypeOK
<1>2. QED
  BY <1>1, StageByOutcome, StageByOutcomeNext DEF Outcomes

(* A step that changes no stage and no answer stutters.                      *)
LEMMA Stutter ==
  ASSUME UNCHANGED answer, \A o \in Order : StageOf(o)' = StageOf(o)
  PROVE  UNCHANGED Promise!vars
BY DEF Promise!vars

(* Steps of a handler.                                                       *)
LEMMA HandlerSimulates ==
  ASSUME IInv, IInv', NEW o \in Order, Handler(o)
  PROVE  [Promise!Next]_(Promise!vars)
<1> USE ConstantsAssumption
<1>1. CASE Receive(o)
  <2>1. /\ UNCHANGED <<answer, queue, job, tx, table>>
        /\ \A p \in Order : \/ outcome'[p] = outcome[p]
                            \/ outcome[p] = "unsent" /\ outcome'[p] = "handling"
    BY <1>1 DEF Receive, dbVars, IInv, TypeOK
  <2>2. \A p \in Order : Open(p)' <=> Open(p)
    BY <2>1, HeldUnchanged DEF Open
  <2>3. \A p \in Order : StageOf(p)' = StageOf(p)
    BY <2>1, <2>2, StageKept DEF IInv
  <2>4. QED
    BY <2>1, <2>3, Stutter
<1>2. CASE BadRequest(o) \/ Answer(o)
  <2>1. UNCHANGED <<outcome, queue, job, tx, table>>
    BY <1>2 DEF BadRequest, Answer, dbVars
  <2>2. \A p \in Order : Open(p)' <=> Open(p)
    BY <2>1, HeldUnchanged DEF Open
  <2>3. \A p \in Order : StageOf(p)' = StageOf(p)
    BY <2>1, <2>2, StageKept DEF IInv
  <2>4. PICK what \in {"bad", "busy", "created"} :
          /\ answer[o] = "none"
          /\ answer' = [answer EXCEPT ![o] = what]
          /\ \/ what = "bad" /\ StageOf(o) = "new"
             \/ what = "busy" /\ StageOf(o) = "refused"
             \/ what = "created" /\ StageOf(o) \in {"open", "stored", "gone"}
    BY <1>2, StageByOutcome DEF BadRequest, Answer, Reply
  <2>5. Promise!Tell(o, what)
    BY <2>3, <2>4 DEF Promise!Tell
  <2>6. QED
    BY <2>5 DEF Promise!Next
<1>3. CASE CreateOrderTransaction(o)
  <2>1. /\ UNCHANGED <<answer, job, tx, table>>
        /\ outcome[o] = "handling" /\ answer[o] = "none"
        /\ Via[o] \in Api
    BY <1>3 DEF CreateOrderTransaction, dbVars
  <2>2. /\ StageOf(o) = "new"
        /\ o \notin table /\ tx[o] = "none"
    BY <2>1, StageByOutcome DEF IInv, Ledger
  <2>3. CASE QueueFull(o)
    <3>1. UNCHANGED <<queue, job>>
      BY <2>1, <2>3 DEF QueueFull
    <3>2. \A p \in Order : outcome'[p] = IF p = o THEN "refused" ELSE outcome[p]
      BY <2>3 DEF QueueFull, IInv, TypeOK
    <3>3. \A p \in Order : Open(p)' <=> Open(p)
      BY <2>1, <3>1, HeldUnchanged DEF Open
    <3>4. \A p \in Order : StageOf(p)' = IF p = o THEN "refused" ELSE StageOf(p)
      BY <2>1, <3>2, <3>3, StageKept, StageByOutcomeNext DEF IInv
    <3>5. Promise!Refuse(o)
      BY <2>1, <2>2, <3>4 DEF Promise!Refuse
    <3>6. QED
      BY <3>5 DEF Promise!Next
  <2>4. CASE Enqueue(o)
    <3>1. \A p \in Order : outcome'[p] = IF p = o THEN "accepted" ELSE outcome[p]
      BY <2>4 DEF Enqueue, IInv, TypeOK
    <3>2. \A b \in Api : queue'[b] = IF b = Via[o] THEN Append(queue[b], o) ELSE queue[b]
      BY <2>1, <2>4 DEF Enqueue, Sent, IInv, TypeOK
    <3>3. \A b \in Api : Queued(b)' = IF b = Via[o] THEN Queued(b) \cup {o} ELSE Queued(b)
      <4>1. queue[Via[o]] \in Seq(Order)
        BY <2>1 DEF IInv, TypeOK
      <4>2. Range(Append(queue[Via[o]], o)) = Range(queue[Via[o]]) \cup {o}
        BY <4>1, RangeAppend
      <4>3. QED
        BY <2>1, <3>2, <4>2 DEF Queued
    <3>4. \A b \in Api : Pending(b)' = IF b = Via[o] THEN Pending(b) \cup {o} ELSE Pending(b)
      BY <2>1, <3>3 DEF Pending, InHand
    <3>5. Open(o)' /\ \A p \in Order : p # o => (Open(p)' <=> Open(p))
      BY <2>1, <2>2, <3>4 DEF Open
    <3>6. \A p \in Order : StageOf(p)' = IF p = o THEN "open" ELSE StageOf(p)
      BY <2>1, <2>2, <3>1, <3>5, StageKept, StageByOutcomeNext DEF IInv
    <3>7. Promise!Admit(o)
      BY <2>1, <2>2, <3>6 DEF Promise!Admit
    <3>8. QED
      BY <3>7 DEF Promise!Next
  <2>5. QED
    BY <1>3, <2>3, <2>4 DEF CreateOrderTransaction
<1>4. QED
  BY <1>1, <1>2, <1>3 DEF Handler

(* A worker's receive and its COMMIT leave the order open.                   *)
LEMMA WorkerSimulates ==
  ASSUME IInv, IInv', NEW a \in Api, NEW w \in Worker,
         Take(a, w) \/ SendCommit(a, w)
  PROVE  UNCHANGED Promise!vars
<1> USE ConstantsAssumption
<1>1. CASE Take(a, w)
  <2>1. UNCHANGED <<outcome, answer, tx, table>>
    BY <1>1 DEF Take, handlerVars, dbVars
  <2>2. \A b \in Api : Pending(b)' = Pending(b)
    BY <1>1, TakeStep
  <2>3. \A p \in Order : Open(p)' <=> Open(p)
    BY <2>1, <2>2 DEF Open
  <2>4. QED
    BY <2>1, <2>3, StageKept, Stutter DEF IInv
<1>2. CASE SendCommit(a, w)
  <2>1. /\ UNCHANGED <<outcome, answer, queue, job, table>>
        /\ tx[job[a][w]] = "none" /\ Busy(a, w)
    BY <1>2 DEF SendCommit, handlerVars
  <2>2. \A p \in Order : tx'[p] = IF p = job[a][w] THEN "open" ELSE tx[p]
    BY <1>2 DEF SendCommit, IInv, TypeOK
  <2>3. job[a][w] \in Pending(a)
    BY <2>1 DEF Busy, Pending, InHand
  <2>4. \A p \in Order : Open(p)' <=> Open(p)
    BY <2>1, <2>2, <2>3, HeldUnchanged DEF Open
  <2>5. QED
    BY <2>1, <2>4, StageKept, Stutter DEF IInv
<1>3. QED
  BY <1>1, <1>2

(* A step in which the orders of S go, the requests of B break and nothing   *)
(* else moves is a Lose(S, B) of the promise.                               *)
LEMMA LoseSimulates ==
  ASSUME IInv, NEW S \in SUBSET Order, NEW B \in SUBSET Order,
         UNCHANGED outcome,
         \A p \in S : StageOf(p) \in {"open", "stored"} /\ StageOf(p)' = "gone",
         \A p \in Order \ S : StageOf(p)' = StageOf(p),
         \A p \in B : answer[p] = "none",
         answer' = [p \in Order |-> IF p \in B THEN "broken" ELSE answer[p]]
  PROVE  Promise!Next
<1>1. Promise!Lose(S, B)
  BY DEF Promise!Lose
<1>2. QED
  BY <1>1 DEF Promise!Next

(* An insert that returns: nothing changes for an order whose COMMIT was     *)
(* sent, and an order whose COMMIT was not sent is gone.                    *)
LEMMA InsertSimulates ==
  ASSUME IInv, IInv', NEW a \in Api, NEW w \in Worker,
         InsertOk(a, w) \/ InsertError(a, w)
  PROVE  [Promise!Next]_(Promise!vars)
<1> USE ConstantsAssumption
<1>1. /\ UNCHANGED <<outcome, answer, queue, tx, table>>
      /\ Busy(a, w) /\ NextOrder(a, w)
  BY DEF InsertOk, InsertError, handlerVars, dbVars
<1>2. PICK o \in Order : /\ o = job[a][w] /\ o \in Pending(a)
                          /\ \A b \in Api : Pending(b)' = Pending(b) \ {o}
  BY <1>1, ReleaseStep
<1>3. outcome[o] = "accepted"
  BY <1>2 DEF IInv, Ledger
<1>4. \A p \in Order : p # o => StageOf(p)' = StageOf(p)
  <2>1. \A p \in Order : p # o => (Open(p)' <=> Open(p))
    BY <1>1, <1>2 DEF Open
  <2>2. QED
    BY <1>1, <2>1, StageKept DEF IInv
<1>5. CASE tx[o] = "none"
  <2>1. Open(o) /\ ~Open(o)' /\ o \notin table
    BY <1>1, <1>2, <1>5 DEF Open, IInv, Ledger
  <2>2. StageOf(o) = "open" /\ StageOf(o)' = "gone"
    BY <1>1, <1>2, <1>3, <2>1, StageByOutcome, StageByOutcomeNext
  <2>3. answer' = [p \in Order |-> IF p \in {} THEN "broken" ELSE answer[p]]
    BY <1>1 DEF IInv, TypeOK
  <2>4. /\ {o} \in SUBSET Order /\ {} \in SUBSET Order
        /\ \A p \in {o} : StageOf(p) \in {"open", "stored"} /\ StageOf(p)' = "gone"
        /\ \A p \in Order \ {o} : StageOf(p)' = StageOf(p)
        /\ \A p \in {} : answer[p] = "none"
    BY <1>4, <2>2
  <2>5. Promise!Next
    BY <1>1, <2>3, <2>4, LoseSimulates
  <2>6. QED
    BY <2>5
<1>6. CASE tx[o] # "none"
  <2>1. Open(o)' <=> Open(o)
    BY <1>1, <1>2, <1>6 DEF Open
  <2>2. StageOf(o)' = StageOf(o)
    BY <1>1, <1>2, <2>1, StageKept DEF IInv
  <2>3. QED
    BY <1>1, <1>4, <2>2, Stutter
<1>7. QED
  BY <1>5, <1>6

(* PostgreSQL's steps: a commit stores, a lost COMMIT and a lost row go.      *)
LEMMA DatabaseSimulates ==
  ASSUME IInv, IInv', Database
  PROVE  [Promise!Next]_(Promise!vars)
<1> USE ConstantsAssumption
<1>1. UNCHANGED <<outcome, answer, queue, job>>
  BY DEF Database, DbCommit, DbAbort, DbFlush, DbCrash, DbStart, handlerVars
<1>2. /\ \A b \in Api : Pending(b)' = Pending(b)
      /\ answer' = [p \in Order |-> IF p \in {} THEN "broken" ELSE answer[p]]
  BY <1>1, HeldUnchanged DEF IInv, TypeOK
<1>3. \A p \in Order : tx[p] = "open" =>
        outcome[p] = "accepted" /\ p \notin table /\ Open(p) /\ StageOf(p) = "open"
  BY StageByOutcome DEF IInv, Ledger, Open
<1>4. \A p \in table : p \in Order /\ outcome[p] = "accepted" /\ StageOf(p) = "stored"
  BY StageByOutcome DEF IInv, Ledger, TypeOK
<1>5. ASSUME NEW o \in Order, DbCommit(o) PROVE Promise!Next
  <2>1. /\ tx[o] = "open" /\ table' = table \cup {o}
        /\ \A p \in Order : tx'[p] = IF p = o THEN "committed" ELSE tx[p]
    BY <1>5 DEF DbCommit, IInv, TypeOK
  <2>2. \A p \in Order : p # o => (Open(p)' <=> Open(p))
    BY <1>2, <2>1 DEF Open
  <2>3. \A p \in Order : StageOf(p)' = IF p = o THEN "stored" ELSE StageOf(p)
    BY <1>1, <1>3, <2>1, <2>2, StageKept, StageByOutcomeNext DEF IInv
  <2>4. Promise!Store(o)
    BY <1>1, <1>3, <2>1, <2>3 DEF Promise!Store
  <2>5. QED
    BY <2>4 DEF Promise!Next
<1>6. ASSUME NEW o \in Order, DbAbort(o) PROVE Promise!Next
  <2>1. /\ tx[o] = "open" /\ table' = table
        /\ \A p \in Order : tx'[p] = IF p = o THEN "aborted" ELSE tx[p]
    BY <1>6 DEF DbAbort, IInv, TypeOK
  <2>2. \A p \in Order : p # o => (Open(p)' <=> Open(p))
    BY <1>2, <2>1 DEF Open
  <2>3. ~Open(o)'
    BY <2>1 DEF Open
  <2>4. \A p \in Order : StageOf(p)' = IF p = o THEN "gone" ELSE StageOf(p)
    BY <1>1, <1>3, <2>1, <2>2, <2>3, StageKept, StageByOutcomeNext DEF IInv
  <2>5. /\ {o} \in SUBSET Order /\ {} \in SUBSET Order
        /\ \A p \in {o} : StageOf(p) \in {"open", "stored"} /\ StageOf(p)' = "gone"
        /\ \A p \in Order \ {o} : StageOf(p)' = StageOf(p)
        /\ \A p \in {} : answer[p] = "none"
    BY <1>3, <2>1, <2>4
  <2>6. QED
    BY <1>1, <1>2, <2>5, LoseSimulates
<1>7. CASE DbFlush \/ DbStart
  <2>1. UNCHANGED <<tx, table>>
    BY <1>7 DEF DbFlush, DbStart
  <2>2. \A p \in Order : Open(p)' <=> Open(p)
    BY <1>2, <2>1 DEF Open
  <2>3. QED
    BY <1>1, <2>1, <2>2, StageKept, Stutter DEF IInv
<1>8. CASE DbCrash
  <2> DEFINE S == {p \in Order : tx[p] = "open"} \cup (table \ flushed)
  <2>1. /\ table' = flushed /\ flushed \subseteq table /\ table \subseteq Order
        /\ \A p \in Order : tx'[p] = IF tx[p] = "open" THEN "aborted" ELSE tx[p]
    BY <1>8 DEF DbCrash, IInv, TypeOK
  <2>2. \A p \in table : tx[p] = "committed"
    BY DEF IInv, Ledger
  <2>3. \A p \in S : /\ p \in Order /\ outcome'[p] = "accepted"
                     /\ p \notin table' /\ ~Open(p)'
                     /\ StageOf(p) \in {"open", "stored"}
    BY <1>1, <1>3, <1>4, <2>1, <2>2 DEF Open
  <2>4. \A p \in S : StageOf(p)' = "gone"
    BY <2>3, StageByOutcomeNext
  <2>5. \A p \in Order \ S : /\ p \in table' <=> p \in table
                             /\ Open(p)' <=> Open(p)
    BY <1>2, <2>1 DEF Open
  <2>6. \A p \in Order \ S : StageOf(p)' = StageOf(p)
    BY <1>1, <2>5, StageKept DEF IInv
  <2>7. /\ S \in SUBSET Order /\ {} \in SUBSET Order
        /\ \A p \in S : StageOf(p) \in {"open", "stored"} /\ StageOf(p)' = "gone"
        /\ \A p \in {} : answer[p] = "none"
    BY <2>3, <2>4
  <2> HIDE DEF S
  <2>8. QED
    BY <1>1, <1>2, <2>6, <2>7, LoseSimulates
<1>9. QED
  BY <1>5, <1>6, <1>7, <1>8 DEF Database

(* The death of a process: what it held and had not sent is gone, and its    *)
(* open requests break.                                                     *)
LEMMA ApiCrashSimulates ==
  ASSUME IInv, IInv', NEW a \in Api, ApiCrash(a)
  PROVE  Promise!Next
<1> USE ConstantsAssumption
<1> DEFINE S == {p \in Pending(a) : tx[p] = "none"}
           B == {p \in Order : Via[p] = a /\ outcome[p] # "unsent" /\ answer[p] = "none"}
<1>1. /\ UNCHANGED <<outcome, tx, table>>
      /\ answer' = [p \in Order |-> IF p \in B THEN "broken" ELSE answer[p]]
  BY DEF ApiCrash, dbVars
<1>2. Pending(a)' = {} /\ \A b \in Api : b # a => Pending(b)' = Pending(b)
  <2>1. /\ \A b \in Api : queue'[b] = IF b = a THEN <<>> ELSE queue[b]
        /\ \A b \in Api : \A v \in Worker :
              job'[b][v] = IF b = a THEN NoOrder ELSE job[b][v]
    BY DEF ApiCrash, IInv, TypeOK
  <2>2. QED
    BY <2>1 DEF Pending, Queued, InHand, Range
<1>3. \A p \in S : p \in Order /\ outcome[p] = "accepted" /\ p \notin table
  BY PendingTyped DEF IInv, Ledger
<1>4. \A p \in S : \A b \in Api : b # a => p \notin Pending(b)
  BY DEF IInv, AtMostOneCustodian
<1>5. \A p \in S : Open(p) /\ ~Open(p)'
  BY <1>1, <1>2, <1>4 DEF Open
<1>6. \A p \in S : StageOf(p) = "open" /\ StageOf(p)' = "gone"
  BY <1>1, <1>3, <1>5, StageByOutcome, StageByOutcomeNext
<1>7. \A p \in Order \ S : Open(p)' <=> Open(p)
  BY <1>1, <1>2 DEF Open
<1>8. \A p \in Order \ S : StageOf(p)' = StageOf(p)
  BY <1>1, <1>7, StageKept DEF IInv
<1>9. /\ S \in SUBSET Order /\ B \in SUBSET Order
      /\ \A p \in S : StageOf(p) \in {"open", "stored"} /\ StageOf(p)' = "gone"
      /\ \A p \in B : answer[p] = "none"
  BY <1>3, <1>6
<1> HIDE DEF S, B
<1>10. QED
  BY <1>1, <1>8, <1>9, LoseSimulates

(* The write path keeps the promise: every answer and every fate of an order *)
(* is one OrderPromise allows.                                              *)
THEOREM Refinement == Spec => Promise!Spec
<1> USE ConstantsAssumption
<1>1. Init => Promise!Init
  BY StageByOutcome DEF Init, Promise!Init
<1>2. IInv /\ IInv' /\ [Next]_vars => [Promise!Next]_(Promise!vars)
  <2> SUFFICES ASSUME IInv, IInv', [Next]_vars
               PROVE  [Promise!Next]_(Promise!vars)
    OBVIOUS
  <2>1. ASSUME NEW a \in Api, ApiStart(a) PROVE UNCHANGED Promise!vars
    <3>1. UNCHANGED <<outcome, answer, queue, job, tx, table>>
      BY <2>1 DEF ApiStart, handlerVars, dbVars
    <3>2. \A p \in Order : Open(p)' <=> Open(p)
      BY <3>1, HeldUnchanged DEF Open
    <3>3. QED
      BY <3>1, <3>2, StageKept, Stutter DEF IInv
  <2>2. CASE UNCHANGED vars
    <3>1. UNCHANGED <<outcome, answer, queue, job, tx, table>>
      BY <2>2 DEF vars
    <3>2. \A p \in Order : Open(p)' <=> Open(p)
      BY <3>1, HeldUnchanged DEF Open
    <3>3. QED
      BY <3>1, <3>2, StageKept, Stutter DEF IInv
  <2>3. QED
    BY <2>1, <2>2, HandlerSimulates, WorkerSimulates, InsertSimulates,
       DatabaseSimulates, ApiCrashSimulates DEF Next, insertToDB
<1>3. QED
  BY <1>1, <1>2, Invariance, PTL DEF Spec, Promise!Spec
=============================================================================
