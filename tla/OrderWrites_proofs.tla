-------------------------- MODULE OrderWrites_proofs ---------------------------
(***************************************************************************)
(* Proofs about OrderWrites: its type invariant, custody of an order, the  *)
(* meaning of an error answer, the accounting of accepted orders, the      *)
(* bound on overtaking, what a step may never take back, what the death of *)
(* a service reaches, and which orders reach the table, for every number   *)
(* of services, workers and requests and every capacity.                   *)
(***************************************************************************)
EXTENDS OrderWrites, SequenceTheorems, FiniteSetTheorems, TLAPS

(* Every step keeps the types.                                               *)
LEMMA TypeStep == TypeOK /\ [Next]_vars => TypeOK'
<1> USE ConstantsAssumption DEF TypeOK, Outcomes, Answers, Fates
<1> SUFFICES ASSUME TypeOK, [Next]_vars PROVE TypeOK'
  OBVIOUS
<1>1. ASSUME NEW o \in Order, Receive(o) PROVE TypeOK'
  BY <1>1 DEF Receive, dbVars
<1>2. ASSUME NEW o \in Order, BadRequest(o) PROVE TypeOK'
  BY <1>2 DEF BadRequest, dbVars
<1>3. ASSUME NEW o \in Order, CreateOrderTransaction(o) PROVE TypeOK'
  <2> DEFINE a == Via[o]
  <2>1. a \in Api
    OBVIOUS
  <2>2. CASE Enqueue(o)
    <3>1. /\ Append(queue[a], o) \in Seq(Order)
          /\ Len(Append(queue[a], o)) = Len(queue[a]) + 1
          /\ Append(entered[a], o) \in Seq(Order)
      BY <2>1
    <3>2. Len(queue[a]) + 1 <= QueueCap
      BY <2>1, <2>2 DEF Enqueue, HasRoom
    <3>3. /\ queue' \in [Api -> Seq(Order)]
          /\ \A b \in Api : Len(queue'[b]) <= QueueCap
          /\ entered' \in [Api -> Seq(Order)]
      BY <2>1, <2>2, <3>1, <3>2 DEF Enqueue, Sent
    <3>4. QED
      BY <1>3, <2>2, <3>3 DEF CreateOrderTransaction, Enqueue, dbVars
  <2>3. CASE QueueFull(o)
    BY <1>3, <2>3 DEF CreateOrderTransaction, QueueFull, dbVars
  <2>4. QED
    BY <1>3, <2>2, <2>3 DEF CreateOrderTransaction
<1>4. ASSUME NEW o \in Order, Answer(o) PROVE TypeOK'
  BY <1>4 DEF Answer, Reply, dbVars
<1>5. ASSUME NEW a \in Api, NEW w \in Worker, Take(a, w) PROVE TypeOK'
  <2>1. /\ Head(queue[a]) \in Order
        /\ Tail(queue[a]) \in Seq(Order)
        /\ Len(Tail(queue[a])) = Len(queue[a]) - 1
    BY <1>5 DEF Take
  <2>2. /\ queue' \in [Api -> Seq(Order)]
        /\ \A b \in Api : Len(queue'[b]) <= QueueCap
    BY <1>5, <2>1 DEF Take, Remaining
  <2>3. job' \in [Api -> [Worker -> Order \cup {NoOrder}]]
    BY <1>5, <2>1 DEF Take
  <2>4. QED
    BY <1>5, <2>2, <2>3 DEF Take, handlerVars, dbVars
<1>6. ASSUME NEW a \in Api, NEW w \in Worker, insertToDB(a, w) PROVE TypeOK'
  <2>1. CASE SendCommit(a, w)
    BY <2>1 DEF SendCommit, handlerVars
  <2>2. CASE InsertOk(a, w)
    BY <2>2 DEF InsertOk, NextOrder, handlerVars, dbVars
  <2>3. CASE InsertError(a, w)
    BY <2>3 DEF InsertError, NextOrder, LogFailure, Busy, handlerVars, dbVars
  <2>4. QED
    BY <1>6, <2>1, <2>2, <2>3 DEF insertToDB
<1>7. CASE Database
  <2>1. ASSUME NEW o \in Order, DbCommit(o) PROVE TypeOK'
    BY <2>1 DEF DbCommit, handlerVars
  <2>2. ASSUME NEW o \in Order, DbAbort(o) PROVE TypeOK'
    BY <2>2 DEF DbAbort, handlerVars
  <2>3. CASE DbFlush
    BY <2>3 DEF DbFlush, handlerVars
  <2>4. CASE DbCrash
    BY <2>4 DEF DbCrash, handlerVars
  <2>5. CASE DbStart
    BY <2>5 DEF DbStart, handlerVars
  <2>6. QED
    BY <1>7, <2>1, <2>2, <2>3, <2>4, <2>5 DEF Database
<1>8. ASSUME NEW a \in Api, ApiCrash(a) PROVE TypeOK'
  <2>1. Pending(a) \subseteq Order
    BY DEF Pending, Queued, InHand, Range
  <2>2. /\ queue' \in [Api -> Seq(Order)]
        /\ \A b \in Api : Len(queue'[b]) <= QueueCap
        /\ entered' \in [Api -> Seq(Order)]
    BY <1>8 DEF ApiCrash
  <2>3. job' \in [Api -> [Worker -> Order \cup {NoOrder}]]
    BY <1>8 DEF ApiCrash
  <2>4. QED
    BY <1>8, <2>1, <2>2, <2>3 DEF ApiCrash, dbVars
<1>9. ASSUME NEW a \in Api, ApiStart(a) PROVE TypeOK'
  BY <1>9 DEF ApiStart, handlerVars, dbVars
<1>10. CASE UNCHANGED vars
  BY <1>10 DEF vars
<1>11. QED
  BY <1>1, <1>2, <1>3, <1>4, <1>5, <1>6, <1>7, <1>8, <1>9, <1>10
     DEF Next, Handler

(* The type invariant holds in every state: in particular no channel ever   *)
(* holds more orders than make(chan, 50000) gave it room for.               *)
THEOREM TypeCorrect == Spec => []TypeOK
<1>1. Init => TypeOK
  BY ConstantsAssumption DEF Init, TypeOK, Outcomes, Answers, Fates
<1>2. QED
  BY <1>1, TypeStep, PTL DEF Spec

-----------------------------------------------------------------------------
(* Sequences as sets: sending to the channel adds one order to it, and      *)
(* receiving from a channel without duplicates takes its head out of it.    *)

(* Sending adds the order to the channel's contents.                         *)
LEMMA RangeAppend ==
  ASSUME NEW S, NEW s \in Seq(S), NEW e \in S
  PROVE  Range(Append(s, e)) = Range(s) \cup {e}
<1>1. /\ Len(s) \in Nat
      /\ DOMAIN s = 1..Len(s)
      /\ DOMAIN Append(s, e) = 1..(Len(s) + 1)
      /\ Append(s, e)[Len(s) + 1] = e
      /\ \A i \in 1..Len(s) : Append(s, e)[i] = s[i]
  OBVIOUS
<1>2. \A i \in 1..(Len(s) + 1) : i \in 1..Len(s) \/ i = Len(s) + 1
  BY <1>1
<1>3. \A i \in 1..Len(s) : i \in 1..(Len(s) + 1)
  BY <1>1
<1>4. Len(s) + 1 \in 1..(Len(s) + 1)
  BY <1>1
<1>5. QED
  BY <1>1, <1>2, <1>3, <1>4 DEF Range

(* What is left after a receive, and the order received, are the contents.   *)
LEMMA RangeTail ==
  ASSUME NEW S, NEW s \in Seq(S), s # <<>>
  PROVE  /\ Head(s) \in Range(s)
         /\ Range(s) = Range(Tail(s)) \cup {Head(s)}
<1>1. Len(s) \in Nat \ {0} /\ DOMAIN s = 1..Len(s) /\ Head(s) = s[1]
  OBVIOUS
<1>2. /\ DOMAIN Tail(s) = 1..(Len(s) - 1)
      /\ \A i \in 1..(Len(s) - 1) : Tail(s)[i] = s[i + 1]
  OBVIOUS
<1>3. \A i \in 1..Len(s) : i = 1 \/ (i - 1 \in 1..(Len(s) - 1) /\ s[i] = Tail(s)[i - 1])
  BY <1>1, <1>2
<1>4. 1 \in 1..Len(s) /\ \A i \in 1..(Len(s) - 1) : i + 1 \in 1..Len(s)
  BY <1>1
<1>5. Head(s) \in Range(s)
  BY <1>1, <1>4 DEF Range
<1>6. ASSUME NEW x \in Range(s) PROVE x \in Range(Tail(s)) \cup {Head(s)}
  <2>1. PICK i \in 1..Len(s) : x = s[i]
    BY <1>1 DEF Range
  <2>2. i = 1 \/ (i - 1 \in DOMAIN Tail(s) /\ x = Tail(s)[i - 1])
    BY <1>2, <1>3, <2>1
  <2>3. QED
    BY <1>1, <2>1, <2>2 DEF Range
<1>7. ASSUME NEW x \in Range(Tail(s)) PROVE x \in Range(s)
  <2>1. PICK i \in 1..(Len(s) - 1) : x = s[i + 1]
    BY <1>2 DEF Range
  <2>2. QED
    BY <1>1, <1>4, <2>1 DEF Range
<1>8. QED
  BY <1>5, <1>6, <1>7

(* Sending an order that is not there keeps the channel free of duplicates.  *)
LEMMA InjectiveAppend ==
  ASSUME NEW S, NEW s \in Seq(S), NEW e \in S, IsInjective(s), e \notin Range(s)
  PROVE  IsInjective(Append(s, e))
<1>1. /\ Len(s) \in Nat
      /\ DOMAIN s = 1..Len(s)
      /\ DOMAIN Append(s, e) = 1..(Len(s) + 1)
      /\ Append(s, e)[Len(s) + 1] = e
      /\ \A i \in 1..Len(s) : Append(s, e)[i] = s[i]
  OBVIOUS
<1>2. \A i \in 1..(Len(s) + 1) : i \in 1..Len(s) \/ i = Len(s) + 1
  BY <1>1
<1>3. QED
  BY <1>1, <1>2 DEF Range, IsInjective

(* A receive leaves no copy of the order it took.                            *)
LEMMA InjectiveTail ==
  ASSUME NEW S, NEW s \in Seq(S), s # <<>>, IsInjective(s)
  PROVE  /\ IsInjective(Tail(s))
         /\ Head(s) \notin Range(Tail(s))
<1>1. Len(s) \in Nat \ {0} /\ DOMAIN s = 1..Len(s) /\ Head(s) = s[1]
  OBVIOUS
<1>2. /\ DOMAIN Tail(s) = 1..(Len(s) - 1)
      /\ \A i \in 1..(Len(s) - 1) : Tail(s)[i] = s[i + 1]
  OBVIOUS
<1>3. \A i, j \in 1..(Len(s) - 1) :
         /\ i + 1 \in 1..Len(s)
         /\ i + 1 # 1
         /\ 1 \in 1..Len(s)
         /\ i + 1 = j + 1 => i = j
  BY <1>1
<1>4. QED
  BY <1>1, <1>2, <1>3 DEF Range, IsInjective

-----------------------------------------------------------------------------
(* The inductive invariant.  AtMostOneCustodian alone is not inductive: that *)
(* an order entering a channel is nowhere else needs Ledger (what is held   *)
(* was accepted, and an order is accepted once), and Accounted needs it for *)
(* the orders whose COMMIT is on the wire.                                  *)
IInv == TypeOK /\ AtMostOneCustodian /\ Ledger /\ Accounted

(* Nothing is held when the services start.                                  *)
LEMMA InitIInv == Init => IInv
<1> SUFFICES ASSUME Init PROVE IInv
  OBVIOUS
<1>1. TypeOK
  BY ConstantsAssumption DEF Init, TypeOK, Outcomes, Answers, Fates
<1>2. \A a \in Api : IsInjective(queue[a]) /\ Queued(a) = {} /\ InHand(a) = {}
  BY DEF Init, Queued, InHand, Range, IsInjective
<1>3. AtMostOneCustodian
  BY <1>2 DEF Init, AtMostOneCustodian, Busy, Pending
<1>4. Ledger
  BY <1>2 DEF Init, Ledger, Pending
<1>5. Accounted
  BY DEF Init, Accounted
<1>6. QED
  BY <1>1, <1>3, <1>4, <1>5 DEF IInv

(* A step that neither sends nor receives, and leaves every worker's order  *)
(* where it is, changes nothing about who holds what.                       *)
LEMMA HeldUnchanged ==
  ASSUME UNCHANGED <<queue, job>>
  PROVE  /\ \A a \in Api : /\ Queued(a)' = Queued(a)
                           /\ InHand(a)' = InHand(a)
                           /\ Pending(a)' = Pending(a)
         /\ AtMostOneCustodian => AtMostOneCustodian'
BY DEF Queued, InHand, Pending, AtMostOneCustodian, Busy

(* What is held are orders.                                                  *)
LEMMA PendingTyped ==
  ASSUME TypeOK, NEW a \in Api
  PROVE  /\ Queued(a) \subseteq Order
         /\ InHand(a) \subseteq Order
         /\ Pending(a) \subseteq Order
BY DEF TypeOK, Queued, InHand, Pending, Range

(* The handler's steps keep the inductive invariant.                         *)
LEMMA HandlerStep ==
  ASSUME IInv, NEW o \in Order, Handler(o)
  PROVE  AtMostOneCustodian' /\ Ledger' /\ Accounted'
<1> USE ConstantsAssumption
<1>1. CASE Receive(o)
  <2>1. UNCHANGED <<queue, job, tx, table, failed, orphaned, answer>>
    BY <1>1 DEF Receive, dbVars
  <2>2. \A p \in Order : outcome'[p] = outcome[p]
                          \/ (p = o /\ outcome[o] = "unsent" /\ outcome'[o] = "handling")
    BY <1>1 DEF Receive, IInv, TypeOK
  <2>3. /\ \A b \in Api : Queued(b)' = Queued(b) /\ Pending(b)' = Pending(b)
        /\ AtMostOneCustodian'
    BY <2>1, HeldUnchanged DEF IInv
  <2>4. \A b \in Api : Pending(b) \subseteq Order /\ o \notin Pending(b)
    BY <1>1, PendingTyped DEF IInv, Ledger, Receive
  <2>5. Ledger'
    BY <2>1, <2>2, <2>3, <2>4 DEF IInv, Ledger
  <2>6. Accounted'
    BY <2>1, <2>2, <2>3 DEF IInv, Accounted
  <2>7. QED
    BY <2>3, <2>5, <2>6
<1>2. CASE BadRequest(o)
  <2>1. UNCHANGED <<queue, job, tx, table, failed, orphaned, outcome>>
    BY <1>2 DEF BadRequest, dbVars
  <2>2. \A p \in Order : answer'[p] = answer[p]
                          \/ (p = o /\ outcome[o] = "handling" /\ answer'[o] = "bad")
    BY <1>2 DEF BadRequest, IInv, TypeOK
  <2>3. QED
    BY <2>1, <2>2, HeldUnchanged DEF IInv, Ledger, Accounted
<1>3. CASE Answer(o)
  <2>1. UNCHANGED <<queue, job, tx, table, failed, orphaned, outcome>>
    BY <1>3 DEF Answer, dbVars
  <2>2. \A p \in Order : \/ answer'[p] = answer[p]
                          \/ /\ p = o
                             /\ \/ answer'[o] = "created"
                                \/ answer'[o] = "busy" /\ outcome[o] = "refused"
    BY <1>3 DEF Answer, Reply, IInv, TypeOK
  <2>3. QED
    BY <2>1, <2>2, HeldUnchanged DEF IInv, Ledger, Accounted
<1>4. CASE CreateOrderTransaction(o)
  <2> DEFINE a == Via[o]
  <2>1. /\ UNCHANGED <<job, tx, table, failed, orphaned, answer>>
        /\ outcome[o] = "handling" /\ answer[o] = "none"
        /\ a \in Api
    BY <1>4 DEF CreateOrderTransaction, dbVars
  <2>2. CASE QueueFull(o)
    <3>1. UNCHANGED <<queue, job>>
      BY <2>1, <2>2 DEF QueueFull
    <3>2. \A p \in Order : outcome'[p] = outcome[p]
                            \/ (p = o /\ outcome'[o] = "refused")
      BY <2>2 DEF QueueFull, IInv, TypeOK
    <3>3. /\ \A b \in Api : Queued(b)' = Queued(b) /\ Pending(b)' = Pending(b)
          /\ AtMostOneCustodian'
      BY <3>1, HeldUnchanged DEF IInv
    <3>4. \A b \in Api : Pending(b) \subseteq Order /\ o \notin Pending(b)
      BY <2>1, PendingTyped DEF IInv, Ledger
    <3>5. Ledger'
      BY <2>1, <3>2, <3>3, <3>4 DEF IInv, Ledger
    <3>6. Accounted'
      BY <2>1, <3>2, <3>3 DEF IInv, Accounted
    <3>7. QED
      BY <3>3, <3>5, <3>6
  <2>3. CASE Enqueue(o)
    <3>1. \A p \in Order : outcome'[p] = IF p = o THEN "accepted" ELSE outcome[p]
      BY <2>3 DEF Enqueue, IInv, TypeOK
    <3>2. \A b \in Api : o \notin Pending(b)
      BY <2>1 DEF IInv, Ledger
    <3>3. queue[a] \in Seq(Order)
      BY <2>1 DEF IInv, TypeOK
    <3>4. queue' = [queue EXCEPT ![a] = Append(queue[a], o)]
      BY <2>3 DEF Enqueue, Sent
    <3>5. \A b \in Api : queue'[b] = IF b = a THEN Append(queue[a], o) ELSE queue[b]
      BY <2>1, <3>4 DEF IInv, TypeOK
    <3>6. /\ Queued(a)' = Queued(a) \cup {o}
          /\ \A b \in Api : b # a => Queued(b)' = Queued(b)
      BY <2>1, <3>3, <3>5, RangeAppend DEF Queued
    <3>7. \A b \in Api : InHand(b)' = InHand(b)
      BY <2>1 DEF InHand
    <3>8. \A b \in Api : IsInjective(queue'[b])
      <4>1. IsInjective(queue[a]) /\ o \notin Range(queue[a])
        BY <2>1, <3>2 DEF IInv, AtMostOneCustodian, Pending, Queued
      <4>2. IsInjective(Append(queue[a], o))
        BY <3>3, <4>1, InjectiveAppend
      <4>3. QED
        BY <3>5, <4>2 DEF IInv, AtMostOneCustodian
    <3>9. AtMostOneCustodian'
      <4>1. \A b, c \in Api : \A v, w \in Worker :
              Busy(b, v)' /\ job'[b][v] = job'[c][w] => b = c /\ v = w
        BY <2>1 DEF IInv, AtMostOneCustodian, Busy
      <4>2. \A b, c \in Api : Queued(b)' \cap InHand(c)' = {}
        BY <2>1, <3>2, <3>6, <3>7 DEF IInv, AtMostOneCustodian, Pending
      <4>3. \A b \in Api : \A p \in Pending(b)' : Via[p] = b
        BY <3>6, <3>7 DEF IInv, AtMostOneCustodian, Pending
      <4>4. QED
        BY <3>8, <4>1, <4>2, <4>3 DEF AtMostOneCustodian
    <3>10. Ledger'
      <4>1. \A b \in Api : /\ Pending(b) \subseteq Order
                           /\ Pending(b)' = IF b = a THEN Pending(b) \cup {o}
                                                     ELSE Pending(b)
        BY <3>6, <3>7, PendingTyped DEF IInv, Pending
      <4>2. tx[o] = "none"
        BY <2>1 DEF IInv, Ledger
      <4>3. \A b \in Api : \A p \in Pending(b)' : outcome'[p] = "accepted"
        BY <3>1, <4>1 DEF IInv, Ledger
      <4>4. \A b \in Api : \A p \in Queued(b)' : tx'[p] = "none"
        BY <2>1, <3>6, <4>2 DEF IInv, Ledger
      <4>5. \A p \in Order : Via[p] \in Api
        OBVIOUS
      <4>6. \A p \in Order : tx'[p] = "open" =>
               p \in Pending(Via[p])' \cup failed' \cup orphaned'
        BY <2>1, <4>1, <4>5 DEF IInv, Ledger
      <4>7. \A p \in Order : /\ tx'[p] # "none" => outcome'[p] = "accepted"
                             /\ answer'[p] = "busy" => outcome'[p] = "refused"
                             /\ answer'[p] = "bad" => outcome'[p] = "handling"
        BY <2>1, <3>1 DEF IInv, Ledger
      <4>8. \A p \in table' : tx'[p] = "committed"
        BY <2>1 DEF IInv, Ledger
      <4>9. QED
        BY <4>3, <4>4, <4>6, <4>7, <4>8 DEF Ledger
    <3>11. Accounted'
      <4>1. \A b \in Api : Pending(b) \subseteq Pending(b)'
        BY <3>6, <3>7 DEF Pending
      <4>2. o \in Pending(Via[o])'
        BY <2>1, <3>6 DEF Pending
      <4>3. \A p \in Order : Via[p] \in Api
        OBVIOUS
      <4>4. QED
        BY <2>1, <3>1, <4>1, <4>2, <4>3 DEF IInv, Accounted
    <3>12. QED
      BY <3>9, <3>10, <3>11
  <2>4. QED
    BY <1>4, <2>2, <2>3 DEF CreateOrderTransaction
<1>5. QED
  BY <1>1, <1>2, <1>3, <1>4 DEF Handler

(* A worker that takes an order leaves no copy of it in the channel, and the  *)
(* process holds what it held.                                              *)
LEMMA TakeStep ==
  ASSUME IInv, NEW a \in Api, NEW w \in Worker, Take(a, w)
  PROVE  /\ AtMostOneCustodian' /\ Ledger' /\ Accounted'
         /\ \A b \in Api : Pending(b)' = Pending(b)
<1> USE ConstantsAssumption
<1> DEFINE h == Head(queue[a])
<1>1. /\ UNCHANGED <<outcome, answer, tx, table, failed, orphaned>>
      /\ queue[a] # <<>> /\ queue[a] \in Seq(Order)
      /\ job[a][w] = NoOrder
  BY DEF Take, Busy, handlerVars, dbVars, IInv, TypeOK
<1>2. \A b \in Api : queue'[b] = IF b = a THEN Tail(queue[a]) ELSE queue[b]
  BY DEF Take, Remaining, IInv, TypeOK
<1>3. \A b \in Api, v \in Worker :
        job'[b][v] = IF b = a /\ v = w THEN h ELSE job[b][v]
  BY DEF Take, IInv, TypeOK
<1>4. /\ h \in Queued(a)
      /\ Queued(a) = Queued(a)' \cup {h}
      /\ h \notin Queued(a)'
      /\ IsInjective(queue'[a])
      /\ \A b \in Api : b # a => Queued(b)' = Queued(b)
  <2>1. IsInjective(queue[a])
    BY DEF IInv, AtMostOneCustodian
  <2>2. QED
    BY <1>1, <1>2, <2>1, RangeTail, InjectiveTail DEF Queued
<1>5. h \in Order /\ h # NoOrder /\ Via[h] = a
  BY <1>4, PendingTyped DEF IInv, AtMostOneCustodian, Pending
<1>6. \A b \in Api : h \notin InHand(b)
  BY <1>4 DEF IInv, AtMostOneCustodian
<1>7. \A b \in Api : InHand(b)' = IF b = a THEN InHand(b) \cup {h} ELSE InHand(b)
  <2>1. \A b \in Api : b # a => InHand(b)' = InHand(b)
    BY <1>3 DEF InHand
  <2>2. InHand(a)' = InHand(a) \cup {h}
    BY <1>1, <1>3, <1>5 DEF InHand
  <2>3. QED
    BY <2>1, <2>2
<1>8. \A b \in Api : Pending(b)' = Pending(b)
  BY <1>4, <1>7 DEF Pending
<1>9. AtMostOneCustodian'
  <2>1. \A b \in Api : IsInjective(queue'[b])
    BY <1>2, <1>4 DEF IInv, AtMostOneCustodian
  <2>2. \A b, c \in Api : \A v, u \in Worker :
          job'[b][v] # NoOrder /\ job'[b][v] = job'[c][u] => b = c /\ v = u
    <3>1. \A b \in Api, v \in Worker : job[b][v] # h
      BY <1>5, <1>6 DEF InHand
    <3>2. QED
      BY <1>3, <3>1 DEF IInv, AtMostOneCustodian, Busy
  <2>3. \A b, c \in Api : Queued(b)' \cap InHand(c)' = {}
    <3>1. \A b \in Api : h \notin Queued(b)'
      BY <1>4, <1>5 DEF IInv, AtMostOneCustodian, Pending
    <3>2. \A b \in Api : Queued(b)' \subseteq Queued(b)
      BY <1>4
    <3>3. QED
      BY <1>7, <3>1, <3>2 DEF IInv, AtMostOneCustodian
  <2>4. \A b \in Api : \A o \in Pending(b)' : Via[o] = b
    BY <1>8 DEF IInv, AtMostOneCustodian
  <2>5. QED
    BY <2>1, <2>2, <2>3, <2>4 DEF AtMostOneCustodian, Busy
<1>10. Ledger'
  <2>1. \A b \in Api : Queued(b)' \subseteq Queued(b)
    BY <1>4
  <2>2. QED
    BY <1>1, <1>8, <2>1 DEF IInv, Ledger
<1>11. Accounted'
  BY <1>1, <1>8 DEF IInv, Accounted
<1>12. QED
  BY <1>8, <1>9, <1>10, <1>11

(* Sending the COMMIT opens the order's transaction while the worker holds it. *)
LEMMA SendCommitStep ==
  ASSUME IInv, NEW a \in Api, NEW w \in Worker, SendCommit(a, w)
  PROVE  AtMostOneCustodian' /\ Ledger' /\ Accounted'
<1> USE ConstantsAssumption
<1> DEFINE o == job[a][w]
<1>1. /\ UNCHANGED <<outcome, answer, queue, job, table, failed, orphaned>>
      /\ o # NoOrder /\ tx[o] = "none"
  BY DEF SendCommit, Busy, handlerVars
<1>2. o \in InHand(a) /\ o \in Pending(a)
  BY <1>1 DEF InHand, Pending
<1>3. o \in Order /\ outcome[o] = "accepted" /\ Via[o] = a
  BY <1>2, PendingTyped DEF IInv, Ledger, AtMostOneCustodian
<1>4. \A p \in Order : tx'[p] = IF p = o THEN "open" ELSE tx[p]
  BY DEF SendCommit, IInv, TypeOK
<1>5. /\ \A b \in Api : Queued(b)' = Queued(b) /\ Pending(b)' = Pending(b)
      /\ AtMostOneCustodian'
  BY <1>1, HeldUnchanged DEF IInv
<1>6. \A b \in Api : o \notin Queued(b) /\ Queued(b) \subseteq Order
  BY <1>2, PendingTyped DEF IInv, AtMostOneCustodian
<1>7. \A p \in Order : Via[p] \in Api
  OBVIOUS
<1>8. table \subseteq Order /\ o \notin table
  BY <1>1 DEF IInv, TypeOK, Ledger
<1>9. Ledger'
  <2>1. \A b \in Api : /\ \A p \in Pending(b)' : outcome'[p] = "accepted"
                       /\ \A p \in Queued(b)' : tx'[p] = "none"
    BY <1>1, <1>4, <1>5, <1>6 DEF IInv, Ledger
  <2>2. \A p \in Order : tx'[p] = "open" =>
          p \in Pending(Via[p])' \cup failed' \cup orphaned'
    BY <1>1, <1>2, <1>3, <1>4, <1>5, <1>7 DEF IInv, Ledger
  <2>3. \A p \in Order : /\ tx'[p] # "none" => outcome'[p] = "accepted"
                         /\ answer'[p] = "busy" => outcome'[p] = "refused"
                         /\ answer'[p] = "bad" => outcome'[p] = "handling"
    BY <1>1, <1>3, <1>4 DEF IInv, Ledger
  <2>4. \A p \in table' : tx'[p] = "committed"
    BY <1>1, <1>4, <1>8 DEF IInv, Ledger
  <2>5. QED
    BY <2>1, <2>2, <2>3, <2>4 DEF Ledger
<1>10. Accounted'
  BY <1>1, <1>4, <1>5, <1>7 DEF IInv, Accounted
<1>11. QED
  BY <1>5, <1>9, <1>10

(* A worker that goes back to its loop gives up the order it held.           *)
LEMMA ReleaseStep ==
  ASSUME IInv, NEW a \in Api, NEW w \in Worker,
         Busy(a, w), NextOrder(a, w), UNCHANGED queue
  PROVE  /\ AtMostOneCustodian'
         /\ job[a][w] \in Order /\ job[a][w] \in Pending(a)
         /\ \A b \in Api : /\ Queued(b)' = Queued(b)
                           /\ Pending(b)' = Pending(b) \ {job[a][w]}
<1> USE ConstantsAssumption
<1> DEFINE o == job[a][w]
<1>1. \A b \in Api, v \in Worker :
        job'[b][v] = IF b = a /\ v = w THEN NoOrder ELSE job[b][v]
  BY DEF NextOrder, IInv, TypeOK
<1>2. o \in InHand(a) /\ o \in Pending(a)
  BY DEF Busy, InHand, Pending
<1>3. o \in Order
  BY <1>2, PendingTyped DEF IInv
<1>4. \A b \in Api : Queued(b)' = Queued(b) /\ o \notin Queued(b)
  BY <1>2 DEF Queued, IInv, AtMostOneCustodian
<1>5. \A b \in Api : InHand(b)' = InHand(b) \ {o}
  <2>1. \A b \in Api, v \in Worker : (b # a \/ v # w) => job[b][v] # o
    BY DEF IInv, AtMostOneCustodian, Busy
  <2>2. QED
    BY <1>1, <2>1 DEF InHand
<1>6. \A b \in Api : Pending(b)' = Pending(b) \ {o}
  BY <1>4, <1>5 DEF Pending
<1>7. AtMostOneCustodian'
  <2>1. \A b \in Api : IsInjective(queue'[b])
    BY DEF IInv, AtMostOneCustodian
  <2>2. \A b, c \in Api : \A v, u \in Worker :
          job'[b][v] # NoOrder /\ job'[b][v] = job'[c][u] => b = c /\ v = u
    BY <1>1 DEF IInv, AtMostOneCustodian, Busy
  <2>3. \A b, c \in Api : Queued(b)' \cap InHand(c)' = {}
    BY <1>4, <1>5 DEF IInv, AtMostOneCustodian
  <2>4. \A b \in Api : \A p \in Pending(b)' : Via[p] = b
    BY <1>6 DEF IInv, AtMostOneCustodian
  <2>5. QED
    BY <2>1, <2>2, <2>3, <2>4 DEF AtMostOneCustodian, Busy
<1>8. QED
  BY <1>2, <1>3, <1>4, <1>6, <1>7

(* An insert that returns leaves its order in the table or in the log.       *)
LEMMA InsertReturns ==
  ASSUME IInv, NEW a \in Api, NEW w \in Worker,
         InsertOk(a, w) \/ InsertError(a, w)
  PROVE  AtMostOneCustodian' /\ Ledger' /\ Accounted'
<1> USE ConstantsAssumption
<1> DEFINE o == job[a][w]
<1>1. /\ UNCHANGED <<outcome, answer, queue, tx, table, orphaned>>
      /\ Busy(a, w) /\ NextOrder(a, w)
      /\ failed \subseteq failed'
      /\ tx[o] = "committed" \/ o \in failed'
  BY DEF InsertOk, InsertError, LogFailure, handlerVars, dbVars
<1>2. /\ AtMostOneCustodian'
      /\ \A b \in Api : /\ Queued(b)' = Queued(b)
                        /\ Pending(b)' = Pending(b) \ {o}
  BY <1>1, ReleaseStep
<1>3. \A p \in Order : Via[p] \in Api
  OBVIOUS
<1>4. Ledger'
  <2>1. \A p \in Order : tx'[p] = "open" =>
          p \in Pending(Via[p])' \cup failed' \cup orphaned'
    BY <1>1, <1>2, <1>3 DEF IInv, Ledger
  <2>2. QED
    BY <1>1, <1>2, <2>1 DEF IInv, Ledger
<1>5. Accounted'
  BY <1>1, <1>2, <1>3 DEF IInv, Accounted
<1>6. QED
  BY <1>2, <1>4, <1>5

(* PostgreSQL's own steps.  A COMMIT that is lost was held, logged or        *)
(* orphaned before, by Ledger, so its order stays accounted for.            *)
LEMMA DatabaseStep ==
  ASSUME IInv, Database
  PROVE  AtMostOneCustodian' /\ Ledger' /\ Accounted'
<1> USE ConstantsAssumption
<1>1. UNCHANGED <<queue, job, outcome, answer, failed, orphaned>>
  BY DEF Database, DbCommit, DbAbort, DbFlush, DbCrash, DbStart, handlerVars
<1>2. /\ \A b \in Api : Queued(b)' = Queued(b) /\ Pending(b)' = Pending(b)
      /\ AtMostOneCustodian'
  BY <1>1, HeldUnchanged DEF IInv
<1>3. \A p \in Order : \/ tx'[p] = tx[p]
                       \/ tx[p] = "open" /\ tx'[p] \in {"committed", "aborted"}
  BY DEF Database, DbCommit, DbAbort, DbFlush, DbCrash, DbStart, IInv, TypeOK
<1>4. \A p \in table' : tx'[p] = "committed"
  <2>1. table \subseteq Order /\ flushed \subseteq table
    BY DEF IInv, TypeOK
  <2>2. \A p \in table : tx[p] = "committed" /\ tx'[p] = "committed"
    BY <1>3, <2>1 DEF IInv, Ledger
  <2>3. table' \subseteq table \/ \E o \in Order : DbCommit(o)
    BY <2>1 DEF Database, DbAbort, DbFlush, DbCrash, DbStart
  <2>4. ASSUME NEW o \in Order, DbCommit(o)
        PROVE  table' = table \cup {o} /\ tx'[o] = "committed"
    BY <2>4 DEF DbCommit, IInv, TypeOK
  <2>5. QED
    BY <2>2, <2>3, <2>4
<1>5. \A b \in Api : Queued(b) \subseteq Order
  BY PendingTyped DEF IInv
<1>6. \A p \in Order : Via[p] \in Api
  OBVIOUS
<1>7. Ledger'
  <2>1. \A b \in Api : /\ \A p \in Pending(b)' : outcome'[p] = "accepted"
                       /\ \A p \in Queued(b)' : tx'[p] = "none"
    BY <1>1, <1>2, <1>3, <1>5 DEF IInv, Ledger
  <2>2. \A p \in Order : tx'[p] = "open" =>
          p \in Pending(Via[p])' \cup failed' \cup orphaned'
    BY <1>1, <1>2, <1>3, <1>6 DEF IInv, Ledger
  <2>3. \A p \in Order : /\ tx'[p] # "none" => outcome'[p] = "accepted"
                         /\ answer'[p] = "busy" => outcome'[p] = "refused"
                         /\ answer'[p] = "bad" => outcome'[p] = "handling"
    BY <1>1, <1>3 DEF IInv, Ledger
  <2>4. QED
    BY <1>4, <2>1, <2>2, <2>3 DEF Ledger
<1>8. Accounted'
  BY <1>1, <1>2, <1>3, <1>6 DEF IInv, Accounted, Ledger
<1>9. QED
  BY <1>2, <1>7, <1>8

(* A process that dies orphans exactly what it held.                         *)
LEMMA ApiCrashStep ==
  ASSUME IInv, NEW a \in Api, ApiCrash(a)
  PROVE  AtMostOneCustodian' /\ Ledger' /\ Accounted'
<1> USE ConstantsAssumption
<1>1. /\ UNCHANGED <<outcome, tx, table, failed>>
      /\ orphaned' = orphaned \cup Pending(a)
  BY DEF ApiCrash, dbVars
<1>2. /\ \A b \in Api : queue'[b] = IF b = a THEN <<>> ELSE queue[b]
      /\ \A b \in Api : \A v \in Worker :
            job'[b][v] = IF b = a THEN NoOrder ELSE job[b][v]
  BY DEF ApiCrash, IInv, TypeOK
<1>3. /\ Queued(a)' = {} /\ InHand(a)' = {} /\ IsInjective(queue'[a])
      /\ \A b \in Api : b # a => Queued(b)' = Queued(b) /\ InHand(b)' = InHand(b)
  BY <1>2 DEF Queued, InHand, Range, IsInjective
<1>4. \A b \in Api : Pending(b)' = IF b = a THEN {} ELSE Pending(b)
  BY <1>3 DEF Pending
<1>5. AtMostOneCustodian'
  <2>1. \A b \in Api : IsInjective(queue'[b])
    BY <1>2, <1>3 DEF IInv, AtMostOneCustodian
  <2>2. \A b, c \in Api : \A v, u \in Worker :
          job'[b][v] # NoOrder /\ job'[b][v] = job'[c][u] => b = c /\ v = u
    BY <1>2 DEF IInv, AtMostOneCustodian, Busy
  <2>3. \A b, c \in Api : Queued(b)' \cap InHand(c)' = {}
    BY <1>3 DEF IInv, AtMostOneCustodian
  <2>4. \A b \in Api : \A p \in Pending(b)' : Via[p] = b
    BY <1>4 DEF IInv, AtMostOneCustodian
  <2>5. QED
    BY <2>1, <2>2, <2>3, <2>4 DEF AtMostOneCustodian, Busy
<1>6. \A p \in Order : Via[p] \in Api
  OBVIOUS
<1>7. \A p \in Order : answer'[p] \in {"busy", "bad"} => answer'[p] = answer[p]
  BY DEF ApiCrash, IInv, TypeOK
<1>8. Ledger'
  <2>1. \A b \in Api : /\ \A p \in Pending(b)' : outcome'[p] = "accepted"
                       /\ \A p \in Queued(b)' : tx'[p] = "none"
    BY <1>1, <1>3, <1>4 DEF IInv, Ledger
  <2>2. \A p \in Order : tx'[p] = "open" =>
          p \in Pending(Via[p])' \cup failed' \cup orphaned'
    BY <1>1, <1>4, <1>6 DEF IInv, Ledger
  <2>3. \A p \in Order : /\ tx'[p] # "none" => outcome'[p] = "accepted"
                         /\ answer'[p] = "busy" => outcome'[p] = "refused"
                         /\ answer'[p] = "bad" => outcome'[p] = "handling"
    BY <1>1, <1>7 DEF IInv, Ledger
  <2>4. QED
    BY <1>1, <2>1, <2>2, <2>3 DEF IInv, Ledger
<1>9. Accounted'
  BY <1>1, <1>4, <1>6 DEF IInv, Accounted
<1>10. QED
  BY <1>5, <1>8, <1>9

(* Every step keeps the inductive invariant.                                 *)
LEMMA IInvStep == IInv /\ [Next]_vars => IInv'
<1> SUFFICES ASSUME IInv, [Next]_vars PROVE IInv'
  OBVIOUS
<1>1. TypeOK'
  BY TypeStep DEF IInv
<1>2. AtMostOneCustodian' /\ Ledger' /\ Accounted'
  <2>1. ASSUME NEW a \in Api, ApiStart(a)
        PROVE  AtMostOneCustodian' /\ Ledger' /\ Accounted'
    <3>1. UNCHANGED <<outcome, answer, queue, job, tx, table, failed, orphaned>>
      BY <2>1 DEF ApiStart, handlerVars, dbVars
    <3>2. QED
      BY <3>1, HeldUnchanged DEF IInv, Ledger, Accounted, Pending, Queued, InHand
  <2>2. CASE UNCHANGED vars
    BY <2>2, HeldUnchanged DEF vars, IInv, Ledger, Accounted, Pending, Queued, InHand
  <2>3. QED
    BY <2>1, <2>2, HandlerStep, TakeStep, SendCommitStep, InsertReturns,
       DatabaseStep, ApiCrashStep DEF Next, insertToDB
<1>3. QED
  BY <1>1, <1>2 DEF IInv

(* The inductive invariant is an invariant.                                  *)
THEOREM Invariance == Spec => []IInv
BY InitIInv, IInvStep, PTL DEF Spec

(* No two workers ever insert the same order, and an order being inserted is *)
(* in no channel: r.orderQueue hands every order to one asyncWorker.        *)
THEOREM Custody == Spec => []AtMostOneCustodian
<1>1. IInv => AtMostOneCustodian
  BY DEF IInv
<1>2. QED
  BY <1>1, Invariance, PTL

(* An accepted order is held, or in a transaction, or its failure was        *)
(* logged, or its process died with it.                                     *)
THEOREM NothingVanishes == Spec => []Accounted
<1>1. IInv => Accounted
  BY DEF IInv
<1>2. QED
  BY <1>1, Invariance, PTL

(* A 500, Internal or 400 answer means that the order is not stored and      *)
(* never will be.                                                           *)
THEOREM ErrorMeansNotTaken == Spec => []NoStoreAfterError
<1>1. IInv => NoStoreAfterError
  <2> SUFFICES ASSUME IInv, NEW o \in Order, answer[o] \in {"busy", "bad"}
               PROVE  /\ tx[o] = "none"
                      /\ o \notin table
                      /\ \A a \in Api : o \notin Pending(a)
    BY DEF NoStoreAfterError
  <2>1. outcome[o] # "accepted"
    BY DEF IInv, Ledger
  <2>2. QED
    BY <2>1 DEF IInv, Ledger
<1>2. QED
  BY <1>1, Invariance, PTL

-----------------------------------------------------------------------------
(* A process never holds more than its channel and its workers have room for. *)
LEMMA PendingBounded ==
  ASSUME TypeOK, NEW a \in Api
  PROVE  /\ IsFiniteSet(Pending(a))
         /\ Cardinality(Pending(a)) <= QueueCap + Cardinality(Worker)
<1> USE ConstantsAssumption, WorkersAssumption
<1>1. /\ IsFiniteSet(Queued(a))
      /\ Cardinality(Queued(a)) <= QueueCap
  <2> DEFINE n == Len(queue[a])
  <2>1. n \in Nat /\ n <= QueueCap /\ DOMAIN queue[a] = 1..n
    BY DEF TypeOK
  <2>2. queue[a] \in Surjection(1..n, Queued(a))
    BY <2>1 DEF TypeOK, Queued, Range, Surjection
  <2>3. IsFiniteSet(1..n) /\ Cardinality(1..n) = n
    <3>1. n \in Int /\ 1 \in Int
      BY <2>1
    <3>2. /\ IsFiniteSet(1..n)
          /\ Cardinality(1..n) = IF 1 > n THEN 0 ELSE n - 1 + 1
      BY <3>1, FS_Interval, Zenon
    <3>3. QED
      BY <2>1, <3>2
  <2>4. IsFiniteSet(Queued(a)) /\ Cardinality(Queued(a)) <= Cardinality(1..n)
    BY <2>2, <2>3, FS_Surjection
  <2>5. Cardinality(Queued(a)) \in Nat
    BY <2>4, FS_CardinalityType
  <2>6. QED
    BY <2>1, <2>3, <2>4, <2>5
<1>2. /\ IsFiniteSet(InHand(a))
      /\ Cardinality(InHand(a)) <= Cardinality(Worker)
  <2> DEFINE J == {job[a][w] : w \in Worker}
  <2>1. job[a] \in Surjection(Worker, J)
    BY DEF TypeOK, Surjection
  <2>2. IsFiniteSet(J) /\ Cardinality(J) <= Cardinality(Worker)
    BY <2>1, FS_Surjection
  <2>3. InHand(a) \subseteq J
    BY DEF InHand
  <2>4. IsFiniteSet(InHand(a)) /\ Cardinality(InHand(a)) <= Cardinality(J)
    BY <2>2, <2>3, FS_Subset
  <2>5. /\ Cardinality(InHand(a)) \in Nat
        /\ Cardinality(J) \in Nat
        /\ Cardinality(Worker) \in Nat
    BY <2>2, <2>4, FS_CardinalityType
  <2>6. QED
    BY <2>2, <2>4, <2>5
<1>3. /\ IsFiniteSet(Pending(a))
      /\ Cardinality(Pending(a)) =
           Cardinality(Queued(a)) + Cardinality(InHand(a))
             - Cardinality(Queued(a) \cap InHand(a))
  BY <1>1, <1>2, FS_Union DEF Pending
<1>4. IsFiniteSet(Queued(a) \cap InHand(a))
  BY <1>1, FS_Subset
<1>5. /\ Cardinality(Queued(a)) \in Nat
      /\ Cardinality(InHand(a)) \in Nat
      /\ Cardinality(Queued(a) \cap InHand(a)) \in Nat
      /\ Cardinality(Worker) \in Nat
  BY <1>1, <1>2, <1>4, FS_CardinalityType
<1>6. QED
  BY <1>1, <1>2, <1>3, <1>5

(* When a process dies it takes at most QueueCap + Cardinality(Worker) orders *)
(* with it, however many requests were answered "created".                  *)
THEOREM LossBounded == Spec => CrashLossBounded
<1> USE ConstantsAssumption, WorkersAssumption
<1> DEFINE Bounded ==
      Cardinality(orphaned' \ orphaned) <= QueueCap + Cardinality(Worker)
<1>1. ASSUME TypeOK, [Next]_vars
      PROVE  [Bounded]_vars
  <2>1. Cardinality(Worker) \in Nat
    BY FS_CardinalityType
  <2>2. CASE UNCHANGED orphaned
    <3>1. orphaned' \ orphaned = {}
      BY <2>2
    <3>2. Cardinality({}) = 0
      BY FS_EmptySet
    <3>3. QED
      BY <2>1, <3>1, <3>2
  <2>3. ASSUME NEW a \in Api, ApiCrash(a)
        PROVE  Bounded
    <3>1. orphaned' \ orphaned \subseteq Pending(a)
      BY <2>3 DEF ApiCrash
    <3>2. /\ IsFiniteSet(Pending(a))
          /\ Cardinality(Pending(a)) <= QueueCap + Cardinality(Worker)
      BY <1>1, PendingBounded
    <3>3. /\ IsFiniteSet(orphaned' \ orphaned)
          /\ Cardinality(orphaned' \ orphaned) <= Cardinality(Pending(a))
      BY <3>1, <3>2, FS_Subset
    <3>4. /\ Cardinality(orphaned' \ orphaned) \in Nat
          /\ Cardinality(Pending(a)) \in Nat
      BY <3>2, <3>3, FS_CardinalityType
    <3>5. QED
      BY <2>1, <3>2, <3>3, <3>4
  <2>4. (\E a \in Api : ApiCrash(a)) \/ UNCHANGED orphaned
    BY <1>1 DEF Next, vars, Handler, Receive, BadRequest, CreateOrderTransaction,
                Answer, Take, insertToDB, SendCommit, InsertOk, InsertError,
                Database, DbCommit, DbAbort, DbFlush, DbCrash, DbStart, ApiStart
  <2>5. QED
    BY <2>2, <2>3, <2>4
<1>2. TypeOK /\ [Next]_vars => [Bounded]_vars
  BY <1>1
<1>3. QED
  BY <1>2, TypeCorrect, PTL DEF Spec, CrashLossBounded

(* What is known of an order's life, step by step: a COMMIT on the wire has  *)
(* an order that is held, logged as failed or orphaned behind it.           *)
THEOREM LedgerKept == Spec => []Ledger
<1>1. IInv => Ledger
  BY DEF IInv
<1>2. QED
  BY <1>1, Invariance, PTL

-----------------------------------------------------------------------------
(* Overtaking.  The channel holds the orders the process accepted last, in   *)
(* the order it accepted them; of those that left it, at most Worker - 1    *)
(* were accepted before any one of them and are still being inserted.  That *)
(* number is fixed when the order is taken: nothing older is taken later.   *)

Left(a) == Len(entered[a]) - Len(queue[a])

LineOf(a) ==
  /\ Left(a) \in Nat
  /\ \A i \in 1..Len(queue[a]) : queue[a][i] = entered[a][Left(a) + i]
  /\ IsInjective(entered[a])
  /\ \A i \in 1..Len(entered[a]) : outcome[entered[a][i]] = "accepted"
  /\ \A k \in 1..Left(a) :
       Cardinality(Earlier(a, k) \cap InHand(a)) < Cardinality(Worker)

Line == \A a \in Api : LineOf(a)

(* The part of a set that workers hold is finite, and no larger when they    *)
(* hold less.                                                               *)
LEMMA HeldFinite ==
  ASSUME TypeOK, NEW a \in Api, NEW E, NEW A, E \cap A \subseteq E \cap InHand(a)
  PROVE  /\ Cardinality(E \cap A) \in Nat
         /\ Cardinality(E \cap InHand(a)) \in Nat
         /\ Cardinality(E \cap A) <= Cardinality(E \cap InHand(a))
<1>1. IsFiniteSet(Pending(a))
  BY PendingBounded
<1>2. IsFiniteSet(InHand(a))
  BY <1>1, FS_Subset DEF Pending
<1>3. IsFiniteSet(E \cap InHand(a))
  BY <1>2, FS_Subset
<1>4. IsFiniteSet(E \cap A) /\ Cardinality(E \cap A) <= Cardinality(E \cap InHand(a))
  BY <1>3, FS_Subset
<1>5. QED
  BY <1>3, <1>4, FS_CardinalityType

(* Positions, over the lengths of the channel and of the history.            *)
LEMMA Positions ==
  ASSUME NEW q \in Nat, NEW e \in Nat, e - q \in Nat
  PROVE  /\ \A i \in 1..q : (e - q) + i \in 1..e
         /\ \A k \in 1..e : k \in 1..(e - q) \/ (k - (e - q) \in 1..q /\ (e - q) + (k - (e - q)) = k)
         /\ (e + 1) - (q + 1) = e - q
         /\ (e - q) + (q + 1) = e + 1
         /\ q # 0 => e - (q - 1) = (e - q) + 1 /\ (e - q) + 1 \in 1..e
OBVIOUS

LEMMA LinePositions ==
  ASSUME TypeOK, NEW a \in Api, LineOf(a)
  PROVE  /\ Left(a) \in Nat
         /\ \A i \in 1..Len(queue[a]) : Left(a) + i \in 1..Len(entered[a])
         /\ \A k \in 1..Len(entered[a]) :
              \/ k \in 1..Left(a)
              \/ k - Left(a) \in 1..Len(queue[a]) /\ Left(a) + (k - Left(a)) = k
         /\ \A k \in 1..Left(a) : k \in 1..Len(entered[a])
<1> DEFINE q == Len(queue[a])
           e == Len(entered[a])
<1>1. q \in Nat /\ e \in Nat /\ Left(a) = e - q /\ Left(a) \in Nat
  BY DEF TypeOK, Left, LineOf
<1> HIDE DEF q, e
<1>2. e - q \in Nat /\ \A k \in 1..(e - q) : k \in 1..e
  BY <1>1
<1>3. /\ \A i \in 1..q : (e - q) + i \in 1..e
      /\ \A k \in 1..e : k \in 1..(e - q) \/ (k - (e - q) \in 1..q /\ (e - q) + (k - (e - q)) = k)
  BY <1>1, <1>2, Positions
<1> DEFINE n == Left(a)
<1>4. n = e - q
  BY <1>1
<1> HIDE DEF n
<1>5. /\ n \in Nat
      /\ \A i \in 1..q : n + i \in 1..e
      /\ \A k \in 1..e : k \in 1..n \/ (k - n \in 1..q /\ n + (k - n) = k)
      /\ \A k \in 1..n : k \in 1..e
  BY <1>2, <1>3, <1>4
<1>6. QED
  BY <1>5 DEF q, e, n

(* The line implies the bound on overtaking.                                 *)
LEMMA LineBounds ==
  ASSUME TypeOK, Line
  PROVE  BoundedOvertaking
<1> SUFFICES ASSUME NEW a \in Api, NEW k \in 1..Len(entered[a]), entered[a][k] \notin Queued(a)
             PROVE  /\ Earlier(a, k) \cap Queued(a) = {}
                    /\ Cardinality(Earlier(a, k) \cap InHand(a)) < Cardinality(Worker)
  BY DEF BoundedOvertaking
<1>1. DOMAIN queue[a] = 1..Len(queue[a]) /\ DOMAIN entered[a] = 1..Len(entered[a])
  BY DEF TypeOK
<1>2. LineOf(a)
  BY DEF Line
<1>3. k \in 1..Left(a)
  <2>1. ASSUME k - Left(a) \in 1..Len(queue[a]), Left(a) + (k - Left(a)) = k PROVE FALSE
    <3>1. queue[a][k - Left(a)] = entered[a][k]
      BY <2>1, <1>2 DEF LineOf
    <3>2. QED
      BY <2>1, <3>1, <1>1 DEF Queued, Range
  <2>2. QED
    BY <2>1, <1>2, LinePositions
<1>4. ASSUME NEW i \in 1..(k - 1), NEW j \in 1..Len(queue[a])
      PROVE  entered[a][i] # queue[a][j]
  <2>1. i \in 1..Left(a) /\ i # Left(a) + j
    BY <1>2, <1>3, LinePositions
  <2>2. i \in DOMAIN entered[a] /\ Left(a) + j \in DOMAIN entered[a]
    BY <2>1, <1>1, <1>2, LinePositions
  <2>3. queue[a][j] = entered[a][Left(a) + j] /\ IsInjective(entered[a])
    BY <1>2 DEF LineOf
  <2>4. QED
    BY <2>1, <2>2, <2>3 DEF IsInjective
<1>5. Earlier(a, k) \cap Queued(a) = {}
  BY <1>1, <1>4 DEF Earlier, Queued, Range
<1>6. QED
  BY <1>2, <1>3, <1>5 DEF LineOf

(* A step that neither sends nor receives, and lets workers only put orders  *)
(* down, keeps the line.                                                    *)
LEMMA LineUndisturbed ==
  ASSUME TypeOK, NEW a \in Api, LineOf(a),
         UNCHANGED <<queue[a], entered[a]>>,
         InHand(a)' \subseteq InHand(a),
         \A o \in Order : outcome[o] = "accepted" => outcome'[o] = "accepted"
  PROVE  LineOf(a)'
<1>1. Left(a)' = Left(a) /\ \A k \in 1..Left(a) : Earlier(a, k)' = Earlier(a, k)
  BY DEF Left, Earlier
<1>2. \A i \in 1..Len(entered[a]) : entered[a][i] \in Order
  BY DEF TypeOK
<1>3. ASSUME NEW k \in 1..Left(a)
      PROVE  Cardinality(Earlier(a, k) \cap InHand(a)') < Cardinality(Worker)
  <2>1. /\ Cardinality(Earlier(a, k) \cap InHand(a)') \in Nat
        /\ Cardinality(Earlier(a, k) \cap InHand(a)) \in Nat
        /\ Cardinality(Earlier(a, k) \cap InHand(a)')
              <= Cardinality(Earlier(a, k) \cap InHand(a))
    BY HeldFinite
  <2>2. Cardinality(Worker) \in Nat
    BY WorkersAssumption, FS_CardinalityType
  <2>3. Cardinality(Earlier(a, k) \cap InHand(a)) < Cardinality(Worker)
    BY DEF LineOf
  <2>4. QED
    BY <2>1, <2>2, <2>3
<1>4. QED
  BY <1>1, <1>2, <1>3 DEF LineOf

(* Sending: the new order is the last of the line.                           *)
LEMMA LineSend ==
  ASSUME TypeOK, Line, NEW o \in Order, CreateOrderTransaction(o), Enqueue(o)
  PROVE  LineOf(Via[o])'
<1> DEFINE a == Via[o]
<1>1. /\ a \in Api /\ queue[a] \in Seq(Order) /\ entered[a] \in Seq(Order)
      /\ Len(queue[a]) \in Nat /\ Len(entered[a]) \in Nat
  BY ConstantsAssumption DEF TypeOK
<1>2. /\ queue'[a] = Append(queue[a], o) /\ entered'[a] = Append(entered[a], o)
      /\ job' = job /\ outcome' = [outcome EXCEPT ![o] = "accepted"]
  BY <1>1 DEF CreateOrderTransaction, Enqueue, Sent, TypeOK
<1>3. LineOf(a)
  BY <1>1 DEF Line
<1>4. outcome[o] = "handling" /\ outcome \in [Order -> Outcomes]
  BY DEF CreateOrderTransaction, TypeOK
<1>5. Left(a)' = Left(a) /\ Left(a) + (Len(queue[a]) + 1) = Len(entered[a]) + 1
  <2> DEFINE q == Len(queue[a])
             e == Len(entered[a])
  <2>1. Len(queue'[a]) = q + 1 /\ Len(entered'[a]) = e + 1 /\ q \in Nat /\ e \in Nat
    BY <1>1, <1>2
  <2>2. Left(a) = e - q /\ e - q \in Nat
    BY <1>3 DEF Left, LineOf
  <2>3. Left(a)' = Len(entered'[a]) - Len(queue'[a])
    BY DEF Left
  <2> HIDE DEF q, e
  <2>4. Left(a)' = Left(a) /\ Left(a) + (q + 1) = e + 1
    BY <2>1, <2>2, <2>3, Positions
  <2>5. QED
    BY <2>4 DEF q, e
<1>6. /\ Len(queue'[a]) = Len(queue[a]) + 1 /\ Len(entered'[a]) = Len(entered[a]) + 1
      /\ \A i \in 1..Len(queue[a]) : queue'[a][i] = queue[a][i]
      /\ \A i \in 1..Len(entered[a]) : entered'[a][i] = entered[a][i]
      /\ queue'[a][Len(queue[a]) + 1] = o /\ entered'[a][Len(entered[a]) + 1] = o
  BY <1>1, <1>2
<1>7. ASSUME NEW i \in 1..Len(queue'[a])
      PROVE  queue'[a][i] = entered'[a][Left(a) + i]
  <2>1. CASE i \in 1..Len(queue[a])
    <3>1. Left(a) + i \in 1..Len(entered[a])
      BY <2>1, <1>1, <1>3, LinePositions
    <3>2. QED
      BY <2>1, <3>1, <1>3, <1>6 DEF LineOf
  <2>2. CASE i = Len(queue[a]) + 1
    <3>1. Left(a) + i = Len(entered[a]) + 1
      BY <2>2, <1>5
    <3>2. QED
      BY <2>2, <3>1, <1>6
  <2>3. QED
    BY <2>1, <2>2, <1>1, <1>6
<1>8. IsInjective(entered'[a])
  <2>1. o \notin Range(entered[a])
    <3>1. \A i \in 1..Len(entered[a]) : entered[a][i] # o
      BY <1>3, <1>4 DEF LineOf
    <3>2. DOMAIN entered[a] = 1..Len(entered[a])
      BY <1>1
    <3>3. QED
      BY <3>1, <3>2 DEF Range
  <2>2. IsInjective(entered[a])
    BY <1>3 DEF LineOf
  <2>3. QED
    BY <2>1, <2>2, <1>1, <1>2, InjectiveAppend
<1>9. \A i \in 1..Len(entered'[a]) : outcome'[entered'[a][i]] = "accepted"
  <2>1. \A i \in 1..Len(entered[a]) : entered[a][i] \in Order
    BY <1>1
  <2>2. \A i \in 1..(Len(entered[a]) + 1) : i \in 1..Len(entered[a]) \/ i = Len(entered[a]) + 1
    BY <1>1
  <2>3. QED
    BY <2>1, <2>2, <1>2, <1>3, <1>4, <1>6 DEF LineOf
<1>10. ASSUME NEW k \in 1..Left(a)
       PROVE  Cardinality(Earlier(a, k) \cap InHand(a))' < Cardinality(Worker)
  <2>1. \A i \in 1..(k - 1) : i \in 1..Len(entered[a])
    <3>1. k \in 1..Len(entered[a])
      BY <1>1, <1>3, LinePositions
    <3>2. QED
      BY <3>1, <1>1
  <2>2. Earlier(a, k)' = Earlier(a, k)
    BY <2>1, <1>6 DEF Earlier
  <2>3. InHand(a)' = InHand(a)
    BY <1>2 DEF InHand
  <2>4. QED
    BY <2>2, <2>3, <1>3 DEF LineOf
<1>11. QED
  BY <1>3, <1>5, <1>7, <1>8, <1>9, <1>10 DEF LineOf

(* Receiving: the worker that was idle takes the order after those that left;*)
(* only the other workers can hold earlier ones.                            *)
LEMMA LineTake ==
  ASSUME TypeOK, Line, NEW a \in Api, NEW w \in Worker, Take(a, w)
  PROVE  LineOf(a)'
<1>1. /\ queue[a] \in Seq(Order) /\ entered[a] \in Seq(Order) /\ queue[a] # <<>>
      /\ Len(queue[a]) \in Nat \ {0} /\ Len(entered[a]) \in Nat
  BY DEF TypeOK, Take
<1>2. /\ queue'[a] = Tail(queue[a]) /\ entered' = entered /\ outcome' = outcome
      /\ \A v \in Worker : job'[a][v] = IF v = w THEN Head(queue[a]) ELSE job[a][v]
  BY DEF Take, Remaining, handlerVars, TypeOK
<1>3. LineOf(a)
  BY DEF Line
<1> DEFINE n == Left(a)
<1>4. n \in Nat /\ n + 1 \in 1..Len(entered[a]) /\ Left(a)' = n + 1
  <2> DEFINE q == Len(queue[a])
             e == Len(entered[a])
  <2>1. Len(queue'[a]) = q - 1 /\ Len(entered'[a]) = e /\ q \in Nat \ {0} /\ e \in Nat
    BY <1>1, <1>2
  <2>2. n = e - q /\ e - q \in Nat
    BY <1>3 DEF Left, LineOf
  <2>3. Left(a)' = Len(entered'[a]) - Len(queue'[a])
    BY DEF Left
  <2> HIDE DEF q, e, n
  <2>4. n \in Nat /\ n + 1 \in 1..e /\ Left(a)' = n + 1
    BY <2>1, <2>2, <2>3, Positions
  <2>5. QED
    BY <2>4 DEF e, n
<1>5. Head(queue[a]) = entered[a][n + 1]
  BY <1>1, <1>3 DEF LineOf
<1>6. \A i \in 1..Len(queue'[a]) : queue'[a][i] = entered'[a][n + 1 + i]
  <2>1. \A i \in 1..(Len(queue[a]) - 1) :
           i + 1 \in 1..Len(queue[a]) /\ Tail(queue[a])[i] = queue[a][i + 1]
    BY <1>1
  <2>2. Len(queue'[a]) = Len(queue[a]) - 1
    BY <1>1, <1>2
  <2>3. \A i \in 1..(Len(queue[a]) - 1) : n + (i + 1) = n + 1 + i
    BY <1>1, <1>4
  <2>4. QED
    BY <2>1, <2>2, <2>3, <1>2, <1>3 DEF LineOf
<1>7. ASSUME NEW k \in 1..(n + 1)
      PROVE  Head(queue[a]) \notin Earlier(a, k)
  <2>1. \A i \in 1..(k - 1) : i \in 1..Len(entered[a]) /\ i # n + 1
    <3>1. n \in Nat /\ n + 1 \in 1..Len(entered[a]) /\ Len(entered[a]) \in Nat
      BY <1>1, <1>4
    <3> HIDE DEF n
    <3>2. QED
      BY <3>1
  <2>2. DOMAIN entered[a] = 1..Len(entered[a])
    BY <1>1
  <2>3. IsInjective(entered[a])
    BY <1>3 DEF LineOf
  <2>4. \A i \in 1..(k - 1) : entered[a][i] # entered[a][n + 1]
    BY <2>1, <2>2, <2>3, <1>4 DEF IsInjective
  <2>5. QED
    BY <2>4, <1>5 DEF Earlier
<1>8. Cardinality(Worker) \in Nat
  BY WorkersAssumption, FS_CardinalityType
<1>9. ASSUME NEW k \in 1..n
      PROVE  Cardinality(Earlier(a, k) \cap InHand(a)') < Cardinality(Worker)
  <2>1. k \in 1..(n + 1)
    BY <1>4
  <2>2. Earlier(a, k) \cap InHand(a)' \subseteq Earlier(a, k) \cap InHand(a)
    BY <2>1, <1>2, <1>7 DEF InHand
  <2>3. /\ Cardinality(Earlier(a, k) \cap InHand(a)') \in Nat
        /\ Cardinality(Earlier(a, k) \cap InHand(a)) \in Nat
        /\ Cardinality(Earlier(a, k) \cap InHand(a)')
              <= Cardinality(Earlier(a, k) \cap InHand(a))
    BY <2>2, HeldFinite
  <2>4. Cardinality(Earlier(a, k) \cap InHand(a)) < Cardinality(Worker)
    BY <1>3 DEF LineOf
  <2>5. QED
    BY <2>3, <2>4, <1>8
<1>10. Cardinality(Earlier(a, n + 1) \cap InHand(a)') < Cardinality(Worker)
  <2> DEFINE Others == Worker \ {w}
             J      == {job[a][v] : v \in Others}
             E      == Earlier(a, n + 1) \cap InHand(a)'
  <2>1. IsFiniteSet(Others) /\ Cardinality(Others) = Cardinality(Worker) - 1
    BY WorkersAssumption, FS_RemoveElement
  <2>2. [v \in Others |-> job[a][v]] \in Surjection(Others, J)
    BY DEF Surjection
  <2>3. IsFiniteSet(J) /\ Cardinality(J) <= Cardinality(Others)
    BY <2>1, <2>2, FS_Surjection
  <2>4. E \subseteq J
    <3>1. n + 1 \in 1..(n + 1)
      BY <1>4
    <3>2. QED
      BY <3>1, <1>2, <1>7 DEF InHand
  <2>5. IsFiniteSet(E) /\ Cardinality(E) <= Cardinality(J)
    BY <2>3, <2>4, FS_Subset
  <2>6. Cardinality(E) \in Nat /\ Cardinality(J) \in Nat /\ Cardinality(Others) \in Nat
    BY <2>1, <2>3, <2>5, FS_CardinalityType
  <2>7. QED
    BY <2>1, <2>3, <2>5, <2>6, <1>8
<1>11. \A k : Earlier(a, k)' = Earlier(a, k)
  BY <1>2 DEF Earlier
<1>12. \A k \in 1..(n + 1) : k \in 1..n \/ k = n + 1
  BY <1>4
<1>13. \A k \in 1..(n + 1) : Cardinality(Earlier(a, k) \cap InHand(a))' < Cardinality(Worker)
  BY <1>9, <1>10, <1>11, <1>12
<1>14. IsInjective(entered'[a]) /\ \A i \in 1..Len(entered'[a]) : outcome'[entered'[a][i]] = "accepted"
  BY <1>2, <1>3 DEF LineOf
<1> HIDE DEF n
<1>15. Left(a)' \in Nat
  BY <1>4
<1>16. \A i \in 1..Len(queue'[a]) : queue'[a][i] = entered'[a][Left(a)' + i]
  BY <1>4, <1>6, Zenon
<1>17. \A k \in 1..Left(a)' : Cardinality(Earlier(a, k) \cap InHand(a))' < Cardinality(Worker)
  BY <1>4, <1>13, Zenon
<1>18. QED
  BY <1>14, <1>15, <1>16, <1>17, Zenon DEF LineOf

LEMMA LineStep == TypeOK /\ Line /\ [Next]_vars => Line'
<1> SUFFICES ASSUME TypeOK, Line, [Next]_vars, NEW a \in Api PROVE LineOf(a)'
  BY DEF Line
<1>1. LineOf(a)
  BY DEF Line
<1>2. ASSUME UNCHANGED <<queue, entered, job>>,
             \A o \in Order : outcome[o] = "accepted" => outcome'[o] = "accepted"
      PROVE  LineOf(a)'
  <2>1. InHand(a)' = InHand(a)
    BY <1>2 DEF InHand
  <2>2. QED
    BY <2>1, <1>1, <1>2, LineUndisturbed
<1>3. ASSUME NEW o \in Order, Handler(o) PROVE LineOf(a)'
  <2>1. CASE Receive(o) \/ BadRequest(o) \/ Answer(o)
    BY <2>1, <1>2 DEF Receive, BadRequest, Answer, TypeOK
  <2>2. CASE CreateOrderTransaction(o) /\ QueueFull(o)
    BY <2>2, <1>2 DEF CreateOrderTransaction, QueueFull, TypeOK
  <2>3. CASE CreateOrderTransaction(o) /\ Enqueue(o)
    <3>1. CASE a = Via[o]
      BY <3>1, <2>3, LineSend
    <3>2. CASE a # Via[o]
      <4>1. UNCHANGED <<queue[a], entered[a]>> /\ InHand(a)' = InHand(a)
        BY <3>2, <2>3 DEF CreateOrderTransaction, Enqueue, InHand, TypeOK
      <4>2. \A x \in Order : outcome[x] = "accepted" => outcome'[x] = "accepted"
        BY <2>3 DEF Enqueue, TypeOK
      <4>3. QED
        BY <4>1, <4>2, <1>1, LineUndisturbed
    <3>3. QED
      BY <3>1, <3>2
  <2>4. QED
    BY <1>3, <2>1, <2>2, <2>3 DEF Handler, CreateOrderTransaction
<1>4. ASSUME NEW b \in Api, NEW w \in Worker, Take(b, w) PROVE LineOf(a)'
  <2>1. CASE a = b
    BY <2>1, <1>4, LineTake
  <2>2. CASE a # b
    <3>1. UNCHANGED <<queue[a], entered[a]>> /\ InHand(a)' = InHand(a)
      BY <2>2, <1>4 DEF Take, InHand, TypeOK
    <3>2. outcome' = outcome
      BY <1>4 DEF Take, handlerVars
    <3>3. QED
      BY <3>1, <3>2, <1>1, LineUndisturbed
  <2>3. QED
    BY <2>1, <2>2
<1>5. ASSUME NEW b \in Api, NEW w \in Worker, insertToDB(b, w) PROVE LineOf(a)'
  <2>1. CASE SendCommit(b, w)
    BY <2>1, <1>2 DEF SendCommit, handlerVars
  <2>2. CASE InsertOk(b, w) \/ InsertError(b, w)
    <3>1. UNCHANGED <<queue, entered, outcome>>
      BY <2>2 DEF InsertOk, InsertError, handlerVars
    <3>2. job' = [job EXCEPT ![b][w] = NoOrder]
      BY <2>2 DEF InsertOk, InsertError, NextOrder
    <3>3. InHand(a)' \subseteq InHand(a)
      BY <3>2 DEF InHand, TypeOK
    <3>4. QED
      BY <3>1, <3>3, <1>1, LineUndisturbed
  <2>3. QED
    BY <1>5, <2>1, <2>2 DEF insertToDB
<1>6. ASSUME NEW b \in Api, ApiCrash(b) PROVE LineOf(a)'
  <2>1. CASE a # b
    <3>1. UNCHANGED <<queue[a], entered[a], outcome>> /\ InHand(a)' = InHand(a)
      BY <2>1, <1>6 DEF ApiCrash, InHand, TypeOK
    <3>2. QED
      BY <3>1, <1>1, LineUndisturbed
  <2>2. CASE a = b
    <3>1. queue'[a] = <<>> /\ entered'[a] = <<>>
      BY <2>2, <1>6 DEF ApiCrash, TypeOK
    <3>2. Len(queue'[a]) = 0 /\ Len(entered'[a]) = 0 /\ DOMAIN entered'[a] = {}
      BY <3>1
    <3>3. QED
      BY <3>2 DEF LineOf, Left, IsInjective
  <2>3. QED
    BY <2>1, <2>2
<1>7. ASSUME NEW b \in Api, ApiStart(b) PROVE LineOf(a)'
  BY <1>7, <1>2 DEF ApiStart, handlerVars
<1>8. CASE Database
  BY <1>8, <1>2 DEF Database, DbCommit, DbAbort, DbFlush, DbCrash, DbStart, handlerVars
<1>9. CASE UNCHANGED vars
  BY <1>9, <1>2 DEF vars
<1>10. QED
  BY <1>3, <1>4, <1>5, <1>6, <1>7, <1>8, <1>9 DEF Next

(* Orders leave the channel in the order they were accepted in, and when one *)
(* has left, fewer than ten that were accepted before it are still being    *)
(* inserted.                                                                *)
THEOREM OvertakingBounded == Spec => []BoundedOvertaking
<1>1. Init => Line
  <2> SUFFICES ASSUME Init, NEW a \in Api PROVE LineOf(a)
    BY DEF Line
  <2>1. queue[a] = <<>> /\ entered[a] = <<>>
    BY DEF Init
  <2>2. Len(queue[a]) = 0 /\ Len(entered[a]) = 0 /\ DOMAIN entered[a] = {}
    BY <2>1
  <2>3. QED
    BY <2>2 DEF LineOf, Left, IsInjective
<1>2. TypeOK /\ Line => BoundedOvertaking
  BY LineBounds
<1>3. QED
  BY <1>1, <1>2, LineStep, TypeCorrect, PTL DEF Spec

-----------------------------------------------------------------------------
(* What a step may never do.                                                *)

(* An answer is the last word to its client; a transaction that ended is not *)
(* begun again; what is on disk stays in the table; a row leaves the table   *)
(* only in the crash of the database.                                       *)
Final ==
  /\ \A o \in Order : answer[o] # "none" => answer'[o] = answer[o]
  /\ \A o \in Order : tx[o] \in {"committed", "aborted"} => tx'[o] = tx[o]
  /\ flushed \subseteq flushed' /\ flushed' \subseteq table'
  /\ table \subseteq table' \/ (dbUp /\ ~dbUp')

LEMMA FinalStep == ASSUME TypeOK, TypeOK', Ledger, [Next]_vars PROVE Final
<1>0. flushed \subseteq table /\ flushed' \subseteq table'
  BY DEF TypeOK
<1> USE DEF Final, handlerVars, dbVars
<1>1. ASSUME NEW o \in Order, Handler(o) PROVE Final
  <2>1. UNCHANGED dbVars /\ \A p \in Order : answer[p] # "none" => answer'[p] = answer[p]
    BY <1>1 DEF Handler, Receive, BadRequest, CreateOrderTransaction, Answer, TypeOK
  <2> QED
    BY <1>0, <2>1
<1>2. ASSUME NEW a \in Api, NEW w \in Worker, Take(a, w) \/ InsertOk(a, w) \/ InsertError(a, w)
      PROVE Final
  BY <1>0, <1>2 DEF Take, InsertOk, InsertError
<1>3. ASSUME NEW a \in Api, NEW w \in Worker, SendCommit(a, w) PROVE Final
  BY <1>0, <1>3 DEF SendCommit, TypeOK
<1>4. ASSUME NEW o \in Order, DbCommit(o) \/ DbAbort(o) PROVE Final
  BY <1>0, <1>4 DEF DbCommit, DbAbort, TypeOK
<1>5. CASE DbFlush \/ DbCrash \/ DbStart
  BY <1>0, <1>5 DEF DbFlush, DbCrash, DbStart
<1>6. ASSUME NEW a \in Api, ApiCrash(a) \/ ApiStart(a) PROVE Final
  BY <1>0, <1>6 DEF ApiCrash, ApiStart
<1>7. CASE UNCHANGED vars
  BY <1>0, <1>7 DEF vars
<1> QED
  BY <1>1, <1>2, <1>3, <1>4, <1>5, <1>6, <1>7 DEF Next, insertToDB, Database

(* No request is answered twice or differently, no order is inserted by a    *)
(* second transaction after its first one ended (insertToDB has no retry),  *)
(* and synchronous_commit=off loses only rows that were not flushed, and    *)
(* those only in a crash of PostgreSQL.                                     *)
THEOREM NothingTakenBack == Spec => [][Final]_vars
BY FinalStep, Invariance, PTL DEF Spec, IInv

(* What a process loses when it dies was sent to that process.               *)
Confined ==
  \A o \in Order :
    \/ o \in orphaned' \ orphaned
    \/ answer[o] # "broken" /\ answer'[o] = "broken"
    => apiUp[Via[o]] /\ ~apiUp'[Via[o]]

(* The death of one service loses no order and breaks no request of the two  *)
(* others, although all three share the database: each process has a        *)
(* channel and workers of its own.                                          *)
THEOREM DeathConfined == Spec => [][Confined]_vars
<1>1. ASSUME IInv, [Next]_vars PROVE Confined
  <2> USE DEF Confined, handlerVars, dbVars
  <2>1. ASSUME NEW o \in Order, Handler(o) PROVE Confined
    BY <1>1, <2>1 DEF Handler, Receive, BadRequest, CreateOrderTransaction, Answer, Reply,
                      IInv, TypeOK
  <2>2. ASSUME NEW a \in Api, NEW w \in Worker, Take(a, w) \/ insertToDB(a, w) PROVE Confined
    BY <2>2 DEF Take, insertToDB, SendCommit, InsertOk, InsertError
  <2>3. CASE Database
    BY <2>3 DEF Database, DbCommit, DbAbort, DbFlush, DbCrash, DbStart
  <2>4. ASSUME NEW a \in Api, ApiCrash(a) PROVE Confined
    <3>1. \A o \in Pending(a) : Via[o] = a
      BY <1>1 DEF IInv, AtMostOneCustodian
    <3>2. \A o \in Order : o \in orphaned' \ orphaned => Via[o] = a
      BY <2>4, <3>1 DEF ApiCrash
    <3>3. \A o \in Order : answer[o] # "broken" /\ answer'[o] = "broken" => Via[o] = a
      BY <2>4 DEF ApiCrash
    <3>4. apiUp[a] /\ ~apiUp'[a]
      BY <1>1, <2>4 DEF ApiCrash, IInv, TypeOK
    <3> QED
      BY <3>2, <3>3, <3>4
  <2>5. ASSUME NEW a \in Api, ApiStart(a) PROVE Confined
    BY <2>5 DEF ApiStart
  <2>6. CASE UNCHANGED vars
    BY <2>6 DEF vars
  <2> QED
    BY <1>1, <2>1, <2>2, <2>3, <2>4, <2>5, <2>6 DEF Next
<1> QED
  BY <1>1, Invariance, PTL DEF Spec

-----------------------------------------------------------------------------
(* Which orders reach the table.                                            *)

(* A transaction reaches its COMMIT only for a customer that exists.         *)
KeyHolds == \A o \in Order : tx[o] # "none" => o \in KnownCustomer

LEMMA KeyStep == ASSUME TypeOK, KeyHolds, [Next]_vars PROVE KeyHolds'
<1> USE DEF KeyHolds, TypeOK, dbVars
<1>1. ASSUME NEW a \in Api, NEW w \in Worker, SendCommit(a, w) PROVE KeyHolds'
  BY <1>1 DEF SendCommit
<1>2. CASE Database
  BY <1>2 DEF Database, DbCommit, DbAbort, DbFlush, DbCrash, DbStart
<1>3. ASSUME ~Database, \A a \in Api, w \in Worker : ~SendCommit(a, w) PROVE tx' = tx
  BY <1>3 DEF Next, Handler, Receive, BadRequest, CreateOrderTransaction, Answer, Take,
              insertToDB, InsertOk, InsertError, ApiCrash, ApiStart, vars
<1> QED
  BY <1>1, <1>2, <1>3

(* An order for a customer that does not exist is never stored, although its *)
(* client is told that it was created: the foreign key is checked by the    *)
(* insert, after the answer.                                                *)
THEOREM UnknownNeverStored == Spec => [](table \subseteq KnownCustomer)
<1>1. Init => KeyHolds
  BY DEF Init, KeyHolds
<1>2. IInv /\ KeyHolds => table \subseteq KnownCustomer
  BY DEF IInv, TypeOK, Ledger, KeyHolds
<1> QED
  BY <1>1, <1>2, KeyStep, Invariance, PTL DEF Spec, IInv

(* An order that was taken is in the table or on its way to it.              *)
OnItsWay(o) == o \in table \/ tx[o] = "open" \/ o \in Pending(Via[o])

TakenIsStored ==
  \A o \in KnownCustomer : outcome[o] = "accepted" => OnItsWay(o)

(* What no fault ever puts there.                                            *)
Clean ==
  /\ orphaned = {}
  /\ failed \cap KnownCustomer = {}
  /\ \A o \in Order : tx[o] = "committed" => o \in table

LEMMA CleanStep ==
  ASSUME Faults = {}, TypeOK, Clean, [Next]_vars
  PROVE Clean'
<1> USE DEF Clean, TypeOK, dbVars, handlerVars
<1>1. ASSUME NEW o \in Order, Handler(o) PROVE Clean'
  BY <1>1 DEF Handler, Receive, BadRequest, CreateOrderTransaction, Answer
<1>2. ASSUME NEW a \in Api, NEW w \in Worker, Take(a, w) \/ InsertOk(a, w) PROVE Clean'
  BY <1>2 DEF Take, InsertOk
<1>3. ASSUME NEW a \in Api, NEW w \in Worker, InsertError(a, w) PROVE Clean'
  BY <1>3 DEF InsertError, LogFailure
<1>4. ASSUME NEW a \in Api, NEW w \in Worker, SendCommit(a, w) PROVE Clean'
  BY <1>4 DEF SendCommit
<1>5. CASE Database
  BY <1>5 DEF Database, DbCommit, DbAbort, DbFlush, DbCrash, DbStart
<1>6. ASSUME NEW a \in Api, ApiCrash(a) \/ ApiStart(a) PROVE Clean'
  BY <1>6 DEF ApiCrash, ApiStart
<1>7. CASE UNCHANGED vars
  BY <1>7 DEF vars
<1> QED
  BY <1>1, <1>2, <1>3, <1>4, <1>5, <1>6, <1>7 DEF Next, insertToDB

(* Where the program does keep its word: as long as no process and no        *)
(* connection fails, an order of a known customer that was taken (and so    *)
(* answered with "created") is in the table, in a transaction, with a       *)
(* worker or in the channel.  The two ways to lose it that remain are       *)
(* faults, and KnownCustomer, the foreign key.                              *)
THEOREM NothingLostWithoutFaults ==
  ASSUME Faults = {} PROVE Spec => []TakenIsStored
<1>1. Init => Clean
  BY DEF Init, Clean
<1>2. IInv /\ Clean => TakenIsStored
  BY ConstantsAssumption DEF IInv, Accounted, Clean, TakenIsStored, OnItsWay
<1>3. TypeOK /\ Clean /\ [Next]_vars => Clean'
  BY CleanStep
<1>4. IInv => TypeOK
  BY DEF IInv
<1> QED
  BY <1>1, <1>2, <1>3, <1>4, Invariance, PTL DEF Spec

================================================================================
