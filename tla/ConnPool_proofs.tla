----------------------------- MODULE ConnPool_proofs -----------------------------
(***************************************************************************)
(* Proofs about ConnPool: for any number of clients, any defaults and any  *)
(* content of the environment, the pool respects its limits, accounts for  *)
(* every connection and never lets a client wait beside a free place or    *)
(* for nobody; what an outage leaves dead is never used for an answer and  *)
(* is used up.                                                             *)
(***************************************************************************)
EXTENDS ConnPool, FiniteSetTheorems, TLAPS

(* Before it serves, a process has no pool and no clients.                  *)
NotServing ==
  phase # "serving" =>
    /\ pc = [c \in Client |-> "out"]
    /\ broken = {}
    /\ bad = [c \in Client |-> 0]
    /\ idle = 0
    /\ dead = 0
    /\ openers = 0
    /\ numOpen = 0
    /\ surplus = FALSE

(* ConnectDB gives up at its last attempt, not later.                        *)
Trying == phase = "connecting" => tries < Attempts

IInv == TypeOK /\ Trying /\ NotServing /\ PoolBound /\ WaitOnlyWhenFull /\ NoChurnWhenEqual

-----------------------------------------------------------------------------
(* Facts about the helpers.                                                 *)

(* The default stands in for every setting that is no positive number.      *)
LEMMA GetEnvIntPositive ==
  ASSUME NEW v \in EnvValues, NEW d \in Nat \ {0}
  PROVE GetEnvInt(v, d) \in Nat \ {0}
<1>1. v \subseteq Int
  BY PoolAssumption
<1>2. CASE \E n \in v : n > 0
  <2>1. (CHOOSE n \in v : n > 0) \in v /\ (CHOOSE n \in v : n > 0) > 0
    BY <1>2, Zenon
  <2>2. GetEnvInt(v, d) = CHOOSE n \in v : n > 0
    BY <1>2, Zenon DEF GetEnvInt
  <2>3. GetEnvInt(v, d) \in Int /\ GetEnvInt(v, d) > 0
    BY <1>1, <2>1, <2>2, Zenon
  <2> QED
    BY <2>3
<1>3. CASE ~\E n \in v : n > 0
  BY <1>3 DEF GetEnvInt
<1> QED
  BY <1>2, <1>3

LEMMA HeldFinite ==
  /\ IsFiniteSet(Held) /\ Cardinality(Held) \in Nat
  /\ (Held # {} => Cardinality(Held) >= 1)
<1>1. IsFiniteSet(Held)
  BY PoolAssumption, FS_Subset DEF Held
<1> QED
  BY <1>1, FS_CardinalityType, FS_EmptySet

LEMMA HeldMore ==
  ASSUME NEW c, c \notin Held
  PROVE Cardinality(Held \cup {c}) = Cardinality(Held) + 1
BY HeldFinite, FS_AddElement

LEMMA HeldLess ==
  ASSUME NEW c \in Held
  PROVE Cardinality(Held \ {c}) = Cardinality(Held) - 1 /\ Cardinality(Held) >= 1
BY HeldFinite, FS_RemoveElement

LEMMA HeldSwapped ==
  ASSUME NEW c \in Held, NEW w, w \notin Held
  PROVE Cardinality((Held \ {c}) \cup {w}) = Cardinality(Held)
<1>1. IsFiniteSet(Held \ {c}) /\ Cardinality(Held \ {c}) = Cardinality(Held) - 1
  BY HeldFinite, FS_RemoveElement
<1>2. Cardinality((Held \ {c}) \cup {w}) = Cardinality(Held \ {c}) + 1
  BY <1>1, FS_AddElement
<1> QED
  BY <1>1, <1>2, HeldFinite

(* What maybeOpenNewConnections starts fits into the limit, and takes the    *)
(* place that was given up whenever somebody waits for it.                   *)
LEMMA RedialFits ==
  ASSUME TypeOK, numOpen >= 1, numOpen <= maxOpen, NEW S, S \subseteq Client
  PROVE LET r == Redial(numOpen - 1, S) IN
        /\ r \in Nat
        /\ numOpen - 1 + r <= maxOpen
        /\ S = {} => r = 0
        /\ S # {} /\ numOpen = maxOpen => r = 1
<1>1. IsFiniteSet(S)
  BY PoolAssumption, FS_Subset
<1>2. Cardinality(S) \in Nat /\ (S = {} <=> Cardinality(S) = 0)
  BY <1>1, FS_CardinalityType, FS_EmptySet
<1> QED
  BY <1>2 DEF Redial, Lesser, TypeOK

-----------------------------------------------------------------------------

LEMMA InitIInv == Init => IInv
<1> SUFFICES ASSUME Init PROVE IInv
  OBVIOUS
<1> USE PoolAssumption DEF Init
<1>1. TypeOK
  <2>1. tries \in 0..Attempts /\ stops \in 0..MaxStops
    OBVIOUS
  <2>2. /\ pc \in [Client -> {"out", "waiting", "dialing", "using"}]
        /\ bad \in [Client -> 0..MaxBad] /\ dead \in 0..idle
    BY DEF MaxBad
  <2>3. surplus \in BOOLEAN /\ dbUp \in BOOLEAN
    OBVIOUS
  <2> QED
    BY <2>1, <2>2, <2>3 DEF TypeOK
<1>2. Waiting = {}
  BY DEF Waiting, In
<1>3. Trying /\ NotServing
  BY DEF Trying, NotServing
<1>4. PoolBound
  BY DEF PoolBound
<1>5. WaitOnlyWhenFull
  BY <1>2 DEF WaitOnlyWhenFull
<1>6. NoChurnWhenEqual
  BY DEF NoChurnWhenEqual
<1> QED
  BY <1>1, <1>3, <1>4, <1>5, <1>6 DEF IInv

LEMMA BootIInv == IInv /\ Boot => IInv'
<1> SUFFICES ASSUME IInv, Boot PROVE IInv'
  OBVIOUS
<1> USE PoolAssumption DEF IInv, Boot
<1>1. ASSUME NEW open \in EnvValues, NEW idling \in EnvValues, Connected(open, idling)
      PROVE IInv'
  <2> USE <1>1 DEF Connected
  <2>1. /\ pc = [c \in Client |-> "out"] /\ openers = 0 /\ surplus = FALSE /\ dead = 0
        /\ pc' = pc
    BY DEF NotServing, poolVars
  <2>2. Held' = {} /\ Waiting' = {}
    BY <2>1 DEF Held, Waiting, In
  <2>3. /\ maxOpen' \in Nat \ {0}
        /\ maxIdle' \in Nat \ {0} /\ maxIdle' <= maxOpen'
    <3>1. GetEnvInt(open, DefaultOpen) \in Nat \ {0} /\ GetEnvInt(idling, DefaultIdle) \in Nat \ {0}
      BY GetEnvIntPositive
    <3> QED
      BY <3>1 DEF Lesser
  <2>4. Cardinality(Held') = 0
    BY <2>2, FS_EmptySet
  <2>5. TypeOK'
    <3>1. tries' \in 0..Attempts /\ dead' \in 0..idle'
      BY <2>1
    <3>2. broken' \subseteq In("using")'
      BY DEF TypeOK, In
    <3> QED
      BY <2>3, <3>1, <3>2 DEF TypeOK, dbVars
  <2>6. PoolBound' /\ NotServing' /\ Trying' /\ WaitOnlyWhenFull' /\ NoChurnWhenEqual'
    BY <2>1, <2>2, <2>3, <2>4 DEF PoolBound, NotServing, Trying, WaitOnlyWhenFull, NoChurnWhenEqual
  <2> QED
    BY <2>5, <2>6
<1>2. CASE ConnectFailed
  <2> USE <1>2 DEF ConnectFailed, poolVars, dbVars
  <2>1. tries + 1 \in 0..Attempts
    BY DEF TypeOK, Trying
  <2>2. TypeOK' /\ Trying'
    BY <2>1 DEF TypeOK, Trying, In, CountTry
  <2>3. NotServing' /\ PoolBound'
    BY DEF NotServing, PoolBound
  <2>4. WaitOnlyWhenFull' /\ NoChurnWhenEqual'
    <3>1. Waiting' = {}
      BY DEF NotServing, Waiting, In
    <3> QED
      BY <3>1 DEF WaitOnlyWhenFull, NoChurnWhenEqual
  <2> QED
    BY <2>2, <2>3, <2>4
<1> QED
  BY <1>1, <1>2

(* What a serving process relies on.                                        *)
LEMMA Serving ==
  ASSUME IInv, \/ \E c \in Client : pc[c] # "out"
               \/ idle > 0
               \/ openers > 0
               \/ phase = "serving"
  PROVE /\ phase = "serving"
        /\ maxOpen > 0 /\ maxIdle > 0 /\ maxIdle <= maxOpen
        /\ idle <= maxIdle /\ numOpen <= maxOpen
        /\ numOpen = idle + openers + Cardinality(Held)
<1>1. phase = "serving"
  BY DEF IInv, NotServing
<1> QED
  BY <1>1 DEF IInv, PoolBound

(* A step of the pool keeps the invariant when it keeps the account.         *)
LEMMA PoolStep ==
  ASSUME IInv, phase = "serving", UNCHANGED processVars, TypeOK',
         numOpen' = idle' + openers' + Cardinality(Held'),
         numOpen' <= maxOpen, idle' <= maxIdle,
         \A c \in Waiting' : numOpen' = maxOpen /\ (bad'[c] < MaxBad => idle' = 0),
         surplus' = surplus \/ maxIdle # maxOpen
  PROVE IInv'
<1> USE DEF IInv, processVars
<1>1. NotServing' /\ Trying'
  BY DEF NotServing, Trying
<1>2. PoolBound'
  BY DEF PoolBound
<1>3. WaitOnlyWhenFull'
  BY DEF WaitOnlyWhenFull, Cached
<1>4. NoChurnWhenEqual'
  BY DEF NoChurnWhenEqual
<1> QED
  BY <1>1, <1>2, <1>3, <1>4

(* Type correctness of a step of the pool, part by part.                     *)
LEMMA TypeStep ==
  ASSUME TypeOK, UNCHANGED <<processVars, dbUp, stops>>,
         pc' \in [Client -> {"out", "waiting", "dialing", "using"}],
         broken' \subseteq In("using")',
         bad' \in [Client -> 0..MaxBad],
         idle' \in Nat, dead' \in 0..idle', openers' \in Nat, numOpen' \in Nat,
         surplus' \in BOOLEAN
  PROVE TypeOK'
BY DEF TypeOK, processVars

(* A client that leaves takes its death with it.                            *)
LEMMA OutTypes ==
  ASSUME TypeOK, NEW c \in Client, pc' = [pc EXCEPT ![c] = "out"], broken' = broken \ {c}
  PROVE /\ pc' \in [Client -> {"out", "waiting", "dialing", "using"}]
        /\ broken' \subseteq In("using")'
BY DEF TypeOK, In

(* Of the idle connections one is taken out, and the dead are among them.    *)
LEMMA FromIdleTypes ==
  ASSUME TypeOK, NEW n \in {0, 1}, FromIdle(n)
  PROVE idle' \in Nat /\ dead' \in 0..idle' /\ idle' = idle - 1 /\ idle > 0
BY DEF FromIdle, TypeOK

LEMMA AcquireIInv == ASSUME NEW c \in Client, IInv, Acquire(c) PROVE IInv'
<1> USE DEF IInv, Request, dbVars
<1>0. /\ pc[c] = "out" /\ c \notin Held /\ c \notin broken /\ c \notin Waiting
      /\ UNCHANGED <<processVars, bad>>
      /\ phase = "serving"
  BY DEF Acquire, Reuse, Dial, Queue, Held, Waiting, TypeOK, In
<1>1. CASE Reuse(c)
  <2>0. PICK n \in {0, 1} :
          FromIdle(n) /\ broken' = IF n = 1 THEN broken \cup {c} ELSE broken
    BY <1>1 DEF Reuse
  <2>1. Held' = Held \cup {c} /\ Waiting' = Waiting
    BY <1>1 DEF Reuse, Held, Waiting, In, TypeOK
  <2>2. idle' \in Nat /\ dead' \in 0..idle' /\ idle' = idle - 1 /\ idle > 0
    BY <2>0, FromIdleTypes
  <2>3. TypeOK'
    BY <1>0, <1>1, <2>0, <2>2 DEF Reuse, TypeOK, In, processVars
  <2>4. Cardinality(Held') = Cardinality(Held) + 1
    BY <2>1, <1>0, HeldMore
  <2>5. \A d \in Waiting' : numOpen' = maxOpen /\ (bad'[d] < MaxBad => idle' = 0)
    BY <1>0, <1>1, <2>1, <2>2 DEF Reuse, WaitOnlyWhenFull, Cached
  <2> QED
    BY <1>0, <1>1, <2>1, <2>2, <2>3, <2>4, <2>5, Serving, HeldFinite, PoolStep
       DEF Reuse, TypeOK
<1>2. CASE Dial(c)
  <2>1. Held' = Held \cup {c} /\ Waiting' = Waiting
    BY <1>2 DEF Dial, Held, Waiting, In, TypeOK
  <2>2. Waiting = {}
    BY <1>2 DEF Dial, MayDial, WaitOnlyWhenFull, TypeOK
  <2>3. TypeOK'
    BY <1>0, <1>2 DEF Dial, TypeOK, In, processVars
  <2>4. Cardinality(Held') = Cardinality(Held) + 1
    BY <2>1, <1>0, HeldMore
  <2> QED
    BY <1>0, <1>2, <2>1, <2>2, <2>3, <2>4, Serving, HeldFinite, PoolStep DEF Dial, MayDial, TypeOK
<1>3. CASE Queue(c)
  <2>1. Held' = Held /\ Waiting' = Waiting \cup {c}
    BY <1>3 DEF Queue, Held, Waiting, In, TypeOK
  <2>3. TypeOK'
    BY <1>0, <1>3 DEF Queue, TypeOK, In, processVars
  <2>4. numOpen' = maxOpen
    BY <1>0, <1>3, Serving DEF Queue, MayDial, TypeOK
  <2>5. \A d \in Waiting' : numOpen' = maxOpen /\ (bad'[d] < MaxBad => idle' = 0)
    BY <1>0, <1>3, <2>1, <2>4 DEF Queue, NoneToReuse, WaitOnlyWhenFull, Cached
  <2> QED
    BY <1>0, <1>3, <2>1, <2>3, <2>5, Serving, PoolStep DEF Queue
<1> QED
  BY <1>1, <1>2, <1>3 DEF Acquire

(* A client that leaves with nothing gives its place to one that waits.      *)
LEMMA LeaveIInv ==
  ASSUME NEW c \in Client, IInv, DialFail(c) \/ Retry(c) \/ Discard(c)
  PROVE IInv'
<1> USE DEF IInv, dbVars
<1>0. /\ c \in Held /\ c \notin Waiting /\ UNCHANGED <<processVars, idle, dead, surplus, dbUp, stops>>
      /\ pc' = [pc EXCEPT ![c] = "out"] /\ broken' = broken \ {c}
      /\ pc[c] # "out"
      /\ CloseOne(Waiting, openers)
  BY DEF DialFail, Retry, Discard, Held, Waiting, In, TypeOK
<1>1. Held' = Held \ {c} /\ Waiting' = Waiting /\ Waiting \subseteq Client
  BY <1>0 DEF Held, Waiting, In, TypeOK
<1>2. Cardinality(Held') = Cardinality(Held) - 1 /\ Cardinality(Held) >= 1
  BY <1>0, <1>1, HeldLess
<1>3. numOpen >= 1 /\ numOpen <= maxOpen /\ phase = "serving"
  BY <1>0, <1>2, Serving, HeldFinite DEF TypeOK
<1> DEFINE r == Redial(numOpen - 1, Waiting)
<1>4. /\ r \in Nat /\ numOpen - 1 + r <= maxOpen
      /\ Waiting = {} => r = 0
      /\ Waiting # {} /\ numOpen = maxOpen => r = 1
  BY <1>1, <1>3, RedialFits
<1>5. numOpen' = numOpen - 1 + r /\ openers' = openers + r
  BY <1>0 DEF CloseOne
<1> HIDE DEF r
<1>6. bad' \in [Client -> 0..MaxBad] /\ \A d \in Client : d # c => bad'[d] = bad[d]
  <2>1. CASE Retry(c)
    <3>1. bad[c] + 1 \in 0..MaxBad /\ bad' = [bad EXCEPT ![c] = bad[c] + 1]
      BY <2>1 DEF Retry, Cached, MaxBad, TypeOK
    <3> QED
      BY <3>1 DEF TypeOK
  <2>2. CASE DialFail(c) \/ Discard(c)
    <3>1. 0 \in 0..MaxBad /\ bad' = [bad EXCEPT ![c] = 0]
      BY <2>2 DEF DialFail, Discard, Over, MaxBad
    <3> QED
      BY <3>1 DEF TypeOK
  <2> QED
    BY <2>1, <2>2
<1>7. TypeOK'
  <2>1. /\ pc' \in [Client -> {"out", "waiting", "dialing", "using"}]
        /\ broken' \subseteq In("using")'
    BY <1>0, OutTypes
  <2>2. /\ numOpen' \in Nat /\ openers' \in Nat
        /\ idle' \in Nat /\ dead' \in 0..idle' /\ surplus' \in BOOLEAN
    BY <1>0, <1>3, <1>4, <1>5 DEF TypeOK
  <2> QED
    BY <1>0, <1>6, <2>1, <2>2, TypeStep
<1>8. \A d \in Waiting' : numOpen' = maxOpen /\ (bad'[d] < MaxBad => idle' = 0)
  BY <1>0, <1>1, <1>4, <1>5, <1>6 DEF WaitOnlyWhenFull, Cached, TypeOK
<1> QED
  BY <1>0, <1>2, <1>3, <1>4, <1>5, <1>7, <1>8, Serving, HeldFinite, PoolStep DEF TypeOK

(* The retries of a client that is through are forgotten.                    *)
LEMMA OverTypes ==
  ASSUME TypeOK, NEW c \in Client, Over(c)
  PROVE bad' \in [Client -> 0..MaxBad] /\ \A d \in Client : d # c => bad'[d] = bad[d]
<1>1. 0 \in 0..MaxBad /\ bad' = [bad EXCEPT ![c] = 0]
  BY DEF Over, MaxBad
<1> QED
  BY <1>1 DEF TypeOK

(* A connection changes hands.                                              *)
LEMMA HandOverIInv ==
  ASSUME NEW c \in Client, NEW w \in Client, IInv, HandOver(c, w)
  PROVE IInv'
<1> USE DEF IInv, HandOver, dbVars
<1>0. c \in Held /\ w \notin Held /\ c # w /\ w \in Waiting /\ UNCHANGED processVars
      /\ phase = "serving" /\ c \notin Waiting
  BY Serving DEF Held, Waiting, In
<1>1. Held' = (Held \ {c}) \cup {w} /\ Waiting' \subseteq Waiting
  BY <1>0 DEF Held, Waiting, In, TypeOK
<1>2. Cardinality(Held') = Cardinality(Held)
  BY <1>0, <1>1, HeldSwapped
<1>3. bad' \in [Client -> 0..MaxBad] /\ \A d \in Client : d # c => bad'[d] = bad[d]
  BY OverTypes
<1>4. broken' \subseteq {d \in Client : pc'[d] = "using"}
  BY <1>0 DEF TypeOK, In
<1>5. TypeOK'
  BY <1>0, <1>3, <1>4 DEF TypeOK, In, processVars
<1>6. \A d \in Waiting' : numOpen' = maxOpen /\ (bad'[d] < MaxBad => idle' = 0)
  BY <1>0, <1>1, <1>3 DEF WaitOnlyWhenFull, Cached, Waiting, In
<1> QED
  BY <1>0, <1>1, <1>2, <1>5, <1>6, Serving, PoolStep

LEMMA KeepIInv ==
  ASSUME NEW c \in Client, IInv, Keep(c) \/ CloseSurplus(c)
  PROVE IInv'
<1> USE DEF IInv, dbVars
<1>0. /\ c \in Held /\ Waiting = {} /\ UNCHANGED processVars
      /\ pc' = [pc EXCEPT ![c] = "out"] /\ pc[c] # "out"
      /\ broken' = broken \ {c} /\ Over(c)
      /\ UNCHANGED <<openers, dbUp, stops>>
  BY DEF Keep, CloseSurplus, Held
<1>1. Held' = Held \ {c} /\ Waiting' = {}
  BY <1>0 DEF Held, Waiting, In, TypeOK
<1>2. Cardinality(Held') = Cardinality(Held) - 1 /\ Cardinality(Held) >= 1
  BY <1>0, <1>1, HeldLess
<1>3. /\ numOpen >= idle + 1 /\ numOpen <= maxOpen /\ phase = "serving"
      /\ numOpen = idle + openers + Cardinality(Held)
  BY <1>0, <1>2, Serving, HeldFinite DEF TypeOK
<1>4. bad' \in [Client -> 0..MaxBad]
  BY <1>0, OverTypes
<1>5. CASE Keep(c)
  <2>1. idle' = idle + 1 /\ dead' \in 0..idle' /\ UNCHANGED <<numOpen, surplus>>
    BY <1>5 DEF Keep, TypeOK
  <2>2. TypeOK'
    <3>1. /\ idle' \in Nat /\ openers' \in Nat /\ numOpen' \in Nat /\ surplus' \in BOOLEAN
      BY <1>0, <2>1 DEF TypeOK
    <3> QED
      BY <1>0, <1>4, <2>1, <3>1, OutTypes, TypeStep
  <2> QED
    BY <1>0, <1>1, <1>2, <1>3, <1>5, <2>1, <2>2, HeldFinite, PoolStep DEF Keep, RoomForIdle, TypeOK
<1>6. CASE CloseSurplus(c)
  <2>1. /\ numOpen' = numOpen - 1 /\ UNCHANGED <<idle, dead>>
        /\ surplus' \in BOOLEAN
    BY <1>6 DEF CloseSurplus, TypeOK
  <2>2. TypeOK'
    <3>1. idle' \in Nat /\ openers' \in Nat /\ numOpen' \in Nat /\ dead' \in 0..idle'
      BY <1>0, <1>3, <2>1 DEF TypeOK
    <3> QED
      BY <1>0, <1>4, <2>1, <3>1, OutTypes, TypeStep
  <2>3. maxIdle # maxOpen
    BY <1>3, <1>6 DEF CloseSurplus, RoomForIdle, TypeOK
  <2>4. surplus' = surplus \/ maxIdle # maxOpen
    BY <2>3
  <2> QED
    BY <1>0, <1>1, <1>2, <1>3, <2>1, <2>2, <2>4, Serving, HeldFinite, PoolStep DEF TypeOK
<1> QED
  BY <1>5, <1>6

LEMMA DialOkIInv == ASSUME NEW c \in Client, IInv, DialOk(c) PROVE IInv'
<1> USE DEF IInv, DialOk, dbVars
<1>1. Held' = Held /\ Waiting' = Waiting
  BY DEF Held, Waiting, In, TypeOK
<1>2. TypeOK'
  BY DEF TypeOK, In, processVars
<1> QED
  BY <1>1, <1>2, Serving, PoolStep DEF WaitOnlyWhenFull, Cached

LEMMA OpenedForIInv ==
  ASSUME NEW w \in Client, IInv, OpenedFor(w)
  PROVE IInv'
<1> USE DEF IInv, OpenedFor, dbVars
<1>1. w \notin Held /\ Held' = Held \cup {w} /\ Waiting' \subseteq Waiting
  BY DEF Held, Waiting, In, TypeOK
<1>2. Cardinality(Held') = Cardinality(Held) + 1
  BY <1>1, HeldMore
<1>3. TypeOK'
  BY DEF TypeOK, In, processVars
<1>4. phase = "serving"
  BY Serving
<1> QED
  BY <1>1, <1>2, <1>3, <1>4, Serving, HeldFinite, PoolStep DEF WaitOnlyWhenFull, Cached, TypeOK

LEMMA FailedForIInv ==
  ASSUME NEW w \in Client, IInv, FailedFor(w)
  PROVE IInv'
<1> USE DEF IInv, FailedFor, dbVars
<1>0. w \notin Held /\ w \in Waiting /\ UNCHANGED processVars
  BY DEF Held, Waiting, In
<1>1. Held' = Held /\ Waiting' = Waiting \ {w} /\ Waiting \subseteq Client
  BY DEF Held, Waiting, In, TypeOK
<1>3. /\ numOpen >= 1 /\ numOpen <= maxOpen /\ phase = "serving"
      /\ numOpen = idle + openers + Cardinality(Held)
  BY Serving, HeldFinite DEF TypeOK
<1> DEFINE r == Redial(numOpen - 1, Waiting \ {w})
<1>4. /\ r \in Nat /\ numOpen - 1 + r <= maxOpen
      /\ Waiting \ {w} # {} /\ numOpen = maxOpen => r = 1
  BY <1>1, <1>3, RedialFits
<1>5. numOpen' = numOpen - 1 + r /\ openers' = openers - 1 + r
  BY DEF CloseOne
<1> HIDE DEF r
<1>6. bad' \in [Client -> 0..MaxBad] /\ \A d \in Client : d # w => bad'[d] = bad[d]
  BY OverTypes
<1>7. TypeOK'
  <2>1. /\ pc' \in [Client -> {"out", "waiting", "dialing", "using"}]
        /\ broken' \subseteq In("using")'
    BY <1>0 DEF TypeOK, In, Waiting
  <2>2. /\ numOpen' \in Nat /\ openers' \in Nat
        /\ idle' \in Nat /\ dead' \in 0..idle' /\ surplus' \in BOOLEAN
    BY <1>3, <1>4, <1>5 DEF TypeOK
  <2> QED
    BY <1>0, <1>6, <2>1, <2>2, TypeStep
<1>8. \A d \in Waiting' : numOpen' = maxOpen /\ (bad'[d] < MaxBad => idle' = 0)
  BY <1>0, <1>1, <1>4, <1>5, <1>6 DEF WaitOnlyWhenFull, Cached, TypeOK
<1> QED
  BY <1>0, <1>1, <1>3, <1>4, <1>5, <1>7, <1>8, Serving, HeldFinite, PoolStep DEF TypeOK

LEMMA ForNobodyIInv == IInv /\ (OpenedForNobody \/ FailedForNobody) => IInv'
<1> SUFFICES ASSUME IInv, OpenedForNobody \/ FailedForNobody PROVE IInv'
  OBVIOUS
<1> USE DEF IInv, dbVars
<1>0. /\ Waiting = {} /\ UNCHANGED <<processVars, pc, broken, bad, dead, dbUp, stops>> /\ openers > 0
      /\ openers' = openers - 1
  BY DEF OpenedForNobody, FailedForNobody
<1>1. Held' = Held /\ Waiting' = {}
  BY <1>0 DEF Held, Waiting, In
<1>3. /\ numOpen >= idle + 1 /\ numOpen <= maxOpen /\ phase = "serving"
      /\ numOpen = idle + openers + Cardinality(Held) /\ idle <= maxIdle
  BY <1>0, Serving, HeldFinite DEF TypeOK
<1>4. CASE OpenedForNobody /\ RoomForIdle
  <2>1. idle' = idle + 1 /\ UNCHANGED <<numOpen, surplus>>
    BY <1>4 DEF OpenedForNobody
  <2>2. TypeOK'
    BY <1>0, <1>3, <2>1 DEF TypeOK, In, processVars
  <2> QED
    BY <1>0, <1>1, <1>3, <1>4, <2>1, <2>2, HeldFinite, PoolStep DEF RoomForIdle, TypeOK
<1>5. CASE OpenedForNobody /\ ~RoomForIdle
  <2>1. numOpen' = numOpen - 1 /\ surplus' = TRUE /\ UNCHANGED idle
    BY <1>5 DEF OpenedForNobody
  <2>2. TypeOK'
    BY <1>0, <1>3, <2>1 DEF TypeOK, In, processVars
  <2>3. maxIdle # maxOpen
    BY <1>3, <1>5 DEF RoomForIdle, TypeOK
  <2> QED
    BY <1>0, <1>1, <1>3, <2>1, <2>2, <2>3, HeldFinite, PoolStep DEF TypeOK
<1>6. CASE FailedForNobody
  <2>1. numOpen' = numOpen - 1 /\ UNCHANGED <<surplus, idle>>
    BY <1>6 DEF FailedForNobody
  <2>2. TypeOK'
    BY <1>0, <1>3, <2>1 DEF TypeOK, In, processVars
  <2> QED
    BY <1>0, <1>1, <1>3, <2>1, <2>2, HeldFinite, PoolStep DEF TypeOK
<1> QED
  BY <1>4, <1>5, <1>6

(* The place of an idle connection that is closed goes to whoever insists on *)
(* a new one.                                                               *)
LEMMA ExpireIInv == IInv /\ Expire => IInv'
<1> SUFFICES ASSUME IInv, Expire PROVE IInv'
  OBVIOUS
<1> USE DEF IInv, Expire, dbVars
<1>0. idle' \in Nat /\ dead' \in 0..idle' /\ idle' = idle - 1 /\ idle > 0
  BY FromIdleTypes
<1>1. Held' = Held /\ Waiting' = Waiting /\ Waiting \subseteq Client
  BY DEF Held, Waiting, In
<1>2. /\ numOpen >= 1 /\ numOpen <= maxOpen /\ phase = "serving" /\ idle <= maxIdle
      /\ numOpen = idle + openers + Cardinality(Held)
  BY <1>0, Serving, HeldFinite DEF TypeOK
<1> DEFINE r == Redial(numOpen - 1, Waiting)
<1>3. /\ r \in Nat /\ numOpen - 1 + r <= maxOpen
      /\ Waiting # {} /\ numOpen = maxOpen => r = 1
  BY <1>1, <1>2, RedialFits
<1>4. numOpen' = numOpen - 1 + r /\ openers' = openers + r
  BY DEF CloseOne
<1> HIDE DEF r
<1>5. TypeOK'
  BY <1>0, <1>2, <1>3, <1>4 DEF TypeOK, In, processVars
<1>6. \A d \in Waiting' : numOpen' = maxOpen /\ (bad'[d] < MaxBad => idle' = 0)
  BY <1>0, <1>1, <1>3, <1>4 DEF WaitOnlyWhenFull, Cached, TypeOK
<1> QED
  BY <1>0, <1>1, <1>2, <1>3, <1>4, <1>5, <1>6, HeldFinite, PoolStep DEF TypeOK

LEMMA DbIInv == IInv /\ (DbStop \/ DbStart) => IInv'
<1> SUFFICES ASSUME IInv, DbStop \/ DbStart PROVE IInv'
  OBVIOUS
<1> USE DEF IInv
<1>0. UNCHANGED <<processVars, pc, bad, idle, openers, numOpen, surplus>>
  BY DEF DbStop, DbStart, poolVars
<1>1. Held' = Held /\ Waiting' = Waiting
  BY <1>0 DEF Held, Waiting, In
<1>2. TypeOK'
  <2>1. CASE DbStart
    BY <2>1 DEF DbStart, TypeOK, In, processVars, poolVars
  <2>2. CASE DbStop
    <3>1. stops + 1 \in 0..MaxStops
      BY <2>2, PoolAssumption DEF DbStop, TypeOK
    <3>2. broken' \subseteq In("using")' /\ dead' \in 0..idle'
      BY <1>0, <2>2 DEF DbStop, TypeOK, In
    <3> QED
      BY <1>0, <2>2, <3>1, <3>2 DEF DbStop, TypeOK, processVars
  <2> QED
    BY <2>1, <2>2
<1>3. NotServing'
  <2>1. phase # "serving" => In("using") = {}
    BY DEF NotServing, In
  <2> QED
    BY <1>0, <2>1 DEF NotServing, DbStop, DbStart, processVars, poolVars
<1> QED
  BY <1>0, <1>1, <1>2, <1>3 DEF Trying, PoolBound, WaitOnlyWhenFull, Cached, NoChurnWhenEqual,
                                processVars

LEMMA StutterIInv == IInv /\ UNCHANGED vars => IInv'
<1> SUFFICES ASSUME IInv, UNCHANGED vars PROVE IInv'
  OBVIOUS
<1> USE DEF IInv, vars, processVars, poolVars, dbVars
<1>1. TypeOK'
  BY DEF TypeOK, In
<1>2. NotServing' /\ Trying' /\ NoChurnWhenEqual'
  BY DEF NotServing, Trying, NoChurnWhenEqual
<1>3. PoolBound' /\ WaitOnlyWhenFull'
  BY DEF PoolBound, WaitOnlyWhenFull, Cached, Held, Waiting, In
<1> QED
  BY <1>1, <1>2, <1>3

-----------------------------------------------------------------------------

(* The inductive invariant holds in every reachable state.                   *)
THEOREM Inductive == Spec => []IInv
<1>1. IInv /\ [Next]_vars => IInv'
  <2> SUFFICES ASSUME IInv, [Next]_vars PROVE IInv'
    OBVIOUS
  <2>1. CASE Boot
    BY <2>1, BootIInv
  <2>2. ASSUME NEW c \in Client, Acquire(c) \/ Dialed(c) \/ Retry(c) \/ Release(c) PROVE IInv'
    BY <2>2, AcquireIInv, DialOkIInv, LeaveIInv, HandOverIInv, KeepIInv DEF Dialed, Release
  <2>3. CASE Opener
    BY <2>3, OpenedForIInv, FailedForIInv, ForNobodyIInv DEF Opener
  <2>4. CASE Expire \/ DbStop \/ DbStart
    BY <2>4, ExpireIInv, DbIInv
  <2>5. CASE UNCHANGED vars
    BY <2>5, StutterIInv
  <2> QED
    BY <2>1, <2>2, <2>3, <2>4, <2>5 DEF Next
<1> QED
  BY InitIInv, <1>1, PTL DEF Spec

(* Type correctness of the pool, for any environment and any clients.        *)
THEOREM TypeCorrect == Spec => []TypeOK
BY Inductive, PTL DEF IInv

(* The limits hold and every connection is accounted for.                    *)
THEOREM Bounded == Spec => []PoolBound
BY Inductive, PTL DEF IInv

(* Nobody waits beside a free place.                                         *)
THEOREM NoIdleWait == Spec => []WaitOnlyWhenFull
BY Inductive, PTL DEF IInv

(* Equal limits never close a healthy connection.                            *)
THEOREM NoChurn == Spec => []NoChurnWhenEqual
BY Inductive, PTL DEF IInv


-----------------------------------------------------------------------------
(* Nobody waits for nothing.                                                 *)

(* While a client waits, every place that SetMaxOpenConns allows is counted, *)
(* and there is at least one; unless the client insists on a new connection  *)
(* (it has met two dead ones), all of them are held or being opened.        *)
Behind ==
  \A w \in Waiting :
    /\ maxOpen > 0
    /\ idle + openers + Cardinality(Held) = maxOpen
    /\ Cached(w) => openers + Cardinality(Held) = maxOpen

(* Whoever waits, waits for a connection that somebody uses, dials or opens: *)
(* the line behind an exhausted pool always moves when that one is given    *)
(* back, so the pool cannot deadlock, however small DB_MAX_OPEN_CONNS is and *)
(* however many statements failed in an outage.  Only a client that met two  *)
(* dead connections may also wait beside idle ones, until one is used or    *)
(* expires.                                                                 *)
THEOREM WaitsForSomebody == Spec => []Behind
<1>1. ASSUME IInv PROVE Behind
  <2> SUFFICES ASSUME NEW w \in Waiting
               PROVE /\ maxOpen > 0
                     /\ idle + openers + Cardinality(Held) = maxOpen
                     /\ Cached(w) => openers + Cardinality(Held) = maxOpen
    BY DEF Behind
  <2>1. \E c \in Client : pc[c] # "out"
    BY DEF Waiting, In
  <2>2. /\ maxOpen > 0 /\ numOpen = idle + openers + Cardinality(Held)
    BY <1>1, <2>1, Serving
  <2>3. numOpen = maxOpen /\ (Cached(w) => idle = 0)
    BY <1>1 DEF IInv, WaitOnlyWhenFull
  <2> QED
    BY <1>1, <2>2, <2>3, HeldFinite DEF IInv, TypeOK
<1> QED
  BY <1>1, Inductive, PTL

(* While some client waits the number of counted connections stands still.   *)
PlacesStay == Waiting # {} /\ Waiting' # {} => numOpen' = numOpen

(* Between two moments at which somebody waits, no place is added and none   *)
(* is lost: the connection that breaks, fails to open or is closed has its  *)
(* place handed on in the same step (maybeOpenNewConnections, modelled by    *)
(* Redial).                                                                 *)
THEOREM PlacesHandedOn == Spec => [][PlacesStay]_vars
<1>1. ASSUME IInv, IInv', [Next]_vars PROVE [PlacesStay]_vars
  <2> SUFFICES ASSUME Waiting # {}, Waiting' # {} PROVE numOpen' = numOpen
    BY DEF PlacesStay
  <2>1. numOpen = maxOpen /\ numOpen' = maxOpen'
    BY <1>1 DEF IInv, WaitOnlyWhenFull
  <2>2. \E c \in Client : pc[c] # "out"
    BY DEF Waiting, In
  <2>3. phase = "serving"
    BY <1>1, <2>2, Serving
  <2>4. maxOpen' = maxOpen
    BY <1>1, <2>3
       DEF Next, Boot, Connected, ConnectFailed, Acquire, Reuse, Dial, Queue, Dialed, DialOk,
           DialFail, Retry, Release, Discard, HandOver, Keep, CloseSurplus, Opener, OpenedFor,
           FailedFor, OpenedForNobody, FailedForNobody, Expire, DbStop, DbStart,
           processVars, vars
  <2> QED
    BY <2>1, <2>4
<1> QED
  BY <1>1, Inductive, PTL DEF Spec

-----------------------------------------------------------------------------
(* The database is down.                                                     *)

(* While PostgreSQL is down every idle connection and every one in use is    *)
(* dead, whoever had it before: nobody has one that would work.             *)
NoneWorks == ~dbUp => dead = idle /\ In("using") \subseteq broken

LEMMA NoneWorksStep == ASSUME TypeOK, NoneWorks, [Next]_vars PROVE NoneWorks'
<1> USE DEF NoneWorks, TypeOK, In
<1>1. CASE Boot
  BY <1>1 DEF Boot, Connected, ConnectFailed, poolVars, dbVars
<1>2. ASSUME NEW c \in Client, Acquire(c) PROVE NoneWorks'
  <2>1. CASE Reuse(c)
    BY <2>1 DEF Reuse, FromIdle, dbVars
  <2>2. CASE Dial(c) \/ Queue(c)
    BY <2>2 DEF Dial, Queue, dbVars
  <2> QED
    BY <1>2, <2>1, <2>2 DEF Acquire
<1>3. ASSUME NEW c \in Client, Dialed(c) \/ Retry(c) PROVE NoneWorks'
  BY <1>3 DEF Dialed, DialOk, DialFail, Retry, dbVars
<1>4. ASSUME NEW c \in Client, Discard(c) \/ Keep(c) \/ CloseSurplus(c) PROVE NoneWorks'
  BY <1>4 DEF Discard, Keep, CloseSurplus, dbVars
<1>5. ASSUME NEW c \in Client, NEW w \in Client, HandOver(c, w) PROVE NoneWorks'
  BY <1>5 DEF HandOver, dbVars
<1>6. ASSUME NEW w \in Client, OpenedFor(w) \/ FailedFor(w) PROVE NoneWorks'
  BY <1>6 DEF OpenedFor, FailedFor, dbVars
<1>7. CASE OpenedForNobody \/ FailedForNobody
  BY <1>7 DEF OpenedForNobody, FailedForNobody, dbVars
<1>8. CASE Expire \/ DbStop \/ DbStart
  BY <1>8 DEF Expire, FromIdle, DbStop, DbStart, dbVars, poolVars
<1>9. CASE UNCHANGED vars
  BY <1>9 DEF vars, poolVars, dbVars
<1> QED
  BY <1>1, <1>2, <1>3, <1>4, <1>5, <1>6, <1>7, <1>8, <1>9 DEF Next, Release, Opener

LEMMA NoneWorksAlways == Spec => []NoneWorks
<1>1. Init => NoneWorks
  BY DEF Init, NoneWorks, In
<1> QED
  BY <1>1, NoneWorksStep, TypeCorrect, PTL DEF Spec

(* The dead connections of the pool, idle and in use.                        *)
Corpses == dead + Cardinality(broken)

LEMMA BrokenFinite ==
  ASSUME TypeOK
  PROVE IsFiniteSet(broken) /\ Cardinality(broken) \in Nat
<1>1. IsFiniteSet(broken)
  BY PoolAssumption, FS_Subset DEF TypeOK, In
<1> QED
  BY <1>1, FS_CardinalityType

LEMMA BrokenLess ==
  ASSUME TypeOK, NEW c
  PROVE Cardinality(broken \ {c}) = IF c \in broken THEN Cardinality(broken) - 1
                                                    ELSE Cardinality(broken)
<1>1. CASE c \in broken
  BY <1>1, BrokenFinite, FS_RemoveElement
<1>2. CASE c \notin broken
  <2>1. broken \ {c} = broken
    BY <1>2
  <2> QED
    BY <1>2, <2>1
<1> QED
  BY <1>1, <1>2

LEMMA BrokenMore ==
  ASSUME TypeOK, NEW c, c \notin broken
  PROVE Cardinality(broken \cup {c}) = Cardinality(broken) + 1
BY BrokenFinite, FS_AddElement

(* No step but a stop of PostgreSQL adds a dead connection.                  *)
NoNewCorpse == ~(dbUp /\ ~dbUp') => Corpses' <= Corpses

LEMMA CorpsesStep == ASSUME TypeOK, [Next]_vars PROVE NoNewCorpse
<1> SUFFICES ASSUME ~DbStop PROVE dead' + Cardinality(broken') <= dead + Cardinality(broken)
  BY DEF NoNewCorpse, Corpses, DbStop
<1>0. Cardinality(broken) \in Nat /\ dead \in Nat
  BY BrokenFinite DEF TypeOK
<1>1. CASE UNCHANGED <<broken, dead>>
  BY <1>0, <1>1
<1>2. ASSUME NEW c \in Client, Reuse(c)
      PROVE dead' + Cardinality(broken') <= dead + Cardinality(broken)
  <2>1. PICK n \in {0, 1} :
          FromIdle(n) /\ broken' = IF n = 1 THEN broken \cup {c} ELSE broken
    BY <1>2 DEF Reuse
  <2>2. c \notin broken
    BY <1>2 DEF Reuse, Request, TypeOK, In
  <2>3. Cardinality(broken \cup {c}) = Cardinality(broken) + 1
    BY <2>2, BrokenMore
  <2> QED
    BY <1>0, <2>1, <2>3 DEF FromIdle
<1>3. ASSUME NEW c \in Client, broken' = broken \ {c},
             dead' = dead \/ (c \in broken /\ dead' = dead + 1)
      PROVE dead' + Cardinality(broken') <= dead + Cardinality(broken)
  <2>1. Cardinality(broken \ {c}) = IF c \in broken THEN Cardinality(broken) - 1
                                                    ELSE Cardinality(broken)
    BY BrokenLess
  <2> QED
    BY <1>0, <1>3, <2>1
<1>4. ASSUME NEW c \in Client, NEW w \in Client, HandOver(c, w)
      PROVE dead' + Cardinality(broken') <= dead + Cardinality(broken)
  <2>1. CASE c \in broken
    <3>1. w \notin broken /\ c # w /\ dead' = dead /\ broken' = (broken \ {c}) \cup {w}
      BY <1>4, <2>1 DEF HandOver, TypeOK, In
    <3>2. IsFiniteSet(broken \ {c}) /\ Cardinality(broken \ {c}) = Cardinality(broken) - 1
      BY <2>1, BrokenFinite, FS_RemoveElement
    <3>3. Cardinality((broken \ {c}) \cup {w}) = Cardinality(broken \ {c}) + 1
      BY <3>1, <3>2, FS_AddElement
    <3> QED
      BY <1>0, <3>1, <3>2, <3>3
  <2>2. CASE c \notin broken
    BY <1>4, <2>2, <1>1 DEF HandOver
  <2> QED
    BY <2>1, <2>2
<1>5. CASE Expire
  BY <1>0, <1>5 DEF Expire, FromIdle
<1>6. ASSUME NEW c \in Client, Keep(c) \/ CloseSurplus(c) \/ Discard(c) \/ Retry(c)
      PROVE dead' + Cardinality(broken') <= dead + Cardinality(broken)
  <2>1. broken' = broken \ {c} /\ (dead' = dead \/ (c \in broken /\ dead' = dead + 1))
    BY <1>6 DEF Keep, CloseSurplus, Discard, Retry
  <2> QED
    BY <2>1, <1>3
<1>7. ASSUME NEW c \in Client,
             Dial(c) \/ Queue(c) \/ DialOk(c) \/ DialFail(c) \/ OpenedFor(c) \/ FailedFor(c)
      PROVE UNCHANGED <<broken, dead>>
  BY <1>7 DEF Dial, Queue, DialOk, DialFail, OpenedFor, FailedFor
<1>8. ASSUME Boot \/ OpenedForNobody \/ FailedForNobody \/ DbStart \/ UNCHANGED vars
      PROVE UNCHANGED <<broken, dead>>
  BY <1>8 DEF Boot, Connected, ConnectFailed, OpenedForNobody, FailedForNobody, DbStart,
              vars, poolVars
<1> QED
  BY <1>1, <1>2, <1>4, <1>5, <1>6, <1>7, <1>8
     DEF Next, Acquire, Dialed, Release, Opener

(* An outage leaves at most the connections the pool had, and from then on   *)
(* the dead ones only become fewer, however often they are given back, kept *)
(* idle and handed on before they are recognised: the errors they cause     *)
(* after PostgreSQL is back come to an end with them.                       *)
THEOREM DeadOnesDwindle == Spec => [][NoNewCorpse]_vars
BY CorpsesStep, TypeCorrect, PTL DEF Spec

=================================================================================
