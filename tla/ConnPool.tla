-------------------------------- MODULE ConnPool --------------------------------
(***************************************************************************)
(* The database connections of one service process: ConnectDB              *)
(* (database/db.go) tries to reach PostgreSQL, sets the limits of the pool *)
(* from the environment and hands it to the repository; from then on every *)
(* statement of a handler or of a worker takes one connection and gives it *)
(* back.  The pool itself is database/sql, modelled from what db.go sets   *)
(* and what the statements of the repository need.                         *)
(*                                                                         *)
(* A client is whatever runs one statement (or one transaction) at a time: *)
(* a request's goroutine, a worker.  No caller passes a deadline, so a     *)
(* client waits for a connection as long as it takes.                      *)
(***************************************************************************)
EXTENDS Integers, FiniteSets

CONSTANTS
  Client,       \* the goroutines that run statements
  EnvValues,    \* what DB_MAX_OPEN_CONNS may parse to: a set of at most one integer
  DefaultOpen,  \* 500 in the code
  DefaultIdle,  \* 100 in the code
  Attempts,     \* tries of ConnectDB (10 in the code)
  MaxStops      \* bound: how often the database stops

ASSUME PoolAssumption ==
  /\ IsFiniteSet(Client)
  /\ EnvValues \subseteq SUBSET Int
  /\ DefaultOpen \in Nat \ {0}
  /\ DefaultIdle \in Nat \ {0}
  /\ Attempts \in Nat \ {0}
  /\ MaxStops \in Nat

VARIABLES
  phase,    \* of the process: connecting, serving, dead
  tries,    \* failed attempts of ConnectDB
  maxOpen,  \* SetMaxOpenConns (0 until ConnectDB has set it)
  maxIdle,  \* SetMaxIdleConns, lowered to maxOpen
  pc,       \* pc[c]: what client c is doing
  broken,   \* clients whose connection is dead
  bad,      \* bad[c]: dead connections the statement of c has met
  idle,     \* connections nobody uses
  dead,     \* how many of them are dead, which shows at their next use
  openers,  \* connections being opened on behalf of waiting clients
  numOpen,  \* connections that count against maxOpen
  surplus,  \* a healthy connection was closed for lack of room among the idle
  dbUp,     \* PostgreSQL accepts connections
  stops     \* how often it stopped

processVars == <<phase, tries, maxOpen, maxIdle>>
poolVars    == <<pc, broken, bad, idle, dead, openers, numOpen, surplus>>
dbVars      == <<dbUp, stops>>
vars        == <<processVars, poolVars, dbVars>>

In(s)   == {c \in Client : pc[c] = s}
Waiting == In("waiting")
Held    == {c \in Client : pc[c] \in {"dialing", "using"}}

Lesser(a, b) == IF a < b THEN a ELSE b

(* maxBadConnRetries of database/sql.                                        *)
MaxBad == 2

-----------------------------------------------------------------------------
(* ConnectDB.                                                               *)

(* A setting that is unset, not a number, zero or negative gives the default. *)
BugGetEnvInt(v, fallback) == IF v = {} THEN fallback ELSE CHOOSE n \in v : TRUE
GetEnvInt(v, fallback) ==
  IF \E n \in v : n > 0 THEN CHOOSE n \in v : n > 0 ELSE fallback

Init ==
  /\ phase = "connecting"
  /\ tries = 0
  /\ maxOpen = 0
  /\ maxIdle = 0
  /\ pc = [c \in Client |-> "out"]
  /\ broken = {}
  /\ bad = [c \in Client |-> 0]
  /\ idle = 0
  /\ dead = 0
  /\ openers = 0
  /\ numOpen = 0
  /\ surplus = FALSE
  /\ dbUp \in BOOLEAN
  /\ stops = 0

(* gorm.Open pings: its connection is the first idle one.                    *)
Connected(open, idling) ==
  /\ phase = "connecting"
  /\ dbUp
  /\ phase' = "serving"
  /\ maxOpen' = GetEnvInt(open, DefaultOpen)
  /\ maxIdle' = Lesser(GetEnvInt(idling, DefaultIdle), maxOpen')
  /\ idle' = 1
  /\ numOpen' = 1
  /\ tries' = 0
  /\ UNCHANGED <<pc, broken, bad, dead, openers, surplus, dbVars>>

(* Wait two seconds and try again; after the last failure main exits.        *)
BugCountTry == tries
CountTry    == tries + 1

ConnectFailed ==
  /\ phase = "connecting"
  /\ ~dbUp
  /\ tries' = CountTry
  /\ phase' = IF tries' = Attempts THEN "dead" ELSE "connecting"
  /\ UNCHANGED <<maxOpen, maxIdle, poolVars, dbVars>>

-----------------------------------------------------------------------------
(* Closing connections.                                                     *)

(* maybeOpenNewConnections: with left open connections, start one for every *)
(* client still waiting, as far as the limit allows.                        *)
BugRedial(left, clients) == 0
Redial(left, clients)    == Lesser(Cardinality(clients), maxOpen - left)

(* A connection is gone: its place is given to a waiting client.             *)
CloseOne(clients, opening) ==
  /\ numOpen' = numOpen - 1 + Redial(numOpen - 1, clients)
  /\ openers' = opening + Redial(numOpen - 1, clients)

(* An idle connection is taken out, a healthy one (n = 0) or a dead one (1). *)
FromIdle(n) ==
  /\ idle > 0
  /\ idle' = idle - 1
  /\ dead' = dead - n
  /\ dead' \in 0..idle'

-----------------------------------------------------------------------------
(* Taking a connection: an idle one, a new one, or the end of the line.     *)

Request(c) ==
  /\ phase = "serving"
  /\ pc[c] = "out"

(* cachedOrNewConn; after two dead connections only a new one               *)
(* (alwaysNewConn), also beside idle ones.                                  *)
Cached(c) == bad[c] < MaxBad

Reuse(c) ==
  /\ Request(c)
  /\ Cached(c)
  /\ \E n \in {0, 1} :
       /\ FromIdle(n)
       /\ broken' = IF n = 1 THEN broken \cup {c} ELSE broken
  /\ pc' = [pc EXCEPT ![c] = "using"]
  /\ UNCHANGED <<processVars, bad, openers, numOpen, surplus, dbVars>>

NoneToReuse(c) == idle = 0 \/ ~Cached(c)

BugMayDial == numOpen <= maxOpen
MayDial    == numOpen < maxOpen

Dial(c) ==
  /\ Request(c)
  /\ NoneToReuse(c)
  /\ MayDial
  /\ numOpen' = numOpen + 1
  /\ pc' = [pc EXCEPT ![c] = "dialing"]
  /\ UNCHANGED <<processVars, broken, bad, idle, dead, openers, surplus, dbVars>>

Queue(c) ==
  /\ Request(c)
  /\ NoneToReuse(c)
  /\ ~MayDial
  /\ pc' = [pc EXCEPT ![c] = "waiting"]
  /\ UNCHANGED <<processVars, broken, bad, idle, dead, openers, numOpen, surplus, dbVars>>

(* The statement of client c is over, and with it the retries of DB.retry.   *)
Over(c) == bad' = [bad EXCEPT ![c] = 0]

DialOk(c) ==
  /\ pc[c] = "dialing"
  /\ dbUp
  /\ pc' = [pc EXCEPT ![c] = "using"]
  /\ UNCHANGED <<processVars, broken, bad, idle, dead, openers, numOpen, surplus, dbVars>>

DialFail(c) ==
  /\ pc[c] = "dialing"
  /\ ~dbUp
  /\ pc' = [pc EXCEPT ![c] = "out"]
  /\ CloseOne(Waiting, openers)
  /\ Over(c)
  /\ UNCHANGED <<processVars, broken, idle, dead, surplus, dbVars>>

(* Before anything was sent the connection turned out to be dead (a ping     *)
(* precedes the use of one that was not used for a second): it is closed,    *)
(* and DB.retry asks for another.                                           *)
Retry(c) ==
  /\ pc[c] = "using"
  /\ c \in broken
  /\ Cached(c)
  /\ pc' = [pc EXCEPT ![c] = "out"]
  /\ broken' = broken \ {c}
  /\ bad' = [bad EXCEPT ![c] = @ + 1]
  /\ CloseOne(Waiting, openers)
  /\ UNCHANGED <<processVars, idle, dead, surplus, dbVars>>

-----------------------------------------------------------------------------
(* Giving a connection back, with an answer or, if it is broken, an error.  *)
(* The driver does not say of a connection that died in use that it is bad: *)
(* it goes back like any other and is found dead at its next use.           *)

(* A waiting client gets it, any of them.                                   *)
HandOver(c, w) ==
  /\ pc[c] = "using"
  /\ pc[w] = "waiting"
  /\ pc' = [pc EXCEPT ![c] = "out", ![w] = "using"]
  /\ broken' = IF c \in broken THEN (broken \ {c}) \cup {w} ELSE broken
  /\ Over(c)
  /\ UNCHANGED <<processVars, idle, dead, openers, numOpen, surplus, dbVars>>

BugRoomForIdle == idle + 1 < maxIdle
RoomForIdle    == idle < maxIdle

Keep(c) ==
  /\ pc[c] = "using"
  /\ Waiting = {}
  /\ RoomForIdle
  /\ pc' = [pc EXCEPT ![c] = "out"]
  /\ broken' = broken \ {c}
  /\ idle' = idle + 1
  /\ dead' = IF c \in broken THEN dead + 1 ELSE dead
  /\ Over(c)
  /\ UNCHANGED <<processVars, openers, numOpen, surplus, dbVars>>

CloseSurplus(c) ==
  /\ pc[c] = "using"
  /\ Waiting = {}
  /\ ~RoomForIdle
  /\ pc' = [pc EXCEPT ![c] = "out"]
  /\ broken' = broken \ {c}
  /\ numOpen' = numOpen - 1
  /\ surplus' = (surplus \/ c \notin broken)
  /\ Over(c)
  /\ UNCHANGED <<processVars, idle, dead, openers, dbVars>>

(* It is bad, or past SetConnMaxLifetime.                                    *)
Discard(c) ==
  /\ pc[c] = "using"
  /\ pc' = [pc EXCEPT ![c] = "out"]
  /\ broken' = broken \ {c}
  /\ CloseOne(Waiting, openers)
  /\ Over(c)
  /\ UNCHANGED <<processVars, idle, dead, surplus, dbVars>>

-----------------------------------------------------------------------------
(* connectionOpener: a connection opened for whoever waits when it is ready. *)

OpenedFor(w) ==
  /\ openers > 0
  /\ dbUp
  /\ pc[w] = "waiting"
  /\ openers' = openers - 1
  /\ pc' = [pc EXCEPT ![w] = "using"]
  /\ UNCHANGED <<processVars, broken, bad, idle, dead, numOpen, surplus, dbVars>>

(* Nobody waits any more.                                                   *)
OpenedForNobody ==
  /\ openers > 0
  /\ dbUp
  /\ Waiting = {}
  /\ openers' = openers - 1
  /\ IF RoomForIdle
     THEN idle' = idle + 1 /\ UNCHANGED <<numOpen, surplus>>
     ELSE numOpen' = numOpen - 1 /\ surplus' = TRUE /\ UNCHANGED idle
  /\ UNCHANGED <<processVars, pc, broken, bad, dead, dbVars>>

(* The error goes to one of the waiting clients, and its place to the next.  *)
FailedFor(w) ==
  /\ openers > 0
  /\ ~dbUp
  /\ pc[w] = "waiting"
  /\ pc' = [pc EXCEPT ![w] = "out"]
  /\ CloseOne(Waiting \ {w}, openers - 1)
  /\ Over(w)
  /\ UNCHANGED <<processVars, broken, idle, dead, surplus, dbVars>>

FailedForNobody ==
  /\ openers > 0
  /\ ~dbUp
  /\ Waiting = {}
  /\ openers' = openers - 1
  /\ numOpen' = numOpen - 1
  /\ UNCHANGED <<processVars, pc, broken, bad, idle, dead, surplus, dbVars>>

(* SetConnMaxLifetime and SetConnMaxIdleTime, enforced by connectionCleaner; *)
(* or a client was about to reuse it, found its lifetime over and goes on    *)
(* to the next.                                                             *)
Expire ==
  /\ \E n \in {0, 1} : FromIdle(n)
  /\ CloseOne(Waiting, openers)
  /\ UNCHANGED <<processVars, pc, broken, bad, surplus, dbVars>>

-----------------------------------------------------------------------------
(* PostgreSQL stops, and every connection dies.  The pool notices nothing:   *)
(* the idle ones stay where they are and are counted until somebody uses    *)
(* them.                                                                    *)
DbStop ==
  /\ dbUp
  /\ stops < MaxStops
  /\ dbUp' = FALSE
  /\ stops' = stops + 1
  /\ broken' = In("using")
  /\ dead' = idle
  /\ UNCHANGED <<processVars, pc, bad, idle, openers, numOpen, surplus>>

DbStart ==
  /\ ~dbUp
  /\ dbUp' = TRUE
  /\ UNCHANGED <<processVars, poolVars, stops>>

-----------------------------------------------------------------------------
Boot ==
  \/ \E open, idling \in EnvValues : Connected(open, idling)
  \/ ConnectFailed

Acquire(c) == Reuse(c) \/ Dial(c) \/ Queue(c)
Dialed(c)  == DialOk(c) \/ DialFail(c)
Release(c) ==
  \/ \E w \in Client : HandOver(c, w)
  \/ Keep(c)
  \/ CloseSurplus(c)
  \/ Discard(c)

Opener ==
  \/ \E w \in Client : OpenedFor(w) \/ FailedFor(w)
  \/ OpenedForNobody
  \/ FailedForNobody

Next ==
  \/ Boot
  \/ \E c \in Client : Acquire(c) \/ Dialed(c) \/ Retry(c) \/ Release(c)
  \/ Opener
  \/ Expire
  \/ DbStop
  \/ DbStart

Spec == Init /\ [][Next]_vars

-----------------------------------------------------------------------------
(* Properties.                                                               *)

(* Every variable has its type, and no more connections are dead than exist. *)
TypeOK ==
  /\ phase \in {"connecting", "serving", "dead"}
  /\ tries \in 0..Attempts
  /\ maxOpen \in Nat
  /\ maxIdle \in Nat
  /\ pc \in [Client -> {"out", "waiting", "dialing", "using"}]
  /\ broken \subseteq In("using")
  /\ bad \in [Client -> 0..MaxBad]
  /\ idle \in Nat
  /\ dead \in 0..idle
  /\ openers \in Nat
  /\ numOpen \in Nat
  /\ surplus \in BOOLEAN
  /\ dbUp \in BOOLEAN
  /\ stops \in 0..MaxStops

(* A service never holds more connections than its setting, whatever the     *)
(* environment says: a setting of zero would mean no limit to database/sql, *)
(* and every place that is counted is a connection somebody holds (a place  *)
(* that leaks is lost until the process ends).                              *)
PoolBound ==
  phase = "serving" =>
    /\ 0 < maxOpen
    /\ 0 < maxIdle
    /\ maxIdle <= maxOpen
    /\ idle <= maxIdle
    /\ numOpen <= maxOpen
    /\ numOpen = idle + openers + Cardinality(Held)

(* A client waits only while no further connection may be opened and, unless *)
(* it met two bad ones and insists on a new one, none is idle: no place is   *)
(* free while somebody waits for one.  A statement, a dial or an opener that *)
(* fails must pass its place on, in an outage as well, when dead connections *)
(* still fill the pool.                                                     *)
WaitOnlyWhenFull ==
  \A c \in Waiting : numOpen = maxOpen /\ (Cached(c) => idle = 0)

(* With as many idle connections allowed as open ones (500:500 in            *)
(* environment.md) no healthy connection is ever closed for lack of room,    *)
(* and none is opened in its place.                                         *)
NoChurnWhenEqual == maxIdle = maxOpen => ~surplus

================================================================================
