------------------------------ MODULE GraphQLExec ------------------------------
(***************************************************************************)
(* Execution of one GraphQL request by the generated server                *)
(* (graph/generated.go) and the runtime it calls.  A request that passed   *)
(* validation is a tree: the operation, the fields it selects, the         *)
(* elements of their lists, the fields selected in those.  Goroutines run  *)
(* the parts of the tree; a null is pushed upwards by counters             *)
(* (out.Invalids) until a field that may be null stops it; errors are      *)
(* collected on the side.                                                  *)
(*                                                                         *)
(* The tree is constant: Node, Parent and Index are its shape, On[n] and   *)
(* Name[n] the object type and the field of node n.  The number of         *)
(* elements of a list is part of the tree.                                 *)
(***************************************************************************)
EXTENDS GraphQLSchema, FiniteSets

CONSTANTS
  Node,       \* the parts of the requests
  Operation,  \* the roots: one request each
  Element,    \* the elements of lists
  Parent,     \* Parent[n]: the node that n is part of
  Index,      \* Index[n]: position of field n in its selection
  Below,      \* Below[n]: node n and everything below it
  On,         \* On[n]: the object type field n is selected on
  Name        \* Name[n]: the field

ASSUME TreeAssumption ==
  /\ Operation \subseteq Node
  /\ Element \subseteq Node \ Operation
  /\ Parent \in [Node \ Operation -> Node]
  /\ Index \in [Node -> Nat]

Field == Node \ (Operation \cup Element)

TypeRef(n) == FieldsOf[On[n]][Name[n]]
IsList(n)  == n \in Field /\ TypeRef(n).list

Children(n) == {c \in Node \ Operation : Parent[c] = n}

(* What makes the parts a tree: Below[n] is n and its descendants, a node    *)
(* lies below another only with its parent, none lies below itself, and two  *)
(* parts of one node share nothing.                                          *)
ASSUME BelowAssumption ==
  /\ Below \in [Node -> SUBSET Node]
  /\ \A n \in Node : Below[n] = {n} \cup UNION {Below[c] : c \in Children(n)}
  /\ \A n \in Node : \A m \in Below[n] : Below[m] \subseteq Below[n]
  /\ \A n \in Node : \A c \in Children(n) : n \notin Below[c]
  /\ \A n \in Node : \A m \in Below[n] \ {n} :
       m \notin Operation /\ Parent[m] \in Below[n]
  /\ \A n \in Node : \A c, d \in Children(n) : c # d => Below[c] \cap Below[d] = {}

(* Every field is one that its object type has, and the parts of a list are *)
(* its elements.                                                            *)
ASSUME SelectionAssumption ==
  /\ \A n \in Field : On[n] \in DOMAIN FieldsOf /\ Name[n] \in DOMAIN FieldsOf[On[n]]
  /\ \A n \in Node \ Operation : n \in Element <=> IsList(Parent[n])

VARIABLES
  op,       \* the request being served
  phase,    \* how often its handler was called, and whether it returned
  state,    \* state[n]: how far node n came
  given,    \* given[n]: what the resolver (or the struct field) gave
  null,     \* the nodes whose value is null
  invalids, \* invalids[n]: the counter Invalids of the field set of node n
  errors    \* errors[n]: the errors recorded at field n

vars == <<op, phase, state, given, null, invalids, errors>>

-----------------------------------------------------------------------------
(* What a field function may be given.                                      *)

(* A nullable field may be nil; introspectSchema always gives a schema.      *)
MayBeNil(n) == n \in Field /\ TypeRef(n).nullable /\ Name[n] # "__schema"

MayGive(n) ==
  {"value"}
    \cup (IF n \in Field /\ Name[n] \in Resolvers THEN {"error", "panic"} ELSE {})
    \cup (IF n \in Field /\ ArgumentsMayFail(Name[n]) THEN {"badargs"} ELSE {})
    \cup (IF MayBeNil(n) THEN {"nil"} ELSE {})

Failures == {"error", "panic", "badargs"}
Givens   == {"none", "value", "nil"} \cup Failures

(* One error for a failed call, one for a nil where the type forbids it.     *)
BugErrorsFor(n, g)   == IF g \in Failures \ {"panic"} THEN 1 ELSE 0
ErrorsFor(n, g) ==
  IF g \in Failures \/ (g = "nil" /\ ~MayBeNil(n)) THEN 1 ELSE 0

(* Whether the executor of the enclosing object counts a null of field n.    *)
Counted(n) == n \in Field /\ Name[n] \in Executor[On[n]].raises

-----------------------------------------------------------------------------
(* The order of a selection.  Fields run one after the other, except those  *)
(* that were left to Dispatch: these run together when the others are done. *)
(* The elements of a list run together.                                     *)

Together(n) == n \in Element \/ Name[n] \in Executor[On[n]].concurrent

BugBefore(m, n)     == ~Together(m) /\ Together(n)
BugBeforeSelf(m, n) == ~Together(m) /\ (Together(n) \/ Index[m] <= Index[n])
Before(m, n)        == ~Together(m) /\ (Together(n) \/ Index[m] < Index[n])

Ready(n) ==
  /\ n \notin Operation
  /\ state[Parent[n]] = "open"
  /\ \A m \in Children(Parent[n]) : Before(m, n) => state[m] = "done"

Init ==
  /\ op \in Operation
  /\ phase = "received"
  /\ state = [n \in Node |-> "new"]
  /\ given = [n \in Node |-> "none"]
  /\ null = {}
  /\ invalids = [n \in Node |-> 0]
  /\ errors = [n \in Node |-> 0]

(* Exec: the first call of the response handler executes the operation.      *)
Exec ==
  /\ phase = "received"
  /\ phase' = "executing"
  /\ state' = [state EXCEPT ![op] = "open"]
  /\ given' = [given EXCEPT ![op] = "value"]
  /\ UNCHANGED <<op, null, invalids, errors>>

(* A field function begins: its resolver is called, or its struct is read.   *)
Call(n) ==
  /\ state[n] = "new"
  /\ Ready(n)
  /\ state' = [state EXCEPT ![n] = "called"]
  /\ UNCHANGED <<op, phase, given, null, invalids, errors>>

(* Node n has its value: the executor of the enclosing object stores it and *)
(* counts it if it is a null it does not allow.                             *)
Count(n, isNull) ==
  invalids[Parent[n]] + (IF isNull /\ Counted(n) THEN 1 ELSE 0)

BugPublish(n, isNull) ==
  /\ state' = [state EXCEPT ![n] = "done"]
  /\ null' = IF isNull THEN null \cup {Parent[n]} ELSE null
  /\ invalids' = IF n \in Operation THEN invalids
                 ELSE [invalids EXCEPT ![Parent[n]] = Count(n, isNull)]
Publish(n, isNull) ==
  /\ state' = [state EXCEPT ![n] = "done"]
  /\ null' = IF isNull THEN null \cup {n} ELSE null
  /\ invalids' = IF n \in Operation THEN invalids
                 ELSE [invalids EXCEPT ![Parent[n]] = Count(n, isNull)]

(* The call failed, or gave nil.                                             *)
ReturnNull(n, g) ==
  /\ state[n] = "called"
  /\ g \in MayGive(n) \ {"value"}
  /\ given' = [given EXCEPT ![n] = g]
  /\ errors' = [errors EXCEPT ![n] = @ + ErrorsFor(n, g)]
  /\ Publish(n, TRUE)
  /\ UNCHANGED <<op, phase>>

(* The call gave a value, which is to be marshaled.                          *)
ReturnValue(n) ==
  /\ state[n] = "called"
  /\ given' = [given EXCEPT ![n] = "value"]
  /\ state' = [state EXCEPT ![n] = "open"]
  /\ UNCHANGED <<op, phase, null, invalids, errors>>

(* Everything below n is marshaled (wg.Wait returned).  A list is null if an *)
(* element is, an object if a null was counted.                             *)
BugWaited(n) == \E c \in Children(n) : state[c] = "done"
Waited(n)    == \A c \in Children(n) : state[c] = "done"

BecomesNull(n) ==
  IF IsList(n) THEN Children(n) \cap null # {} ELSE invalids[n] > 0

Marshal(n) ==
  /\ state[n] = "open"
  /\ Waited(n)
  /\ Publish(n, BecomesNull(n))
  /\ UNCHANGED <<op, phase, given, errors>>

(* The handler returns the data and the errors collected so far.             *)
Respond ==
  /\ phase = "executing"
  /\ state[op] = "done"
  /\ phase' = "answered"
  /\ UNCHANGED <<op, state, given, null, invalids, errors>>

(* A transport that asks for more responses (a websocket) calls the handler *)
(* again: first is false by then, and it has none.                          *)
BugNoMore == /\ phase' = "received"
             /\ state' = [n \in Node |-> "new"]
             /\ UNCHANGED <<op, given, null, invalids, errors>>
NoMore    == /\ phase' = "closed"
             /\ UNCHANGED <<op, state, given, null, invalids, errors>>

ExecAgain ==
  /\ phase = "answered"
  /\ NoMore

Step(n) ==
  \/ Call(n)
  \/ \E g \in Givens : ReturnNull(n, g)
  \/ ReturnValue(n)
  \/ Marshal(n)

Next ==
  \/ Exec
  \/ \E n \in Node : Step(n)
  \/ Respond
  \/ ExecAgain

Spec == Init /\ [][Next]_vars

(* Goroutines are scheduled and resolvers return.                            *)
Fairness ==
  /\ WF_vars(Exec)
  /\ \A n \in Node : WF_vars(Step(n))
  /\ WF_vars(Respond)

FairSpec == Spec /\ Fairness

-----------------------------------------------------------------------------
(* Properties.                                                               *)

Phases == {"received", "executing", "answered", "closed"}
States == {"new", "called", "open", "done"}

Running(n) == state[n] \in {"called", "open"}

(* Every variable has its type; only nodes that are done have a null value.  *)
TypeOK ==
  /\ op \in Operation
  /\ phase \in Phases
  /\ state \in [Node -> States]
  /\ given \in [Node -> Givens]
  /\ null \subseteq {n \in Node : state[n] = "done"}
  /\ invalids \in [Node -> Nat]
  /\ errors \in [Node -> Nat]

(* A value is null exactly when its resolver gave none or something below it *)
(* that the schema declares non-null is null: a lost or a doubled count, a   *)
(* field the executor forgot to count, or a goroutine that is late would     *)
(* break it (out.Invalids and atomic.AddUint32 in every executor, the loop   *)
(* after wg.Wait in every list marshaler).                                  *)
NullPropagation ==
  \A n \in Node : state[n] = "done" =>
    (n \in null
       <=> \/ given[n] # "value"
           \/ \E c \in Children(n) :
                /\ c \in null
                /\ c \in Element \/ ~TypeRef(c).nullable)

(* A null that its type does not allow comes with an error at or below it:   *)
(* a client that sees no error (the check of the k6 scripts) has all the     *)
(* data it asked for.                                                       *)
NullHasError ==
  \A n \in null :
    given[n] = "nil" \/ \E d \in Below[n] : errors[d] > 0

(* No goroutine of a request outlives its answer: what runs is never part of *)
(* a node that is done, and nothing runs once the response is out.           *)
Joined ==
  /\ \A n \in Node : state[n] = "done" => \A d \in Below[n] : ~Running(d)
  /\ phase \in {"answered", "closed"} => \A n \in Node : ~Running(n)

(* The mutations of one request run one after the other, in the order they   *)
(* were written, each with everything below it.                             *)
InOrder ==
  \A m, n \in Field :
    /\ Parent[m] = Parent[n]
    /\ On[m] = "Mutation" /\ On[n] = "Mutation"
    /\ Index[m] < Index[n]
    /\ state[n] # "new"
    => state[m] = "done" /\ \A d \in Below[m] : ~Running(d)

(* A resolver is called at most once for a request, however often the        *)
(* transport asks the handler for a response: an order is created once.      *)
NeverTwice == [][\A n \in Node : state[n] # "new" => state'[n] # "new"]_vars

(* Every request is answered: no join waits for a goroutine that was never   *)
(* started or has already counted itself out.                               *)
Answered == <>(phase = "answered")

================================================================================
