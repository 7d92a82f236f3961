--------------------------- MODULE GraphQLExec_proofs ---------------------------
(***************************************************************************)
(* Proofs about GraphQLExec for every set of requests: any tree of fields  *)
(* and list elements over the tables of GraphQLSchema, and any outcome of  *)
(* the resolvers in any order.                                             *)
(***************************************************************************)
EXTENDS GraphQLExec, TLAPS

-----------------------------------------------------------------------------
(* The tables.                                                              *)

(* The executor of every object type counts exactly the fields whose type   *)
(* is non-null: the two halves of the generated code agree.                 *)
LEMMA TablesAgree ==
  \A t \in DOMAIN FieldsOf : \A f \in DOMAIN FieldsOf[t] :
    f \in Executor[t].raises <=> ~FieldsOf[t][f].nullable
<1> USE DEF Serial, NonNullType, NullableType, ListOf, NString, NBoolean, NFloat,
            OString, NOrderItemList, NSimpleOrderList, NSimpleOrder, NCustomer,
            NFullOrder, NCreateOrderPayload, OType, OSchema, NType, NTypeList,
            NTypeKind, NInputValueList, NLocationList, NDirectiveList,
            OEnumValueList, OFieldList, OInputValueList, OTypeList
<1>1. ASSUME NEW f \in DOMAIN CreateOrderPayload
       PROVE f \in _CreateOrderPayload.raises <=> ~CreateOrderPayload[f].nullable
  BY <1>1 DEF CreateOrderPayload, _CreateOrderPayload
<1>2. ASSUME NEW f \in DOMAIN Customer
       PROVE f \in _Customer.raises <=> ~Customer[f].nullable
  BY <1>2 DEF Customer, _Customer
<1>3. ASSUME NEW f \in DOMAIN FullOrder
       PROVE f \in _FullOrder.raises <=> ~FullOrder[f].nullable
  BY <1>3 DEF FullOrder, _FullOrder
<1>4. ASSUME NEW f \in DOMAIN Mutation
       PROVE f \in _Mutation.raises <=> ~Mutation[f].nullable
  BY <1>4 DEF Mutation, _Mutation
<1>5. ASSUME NEW f \in DOMAIN OrderItem
       PROVE f \in _OrderItem.raises <=> ~OrderItem[f].nullable
  BY <1>5 DEF OrderItem, _OrderItem
<1>6. ASSUME NEW f \in DOMAIN Query
       PROVE f \in _Query.raises <=> ~Query[f].nullable
  BY <1>6 DEF Query, _Query
<1>7. ASSUME NEW f \in DOMAIN SimpleOrder
       PROVE f \in _SimpleOrder.raises <=> ~SimpleOrder[f].nullable
  BY <1>7 DEF SimpleOrder, _SimpleOrder
<1>8. ASSUME NEW f \in DOMAIN __Directive
       PROVE f \in ___Directive.raises <=> ~__Directive[f].nullable
  BY <1>8 DEF __Directive, ___Directive
<1>9. ASSUME NEW f \in DOMAIN __EnumValue
       PROVE f \in ___EnumValue.raises <=> ~__EnumValue[f].nullable
  BY <1>9 DEF __EnumValue, ___EnumValue
<1>10. ASSUME NEW f \in DOMAIN __Field
       PROVE f \in ___Field.raises <=> ~__Field[f].nullable
  BY <1>10 DEF __Field, ___Field
<1>11. ASSUME NEW f \in DOMAIN __InputValue
       PROVE f \in ___InputValue.raises <=> ~__InputValue[f].nullable
  BY <1>11 DEF __InputValue, ___InputValue
<1>12. ASSUME NEW f \in DOMAIN __Schema
       PROVE f \in ___Schema.raises <=> ~__Schema[f].nullable
  BY <1>12 DEF __Schema, ___Schema
<1>13. ASSUME NEW f \in DOMAIN __Type
       PROVE f \in ___Type.raises <=> ~__Type[f].nullable
  BY <1>13 DEF __Type, ___Type
<1> HIDE DEF Serial
<1>14. DOMAIN FieldsOf = {"CreateOrderPayload", "Customer", "FullOrder", "Mutation", "OrderItem", "Query", "SimpleOrder", "__Directive", "__EnumValue", "__Field", "__InputValue", "__Schema", "__Type"}
  BY DEF FieldsOf
<1>15. FieldsOf["CreateOrderPayload"] = CreateOrderPayload /\ Executor["CreateOrderPayload"] = _CreateOrderPayload
  BY DEF FieldsOf, Executor
<1>16. FieldsOf["Customer"] = Customer /\ Executor["Customer"] = _Customer
  BY DEF FieldsOf, Executor
<1>17. FieldsOf["FullOrder"] = FullOrder /\ Executor["FullOrder"] = _FullOrder
  BY DEF FieldsOf, Executor
<1>18. FieldsOf["Mutation"] = Mutation /\ Executor["Mutation"] = _Mutation
  BY DEF FieldsOf, Executor
<1>19. FieldsOf["OrderItem"] = OrderItem /\ Executor["OrderItem"] = _OrderItem
  BY DEF FieldsOf, Executor
<1>20. FieldsOf["Query"] = Query /\ Executor["Query"] = _Query
  BY DEF FieldsOf, Executor
<1>21. FieldsOf["SimpleOrder"] = SimpleOrder /\ Executor["SimpleOrder"] = _SimpleOrder
  BY DEF FieldsOf, Executor
<1>22. FieldsOf["__Directive"] = __Directive /\ Executor["__Directive"] = ___Directive
  BY DEF FieldsOf, Executor
<1>23. FieldsOf["__EnumValue"] = __EnumValue /\ Executor["__EnumValue"] = ___EnumValue
  BY DEF FieldsOf, Executor
<1>24. FieldsOf["__Field"] = __Field /\ Executor["__Field"] = ___Field
  BY DEF FieldsOf, Executor
<1>25. FieldsOf["__InputValue"] = __InputValue /\ Executor["__InputValue"] = ___InputValue
  BY DEF FieldsOf, Executor
<1>26. FieldsOf["__Schema"] = __Schema /\ Executor["__Schema"] = ___Schema
  BY DEF FieldsOf, Executor
<1>27. FieldsOf["__Type"] = __Type /\ Executor["__Type"] = ___Type
  BY DEF FieldsOf, Executor
<1> QED
  BY <1>1, <1>2, <1>3, <1>4, <1>5, <1>6, <1>7, <1>8, <1>9, <1>10, <1>11, <1>12, <1>13, <1>14, <1>15, <1>16, <1>17, <1>18, <1>19, <1>20, <1>21, <1>22, <1>23, <1>24, <1>25, <1>26, <1>27

(* A field is counted exactly when the schema declares it non-null.          *)
LEMMA CountedIffNonNull ==
  ASSUME NEW c \in Field
  PROVE Counted(c) <=> ~TypeRef(c).nullable
BY TablesAgree, SelectionAssumption DEF Counted, TypeRef

-----------------------------------------------------------------------------
(* The tree.                                                                 *)

LEMMA BelowSelf ==
  ASSUME NEW n \in Node
  PROVE n \in Below[n] /\ Below[n] \subseteq Node
BY BelowAssumption

LEMMA BelowChild ==
  ASSUME NEW n \in Node, NEW c \in Children(n)
  PROVE c \in Node /\ c \notin Operation /\ Parent[c] = n /\ Below[c] \subseteq Below[n]
        /\ c \in Below[n]
BY BelowAssumption DEF Children

LEMMA BelowSplit ==
  ASSUME NEW n \in Node, NEW d \in Below[n], d # n
  PROVE \E c \in Children(n) : d \in Below[c]
BY BelowAssumption

LEMMA BelowParent ==
  ASSUME NEW n \in Node, NEW d \in Below[n], d # n
  PROVE d \in Node /\ d \notin Operation /\ Parent[d] \in Below[n]
BY BelowAssumption

LEMMA ParentType ==
  ASSUME NEW n \in Node, n \notin Operation
  PROVE Parent[n] \in Node /\ n \in Children(Parent[n])
BY TreeAssumption DEF Children

-----------------------------------------------------------------------------
(* The inductive invariant.                                                  *)

(* Only a node that is open has anything running below it.                  *)
Quiet ==
  \A n \in Node : state[n] # "open" =>
    \A d \in Below[n] : d # n => ~Running(d)

(* What a node was given follows its progress, and so does its error.        *)
Progress ==
  \A n \in Node :
    /\ state[n] \in {"new", "called"} => given[n] = "none"
    /\ state[n] = "open" => given[n] = "value"
    /\ state[n] = "done" => given[n] # "none"
    /\ given[n] = "nil" => MayBeNil(n)

(* A node that was given a value is done only after everything in it.        *)
Complete ==
  \A n \in Node : state[n] = "done" /\ given[n] = "value" =>
    \A c \in Children(n) : state[c] = "done"

(* A node that is not open yet, or was given no value, has nothing in it.    *)
Untouched ==
  \A n \in Node : given[n] # "value" => \A c \in Children(n) : state[c] = "new"

(* The counter of an object tells whether a counted null is in it.           *)
Counter ==
  \A n \in Node :
    invalids[n] > 0 <=> \E c \in Children(n) : c \in null /\ Counted(c)

(* Fields that are not left to Dispatch run in their order.                  *)
Sequenced ==
  \A m, n \in Node \ Operation :
    Parent[m] = Parent[n] /\ Before(m, n) /\ state[n] # "new" => state[m] = "done"

(* One failure is reported once, whichever way it fails, and nothing else is *)
(* (the deferred recover, the returned error and "must not be null" of a     *)
(* field function are three places that can report it).                     *)
ErrorsExact ==
  \A n \in Node : errors[n] = IF given[n] \in Failures THEN 1 ELSE 0

(* Only the request that is served runs.                                     *)
OneRequest ==
  /\ \A n \in Node \ Below[op] : state[n] = "new"
  /\ phase \in {"answered", "closed"} => state[op] = "done"
  /\ phase = "received" => state[op] = "new"
  /\ \A n \in Operation : state[n] # "called"

IInv ==
  /\ TypeOK /\ Quiet /\ Progress /\ Complete /\ Untouched /\ Counter /\ Sequenced
  /\ OneRequest /\ NullPropagation /\ NullHasError /\ ErrorsExact

-----------------------------------------------------------------------------

LEMMA InitIInv == Init => IInv
<1> SUFFICES ASSUME Init PROVE IInv
  OBVIOUS
<1> USE TreeAssumption DEF Init
<1>1. TypeOK
  BY DEF TypeOK, Phases, States, Givens
<1>2. Quiet /\ Complete /\ Sequenced
  BY BelowSelf DEF Quiet, Complete, Sequenced, Running
<1>3. Progress /\ Untouched
  BY DEF Progress, Untouched, Children
<1>4. Counter
  BY DEF Counter
<1>5. OneRequest
  BY DEF OneRequest
<1>6. NullPropagation /\ NullHasError /\ ErrorsExact
  BY DEF NullPropagation, NullHasError, ErrorsExact, Failures
<1> QED
  BY <1>1, <1>2, <1>3, <1>4, <1>5, <1>6 DEF IInv

(* Whatever runs and is not the operation is in a node that is open.         *)
LEMMA InOpen ==
  ASSUME TypeOK, Quiet, OneRequest, NEW n \in Node, n \notin Operation, Running(n)
  PROVE /\ Parent[n] \in Node
        /\ Parent[n] # n
        /\ state[Parent[n]] = "open"
        /\ n \in Children(Parent[n])
<1>1. Parent[n] \in Node /\ n \in Children(Parent[n])
  BY ParentType
<1>2. n \in Below[Parent[n]]
  BY <1>1, BelowChild
<1>3. Parent[n] # n
  BY <1>1, BelowSelf, BelowAssumption
<1> QED
  BY <1>1, <1>2, <1>3 DEF Quiet

(* Exec opens the operation: nothing has run yet.                            *)
LEMMA ExecIInv == IInv /\ Exec => IInv'
<1> SUFFICES ASSUME IInv, Exec PROVE IInv'
  OBVIOUS
<1> USE DEF IInv, Exec
<1>0. /\ op \in Node /\ op \in Operation /\ state[op] = "new"
      /\ given[op] = "none" /\ op \notin null
  BY TreeAssumption DEF TypeOK, OneRequest, Progress
<1>1. TypeOK'
  BY <1>0 DEF TypeOK, Phases, States, Givens
<1>2. Quiet'
  <2> SUFFICES ASSUME NEW n \in Node, state'[n] # "open", NEW d \in Below[n], d # n
               PROVE ~Running(d)'
    BY DEF Quiet
  <2>1. d # op /\ d \in Node /\ n # op /\ state[n] # "open"
    BY <1>0, BelowParent DEF TypeOK
  <2>2. ~Running(d)
    BY <2>1 DEF Quiet
  <2> QED
    BY <2>1, <2>2 DEF Running, TypeOK
<1>3. Progress'
  BY <1>0 DEF Progress, TypeOK
<1>4. Complete'
  BY <1>0 DEF Complete, TypeOK, Children
<1>5. Untouched'
  BY <1>0 DEF Untouched, TypeOK, Children
<1>6. Counter'
  BY DEF Counter, Counted
<1>7. Sequenced'
  BY <1>0 DEF Sequenced, TypeOK
<1>8. OneRequest'
  BY <1>0, BelowSelf DEF OneRequest, TypeOK
<1>9. NullPropagation'
  BY <1>0 DEF NullPropagation, TypeOK
<1>10. NullHasError' /\ ErrorsExact'
  BY <1>0 DEF NullHasError, ErrorsExact, TypeOK, Failures
<1> QED
  BY <1>1, <1>2, <1>3, <1>4, <1>5, <1>6, <1>7, <1>8, <1>9, <1>10

(* A call begins only in a node that is open.                                *)
LEMMA CallIInv == ASSUME NEW n \in Node, IInv, Call(n) PROVE IInv'
<1> USE DEF IInv, Call
<1>0. /\ n \notin Operation /\ Parent[n] \in Node /\ n \in Children(Parent[n])
      /\ state[Parent[n]] = "open" /\ Parent[n] # n /\ n # op
  BY ParentType DEF Ready, TypeOK
<1>1. TypeOK'
  BY DEF TypeOK, States
<1>2. Quiet'
  <2> SUFFICES ASSUME NEW m \in Node, state'[m] # "open", NEW d \in Below[m], d # m
               PROVE ~Running(d)'
    BY DEF Quiet
  <2>1. state[m] # "open" /\ d \in Node
    BY BelowSelf DEF TypeOK
  <2>2. CASE d = n
    <3>1. Parent[n] \in Below[m]
      BY <2>2, BelowParent
    <3>2. Parent[n] # m
      BY <1>0, <2>1
    <3> QED
      BY <3>1, <3>2, <2>1, <1>0 DEF Quiet, Running
  <2>3. CASE d # n
    BY <2>1, <2>3 DEF Quiet, Running, TypeOK
  <2> QED
    BY <2>2, <2>3
<1>3. Progress'
  BY DEF Progress, TypeOK
<1>4. Complete'
  BY <1>0 DEF Complete, TypeOK, Children
<1>5. Untouched'
  BY <1>0 DEF Untouched, TypeOK, Children, Progress
<1>6. Counter'
  BY DEF Counter, Counted
<1>7. Sequenced'
  <2> SUFFICES ASSUME NEW m \in Node \ Operation, NEW k \in Node \ Operation,
                      Parent[m] = Parent[k], Before(m, k), state'[k] # "new"
               PROVE state'[m] = "done"
    BY DEF Sequenced, Before, Together
  <2>1. CASE k = n
    BY <2>1, <1>0 DEF Ready, Children, TypeOK
  <2>2. CASE k # n
    BY <2>2 DEF Sequenced, TypeOK
  <2> QED
    BY <2>1, <2>2
<1>8. OneRequest'
  <2>1. op \in Node /\ Parent[n] \in Below[op]
    BY <1>0, TreeAssumption DEF OneRequest, TypeOK
  <2>2. n \in Below[op]
    BY <2>1, <1>0, BelowChild, BelowAssumption
  <2> QED
    BY <2>1, <2>2, <1>0 DEF OneRequest, TypeOK
<1>9. NullPropagation'
  BY DEF NullPropagation, TypeOK
<1>10. NullHasError' /\ ErrorsExact'
  BY DEF NullHasError, ErrorsExact, TypeOK
<1> QED
  BY <1>1, <1>2, <1>3, <1>4, <1>5, <1>6, <1>7, <1>8, <1>9, <1>10

(* A call that gave a value opens its node.                                  *)
LEMMA ReturnValueIInv == ASSUME NEW n \in Node, IInv, ReturnValue(n) PROVE IInv'
<1> USE DEF IInv, ReturnValue
<1>0. given[n] = "none" /\ n \notin null /\ n \notin Operation
  BY DEF Progress, TypeOK, OneRequest
<1>1. TypeOK'
  BY DEF TypeOK, States, Givens
<1>2. Quiet'
  BY BelowSelf DEF Quiet, Running, TypeOK
<1>3. Progress'
  BY DEF Progress, TypeOK
<1>4. Complete'
  BY DEF Complete, TypeOK, Children
<1>5. Untouched'
  BY <1>0 DEF Untouched, TypeOK, Children
<1>6. Counter'
  BY DEF Counter, Counted
<1>7. Sequenced'
  BY DEF Sequenced, TypeOK
<1>8. OneRequest'
  BY <1>0 DEF OneRequest, TypeOK
<1>9. NullPropagation'
  BY DEF NullPropagation, TypeOK
<1>10. NullHasError' /\ ErrorsExact'
  BY <1>0 DEF NullHasError, ErrorsExact, TypeOK, Failures
<1> QED
  BY <1>1, <1>2, <1>3, <1>4, <1>5, <1>6, <1>7, <1>8, <1>9, <1>10

-----------------------------------------------------------------------------
(* A node that gets its value.  ReturnNull and Marshal both publish.         *)

LEMMA PublishCounter ==
  ASSUME NEW n \in Node, NEW isNull \in BOOLEAN, IInv, Running(n), Publish(n, isNull)
  PROVE Counter' /\ invalids' \in [Node -> Nat]
<1> USE DEF IInv, Publish
<1>0. n \notin null
  BY DEF TypeOK, Running
<1>1. CASE n \in Operation
  <2>1. \A m \in Node : n \notin Children(m)
    BY <1>1 DEF Children
  <2> QED
    BY <1>1, <2>1 DEF Counter, Counted, TypeOK
<1>2. CASE n \notin Operation
  <2> DEFINE p == Parent[n]
  <2>1. p \in Node /\ n \in Children(p) /\ \A m \in Node : n \in Children(m) => m = p
    BY <1>2, InOpen DEF Children
  <2>2. Count(n, isNull) \in Nat /\ invalids[p] \in Nat
    BY <2>1 DEF Count, TypeOK
  <2>3. invalids' \in [Node -> Nat]
    BY <1>2, <2>2 DEF TypeOK
  <2>4. ASSUME NEW m \in Node, m # p
        PROVE invalids'[m] > 0 <=> \E c \in Children(m) : c \in null' /\ Counted(c)
    <3>1. invalids'[m] = invalids[m]
      BY <2>4, <1>2 DEF TypeOK
    <3>2. \A c \in Children(m) : c \in null' <=> c \in null
      BY <2>1, <2>4
    <3> QED
      BY <3>1, <3>2 DEF Counter
  <2>5. invalids'[p] > 0 <=> \E c \in Children(p) : c \in null' /\ Counted(c)
    <3>1. invalids'[p] = Count(n, isNull)
      BY <1>2, <2>1 DEF TypeOK
    <3>2. CASE isNull /\ Counted(n)
      <4>1. Count(n, isNull) = invalids[p] + 1
        BY <3>2 DEF Count
      <4>2. invalids'[p] > 0
        BY <3>1, <4>1, <2>2
      <4>3. n \in null'
        BY <3>2
      <4> QED
        BY <3>2, <4>2, <4>3, <2>1
    <3>3. CASE ~(isNull /\ Counted(n))
      <4>1. Count(n, isNull) = invalids[p]
        BY <3>3, <2>2 DEF Count
      <4>2. \A c \in Children(p) : (c \in null' /\ Counted(c)) <=> (c \in null /\ Counted(c))
        BY <3>3
      <4>3. invalids[p] > 0 <=> \E c \in Children(p) : c \in null /\ Counted(c)
        BY <2>1 DEF Counter
      <4> QED
        BY <3>1, <4>1, <4>2, <4>3
    <3> QED
      BY <3>2, <3>3
  <2>6. Counter'
    BY <2>4, <2>5 DEF Counter, Counted
  <2> QED
    BY <2>3, <2>6
<1> QED
  BY <1>1, <1>2

LEMMA PublishOrder ==
  ASSUME NEW n \in Node, NEW isNull \in BOOLEAN, IInv, Running(n), Publish(n, isNull),
         op' = op, phase' = phase,
         \A d \in Below[n] : d # n => ~Running(d)
  PROVE Quiet' /\ Sequenced' /\ OneRequest'
<1> USE DEF IInv, Publish
<1>1. Quiet'
  BY BelowSelf DEF Quiet, Running, TypeOK
<1>2. Sequenced'
  BY DEF Sequenced, TypeOK, Before, Together, Running
<1>3. OneRequest'
  BY TreeAssumption DEF OneRequest, TypeOK, Running
<1> QED
  BY <1>1, <1>2, <1>3

LEMMA ReturnNullIInv ==
  ASSUME NEW n \in Node, NEW g \in Givens, IInv, ReturnNull(n, g)
  PROVE IInv'
<1> USE DEF IInv, ReturnNull
<1>0. /\ given[n] = "none" /\ errors[n] = 0 /\ n \notin null /\ n \notin Operation
      /\ Running(n) /\ state[n] = "called"
      /\ g # "value" /\ g # "none" /\ (g = "nil" => MayBeNil(n))
  <2>1. given[n] = "none" /\ n \notin null /\ n \notin Operation /\ Running(n)
    BY DEF Progress, TypeOK, OneRequest, Running
  <2>2. errors[n] = 0
    BY <2>1 DEF ErrorsExact, Failures
  <2>3. g \in MayGive(n) /\ g # "value"
    OBVIOUS
  <2>4. g # "none" /\ (g = "nil" => MayBeNil(n))
    BY <2>3 DEF MayGive
  <2> QED
    BY <2>1, <2>2, <2>3, <2>4
<1>a. Publish(n, TRUE) /\ op' = op /\ phase' = phase
  OBVIOUS
<1>b. ErrorsFor(n, g) = IF g \in Failures THEN 1 ELSE 0
  BY <1>0 DEF ErrorsFor
<1>c. errors' = [errors EXCEPT ![n] = IF g \in Failures THEN 1 ELSE 0]
  BY <1>0, <1>b DEF TypeOK
<1>d. state' = [state EXCEPT ![n] = "done"] /\ null' = null \cup {n}
  BY DEF Publish
<1>e. Counter' /\ invalids' \in [Node -> Nat]
  BY <1>0, <1>a, PublishCounter
<1>f. Quiet' /\ Sequenced' /\ OneRequest'
  BY <1>0, <1>a, PublishOrder DEF Quiet
<1>1. TypeOK'
  <2>1. state' \in [Node -> States] /\ given' \in [Node -> Givens] /\ errors' \in [Node -> Nat]
    BY <1>c, <1>d DEF TypeOK, States
  <2>2. null' \subseteq {m \in Node : state'[m] = "done"}
    BY <1>d DEF TypeOK
  <2> QED
    BY <1>a, <1>e, <2>1, <2>2 DEF TypeOK
<1>2. Progress'
  BY <1>0, <1>d DEF Progress, TypeOK, MayBeNil
<1>3. Complete'
  BY <1>0, <1>d DEF Complete, TypeOK, Children
<1>4. Untouched'
  <2> SUFFICES ASSUME NEW m \in Node, given'[m] # "value", NEW c \in Children(m)
               PROVE state'[c] = "new"
    BY DEF Untouched, Children
  <2>1. given[m] # "value"
    BY <1>0 DEF TypeOK
  <2>2. c # n
    BY <2>1, <1>0, InOpen DEF Children, Progress
  <2> QED
    BY <2>1, <2>2, <1>d, BelowChild DEF Untouched, TypeOK
<1>5. NullPropagation'
  <2> SUFFICES ASSUME NEW m \in Node, state'[m] = "done"
               PROVE m \in null' <=> \/ given'[m] # "value"
                                     \/ \E c \in Children(m) :
                                          /\ c \in null'
                                          /\ c \in Element \/ ~TypeRef(c).nullable
    BY DEF NullPropagation, Children, TypeRef
  <2>1. CASE m = n
    BY <2>1, <1>0, <1>d DEF TypeOK
  <2>2. CASE m # n
    <3>1. state[m] = "done" /\ given'[m] = given[m] /\ (m \in null' <=> m \in null)
      BY <2>2, <1>d DEF TypeOK
    <3>2. n \notin Children(m)
      BY <3>1, <1>0, InOpen DEF Children
    <3> QED
      BY <3>1, <3>2, <1>d DEF NullPropagation
  <2> QED
    BY <2>1, <2>2
<1>6. NullHasError'
  <2> SUFFICES ASSUME NEW m \in null'
               PROVE given'[m] = "nil" \/ \E d \in Below[m] : errors'[d] > 0
    BY DEF NullHasError
  <2>1. CASE m = n
    <3>1. CASE g \in Failures
      BY <2>1, <3>1, <1>c, BelowSelf DEF TypeOK
    <3>2. CASE g \notin Failures
      BY <2>1, <3>2, <1>0 DEF Givens, TypeOK
    <3> QED
      BY <3>1, <3>2
  <2>2. CASE m # n
    BY <2>2, <1>0, <1>c, <1>d, BelowSelf DEF NullHasError, TypeOK
  <2> QED
    BY <2>1, <2>2
<1>7. ErrorsExact'
  BY <1>c DEF ErrorsExact, TypeOK, Failures
<1> QED
  BY <1>e, <1>f, <1>1, <1>2, <1>3, <1>4, <1>5, <1>6, <1>7

(* A node that is marshaled is null exactly when something non-null in it is. *)
LEMMA BecomesNullExact ==
  ASSUME NEW n \in Node, IInv
  PROVE BecomesNull(n)
          <=> \E c \in Children(n) : c \in null /\ (c \in Element \/ ~TypeRef(c).nullable)
<1> USE DEF IInv
<1>1. \A c \in Children(n) : /\ c \in Node \ Operation
                             /\ c \in Element <=> IsList(n)
                             /\ c \notin Element => c \in Field
  BY SelectionAssumption DEF Children, Field
<1>2. CASE IsList(n)
  BY <1>1, <1>2 DEF BecomesNull
<1>3. CASE ~IsList(n)
  <2>1. BecomesNull(n) <=> \E c \in Children(n) : c \in null /\ Counted(c)
    BY <1>3 DEF BecomesNull, Counter
  <2>2. \A c \in Children(n) : Counted(c) <=> ~TypeRef(c).nullable
    BY <1>1, <1>3, CountedIffNonNull
  <2> QED
    BY <2>1, <2>2, <1>1, <1>3
<1> QED
  BY <1>2, <1>3

LEMMA MarshalIInv == ASSUME NEW n \in Node, IInv, Marshal(n) PROVE IInv'
<1> USE DEF IInv
<1>0. /\ state[n] = "open" /\ given[n] = "value" /\ n \notin null /\ Running(n)
      /\ \A c \in Children(n) : state[c] = "done"
  BY DEF Marshal, Waited, Progress, TypeOK, Running
<1>a. /\ op' = op /\ phase' = phase /\ given' = given /\ errors' = errors
      /\ Publish(n, BecomesNull(n)) /\ BecomesNull(n) \in BOOLEAN
  <2>1. BecomesNull(n) \in BOOLEAN
    <3>1. CASE IsList(n)
      BY <3>1 DEF BecomesNull
    <3>2. CASE ~IsList(n)
      <4>1. BecomesNull(n) = (invalids[n] > 0)
        BY <3>2 DEF BecomesNull
      <4> QED
        BY <4>1
    <3> QED
      BY <3>1, <3>2
  <2> QED
    BY <2>1 DEF Marshal
<1>b. \A d \in Below[n] : d # n => ~Running(d)
  <2> SUFFICES ASSUME NEW d \in Below[n], d # n PROVE ~Running(d)
    OBVIOUS
  <2>1. PICK c \in Children(n) : d \in Below[c]
    BY BelowSplit
  <2>2. c \in Node /\ state[c] = "done"
    BY <1>0, BelowChild
  <2> QED
    BY <2>1, <2>2 DEF Quiet, Running
<1>d. /\ state' = [state EXCEPT ![n] = "done"]
      /\ null' = IF BecomesNull(n) THEN null \cup {n} ELSE null
  BY <1>a DEF Publish
<1>e. Counter' /\ invalids' \in [Node -> Nat]
  BY <1>0, <1>a, PublishCounter
<1>f. Quiet' /\ Sequenced' /\ OneRequest'
  BY <1>0, <1>a, <1>b, PublishOrder
<1>1. TypeOK'
  BY <1>a, <1>d, <1>e DEF TypeOK, States
<1>2. Progress'
  BY <1>0, <1>a, <1>d DEF Progress, TypeOK, MayBeNil
<1>3. Complete'
  BY <1>0, <1>a, <1>d DEF Complete, TypeOK, Children
<1>4. Untouched'
  <2> SUFFICES ASSUME NEW m \in Node, given[m] # "value", NEW c \in Children(m)
               PROVE state'[c] = "new"
    BY <1>a DEF Untouched, Children
  <2>1. state[c] = "new"
    BY DEF Untouched
  <2> QED
    BY <2>1, <1>0, <1>d, BelowChild DEF TypeOK
<1>5. NullPropagation'
  <2> SUFFICES ASSUME NEW m \in Node, state'[m] = "done"
               PROVE m \in null' <=> \/ given[m] # "value"
                                     \/ \E c \in Children(m) :
                                          /\ c \in null'
                                          /\ c \in Element \/ ~TypeRef(c).nullable
    BY <1>a DEF NullPropagation, Children, TypeRef
  <2>1. CASE m = n
    <3>1. n \in null' <=> BecomesNull(n)
      BY <1>0, <1>d
    <3>2. \A c \in Children(n) : c \in null' <=> c \in null
      BY <1>d, BelowAssumption, BelowSelf
    <3> QED
      BY <2>1, <3>1, <3>2, <1>0, BecomesNullExact
  <2>2. CASE m # n
    <3>1. state[m] = "done" /\ (m \in null' <=> m \in null)
      BY <2>2, <1>d DEF TypeOK
    <3>2. \A c \in Children(m) : c \in null' <=> c \in null
      <4> SUFFICES ASSUME n \in Children(m) PROVE FALSE
        BY <1>d
      <4> QED
        BY <3>1, <1>0, BelowChild DEF Quiet
    <3> QED
      BY <3>1, <3>2 DEF NullPropagation
  <2> QED
    BY <2>1, <2>2
<1>6. NullHasError'
  <2> SUFFICES ASSUME NEW m \in null'
               PROVE given[m] = "nil" \/ \E d \in Below[m] : errors[d] > 0
    BY <1>a DEF NullHasError
  <2>1. CASE m \in null
    BY <2>1 DEF NullHasError
  <2>2. CASE m \notin null
    <3>1. m = n /\ BecomesNull(n)
      BY <2>2, <1>d
    <3>2. PICK c \in Children(n) : c \in null /\ (c \in Element \/ ~TypeRef(c).nullable)
      BY <3>1, BecomesNullExact
    <3>3. c \in Node /\ Below[c] \subseteq Below[n]
      BY BelowChild
    <3>4. given[c] # "nil"
      BY <3>2, <3>3 DEF Progress, MayBeNil, Field
    <3>5. \E d \in Below[c] : errors[d] > 0
      BY <3>2, <3>4 DEF NullHasError
    <3> QED
      BY <3>1, <3>3, <3>5
  <2> QED
    BY <2>1, <2>2
<1>7. ErrorsExact'
  BY <1>a DEF ErrorsExact
<1> QED
  BY <1>e, <1>f, <1>1, <1>2, <1>3, <1>4, <1>5, <1>6, <1>7

(* The answer, and the call that finds none.                                 *)
LEMMA EndIInv == IInv /\ (Respond \/ ExecAgain) => IInv'
<1> SUFFICES ASSUME IInv, Respond \/ ExecAgain PROVE IInv'
  OBVIOUS
<1> USE DEF IInv, Respond, ExecAgain, NoMore
<1>1. TypeOK'
  BY DEF TypeOK, Phases
<1>2. Quiet' /\ Complete' /\ Sequenced'
  BY DEF Quiet, Complete, Sequenced, Running, Before, Together, Children
<1>3. Progress' /\ Untouched' /\ Counter'
  BY DEF Progress, Untouched, Counter, Counted, MayBeNil, Children
<1>4. OneRequest'
  BY DEF OneRequest
<1>5. NullPropagation' /\ NullHasError' /\ ErrorsExact'
  BY DEF NullPropagation, NullHasError, ErrorsExact, Children, TypeRef
<1> QED
  BY <1>1, <1>2, <1>3, <1>4, <1>5

LEMMA StutterIInv == IInv /\ UNCHANGED vars => IInv'
<1> SUFFICES ASSUME IInv, UNCHANGED vars PROVE IInv'
  OBVIOUS
<1> USE DEF IInv, vars
<1>1. TypeOK'
  BY DEF TypeOK
<1>2. Quiet' /\ Complete' /\ Sequenced'
  BY DEF Quiet, Complete, Sequenced, Running, Before, Together, Children
<1>3. Progress' /\ Untouched' /\ Counter'
  BY DEF Progress, Untouched, Counter, Counted, MayBeNil, Children
<1>4. OneRequest'
  BY DEF OneRequest
<1>5. NullPropagation' /\ NullHasError' /\ ErrorsExact'
  BY DEF NullPropagation, NullHasError, ErrorsExact, Children, TypeRef
<1> QED
  BY <1>1, <1>2, <1>3, <1>4, <1>5

-----------------------------------------------------------------------------

(* The inductive invariant holds in every reachable state.                   *)
THEOREM Inductive == Spec => []IInv
<1>1. IInv /\ [Next]_vars => IInv'
  BY ExecIInv, CallIInv, ReturnValueIInv, ReturnNullIInv, MarshalIInv, EndIInv,
     StutterIInv DEF Next, Step
<1> QED
  BY InitIInv, <1>1, PTL DEF Spec

(* Type correctness of the executor, for every request.                      *)
THEOREM TypeCorrect == Spec => []TypeOK
BY Inductive, PTL DEF IInv

(* The nulls of a response are those the schema asks for, in every order in  *)
(* which the goroutines may run.                                            *)
THEOREM Propagated == Spec => []NullPropagation
BY Inductive, PTL DEF IInv

(* No value is missing without an error, and no failure is reported twice or *)
(* not at all.                                                               *)
THEOREM Accounted == Spec => [](NullHasError /\ ErrorsExact)
BY Inductive, PTL DEF IInv

(* No goroutine of a request runs once its part, or the request, is done.    *)
THEOREM AllJoined == Spec => []Joined
<1>1. IInv => Joined
  <2> SUFFICES ASSUME IInv PROVE Joined
    OBVIOUS
  <2> USE DEF IInv
  <2>1. ASSUME NEW n \in Node, state[n] = "done", NEW d \in Below[n]
        PROVE ~Running(d)
    BY <2>1 DEF Quiet, Running
  <2>2. ASSUME phase \in {"answered", "closed"}, NEW n \in Node
        PROVE ~Running(n)
    <3>1. op \in Node /\ state[op] = "done"
      BY <2>2, TreeAssumption DEF OneRequest, TypeOK
    <3> QED
      BY <2>1, <3>1 DEF OneRequest, Running
  <2> QED
    BY <2>1, <2>2 DEF Joined
<1> QED
  BY Inductive, <1>1, PTL

(* The mutations of a request run one after the other.                       *)
THEOREM MutationsInOrder == Spec => []InOrder
<1>1. IInv => InOrder
  <2> SUFFICES ASSUME IInv, NEW m \in Field, NEW n \in Field, Parent[m] = Parent[n],
                      On[n] = "Mutation", On[m] = On[n],
                      Index[m] < Index[n], state[n] # "new"
               PROVE state[m] = "done" /\ \A d \in Below[m] : ~Running(d)
    BY DEF InOrder
  <2> USE DEF IInv
  <2>1. ~Together(m)
    BY DEF Together, Field, Executor, _Mutation, Serial
  <2>2. Before(m, n) /\ m \in Node \ Operation /\ n \in Node \ Operation
    BY <2>1 DEF Before, Field
  <2>3. state[m] = "done"
    BY <2>2 DEF Sequenced
  <2> QED
    BY <2>2, <2>3 DEF Quiet, Running
<1> QED
  BY Inductive, <1>1, PTL

(* A resolver is called once at most.                                        *)
THEOREM CalledOnce == Spec => NeverTwice
<1>1. IInv /\ [Next]_vars => [\A n \in Node : state[n] # "new" => state'[n] # "new"]_vars
  <2> SUFFICES ASSUME IInv, Next, NEW n \in Node, state[n] # "new"
               PROVE state'[n] # "new"
    OBVIOUS
  <2> USE DEF IInv, TypeOK
  <2>1. CASE Exec
    BY <2>1 DEF Exec
  <2>2. ASSUME NEW m \in Node, Step(m) PROVE state'[n] # "new"
    BY <2>2 DEF Step, Call, ReturnNull, ReturnValue, Marshal, Publish
  <2>3. CASE Respond \/ ExecAgain
    BY <2>3 DEF Respond, ExecAgain, NoMore
  <2> QED
    BY <2>1, <2>2, <2>3 DEF Next
<1> QED
  BY Inductive, <1>1, PTL DEF Spec, NeverTwice

-----------------------------------------------------------------------------
(* What a response owes to each failure, and what it does not owe to the     *)
(* order in which the goroutines ran.                                        *)

(* A null of node m makes the node that m is part of null.                   *)
Passes(m) == m \in Element \/ ~TypeRef(m).nullable

(* What was called and gave no value.                                        *)
Failed(d) == given[d] \notin {"none", "value"}

(* Everything between d, with d, and n, without n, passes a null on.         *)
Carried(d, n) == \A m \in Below[n] \ {n} : d \in Below[m] => Passes(m)

(* A value is null exactly when a call at or below it gave none and no field *)
(* on the way up could hold the null: NullPropagation, over any distance.    *)
Responsible ==
  \A n \in Node : state[n] = "done" =>
    (n \in null <=> \E d \in Below[n] : Failed(d) /\ Carried(d, n))

(* What runs lies in nodes that all gave a value.                            *)
Entered ==
  \A n \in Node : state[n] # "new" =>
    \A a \in Node : n \in Below[a] /\ n # a => given[a] = "value"

(* A node that is done leaves nothing out: whatever lies below it, in nodes  *)
(* none of which failed, is done.                                            *)
LeavesNothing ==
  \A n \in Node : state[n] = "done" =>
    \A d \in Below[n] :
      (\A a \in Below[n] : d \in Below[a] /\ d # a => ~Failed(a)) => state[d] = "done"

PathInv == Responsible /\ Entered /\ LeavesNothing

(* Two nodes do not lie below each other.                                    *)
LEMMA BelowAntisymmetric ==
  ASSUME NEW n \in Node, NEW m \in Below[n], n \in Below[m]
  PROVE m = n
<1> SUFFICES ASSUME m # n PROVE FALSE
  OBVIOUS
<1>1. PICK c \in Children(n) : m \in Below[c]
  BY BelowSplit
<1>2. c \in Node /\ n \notin Below[c]
  BY <1>1, BelowChild, BelowAssumption
<1> QED
  BY <1>1, <1>2, BelowAssumption

(* A failure is carried to n if it is carried to a part of n that passes it  *)
(* on, and not otherwise.                                                    *)
LEMMA CarriedUp ==
  ASSUME NEW n \in Node, NEW c \in Children(n), NEW d \in Below[c]
  PROVE Carried(d, n) <=> Carried(d, c) /\ Passes(c)
<1>1. c \in Node /\ c \in Below[n] /\ Below[c] \subseteq Below[n] /\ n \notin Below[c]
  BY BelowChild, BelowAssumption
<1>2. ASSUME Carried(d, n) PROVE Carried(d, c) /\ Passes(c)
  BY <1>1, <1>2 DEF Carried
<1>3. ASSUME Carried(d, c), Passes(c) PROVE Carried(d, n)
  <2> SUFFICES ASSUME NEW m \in Below[n], m # n, d \in Below[m] PROVE Passes(m)
    BY DEF Carried
  <2>1. PICK b \in Children(n) : m \in Below[b]
    BY BelowSplit
  <2>2. d \in Below[b]
    BY <2>1, BelowChild, BelowAssumption
  <2>3. b = c
    BY <2>2, BelowAssumption
  <2>4. CASE m = c
    BY <2>4, <1>3
  <2>5. CASE m # c
    BY <2>1, <2>3, <2>5, <1>3 DEF Carried
  <2> QED
    BY <2>4, <2>5
<1> QED
  BY <1>2, <1>3

(* Nothing that is called or given changes below a node that is done.        *)
LEMMA DoneIsStill ==
  ASSUME TypeOK, Quiet, NEW n \in Node, Running(n), NEW m \in Node, state[m] = "done"
  PROVE n \notin Below[m]
BY DEF Quiet, Running

LEMMA InitPath == Init => PathInv
BY DEF Init, PathInv, Responsible, Entered, LeavesNothing

LEMMA ExecPath == IInv /\ PathInv /\ Exec => PathInv'
<1> SUFFICES ASSUME IInv, PathInv, Exec PROVE PathInv'
  OBVIOUS
<1> USE DEF IInv, PathInv, Exec
<1>1. op \in Node /\ op \in Operation /\ state[op] = "new" /\ given[op] = "none"
  BY TreeAssumption DEF TypeOK, OneRequest, Progress
<1>2. \A m \in Node : state'[m] = "done" => state[m] = "done" /\ m # op
  BY <1>1 DEF TypeOK
<1>3. \A m \in Node : Failed(m)' <=> Failed(m)
  BY <1>1 DEF Failed, TypeOK
<1>4. Responsible'
  BY <1>2, <1>3, BelowSelf DEF Responsible, Carried, Passes, TypeRef
<1>5. Entered'
  <2> SUFFICES ASSUME NEW n \in Node, state'[n] # "new", NEW a \in Node,
                      n \in Below[a], n # a
               PROVE given'[a] = "value"
    BY DEF Entered
  <2>1. n # op
    BY <1>1, BelowParent
  <2> QED
    BY <2>1 DEF Entered, TypeOK
<1>6. LeavesNothing'
  <2> SUFFICES ASSUME NEW n \in Node, state'[n] = "done", NEW d \in Below[n],
                      \A a \in Below[n] : d \in Below[a] /\ d # a => ~Failed(a)'
               PROVE state'[d] = "done"
    BY DEF LeavesNothing
  <2>1. op \notin Below[n] /\ d \in Node
    BY <1>1, <1>2, BelowParent, BelowSelf
  <2>2. \A a \in Below[n] : Failed(a)' <=> Failed(a)
    BY <1>3, BelowSelf
  <2> QED
    BY <1>2, <2>1, <2>2 DEF LeavesNothing, TypeOK
<1> QED
  BY <1>4, <1>5, <1>6

LEMMA CallPath == ASSUME NEW n \in Node, IInv, PathInv, Call(n) PROVE PathInv'
<1> USE DEF IInv, PathInv, Call
<1>1. /\ n \notin Operation /\ Parent[n] \in Node /\ n \in Children(Parent[n])
      /\ state[Parent[n]] = "open" /\ given[Parent[n]] = "value"
  BY ParentType DEF Ready, TypeOK, Progress
<1>2. \A m \in Node : state'[m] = "done" <=> state[m] = "done"
  BY DEF TypeOK
<1>3. Responsible'
  BY <1>2 DEF Responsible, Carried, Passes, TypeRef, Failed
<1>4. Entered'
  <2> SUFFICES ASSUME NEW m \in Node, state'[m] # "new", NEW a \in Node,
                      m \in Below[a], m # a
               PROVE given[a] = "value"
    BY DEF Entered
  <2>1. CASE m # n
    BY <2>1 DEF Entered, TypeOK
  <2>2. CASE m = n
    <3>1. Parent[n] \in Below[a]
      BY <2>2, BelowParent
    <3>2. CASE Parent[n] = a
      BY <3>2, <1>1
    <3>3. CASE Parent[n] # a
      BY <3>1, <3>3, <1>1 DEF Entered
    <3> QED
      BY <3>2, <3>3
  <2> QED
    BY <2>1, <2>2
<1>5. LeavesNothing'
  BY <1>2, BelowSelf DEF LeavesNothing, Failed
<1> QED
  BY <1>3, <1>4, <1>5

LEMMA ReturnValuePath ==
  ASSUME NEW n \in Node, IInv, PathInv, ReturnValue(n) PROVE PathInv'
<1> USE DEF IInv, PathInv, ReturnValue
<1>1. given[n] = "none" /\ Running(n)
  BY DEF Progress, Running
<1>2. \A m \in Node : state'[m] = "done" <=> state[m] = "done"
  BY DEF TypeOK
<1>3. \A m \in Node : (Failed(m)' <=> Failed(m)) /\ (given[m] = "value" => given'[m] = "value")
  BY <1>1 DEF TypeOK, Failed
<1>4. Responsible'
  BY <1>2, <1>3, BelowSelf DEF Responsible, Carried, Passes, TypeRef
<1>5. Entered'
  BY <1>3 DEF Entered, TypeOK
<1>6. LeavesNothing'
  <2> SUFFICES ASSUME NEW m \in Node, state[m] = "done", NEW d \in Below[m],
                      \A a \in Below[m] : d \in Below[a] /\ d # a => ~Failed(a)'
               PROVE state[d] = "done"
    BY <1>2, BelowSelf DEF LeavesNothing
  <2> QED
    BY <1>3, BelowSelf DEF LeavesNothing
<1> QED
  BY <1>4, <1>5, <1>6

LEMMA ReturnNullPath ==
  ASSUME NEW n \in Node, NEW g \in Givens, IInv, PathInv, ReturnNull(n, g)
  PROVE PathInv'
<1> USE DEF IInv, PathInv
<1>1. /\ given[n] = "none" /\ Running(n) /\ state[n] # "new" /\ n \notin null
      /\ g # "none" /\ g # "value"
  <2>1. state[n] = "called" /\ g \in MayGive(n) \ {"value"}
    BY DEF ReturnNull
  <2> QED
    BY <2>1 DEF Progress, Running, MayGive, TypeOK
<1>2. /\ state' = [state EXCEPT ![n] = "done"] /\ given' = [given EXCEPT ![n] = g]
      /\ null' = null \cup {n}
  BY DEF ReturnNull, Publish
<1>3. ASSUME NEW m \in Node, m # n, state'[m] = "done"
      PROVE /\ state[m] = "done" /\ n \notin Below[m]
            /\ \A d \in Below[m] : given'[d] = given[d] /\ (Failed(d)' <=> Failed(d))
            /\ m \in null' <=> m \in null
  <2>1. state[m] = "done"
    BY <1>2, <1>3 DEF TypeOK
  <2>2. n \notin Below[m]
    BY <1>1, <2>1, DoneIsStill
  <2> QED
    BY <1>2, <1>3, <2>1, <2>2, BelowSelf DEF TypeOK, Failed
<1>4. Responsible'
  <2> SUFFICES ASSUME NEW m \in Node, state'[m] = "done"
               PROVE m \in null' <=> \E d \in Below[m] : Failed(d)' /\ Carried(d, m)
    BY DEF Responsible, Carried, Passes, TypeRef
  <2>1. CASE m = n
    <3>1. Failed(n)' /\ n \in Below[n]
      BY <1>1, <1>2, BelowSelf DEF Failed, TypeOK
    <3>2. Carried(n, n)
      BY BelowAntisymmetric DEF Carried
    <3> QED
      BY <2>1, <3>1, <3>2, <1>2
  <2>2. CASE m # n
    BY <2>2, <1>3 DEF Responsible
  <2> QED
    BY <2>1, <2>2
<1>5. Entered'
  <2> SUFFICES ASSUME NEW m \in Node, state'[m] # "new", NEW a \in Node,
                      m \in Below[a], m # a
               PROVE given'[a] = "value"
    BY DEF Entered
  <2>1. state[m] # "new"
    BY <1>1, <1>2 DEF TypeOK
  <2> QED
    BY <2>1, <1>1, <1>2 DEF Entered, TypeOK
<1>6. LeavesNothing'
  <2> SUFFICES ASSUME NEW m \in Node, state'[m] = "done", NEW d \in Below[m],
                      \A a \in Below[m] : d \in Below[a] /\ d # a => ~Failed(a)'
               PROVE state'[d] = "done"
    BY DEF LeavesNothing
  <2>1. d \in Node
    BY BelowSelf
  <2>2. CASE m = n
    BY <2>1, <2>2, <1>1, <1>2, BelowSelf DEF TypeOK, Failed
  <2>3. CASE m # n
    BY <2>1, <2>3, <1>2, <1>3 DEF LeavesNothing, TypeOK
  <2> QED
    BY <2>2, <2>3
<1> QED
  BY <1>4, <1>5, <1>6

LEMMA MarshalPath ==
  ASSUME NEW n \in Node, IInv, PathInv, Marshal(n) PROVE PathInv'
<1> USE DEF IInv, PathInv
<1>1. /\ given[n] = "value" /\ Running(n) /\ n \notin null
      /\ \A c \in Children(n) : c \in Node /\ state[c] = "done"
  BY DEF Marshal, Waited, Progress, Running, TypeOK, Children
<1>2. /\ state' = [state EXCEPT ![n] = "done"] /\ given' = given
      /\ null' = IF BecomesNull(n) THEN null \cup {n} ELSE null
  BY DEF Marshal, Publish
<1>3. \A d \in Node : Failed(d)' <=> Failed(d)
  BY <1>2 DEF Failed
<1>4. n \in null' <=> \E d \in Below[n] : Failed(d) /\ Carried(d, n)
  <2>1. n \in null' <=> \E c \in Children(n) : c \in null /\ Passes(c)
    BY <1>1, <1>2, BecomesNullExact DEF Passes
  <2>2. ASSUME NEW c \in Children(n), c \in null, Passes(c)
        PROVE \E d \in Below[n] : Failed(d) /\ Carried(d, n)
    <3>1. PICK d \in Below[c] : Failed(d) /\ Carried(d, c)
      BY <1>1, <2>2 DEF Responsible
    <3> QED
      BY <2>2, <3>1, CarriedUp, BelowChild
  <2>3. ASSUME NEW d \in Below[n], Failed(d), Carried(d, n)
        PROVE \E c \in Children(n) : c \in null /\ Passes(c)
    <3>1. d # n
      BY <2>3, <1>1 DEF Failed
    <3>2. PICK c \in Children(n) : d \in Below[c]
      BY <3>1, BelowSplit
    <3>3. Carried(d, c) /\ Passes(c)
      BY <2>3, <3>2, CarriedUp
    <3>4. c \in null
      BY <1>1, <2>3, <3>2, <3>3 DEF Responsible
    <3> QED
      BY <3>3, <3>4
  <2> QED
    BY <2>1, <2>2, <2>3
<1>5. Responsible'
  <2> SUFFICES ASSUME NEW m \in Node, state'[m] = "done"
               PROVE m \in null' <=> \E d \in Below[m] : Failed(d) /\ Carried(d, m)
    BY <1>2 DEF Responsible, Carried, Passes, TypeRef, Failed
  <2>1. CASE m = n
    BY <2>1, <1>4
  <2>2. CASE m # n
    BY <2>2, <1>2 DEF Responsible, TypeOK
  <2> QED
    BY <2>1, <2>2
<1>6. Entered'
  BY <1>1, <1>2 DEF Entered, TypeOK, Running
<1>7. LeavesNothing'
  <2> SUFFICES ASSUME NEW m \in Node, state'[m] = "done", NEW d \in Below[m],
                      \A a \in Below[m] : d \in Below[a] /\ d # a => ~Failed(a)
               PROVE state'[d] = "done"
    BY <1>2 DEF LeavesNothing, Failed
  <2>1. d \in Node
    BY BelowSelf
  <2>2. CASE m # n
    BY <2>1, <2>2, <1>2 DEF LeavesNothing, TypeOK
  <2>3. CASE d = n
    BY <2>1, <2>3, <1>2 DEF TypeOK
  <2>4. CASE m = n /\ d # n
    <3>1. PICK c \in Children(n) : d \in Below[c]
      BY <2>4, BelowSplit
    <3>2. state[d] = "done"
      BY <2>4, <3>1, <1>1, BelowChild DEF LeavesNothing
    <3> QED
      BY <2>1, <2>4, <3>2, <1>2 DEF TypeOK
  <2> QED
    BY <2>2, <2>3, <2>4
<1> QED
  BY <1>5, <1>6, <1>7

LEMMA StillPath == PathInv /\ UNCHANGED <<state, given, null>> => PathInv'
BY DEF PathInv, Responsible, Entered, LeavesNothing, Carried, Passes, TypeRef, Failed

(* A null in a response is there for a failure that reaches it, and every    *)
(* failure reaches as far as the schema lets it.                             *)
THEOREM NullsExplained == Spec => []PathInv
<1>1. IInv /\ PathInv /\ [Next]_vars => PathInv'
  BY ExecPath, CallPath, ReturnValuePath, ReturnNullPath, MarshalPath, StillPath
     DEF Next, Step, vars, Respond, ExecAgain, NoMore
<1> QED
  BY Inductive, InitPath, <1>1, PTL DEF Spec

-----------------------------------------------------------------------------
(* The response is a function of the request and of what its calls give,     *)
(* whichever goroutine runs first.                                           *)

(* Every call gives what gives says, whenever it runs.                       *)
Follows(gives) == \A n \in Node : given[n] \in {"none", gives[n]}

(* What a request o runs: the parts of it that lie in nodes that all give a  *)
(* value.                                                                    *)
Served(o, gives) ==
  {n \in Below[o] : \A a \in Below[o] : n \in Below[a] /\ n # a => gives[a] = "value"}

NullsOf(o, gives) ==
  {n \in Served(o, gives) :
     \E d \in Below[n] \cap Served(o, gives) : gives[d] # "value" /\ Carried(d, n)}

ErrorsOf(o, gives) ==
  [n \in Node |-> IF n \in Served(o, gives) /\ gives[n] \in Failures THEN 1 ELSE 0]

(* The answer: what was called, the nulls in it and the errors beside it.    *)
ResponseIs(gives) ==
  phase \in {"answered", "closed"} =>
    /\ {n \in Node : state[n] # "new"} = Served(op, gives)
    /\ null = NullsOf(op, gives)
    /\ errors = ErrorsOf(op, gives)

LEMMA ResponseFollows ==
  ASSUME NEW gives \in [Node -> Givens \ {"none"}], IInv, PathInv, Follows(gives)
  PROVE ResponseIs(gives)
<1> SUFFICES ASSUME phase \in {"answered", "closed"} PROVE ResponseIs(gives)
  BY DEF ResponseIs
<1> DEFINE S == Served(op, gives)
<1> USE DEF IInv, PathInv
<1>1. op \in Node /\ state[op] = "done" /\ \A n \in Node \ Below[op] : state[n] = "new"
  BY TreeAssumption DEF OneRequest, TypeOK
<1>2. \A n \in Node : state[n] \in {"new", "done"}
  <2>1. \A n \in Node : ~Running(n)
    BY <1>1 DEF Quiet, Running
  <2> QED
    BY <2>1 DEF Running, TypeOK, States
<1>3. \A n \in Node : given[n] = IF state[n] = "new" THEN "none" ELSE gives[n]
  BY <1>2 DEF Progress, Follows
<1>4. ASSUME NEW n \in Node, state[n] # "new" PROVE n \in S
  <2>1. n \in Below[op]
    BY <1>1, <1>4
  <2>2. \A a \in Below[op] : n \in Below[a] /\ n # a => gives[a] = "value"
    <3> SUFFICES ASSUME NEW a \in Below[op], n \in Below[a], n # a
                 PROVE gives[a] = "value"
      OBVIOUS
    <3>1. a \in Node /\ given[a] = "value"
      BY <1>1, <1>4, BelowSelf DEF Entered
    <3> QED
      BY <3>1, <1>3
  <2> QED
    BY <2>1, <2>2 DEF Served
<1>5. ASSUME NEW n \in S PROVE n \in Node /\ state[n] = "done"
  <2>1. n \in Node /\ n \in Below[op]
    BY <1>1, BelowSelf DEF Served
  <2> SUFFICES ASSUME state[n] = "new" PROVE FALSE
    BY <2>1, <1>2
  <2>2. PICK a \in Below[op] : n \in Below[a] /\ n # a /\ Failed(a)
    BY <1>1, <2>1 DEF LeavesNothing
  <2>3. a \in Node /\ gives[a] = "value"
    BY <1>1, <2>2, BelowSelf DEF Served
  <2> QED
    BY <2>2, <2>3, <1>3 DEF Failed
<1>6. {n \in Node : state[n] # "new"} = S
  BY <1>4, <1>5
<1>7. \A d \in Node : Failed(d) <=> d \in S /\ gives[d] # "value"
  BY <1>2, <1>3, <1>4, <1>5 DEF Failed
<1>8. null = NullsOf(op, gives)
  <2>1. ASSUME NEW n \in S
        PROVE n \in null <=> \E d \in Below[n] \cap S : gives[d] # "value" /\ Carried(d, n)
    BY <1>5, <1>7, <2>1, BelowSelf DEF Responsible
  <2>2. \A n \in null : n \in S
    BY <1>4 DEF TypeOK
  <2> QED
    BY <2>1, <2>2 DEF NullsOf
<1>9. errors = ErrorsOf(op, gives)
  <2>1. \A n \in Node : errors[n] = IF n \in S /\ gives[n] \in Failures THEN 1 ELSE 0
    BY <1>3, <1>4, <1>5 DEF ErrorsExact, Failures
  <2> QED
    BY <2>1 DEF ErrorsOf, TypeOK
<1> QED
  BY <1>6, <1>8, <1>9 DEF ResponseIs

(* The goroutines of a request may run in any order: what the client is      *)
(* answered, its nulls and its errors, is the same.                          *)
THEOREM ResponseDetermined ==
  ASSUME NEW CONSTANT gives, gives \in [Node -> Givens \ {"none"}]
  PROVE Spec /\ []Follows(gives) => []ResponseIs(gives)
<1>1. IInv /\ PathInv /\ Follows(gives) => ResponseIs(gives)
  BY ResponseFollows
<1> QED
  BY Inductive, NullsExplained, <1>1, PTL

(* A resolver that fails takes the whole answer with it: the data of the     *)
(* other resolvers of the request is dropped, and the error is reported.     *)
AllOrNothing ==
  phase \in {"answered", "closed"} =>
    \A n \in Children(op) :
      n \in Field /\ Name[n] \in Resolvers /\ given[n] \in Failures
        => op \in null /\ errors[n] = 1

(* No resolver of this program has a type that allows a null.                *)
LEMMA ResolversNonNull ==
  ASSUME NEW n \in Field, Name[n] \in Resolvers
  PROVE ~TypeRef(n).nullable
<1>1. Name[n] \in DOMAIN FieldsOf[On[n]] /\ On[n] \in DOMAIN FieldsOf
  BY SelectionAssumption
<1>2. On[n] \in {"Query", "Mutation"}
  BY <1>1 DEF Resolvers, FieldsOf, CreateOrderPayload, Customer, FullOrder, OrderItem,
     SimpleOrder, __Directive, __EnumValue, __Field, __InputValue, __Schema, __Type
<1>3. FieldsOf["Query"] = Query /\ FieldsOf["Mutation"] = Mutation
  BY DEF FieldsOf
<1> QED
  BY <1>1, <1>2, <1>3 DEF TypeRef, Resolvers, Query, Mutation, NSimpleOrder,
     NSimpleOrderList, NFullOrder, NOrderItemList, NCreateOrderPayload,
     NonNullType, ListOf

(* One failed resolver leaves the client without the data of any other.      *)
THEOREM OneFailsAllFail == Spec => []AllOrNothing
<1>1. IInv /\ PathInv => AllOrNothing
  <2> SUFFICES ASSUME IInv, PathInv, phase \in {"answered", "closed"},
                      NEW n \in Children(op), n \in Field, Name[n] \in Resolvers,
                      given[n] \in Failures
               PROVE op \in null /\ errors[n] = 1
    BY DEF AllOrNothing
  <2> USE DEF IInv, PathInv
  <2>1. op \in Node /\ state[op] = "done" /\ n \in Node /\ n \in Below[op] /\ n \in Below[n]
    BY TreeAssumption, BelowChild, BelowSelf DEF OneRequest, TypeOK
  <2>2. Failed(n) /\ Carried(n, n) /\ Passes(n)
    BY <2>1, ResolversNonNull, BelowAntisymmetric DEF Failed, Failures, Carried, Passes
  <2>3. Carried(n, op)
    BY <2>1, <2>2, CarriedUp
  <2> QED
    BY <2>1, <2>2, <2>3 DEF Responsible, ErrorsExact
<1> QED
  BY Inductive, NullsExplained, <1>1, PTL

=================================================================================
