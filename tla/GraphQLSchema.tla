----------------------------- MODULE GraphQLSchema -----------------------------
(***************************************************************************)
(* The tables of the generated GraphQL server (graph/generated.go): what   *)
(* each field function returns and checks, which arguments it takes, and   *)
(* how the executor of each object type treats a null.  GraphQLExec runs   *)
(* requests over these tables.                                             *)
(*                                                                         *)
(* Three facts that must agree are kept apart because the code keeps them  *)
(* apart: the type of a field (its marshaler and its "must not be null"    *)
(* check, in the field function), and whether the executor of its object   *)
(* counts a null of that field (raises).                                   *)
(***************************************************************************)
EXTENDS Naturals, Functions

-----------------------------------------------------------------------------
(* Marshalers: marshalN refuses a null, marshalO writes it; a list marshaler *)
(* writes its elements in a goroutine each.                                 *)

NonNullType(t)  == [of |-> t, list |-> FALSE, nullable |-> FALSE]
NullableType(t) == [of |-> t, list |-> FALSE, nullable |-> TRUE]
ListOf(ref)     == [of |-> ref.of, list |-> TRUE, nullable |-> ref.nullable]

NBoolean            == NonNullType("Boolean")
NCreateOrderPayload == NonNullType("CreateOrderPayload")
NCustomer           == NonNullType("Customer")
NFloat              == NonNullType("Float")
NFullOrder          == NonNullType("FullOrder")
NOrderInput         == NonNullType("OrderInput")
NOrderItemList      == ListOf(NonNullType("OrderItem"))
NSimpleOrder        == NonNullType("SimpleOrder")
NSimpleOrderList    == ListOf(NonNullType("SimpleOrder"))
NString             == NonNullType("String")
NDirectiveList      == ListOf(NonNullType("__Directive"))
NLocationList       == ListOf(NonNullType("__DirectiveLocation"))
NInputValueList     == ListOf(NonNullType("__InputValue"))
NTypeList           == ListOf(NonNullType("__Type"))
NType               == NonNullType("__Type")
NTypeKind           == NonNullType("__TypeKind")
OBoolean            == NullableType("Boolean")
OInt                == NullableType("Int")
OString             == NullableType("String")
OEnumValueList      == ListOf(NullableType("__EnumValue"))
OFieldList          == ListOf(NullableType("__Field"))
OInputValueList     == ListOf(NullableType("__InputValue"))
OSchema             == NullableType("__Schema")
OTypeList           == ListOf(NullableType("__Type"))
OType               == NullableType("__Type")

-----------------------------------------------------------------------------
(* Field functions, one record per object type.                             *)

CreateOrderPayload == [order_id |-> NString, success |-> NBoolean]

Customer == [customer_city |-> NString, customer_state |-> NString]

FullOrder ==
  [order_id |-> NString, order_status |-> NString, items |-> NOrderItemList,
   customer |-> NCustomer]

Mutation == [createOrder |-> NCreateOrderPayload]

OrderItem == [product_id |-> NString, price |-> NFloat, product_name |-> NString]

Query ==
  [getSimpleOrder |-> NSimpleOrder, getOrders |-> NSimpleOrderList,
   getOrderDetails |-> NFullOrder, getOrderItems |-> NOrderItemList,
   __type |-> OType, __schema |-> OSchema]

SimpleOrder == [order_id |-> NString, order_status |-> NString]

__Directive ==
  [name |-> NString, description |-> OString, locations |-> NLocationList,
   args |-> NInputValueList, isRepeatable |-> NBoolean]

__EnumValue ==
  [name |-> NString, description |-> OString, isDeprecated |-> NBoolean,
   deprecationReason |-> OString]

__Field ==
  [name |-> NString, description |-> OString, args |-> NInputValueList,
   type |-> NType, isDeprecated |-> NBoolean, deprecationReason |-> OString]

__InputValue ==
  [name |-> NString, description |-> OString, type |-> NType,
   defaultValue |-> OString]

__Schema ==
  [description |-> OString, types |-> NTypeList, queryType |-> NType,
   mutationType |-> OType, subscriptionType |-> OType,
   directives |-> NDirectiveList]

__Type ==
  [kind |-> NTypeKind, name |-> OString, description |-> OString,
   fields |-> OFieldList, interfaces |-> OTypeList, possibleTypes |-> OTypeList,
   enumValues |-> OEnumValueList, inputFields |-> OInputValueList,
   ofType |-> OType, specifiedByURL |-> OString]

FieldsOf ==
  [CreateOrderPayload |-> CreateOrderPayload, Customer |-> Customer,
   FullOrder |-> FullOrder, Mutation |-> Mutation, OrderItem |-> OrderItem,
   Query |-> Query, SimpleOrder |-> SimpleOrder, __Directive |-> __Directive,
   __EnumValue |-> __EnumValue, __Field |-> __Field,
   __InputValue |-> __InputValue, __Schema |-> __Schema, __Type |-> __Type]

(* Arguments, by field: what field_..._args unmarshals.                      *)
Arguments ==
  [createOrder |-> {NOrderInput}, __type |-> {NString},
   getOrderDetails |-> {NString}, getOrderItems |-> {NString},
   getOrders |-> {OInt}, getSimpleOrder |-> {NString},
   enumValues |-> {OBoolean}, fields |-> {OBoolean}]

(* Validation has refused every malformed argument before execution, except *)
(* an integer literal that does not fit: reading it panics in fieldContext. *)
ArgumentsMayFail(f) == f \in DOMAIN Arguments /\ OInt \in Arguments[f]

-----------------------------------------------------------------------------
(* Executors, one per object type: the fields whose null makes the object   *)
(* null (out.Invalids is raised), and those started together (Concurrently). *)

Serial(raises) == [raises |-> raises, concurrent |-> {}]

_CreateOrderPayload == Serial({"order_id", "success"})
_Customer           == Serial({"customer_city", "customer_state"})
_FullOrder          == Serial({"order_id", "order_status", "items", "customer"})
_Mutation           == Serial({"createOrder"})
_OrderItem          == Serial({"product_id", "price", "product_name"})
_SimpleOrder        == Serial({"order_id", "order_status"})
___Directive        == Serial({"name", "locations", "args", "isRepeatable"})
___EnumValue        == Serial({"name", "isDeprecated"})
___Field            == Serial({"name", "args", "type", "isDeprecated"})
___InputValue       == Serial({"name", "type"})
___Schema           == Serial({"types", "queryType", "directives"})
___Type             == Serial({"kind"})

(* The four resolvers run as goroutines; __type and __schema run first, in  *)
(* the loop of the executor, and never make the whole answer null.          *)
BugQueryExecutor ==
  [raises     |-> {"getSimpleOrder", "getOrders", "getOrderDetails"},
   concurrent |-> {"getSimpleOrder", "getOrders", "getOrderDetails", "getOrderItems"}]
_Query ==
  [raises     |-> {"getSimpleOrder", "getOrders", "getOrderDetails", "getOrderItems"},
   concurrent |-> {"getSimpleOrder", "getOrders", "getOrderDetails", "getOrderItems"}]

Executor ==
  [CreateOrderPayload |-> _CreateOrderPayload, Customer |-> _Customer,
   FullOrder |-> _FullOrder, Mutation |-> _Mutation, OrderItem |-> _OrderItem,
   Query |-> _Query, SimpleOrder |-> _SimpleOrder, __Directive |-> ___Directive,
   __EnumValue |-> ___EnumValue, __Field |-> ___Field,
   __InputValue |-> ___InputValue, __Schema |-> ___Schema, __Type |-> ___Type]

(* Fields served by a resolver of this program (IsResolver: true).           *)
Resolvers ==
  {"createOrder", "getSimpleOrder", "getOrders", "getOrderDetails", "getOrderItems"}

================================================================================
