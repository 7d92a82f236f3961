----------------------------- MODULE MCGraphQLExec -----------------------------
(***************************************************************************)
(* Five requests for TLC: the light request of the k6 script (two root     *)
(* fields at once), the details of an order, a page of orders, two         *)
(* mutations in one request, and an introspection beside a resolver.       *)
(* Every node is the path to it.                                           *)
(***************************************************************************)
EXTENDS GraphQLExec, SequencesExt

Leaves ==
  { <<"light", "getSimpleOrder", "order_id">>,
    <<"light", "getSimpleOrder", "order_status">>,
    <<"light", "getOrderItems", "e1", "price">>,
    <<"light", "getOrderItems", "e2", "price">>,
    <<"details", "getOrderDetails", "order_id">>,
    <<"details", "getOrderDetails", "items", "e1", "price">>,
    <<"details", "getOrderDetails", "items", "e2", "product_name">>,
    <<"details", "getOrderDetails", "customer", "customer_city">>,
    <<"page", "getOrders", "e1", "order_id">>,
    <<"page", "getOrders", "e2", "order_id">>,
    <<"writes", "first", "success">>,
    <<"writes", "second", "order_id">>,
    <<"writes", "second", "success">>,
    <<"types", "__type", "kind">>,
    <<"types", "__type", "name">>,
    <<"types", "__type", "ofType", "kind">>,
    <<"types", "__type", "fields", "e1", "name">>,
    <<"types", "__schema", "queryType", "name">>,
    <<"types", "getOrders", "e1", "order_status">>,
    <<"types", "getSimpleOrder", "order_id">> }

MCNode      == UNION {{SubSeq(p, 1, i) : i \in 1..Len(p)} : p \in Leaves}
MCOperation == {n \in MCNode : Len(n) = 1}
MCElement   == {n \in MCNode : Last(n) \in {"e1", "e2"}}
MCParent    == [n \in MCNode \ MCOperation |-> Front(n)]
MCBelow     == [n \in MCNode |-> {m \in MCNode : IsPrefix(n, m)}]

MCName ==
  [n \in MCNode |->
     IF Last(n) \in {"first", "second"} THEN "createOrder" ELSE Last(n)]

(* The type below a field or an element.                                    *)
MCOn[n \in MCNode] ==
  IF n \in MCOperation THEN "none"
  ELSE LET p == Front(n) IN
       CASE p = <<"writes">>      -> "Mutation"
         [] p \in MCOperation     -> "Query"
         [] p \in MCElement       -> FieldsOf[MCOn[Front(p)]][MCName[Front(p)]].of
         [] OTHER                 -> FieldsOf[MCOn[p]][MCName[p]].of

Written ==
  <<"first", "second", "getOrderItems", "__type", "getSimpleOrder", "getOrders",
    "__schema", "order_id", "order_status", "items", "customer", "kind", "name",
    "fields", "ofType", "success">>

MCIndex ==
  [n \in MCNode |->
     IF \E i \in 1..Len(Written) : Written[i] = Last(n)
     THEN CHOOSE i \in 1..Len(Written) : Written[i] = Last(n)
     ELSE 0]

================================================================================
