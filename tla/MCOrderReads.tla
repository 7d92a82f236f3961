------------------------------ MODULE MCOrderReads ------------------------------
(* One user with two lanes and the worker.  Settings of the pool: unset, out   *)
(* of range, one and two connections.                                         *)
EXTENDS OrderReads

CONSTANTS u1, w1

MCClient    == ({u1} \X {1, 2}) \cup {w1}
MCEnvValues == {{}, {-1}, {1}}

Number(n) == [given |-> "number", n |-> n]
Junk      == [given |-> "junk", n |-> 0]
MCArgs    == {Unset, Junk} \cup {Number(n) : n \in {-1, 0, 1}}

(* Only the pages and the two lanes differ between the protocols.            *)
MCAsked ==
  ({"rest"} \X RestRoutes) \cup {<<"grpc", "page">>, <<"graphql", "page">>, <<"graphql", "light">>}

(* Every limit and every offset.                                            *)
MCPages ==
  { <<Unset, Unset>>, <<Junk, Number(1)>>, <<Number(-1), Number(1)>>,
    <<Number(0), Number(0)>>, <<Number(1), Number(-1)>>, <<Number(1), Junk>> }

================================================================================
