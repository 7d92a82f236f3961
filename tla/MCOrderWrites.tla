---------------------------- MODULE MCOrderWrites ------------------------------
(* Small instances of OrderWrites: requests are numbered, and each instance *)
(* says which service each request is sent to.                              *)
EXTENDS OrderWrites, TLC

CONSTANTS rest, grpc

TwoApis == {rest, grpc}
OneApi  == {rest}

(* Two requests to one service and one to another. *)
ViaTwo == [o \in Order |-> IF o = 3 THEN grpc ELSE rest]
ViaOne == [o \in Order |-> rest]

WorkerSymmetry == Permutations(Worker)
=============================================================================
