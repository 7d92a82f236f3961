----------------------------- MODULE OrderPromise ------------------------------
(***************************************************************************)
(* What the write path promises the client of a create request, without    *)
(* queues, workers or transactions.  A request is admitted or refused;     *)
(* an admitted order is open until it is stored or gone; a stored order    *)
(* may still go, when the database loses it.  The client is told "created" *)
(* of an admitted order, whatever has become of it, and an error only of   *)
(* an order that is not and never will be open.  What is gone stays gone.  *)
(***************************************************************************)
EXTENDS Naturals

CONSTANT Order

VARIABLES stage, answer

vars == <<stage, answer>>

Init ==
  /\ stage = [o \in Order |-> "new"]
  /\ answer = [o \in Order |-> "none"]

Admit(o) ==
  /\ stage[o] = "new"
  /\ answer[o] = "none"
  /\ stage' = [stage EXCEPT ![o] = "open"]
  /\ UNCHANGED answer

Refuse(o) ==
  /\ stage[o] = "new"
  /\ answer[o] = "none"
  /\ stage' = [stage EXCEPT ![o] = "refused"]
  /\ UNCHANGED answer

Tell(o, what) ==
  /\ answer[o] = "none"
  /\ \/ what = "bad" /\ stage[o] = "new"
     \/ what = "busy" /\ stage[o] = "refused"
     \/ what = "created" /\ stage[o] \in {"open", "stored", "gone"}
  /\ answer' = [answer EXCEPT ![o] = what]
  /\ UNCHANGED stage

Store(o) ==
  /\ stage[o] = "open"
  /\ stage' = [stage EXCEPT ![o] = "stored"]
  /\ UNCHANGED answer

(* The orders of S go at once, and the requests of B break unanswered.       *)
Lose(S, B) ==
  /\ \A o \in S : stage[o] \in {"open", "stored"}
  /\ \A o \in B : answer[o] = "none"
  /\ stage' = [o \in Order |-> IF o \in S THEN "gone" ELSE stage[o]]
  /\ answer' = [o \in Order |-> IF o \in B THEN "broken" ELSE answer[o]]

Next ==
  \/ \E o \in Order : Admit(o) \/ Refuse(o) \/ Store(o)
  \/ \E o \in Order, what \in {"bad", "busy", "created"} : Tell(o, what)
  \/ \E S, B \in SUBSET Order : Lose(S, B)

Spec == Init /\ [][Next]_vars

(* An open order does not stay open for ever.                                *)
Resolve(o) ==
  /\ stage[o] = "open"
  /\ \/ Store(o)
     \/ \E S, B \in SUBSET Order : o \in S /\ Lose(S, B)

FairSpec == Spec /\ \A o \in Order : WF_vars(Resolve(o))
=============================================================================
