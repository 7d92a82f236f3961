-------------------------- MODULE ExperimentsDE_proofs -------------------------
(***************************************************************************)
(* Proofs about ExperimentsDE for all settings.  For every number of        *)
(* invocations and any faults: its types, that a run is measured with the  *)
(* services of its pool, that no line with a result is measured again, that *)
(* a plan that ends is covered, and that each invocation leaves at most one *)
(* result that is not whole.  Without the faults they name: that the        *)
(* machine's setting is restored, that results are whole.  The clock checks *)
(* and the rate of the gate: for a session of one invocation with any       *)
(* faults; across invocations that all end by themselves (the clock), or    *)
(* with a single gate rate (the rate).                                      *)
(***************************************************************************)
EXTENDS ExperimentsDE, FiniteSetTheorems, TLAPS

-----------------------------------------------------------------------------
(* Types.  They hold together with two facts about the script's position:   *)
(* past Pick there is a line, and a gate has its rate.                       *)

HasLine == \/ pc \in {"apply", "run", "k6", "row", "judge", "sed"}
           \/ pc = "check" /\ shell.then = "apply"

LineChosen == HasLine => shell.line \in Entry
GateChosen == pc = "gate" => shell.gate \in 1..Len(GATE_RATES)

TInv == TypeOK /\ LineChosen /\ GateChosen

LEMMA OffType == Off \in ShellType
BY SettingsAssumption, EnvironmentAssumption DEF Off, ShellType, Totals

(* Plans are sets of lines.                                                  *)
LEMMA GatePlanType ==
  ASSUME NEW rate \in Nat PROVE build_gate_plan(rate) \in SUBSET Entry
BY SettingsAssumption DEF build_gate_plan, Line, Entry, Archs, Pools

LEMMA PlanType ==
  ASSUME TypeOK PROVE build_plan \in SUBSET Entry
<1>1. ASSUME NEW p \in POOLS, NEW n \in 1..REPS PROVE block_entries(p, n) \in SUBSET Entry
  <2>1. {Line("D", a, p, SAT_RATE, 0, n) : a \in ARCHS} \subseteq Entry
    BY SettingsAssumption DEF Line, Entry, Archs, Pools
  <2>2. gateRate # None =>
          {Line("D", a, p, gateRate, 0, n) : a \in eligible} \subseteq Entry
    BY SettingsAssumption DEF TypeOK, Line, Entry, Pools
  <2>3. {Line("D", a, p, CONTRAST_RATE, 0, n) : a \in ARCHS} \subseteq Entry
    BY SettingsAssumption DEF Line, Entry, Archs, Pools
  <2>4. {Line("E", "graphql", p, r, 1, n) : r \in E_RATES} \subseteq Entry
    BY SettingsAssumption DEF Line, Entry, Archs, Pools
  <2>5. QED
    BY SettingsAssumption, <2>1, <2>2, <2>3, <2>4 DEF block_entries
<1>2. QED
  BY <1>1 DEF build_plan

LEMMA SweepPlanType == build_sweep_plan \in SUBSET Entry
BY SettingsAssumption DEF build_sweep_plan, Line, Entry, Archs, Pools

(* The first check of a plan follows: everything run_plan assigns.           *)
LEMMA RunPlanType ==
  ASSUME TypeOK, NEW plan \in SUBSET Entry, NEW phase \in {"gate", "all", "sweep"},
         run_plan(plan, phase)
  PROVE  /\ shell' \in ShellType
         /\ pc' = "check" /\ shell'.then = "loop"
         /\ swappiness' \in {"orig", "low"} /\ outDir' \in BOOLEAN
         /\ UNCHANGED <<manifest, dirs, stored, eligible, applied, exit, starts>>
<1>1. PICK v \in {"none", "orig", "low"} :
        shell' = [shell EXCEPT !.phase = phase, !.plan = plan, !.todo = plan,
                               !.block = <<0, None>>, !.pool = None, !.then = "loop",
                               !.saved = v]
  <2>1. (IF shell.saved = "none" THEN swappiness ELSE shell.saved) \in {"none", "orig", "low"}
    BY DEF TypeOK, ShellType
  <2>2. shell' = [shell EXCEPT !.phase = phase, !.plan = plan, !.todo = plan,
                    !.block = <<0, None>>, !.pool = None, !.then = "loop",
                    !.saved = IF shell.saved = "none" THEN swappiness ELSE shell.saved]
    BY DEF run_plan, TypeOK, ShellType
  <2>3. QED
    BY <2>1, <2>2
<1>2. <<0, None>> \in Nat \X (Pools \cup {None})
  OBVIOUS
<1>3. shell' \in ShellType /\ shell'.then = "loop"
  BY <1>1, <1>2 DEF TypeOK, ShellType
<1>4. QED
  BY <1>3 DEF run_plan, runFiles

(* The EXIT trap.                                                            *)
LEMMA ExitType ==
  ASSUME TypeOK, NEW code \in Codes, Exit(code)
  PROVE  /\ pc' = "off" /\ shell' \in ShellType /\ exit' \in Codes
         /\ swappiness' \in {"orig", "low"}
BY OffType DEF TypeOK, ShellType, Exit, Restored

LEMMA EligibleType ==
  ASSUME TypeOK PROVE Eligible \in SUBSET Archs
BY DEF TypeOK, Eligible, RowType, Entry

LEMMA MeasuredType ==
  ASSUME TypeOK, NEW reading \in Clocks PROVE Measured(reading) \in SUBSET RowType
BY DEF TypeOK, Measured, RowType

LEMMA RenamedType ==
  ASSUME NEW r \in RowType PROVE [r EXCEPT !.counted = FALSE] \in RowType
BY DEF RowType

LEMMA StoreType ==
  ASSUME TypeOK, NEW id \in Id, NEW n \in 0..Points, Store(id, n)
  PROVE  DOMAIN stored' \subseteq Id /\ stored' \in [DOMAIN stored' -> 0..Points]
<1>1. Stored(id) \in 0..Points
  BY EnvironmentAssumption DEF TypeOK, Stored
<1>2. (IF Stored(id) + n < Points THEN Stored(id) + n ELSE Points) \in 0..Points
  BY <1>1, EnvironmentAssumption
<1>3. DOMAIN stored' = DOMAIN stored \cup {id}
  BY DEF Store
<1>4. QED
  BY <1>2, <1>3 DEF TypeOK, Store

(* Every step keeps the types.                                               *)
LEMMA TypeStep == TInv /\ [Next]_vars => TInv'
<1> SUFFICES ASSUME TInv, [Next]_vars PROVE TInv'
  OBVIOUS
<1> USE SettingsAssumption, EnvironmentAssumption
    DEF TInv, HasLine, LineChosen, GateChosen, runFiles, gateFiles, machine
<1>1. ASSUME NEW c \in Commands, Start(c) PROVE TInv'
  <2>1. 1 \in 1..Len(GATE_RATES) /\ 1 \in 0..Len(GATE_RATES)
    OBVIOUS
  <2>2. [Off EXCEPT !.cmd = c, !.gate = 1] \in ShellType
    BY <2>1, OffType DEF ShellType
  <2>3. [Off EXCEPT !.cmd = c, !.gate = 1].gate = 1
    BY DEF Off
  <2>4. shell' \in ShellType /\ shell'.gate = 1
    BY <1>1, <2>2, <2>3 DEF Start
  <2>5. QED
    BY <1>1, <2>1, <2>4 DEF Start, TypeOK, Codes
<1>2. CASE OpenGate
  BY <1>2, RunPlanType, GatePlanType DEF OpenGate, TypeOK
<1>3. CASE OpenMain
  BY <1>3, RunPlanType, PlanType DEF OpenMain, TypeOK, NoStatus
<1>4. CASE OpenSweep
  BY <1>4, RunPlanType, SweepPlanType DEF OpenSweep, TypeOK
<1>5. CASE ClockGoesOn
  <2>1. manifest' \in SUBSET RowType
    BY <1>5, MeasuredType DEF ClockGoesOn, Clocks
  <2>2. QED
    BY <1>5, <2>1 DEF ClockGoesOn, TypeOK, ShellType
<1>6. CASE ClockStops
  BY <1>6, MeasuredType, EligibleType, ExitType DEF ClockStops, TypeOK, Clocks, Codes
<1>7. ASSUME NEW e \in shell.todo, Skip(e) PROVE TInv'
  <2>1. e \in Entry /\ Block(e) \in Nat \X (Pools \cup {None})
    BY DEF TypeOK, ShellType, Block, Entry
  <2>2. shell' \in ShellType /\ shell'.line = shell.line
    BY <1>7, <2>1 DEF Skip, TypeOK, ShellType
  <2>3. QED
    BY <1>7, <2>2 DEF Skip, TypeOK
<1>8. ASSUME NEW e \in shell.todo, Pick(e) PROVE TInv'
  <2>1. e \in Entry /\ Block(e) \in Nat \X (Pools \cup {None})
    BY DEF TypeOK, ShellType, Block, Entry
  <2>2. shell' \in ShellType /\ shell'.line = e
    BY <1>8, <2>1 DEF Pick, TypeOK, ShellType
  <2>3. QED
    BY <1>8, <2>1, <2>2 DEF Pick, TypeOK
<1>9. CASE apply_pool
  BY <1>9 DEF apply_pool, TypeOK, ShellType, Entry
<1>10. CASE apply_pool_fails
  BY <1>10, ExitType DEF apply_pool_fails, TypeOK, Entry, Codes
<1>11. CASE StartRun
  <2>1. PICK total \in Totals : shell' = [shell EXCEPT !.total = total]
    BY <1>11 DEF StartRun, LeftBehind, Summaries, Totals
  <2>2. shell' \in ShellType /\ shell'.line = shell.line /\ shell'.gate = shell.gate
    BY <2>1 DEF TypeOK, ShellType
  <2>3. RunId \in Id
    BY <1>11 DEF StartRun, TypeOK, ShellType, RunId, Id
  <2>4. QED
    BY <1>11, <2>2, <2>3 DEF StartRun, TypeOK
<1>12. CASE run_k6
  <2>1. PICK total \in Totals, own \in 0..Points :
          /\ Store(RunId, own)
          /\ shell' = [shell EXCEPT !.total = total, !.own = own]
    <3>1. PICK summary \in Summaries, own \in 0..Points :
            /\ Store(RunId, own)
            /\ shell' = [shell EXCEPT !.total = IF summary = "missing" THEN shell.total ELSE summary,
                                      !.own = own]
      BY <1>12 DEF run_k6
    <3>2. (IF summary = "missing" THEN shell.total ELSE summary) \in Totals
      BY DEF Summaries, Totals, TypeOK, ShellType
    <3>3. QED
      BY <3>1, <3>2
  <2>2. RunId \in Id
    BY <1>12 DEF run_k6, TypeOK, ShellType, RunId, Id
  <2>3. QED
    BY <1>12, <2>1, <2>2, StoreType DEF run_k6, TypeOK, ShellType
<1>13. CASE AppendRow
  <2>1. \A v \in {"collapse", "other"} : Row(v) \in RowType
    BY <1>13 DEF AppendRow, TypeOK, ShellType, Row, RowType, Passes, Clocks
  <2>2. QED
    BY <1>13, <2>1 DEF AppendRow, Verdicts, TypeOK
<1>14. CASE KeepRun
  BY <1>14 DEF KeepRun, TypeOK
<1>15. CASE MoveDir
  BY <1>15 DEF MoveDir, TypeOK
<1>16. CASE RenameRow
  <2>1. manifest' \in SUBSET RowType
    <3>1. \A r \in manifest : [r EXCEPT !.counted = FALSE] \in RowType
      BY RenamedType DEF TypeOK
    <3>2. QED
      BY <1>16, <3>1 DEF RenameRow, Renamed, TypeOK
  <2>2. shell' \in ShellType /\ shell'.line = shell.line /\ pc' \in {"run", "loop"}
    <3>1. Retry \in ShellType /\ Retry.line = shell.line
      BY DEF Retry, TypeOK, ShellType
    <3>2. QED
      BY <1>16, <3>1 DEF RenameRow, Renamed, TypeOK
  <2>3. QED
    BY <1>16, <2>1, <2>2 DEF RenameRow, Renamed, TypeOK
<1>17. CASE PlanDone
  BY <1>17 DEF PlanDone, AfterLoop, TypeOK, ShellType
<1>18. CASE SummarizeGate
  BY <1>18, EligibleType DEF SummarizeGate, TypeOK
<1>19. CASE SummarizeSession
  BY <1>19, EligibleType, ExitType DEF SummarizeSession, TypeOK, Codes
<1>20. CASE NextGateRate
  <2>1. shell.gate + 1 \in 0..Len(GATE_RATES) /\ shell.gate + 1 \in 1..Len(GATE_RATES)
    BY <1>20 DEF NextGateRate, MoreRates, TypeOK, ShellType
  <2>2. shell' \in ShellType /\ shell'.gate = shell.gate + 1
    BY <1>20, <2>1 DEF NextGateRate, TypeOK, ShellType
  <2>3. QED
    BY <1>20, <2>1, <2>2 DEF NextGateRate, TypeOK
<1>21. CASE EndGate
  BY <1>21, ExitType DEF EndGate, TypeOK, Codes
<1>22. ASSUME NEW code \in Codes, Die(code), swappiness' \in {"orig", "low"}
       PROVE  TInv'
  <2>1. DOMAIN stored' \subseteq Id /\ stored' \in [DOMAIN stored' -> 0..Points]
    <3>1. pc = "k6" => RunId \in Id
      BY DEF TypeOK, ShellType, RunId, Id
    <3>2. QED
      BY <1>22, <3>1, StoreType DEF Die, TypeOK
  <2>2. applied' \in Pools \cup {None}
    BY <1>22 DEF Die, TypeOK, Entry
  <2>3. QED
    BY <1>22, <2>1, <2>2, OffType DEF Die, TypeOK, Codes
<1>23. CASE Kill \/ Terminate
  <2>1. Restored \in {"orig", "low"}
    BY DEF Restored, TypeOK, ShellType
  <2>2. QED
    BY <1>22, <1>23, <2>1 DEF Kill, Terminate, TypeOK, Codes
<1>24. CASE UNCHANGED vars
  BY <1>24 DEF vars, TypeOK
<1> HIDE DEF TInv, HasLine, LineChosen, GateChosen, runFiles, gateFiles, machine
<1>25. QED
  BY <1>1, <1>2, <1>3, <1>4, <1>5, <1>6, <1>7, <1>8, <1>9, <1>10, <1>11, <1>12, <1>13,
     <1>14, <1>15, <1>16, <1>17, <1>18, <1>19, <1>20, <1>21, <1>23, <1>24
     DEF Next, Command, Script

LEMMA InitTypes == Init => TInv
<1> SUFFICES ASSUME Init PROVE TInv
  OBVIOUS
<1>1. DOMAIN stored = {} /\ stored \in [DOMAIN stored -> 0..Points]
  BY DEF Init
<1>2. h1Status \in [archs : SUBSET Archs, rate : Nat \cup {None}]
  BY DEF Init, NoStatus
<1>3. 0 \in 0..MaxStarts
  BY EnvironmentAssumption
<1>4. TypeOK
  BY <1>1, <1>2, <1>3, OffType DEF Init, TypeOK, Codes
<1>5. QED
  BY <1>4 DEF Init, TInv, HasLine, LineChosen, GateChosen

(* The types hold in every state of a session.                               *)
THEOREM TypeCorrect == Spec => []TypeOK
<1>1. Spec => []TInv
  BY InitTypes, TypeStep, PTL DEF Spec
<1>2. TInv => TypeOK
  BY DEF TInv
<1>3. QED
  BY <1>1, <1>2, PTL

-----------------------------------------------------------------------------
(* The pool of a run.  What the script remembers as its pool is what the    *)
(* services were created with, and past apply_pool it is the line's.        *)

Running == pc \in {"run", "k6", "row", "judge", "sed"}

PoolKnown   == shell.pool = None \/ applied = shell.pool
PoolOfLine  == Running => shell.pool = shell.line.pool
PoolInv     == PoolKnown /\ PoolOfLine /\ RunsUnderItsPool

(* Renaming rows, and marking them with a clock check, leaves their pools.   *)
LEMMA SamePools ==
  ASSUME TypeOK, RunsUnderItsPool,
         \A r \in manifest' : \E q \in manifest : r.pool = q.pool /\ r.entry = q.entry
  PROVE  RunsUnderItsPool'
BY DEF RunsUnderItsPool

LEMMA PoolStep == TInv /\ TInv' /\ PoolInv /\ [Next]_vars => PoolInv'
<1> SUFFICES ASSUME TInv, TInv', PoolInv, [Next]_vars PROVE PoolInv'
  OBVIOUS
<1>0. TypeOK /\ TypeOK' /\ (HasLine => shell.line \in Entry)
  BY DEF TInv, LineChosen
<1> USE <1>0 DEF PoolInv, PoolKnown, PoolOfLine, Running, runFiles, machine
<1>a. Off.pool = None
  BY DEF Off
<1>1. ASSUME NEW c \in Commands, Start(c) PROVE PoolInv'
  BY <1>1, <1>a DEF Start, RunsUnderItsPool, Off
<1>2. ASSUME NEW plan, NEW phase, run_plan(plan, phase) PROVE PoolInv'
  BY <1>2 DEF run_plan, RunsUnderItsPool, TypeOK, ShellType
<1>3. CASE ClockGoesOn
  <2>1. \A r \in manifest' : \E q \in manifest : r.pool = q.pool /\ r.entry = q.entry
    BY <1>3 DEF ClockGoesOn, Measured, TypeOK, RowType
  <2>2. RunsUnderItsPool'
    BY <2>1, SamePools
  <2>3. QED
    BY <1>3, <2>2 DEF ClockGoesOn, TypeOK, ShellType
<1>4. CASE ClockStops
  <2>1. \A r \in manifest' : \E q \in manifest : r.pool = q.pool /\ r.entry = q.entry
    BY <1>4 DEF ClockStops, Measured, TypeOK, RowType
  <2>2. RunsUnderItsPool'
    BY <2>1, SamePools
  <2>3. QED
    BY <1>4, <1>a, <2>2 DEF ClockStops, Exit
<1>5. ASSUME NEW e \in shell.todo, Skip(e) PROVE PoolInv'
  BY <1>5 DEF Skip, RunsUnderItsPool, TypeOK, ShellType
<1>6. ASSUME NEW e \in shell.todo, Pick(e) PROVE PoolInv'
  BY <1>6 DEF Pick, OtherPool, RunsUnderItsPool, TypeOK, ShellType
<1>7. CASE apply_pool
  BY <1>7 DEF apply_pool, RunsUnderItsPool, TypeOK, ShellType
<1>8. CASE apply_pool_fails
  BY <1>8, <1>a DEF apply_pool_fails, Exit, RunsUnderItsPool
<1>9. CASE StartRun
  BY <1>9 DEF StartRun, RunsUnderItsPool
<1>10. CASE run_k6
  BY <1>10 DEF run_k6, RunsUnderItsPool, TypeOK, ShellType
<1>11. CASE AppendRow
  <2>1. applied = shell.line.pool
    <3>1. shell.line.pool # None
      BY <1>11, SettingsAssumption DEF AppendRow, HasLine, Entry, Pools
    <3>2. QED
      BY <1>11, <3>1 DEF AppendRow
  <2>2. RunsUnderItsPool'
    BY <1>11, <2>1 DEF AppendRow, Row, RunsUnderItsPool
  <2>3. QED
    BY <1>11, <2>2 DEF AppendRow
<1>12. CASE KeepRun
  BY <1>12 DEF KeepRun, RunsUnderItsPool
<1>13. CASE MoveDir
  BY <1>13 DEF MoveDir, RunsUnderItsPool
<1>14. CASE RenameRow
  <2>1. \A r \in manifest' : \E q \in manifest : r.pool = q.pool /\ r.entry = q.entry
    BY <1>14 DEF RenameRow, Renamed, TypeOK, RowType
  <2>2. RunsUnderItsPool'
    BY <2>1, SamePools
  <2>3. QED
    BY <1>14, <2>2 DEF RenameRow, Renamed, Retry, machine, TypeOK, ShellType
<1>15. CASE PlanDone
  BY <1>15 DEF PlanDone, AfterLoop, RunsUnderItsPool, TypeOK, ShellType
<1>16. CASE SummarizeGate
  BY <1>16 DEF SummarizeGate, RunsUnderItsPool
<1>17. CASE SummarizeSession
  BY <1>17, <1>a DEF SummarizeSession, Exit, RunsUnderItsPool
<1>18. CASE NextGateRate
  BY <1>18 DEF NextGateRate, RunsUnderItsPool, TypeOK, ShellType
<1>19. CASE EndGate
  BY <1>19, <1>a DEF EndGate, Exit, RunsUnderItsPool
<1>20. CASE Kill \/ Terminate
  BY <1>20, <1>a DEF Kill, Terminate, Die, RunsUnderItsPool
<1>21. CASE UNCHANGED vars
  BY <1>21 DEF vars, RunsUnderItsPool
<1> HIDE DEF PoolInv
<1>22. QED
  BY <1>1, <1>2, <1>3, <1>4, <1>5, <1>6, <1>7, <1>8, <1>9, <1>10, <1>11, <1>12, <1>13,
     <1>14, <1>15, <1>16, <1>17, <1>18, <1>19, <1>20, <1>21
     DEF Next, Command, Script, OpenGate, OpenMain, OpenSweep

(* Every row was measured with the services created for the row's pool.      *)
THEOREM PoolsApplied == Spec => []RunsUnderItsPool
<1>1. Spec => []TInv
  BY InitTypes, TypeStep, PTL DEF Spec
<1>2. Init => PoolInv
  BY DEF Init, Off, PoolInv, PoolKnown, PoolOfLine, Running, RunsUnderItsPool
<1>3. Spec => []PoolInv
  BY <1>1, <1>2, PoolStep, PTL DEF Spec
<1>4. PoolInv => RunsUnderItsPool
  BY DEF PoolInv
<1>5. QED
  BY <1>3, <1>4, PTL

-----------------------------------------------------------------------------
(* Results.  A line is Done when a row with its name counts; it is Tried at *)
(* an attempt when that attempt was incomplete, and Covered when nothing is  *)
(* left to do for it.                                                       *)

Tried(e, n) == \E r \in manifest : r.entry = e /\ r.attempt = n /\ ~r.counted
Covered(e)  == Done(e) \/ \A n \in {0, 1} : Tried(e, n)

(* Until its row is written, the line being run has no result; afterwards    *)
(* its only result is that of the current attempt.                          *)
Unmeasured ==
  pc \in {"apply", "run", "k6", "row"} \/ (pc = "check" /\ shell.then = "apply")
    => ~Done(shell.line)
OneResult ==
  pc \in {"judge", "sed"} =>
    /\ Done(shell.line)
    /\ \A r \in manifest : r.entry = shell.line /\ r.counted => r.attempt = shell.attempt

(* A line starts with its first attempt, and a retry follows an incomplete   *)
(* first attempt.                                                           *)
FirstAttempt ==
  pc = "apply" \/ (pc = "check" /\ shell.then = "apply") => shell.attempt = 0
RetryAfterTry == Running /\ shell.attempt = 1 => Tried(shell.line, 0)

(* Every line the loop has taken from the plan is covered, but the one being *)
(* run; nothing is left at the end.                                         *)
Walked ==
  pc \in {"check", "loop", "apply", "run", "k6", "row", "judge", "sed", "summary"} =>
    \A e \in shell.plan \ shell.todo : Covered(e) \/ (HasLine /\ e = shell.line)
PlanEnds == pc = "summary" \/ (pc = "check" /\ shell.then = "summary") => shell.todo = {}

ResultInv == /\ Unmeasured /\ OneResult /\ FirstAttempt /\ RetryAfterTry
             /\ Walked /\ PlanEnds

(* What a line has in the manifest does not depend on clock checks.          *)
LEMMA MeasuredKeeps ==
  ASSUME TypeOK, NEW reading, manifest' = Measured(reading)
  PROVE  \A e \in Entry : /\ Done(e)' <=> Done(e)
                          /\ \A n \in {0, 1} : Tried(e, n)' <=> Tried(e, n)
<1> DEFINE Mark(r) == IF r.counted /\ r.clock = "unchecked"
                      THEN [r EXCEPT !.clock = reading] ELSE r
<1>1. manifest' = {Mark(r) : r \in manifest}
  BY DEF Measured
<1>2. \A r \in manifest : /\ Mark(r).entry = r.entry /\ Mark(r).attempt = r.attempt
                          /\ Mark(r).counted = r.counted
  BY DEF TypeOK, RowType
<1> HIDE DEF Mark
<1>3. QED
  BY <1>1, <1>2 DEF Done, Tried

(* Appending a row takes nothing from any line.                              *)
LEMMA AppendKeeps ==
  ASSUME NEW r, manifest' = manifest \cup {r}
  PROVE  \A e \in Entry : /\ Done(e) => Done(e)'
                          /\ \A n \in {0, 1} : Tried(e, n) => Tried(e, n)'
BY DEF Done, Tried

(* Renaming the rows of one run leaves the other lines alone; the line loses *)
(* the result of that attempt and has tried it.                              *)
LEMMA RenameKeeps ==
  ASSUME TypeOK, pc = "sed", RenameRow
  PROVE  /\ \A e \in Entry \ {shell.line} :
              /\ Done(e)' <=> Done(e)
              /\ \A n \in {0, 1} : Tried(e, n)' <=> Tried(e, n)
         /\ \A n \in {0, 1} : Tried(shell.line, n) => Tried(shell.line, n)'
<1> DEFINE Named(r) == IF <<r.entry, r.attempt>> = RunId
                       THEN [r EXCEPT !.counted = FALSE] ELSE r
<1>1. manifest' = {Named(r) : r \in manifest}
  BY DEF RenameRow, Renamed
<1>2. \A r \in manifest : /\ Named(r).entry = r.entry /\ Named(r).attempt = r.attempt
                          /\ r.entry # shell.line => Named(r) = r
                          /\ ~r.counted => ~Named(r).counted
  BY DEF TypeOK, RowType, RunId
<1> HIDE DEF Named
<1>3. ASSUME NEW e \in Entry \ {shell.line}
      PROVE  \A r : r \in manifest' /\ r.entry = e <=> r \in manifest /\ r.entry = e
  BY <1>1, <1>2
<1>4. \A e \in Entry \ {shell.line} : Done(e)' <=> Done(e)
  BY <1>3 DEF Done
<1>5. \A e \in Entry \ {shell.line} : \A n \in {0, 1} : Tried(e, n)' <=> Tried(e, n)
  BY <1>3 DEF Tried
<1>6. ASSUME NEW n \in {0, 1}, Tried(shell.line, n) PROVE Tried(shell.line, n)'
  <2>1. PICK r \in manifest : r.entry = shell.line /\ r.attempt = n /\ ~r.counted
    BY <1>6 DEF Tried
  <2>2. /\ Named(r) \in manifest' /\ Named(r).entry = shell.line
        /\ Named(r).attempt = n /\ ~Named(r).counted
    BY <1>1, <1>2, <2>1
  <2>3. shell'.line = shell.line
    BY DEF RenameRow, Renamed, Retry, TypeOK, ShellType
  <2>4. QED
    BY <2>2, <2>3 DEF Tried
<1>7. QED
  BY <1>4, <1>5, <1>6

LEMMA RenameDone ==
  ASSUME TypeOK, pc = "sed", OneResult, RenameRow,
         NEW l, l = shell.line, NEW n, n = shell.attempt
  PROVE  ~Done(l)' /\ Tried(l, n)'
<1> DEFINE Named(r) == IF <<r.entry, r.attempt>> = RunId
                       THEN [r EXCEPT !.counted = FALSE] ELSE r
<1>1. manifest' = {Named(r) : r \in manifest}
  BY DEF RenameRow, Renamed
<1>2. \A r \in manifest :
        /\ Named(r).entry = r.entry /\ Named(r).attempt = r.attempt
        /\ Named(r).counted => r.counted
        /\ r.entry = l /\ r.attempt = n => ~Named(r).counted
  BY DEF TypeOK, RowType, RunId
<1>3. PICK q \in manifest : q.entry = l /\ q.attempt = n
  BY DEF OneResult, Done
<1> HIDE DEF Named
<1>4. Named(q) \in manifest'
  BY <1>1, <1>3
<1>5. ASSUME NEW r \in manifest', r.entry = l, r.counted PROVE FALSE
  BY <1>1, <1>2, <1>5 DEF OneResult
<1>6. QED
  BY <1>2, <1>3, <1>4, <1>5 DEF Done, Tried

(* The steps that change what is known of the lines' results, one by one.    *)
LEMMA SkipResults ==
  ASSUME TInv, ResultInv, NEW e \in shell.todo, Skip(e) PROVE ResultInv'
<1>1. /\ pc = "loop" /\ pc' = "loop" /\ manifest' = manifest
      /\ shell'.plan = shell.plan /\ shell'.todo = shell.todo \ {e} /\ Done(e)
  BY DEF Skip, TInv, TypeOK, ShellType, runFiles
<1>2. \A f \in shell.plan \ shell.todo : Covered(f)
  BY <1>1 DEF ResultInv, Walked, HasLine
<1>3. \A f \in shell'.plan \ shell'.todo : Covered(f)
  BY <1>1, <1>2 DEF Covered
<1>4. Walked'
  BY <1>1, <1>3 DEF Walked, Covered, Done, Tried
<1>5. QED
  BY <1>1, <1>4 DEF ResultInv, Unmeasured, OneResult, FirstAttempt, RetryAfterTry, PlanEnds, Running

LEMMA PickResults ==
  ASSUME TInv, ResultInv, NEW e \in shell.todo, Pick(e) PROVE ResultInv'
<1>1. /\ pc = "loop" /\ pc' \in {"check", "apply", "run"} /\ manifest' = manifest
      /\ shell'.plan = shell.plan /\ shell'.todo = shell.todo \ {e}
      /\ shell'.line = e /\ shell'.attempt = 0 /\ shell'.then = "apply"
      /\ ~Done(e)
  BY DEF Pick, TInv, TypeOK, ShellType, runFiles
<1>2. \A f \in shell.plan \ shell.todo : Covered(f)
  BY <1>1 DEF ResultInv, Walked, HasLine
<1>3. \A f \in shell'.plan \ shell'.todo : Covered(f) \/ f = e
  BY <1>1, <1>2
<1>4. Walked'
  BY <1>1, <1>3 DEF Walked, Covered, Done, Tried, HasLine
<1>5. Unmeasured'
  BY <1>1 DEF Unmeasured, Done
<1>6. QED
  BY <1>1, <1>4, <1>5 DEF ResultInv, OneResult, FirstAttempt, RetryAfterTry, PlanEnds, Running

LEMMA ApplyResults ==
  ASSUME TInv, ResultInv, apply_pool PROVE ResultInv'
<1>1. /\ pc = "apply" /\ pc' = "run" /\ manifest' = manifest
      /\ shell'.plan = shell.plan /\ shell'.todo = shell.todo
      /\ shell'.line = shell.line /\ shell'.attempt = shell.attempt
  BY DEF apply_pool, TInv, TypeOK, ShellType, runFiles
<1>2. ~Done(shell.line)
  BY <1>1 DEF ResultInv, Unmeasured
<1>3. Unmeasured'
  BY <1>1, <1>2 DEF Unmeasured, Done
<1>4. \A f \in shell.plan \ shell.todo : Covered(f) \/ f = shell.line
  BY <1>1 DEF ResultInv, Walked
<1>5. Walked'
  BY <1>1, <1>4 DEF Walked, Covered, Done, Tried, HasLine
<1>6. shell.attempt = 0
  BY <1>1 DEF ResultInv, FirstAttempt
<1>7. QED
  BY <1>1, <1>3, <1>5, <1>6 DEF ResultInv, OneResult, FirstAttempt, RetryAfterTry, PlanEnds, Running

LEMMA AppendResults ==
  ASSUME TInv, ResultInv, AppendRow PROVE ResultInv'
<1>1. /\ pc = "row" /\ pc' = "judge" /\ shell' = shell
  BY DEF AppendRow
<1>2. PICK v : manifest' = manifest \cup {Row(v)}
  BY DEF AppendRow
<1>3. Row(v).entry = shell.line /\ Row(v).attempt = shell.attempt /\ Row(v).counted
  BY DEF Row
<1>4. \A r \in manifest : ~(r.entry = shell.line /\ r.counted)
  BY <1>1 DEF ResultInv, Unmeasured, Done
<1>5. OneResult'
  BY <1>1, <1>2, <1>3, <1>4 DEF OneResult, Done
<1>6. shell.attempt = 1 => Tried(shell.line, 0)
  BY <1>1 DEF ResultInv, RetryAfterTry, Running
<1>7. RetryAfterTry'
  BY <1>1, <1>2, <1>6 DEF RetryAfterTry, Tried
<1>8. \A e \in shell.plan \ shell.todo : Covered(e) \/ e = shell.line
  BY <1>1 DEF ResultInv, Walked
<1>9. \A e \in shell.plan \ shell.todo : Covered(e)' \/ e = shell.line
  BY <1>2, <1>8 DEF Covered, Done, Tried
<1>10. Walked'
  BY <1>1, <1>9 DEF Walked, Covered, Done, Tried, HasLine
<1>11. QED
  BY <1>1, <1>5, <1>7, <1>10 DEF ResultInv, Unmeasured, FirstAttempt, PlanEnds

LEMMA RenameResults ==
  ASSUME TInv, ResultInv, RenameRow PROVE ResultInv'
<1>1. /\ pc = "sed" /\ pc' = (IF shell.attempt = 0 THEN "run" ELSE "loop")
      /\ shell'.plan = shell.plan /\ shell'.todo = shell.todo
      /\ shell'.line = shell.line
      /\ shell.attempt = 0 => shell'.attempt = 1
  BY DEF RenameRow, Renamed, Retry, TInv, TypeOK, ShellType
<1>2. TypeOK /\ OneResult
  BY DEF TInv, ResultInv
<1>3. PICK l \in Entry, n \in {0, 1} : l = shell.line /\ n = shell.attempt
  BY <1>1 DEF TInv, TypeOK, ShellType, LineChosen, HasLine
<1>4. ~Done(l)' /\ Tried(l, n)'
  BY <1>1, <1>2, <1>3, RenameDone
<1>5. \A e \in shell.plan \ shell.todo : Covered(e) \/ e = l
  BY <1>1, <1>3 DEF ResultInv, Walked
<1>6. \A e \in shell.plan \ shell.todo : Covered(e)' \/ e = l
  <2>1. shell.plan \subseteq Entry
    BY DEF TInv, TypeOK, ShellType
  <2>2. QED
    BY <1>1, <1>2, <1>3, <1>5, <2>1, RenameKeeps DEF Covered
<1>7. CASE n = 0
  <2>1. pc' = "run" /\ shell'.line = l
    BY <1>1, <1>3, <1>7
  <2>2. Walked'
    BY <1>1, <1>6, <2>1 DEF Walked, Covered, Done, Tried, HasLine
  <2>3. RetryAfterTry'
    BY <1>4, <1>7, <2>1 DEF RetryAfterTry, Tried
  <2>4. Unmeasured'
    BY <1>4, <2>1 DEF Unmeasured, Done
  <2>5. QED
    BY <2>1, <2>2, <2>3, <2>4 DEF ResultInv, OneResult, FirstAttempt, PlanEnds
<1>8. CASE n = 1
  <2>1. pc' = "loop"
    BY <1>1, <1>3, <1>8
  <2>2. Tried(l, 0)
    BY <1>1, <1>3, <1>8 DEF ResultInv, RetryAfterTry, Running
  <2>3. Tried(l, 0)'
    BY <1>1, <1>2, <1>3, <2>2, RenameKeeps DEF Tried
  <2>4. Covered(l)'
    BY <1>4, <1>8, <2>3 DEF Covered, Tried
  <2>5. Walked'
    BY <1>1, <1>6, <2>1, <2>4 DEF Walked, Covered, Done, Tried
  <2>6. QED
    BY <2>1, <2>5 DEF ResultInv, Unmeasured, OneResult, FirstAttempt, RetryAfterTry, PlanEnds, Running
<1>9. QED
  BY <1>3, <1>7, <1>8

(* Every step keeps what is known of the lines' results.                     *)
LEMMA ResultStep == TInv /\ TInv' /\ ResultInv /\ [Next]_vars => ResultInv'
<1> SUFFICES ASSUME TInv, TInv', ResultInv, [Next]_vars PROVE ResultInv'
  OBVIOUS
<1>0. /\ TypeOK /\ TypeOK' /\ (HasLine => shell.line \in Entry)
      /\ shell.plan \subseteq Entry /\ shell.todo \subseteq Entry
  BY DEF TInv, LineChosen, TypeOK, ShellType
<1> USE <1>0 DEF ResultInv, Unmeasured, OneResult, FirstAttempt, RetryAfterTry, Walked, PlanEnds,
                 Running, HasLine, Covered, runFiles, machine
<1>a. ASSUME pc' \in {"off", "gate", "main", "gated"} PROVE ResultInv'
  BY <1>a
<1>1. ASSUME NEW c \in Commands, Start(c) PROVE ResultInv'
  BY <1>1, <1>a DEF Start
<1>2. ASSUME NEW plan, NEW phase, run_plan(plan, phase) PROVE ResultInv'
  BY <1>2 DEF run_plan, TypeOK, ShellType
<1>3. CASE ClockGoesOn
  BY <1>3, MeasuredKeeps DEF ClockGoesOn, TypeOK, ShellType
<1>4. CASE ClockStops
  BY <1>4, <1>a DEF ClockStops, Exit
<1>5. ASSUME NEW e \in shell.todo, Skip(e) PROVE ResultInv'
  BY <1>5, SkipResults
<1>6. ASSUME NEW e \in shell.todo, Pick(e) PROVE ResultInv'
  BY <1>6, PickResults
<1>7. CASE apply_pool
  BY <1>7, ApplyResults
<1>8. CASE apply_pool_fails
  BY <1>8, <1>a DEF apply_pool_fails, Exit
<1>9. CASE StartRun
  BY <1>9 DEF StartRun, Done, Tried
<1>10. CASE run_k6
  BY <1>10 DEF run_k6, Done, Tried, TypeOK, ShellType
<1>11. CASE AppendRow
  BY <1>11, AppendResults
<1>12. CASE KeepRun
  BY <1>12 DEF KeepRun, Done, Tried
<1>13. CASE MoveDir
  BY <1>13 DEF MoveDir, Done, Tried
<1>14. CASE RenameRow
  BY <1>14, RenameResults
<1>15. CASE PlanDone
  BY <1>15 DEF PlanDone, AfterLoop, Done, Tried, TypeOK, ShellType
<1>16. CASE SummarizeGate
  BY <1>16, <1>a DEF SummarizeGate
<1>17. CASE SummarizeSession
  BY <1>17, <1>a DEF SummarizeSession, Exit
<1>18. CASE NextGateRate
  BY <1>18, <1>a DEF NextGateRate
<1>19. CASE EndGate
  BY <1>19, <1>a DEF EndGate, Exit
<1>20. CASE Kill \/ Terminate
  BY <1>20, <1>a DEF Kill, Terminate, Die
<1>21. CASE UNCHANGED vars
  BY <1>21 DEF vars, Done, Tried
<1> HIDE DEF ResultInv
<1>22. QED
  BY <1>1, <1>2, <1>3, <1>4, <1>5, <1>6, <1>7, <1>8, <1>9, <1>10, <1>11, <1>12, <1>13,
     <1>14, <1>15, <1>16, <1>17, <1>18, <1>19, <1>20, <1>21
     DEF Next, Command, Script, OpenGate, OpenMain, OpenSweep

LEMMA ResultsInvariant == Spec => []TInv /\ []ResultInv
<1>1. Spec => []TInv
  BY InitTypes, TypeStep, PTL DEF Spec
<1>2. Init => ResultInv
  BY DEF Init, ResultInv, Unmeasured, OneResult, FirstAttempt, RetryAfterTry, Running,
         Walked, PlanEnds
<1>3. QED
  BY <1>1, <1>2, ResultStep, PTL DEF Spec

(* A plan that reaches its summary is covered, whatever was killed, resumed  *)
(* or lost before.                                                          *)
THEOREM PlansCovered == Spec => []PlanCovered
<1>1. TInv /\ ResultInv => PlanCovered
  BY DEF TInv, TypeOK, ShellType, ResultInv, Walked, PlanEnds, HasLine, Covered, Tried,
         PlanCovered, HasResult, Done
<1>2. QED
  BY <1>1, ResultsInvariant, PTL

(* No k6 run is spent on a line that has a result.                           *)
THEOREM NoRunRepeated == Spec => MeasuredOnce
<1>1. ResultInv => [pc = "run" /\ pc' = "k6" => ~HasResult(shell.line)]_vars
  BY DEF ResultInv, Unmeasured, HasResult, Done
<1>2. QED
  BY <1>1, ResultsInvariant, PTL DEF MeasuredOnce

-----------------------------------------------------------------------------
(* What holds as long as nobody ends the script from outside.                *)

(* The saved swappiness is the original one, and until it is saved the       *)
(* machine has it.                                                          *)
SavedInv == /\ shell.saved \in {"none", "orig"}
            /\ shell.saved = "none" => swappiness = "orig"
            /\ pc = "off" => shell.saved = "none"

LEMMA SavedStep ==
  ASSUME "kill" \notin Faults
  PROVE  TInv /\ SavedInv /\ [Next]_vars => SavedInv'
<1> SUFFICES ASSUME TInv, SavedInv, [Next]_vars PROVE SavedInv'
  OBVIOUS
<1> USE DEF SavedInv, machine
<1>0. shell \in ShellType
  BY DEF TInv, TypeOK
<1>1. ASSUME NEW code, Exit(code) PROVE SavedInv'
  BY <1>1 DEF Exit, Restored, Off
<1>2. ASSUME NEW plan, NEW phase, run_plan(plan, phase) PROVE SavedInv'
  BY <1>0, <1>2 DEF run_plan, ShellType
<1>3. ASSUME NEW c \in Commands, Start(c) PROVE SavedInv'
  <2>1. shell'.saved = "none" /\ swappiness' = swappiness
    BY <1>3 DEF Start, Off
  <2>2. swappiness = "orig" /\ pc' # "off"
    BY <1>3 DEF Start
  <2>3. QED
    BY <2>1, <2>2
<1>4. ASSUME UNCHANGED swappiness, shell'.saved = shell.saved, pc' # "off" \/ pc' = pc
      PROVE  SavedInv'
  BY <1>4
<1>5. CASE \/ ClockGoesOn \/ apply_pool \/ StartRun \/ run_k6 \/ AppendRow \/ KeepRun
           \/ MoveDir \/ RenameRow \/ PlanDone \/ SummarizeGate \/ NextGateRate
  BY <1>0, <1>4, <1>5
     DEF ClockGoesOn, apply_pool, StartRun, run_k6, AppendRow, KeepRun, MoveDir, RenameRow, Renamed,
         Retry, PlanDone, AfterLoop, SummarizeGate, NextGateRate, ShellType
<1>6. ASSUME NEW e \in shell.todo, Skip(e) \/ Pick(e) PROVE SavedInv'
  BY <1>0, <1>4, <1>6 DEF Skip, Pick, ShellType
<1>7. CASE EndGate
  BY <1>1, <1>4, <1>7 DEF EndGate
<1>8. CASE UNCHANGED vars
  BY <1>4, <1>8 DEF vars
<1>9. ~Kill /\ (Terminate => SavedInv')
  BY DEF Kill, Terminate, Die, Restored, Off
<1> HIDE DEF SavedInv
<1>10. QED
  BY <1>1, <1>2, <1>3, <1>5, <1>6, <1>7, <1>8, <1>9
     DEF Next, Command, Script, OpenGate, OpenMain, OpenSweep, ClockStops,
         apply_pool_fails, SummarizeSession

(* However the script ends, the machine has its original swappiness again,  *)
(* unless some invocation was killed without its trap.                      *)
THEOREM SwappinessKept ==
  ASSUME "kill" \notin Faults PROVE Spec => []SwappinessRestored
<1> DEFINE Ended == exit \in {"ok", "error", "drift", "signal"} => pc = "off"
<1>1. Spec => []TInv
  BY InitTypes, TypeStep, PTL DEF Spec
<1>2. Init => SavedInv
  BY DEF Init, SavedInv, Off
<1>3. Spec => []SavedInv
  BY <1>1, <1>2, SavedStep, PTL DEF Spec
<1>4. Init => Ended
  BY DEF Init
<1>5. Ended /\ [Next]_vars => Ended'
  BY DEF Next, Command, Script, Start, OpenGate, OpenMain, OpenSweep, run_plan, ClockGoesOn,
         ClockStops, Skip, Pick, apply_pool, apply_pool_fails, StartRun, run_k6, AppendRow,
         KeepRun, MoveDir, RenameRow, Renamed, PlanDone, AfterLoop, SummarizeGate, SummarizeSession,
         NextGateRate, EndGate, Exit, Kill, Terminate, Die, vars
<1>6. Spec => []Ended
  BY <1>4, <1>5, PTL DEF Spec
<1>7. SavedInv /\ Ended => SwappinessRestored
  BY DEF SavedInv, SwappinessRestored
<1>8. QED
  BY <1>3, <1>6, <1>7, PTL

(* A row that counts passed, but for the row of the current run until it has *)
(* been judged.                                                             *)
Judged(r) == r.counted => r.whole
WholeInv ==
  /\ pc \notin {"judge", "sed"} => \A r \in manifest : Judged(r)
  /\ pc \in {"judge", "sed"} =>
       \A r \in manifest : Judged(r) \/ <<r.entry, r.attempt>> = RunId
  /\ pc = "judge" => \A r \in manifest :
       <<r.entry, r.attempt>> = RunId /\ r.counted => r.whole = Passes(shell.total, Stored(RunId))

LEMMA WholeStep ==
  ASSUME "kill" \notin Faults, "signal" \notin Faults
  PROVE  TInv /\ ResultInv /\ WholeInv /\ [Next]_vars => WholeInv'
<1> SUFFICES ASSUME TInv, ResultInv, WholeInv, [Next]_vars PROVE WholeInv'
  OBVIOUS
<1>0. shell \in ShellType /\ manifest \subseteq RowType
  BY DEF TInv, TypeOK
<1>1. ASSUME pc \notin {"judge", "sed"}, pc' \notin {"judge", "sed"}, manifest' = manifest
      PROVE  WholeInv'
  BY <1>1 DEF WholeInv, Judged
<1>2. ASSUME NEW reading, manifest' = Measured(reading), pc = "check",
             pc' \notin {"judge", "sed"}
      PROVE  WholeInv'
  <2>1. \A r \in manifest : Judged(r)
    BY <1>2 DEF WholeInv
  <2>2. \A r \in manifest' : Judged(r)
    BY <1>0, <1>2, <2>1 DEF Measured, RowType, Judged
  <2>3. QED
    BY <1>2, <2>2 DEF WholeInv, Judged
<1>3. CASE ClockGoesOn
  BY <1>0, <1>2, <1>3 DEF ClockGoesOn, ShellType
<1>4. CASE ClockStops
  BY <1>2, <1>4 DEF ClockStops, Exit
<1>5. CASE AppendRow
  <2>1. PICK v : manifest' = manifest \cup {Row(v)}
    BY <1>5 DEF AppendRow
  <2>2. /\ Row(v).entry = shell.line /\ Row(v).attempt = shell.attempt
        /\ Row(v).whole = Passes(shell.total, Stored(RunId))
    BY DEF Row
  <2>3. /\ pc = "row" /\ pc' = "judge" /\ shell' = shell /\ stored' = stored
    BY <1>5 DEF AppendRow
  <2>4. \A r \in manifest : Judged(r) /\ ~(r.entry = shell.line /\ r.counted)
    BY <2>3 DEF WholeInv, ResultInv, Unmeasured, Done
  <2>5. QED
    BY <2>1, <2>2, <2>3, <2>4 DEF WholeInv, Judged, RunId, Stored, Passes
<1>6. CASE KeepRun
  <2>1. /\ pc = "judge" /\ pc' = "loop" /\ manifest' = manifest
        /\ Passes(shell.total, Stored(RunId))
    BY <1>6 DEF KeepRun, runFiles
  <2>2. QED
    BY <2>1 DEF WholeInv, Judged
<1>7. CASE MoveDir
  BY <1>7 DEF MoveDir, WholeInv, Judged, RunId
<1>8. CASE RenameRow
  <2>1. \A r \in manifest' : Judged(r)
    BY <1>0, <1>8 DEF RenameRow, Renamed, WholeInv, Judged, RowType
  <2>2. QED
    BY <1>8, <2>1 DEF RenameRow, Renamed, WholeInv, Judged
<1>9. ASSUME NEW e \in shell.todo, Skip(e) \/ Pick(e) PROVE WholeInv'
  BY <1>1, <1>9 DEF Skip, Pick, runFiles
<1>10. CASE \/ apply_pool \/ apply_pool_fails \/ StartRun \/ run_k6 \/ PlanDone
            \/ SummarizeGate \/ SummarizeSession \/ NextGateRate \/ EndGate
  BY <1>1, <1>10 DEF apply_pool, apply_pool_fails, StartRun, run_k6, PlanDone, AfterLoop,
     SummarizeGate, SummarizeSession, NextGateRate, EndGate, Exit, runFiles
<1>11. CASE OpenGate \/ OpenMain \/ OpenSweep
  BY <1>1, <1>11 DEF OpenGate, OpenMain, OpenSweep, run_plan, runFiles
<1>12. ASSUME NEW c \in Commands, Start(c) PROVE WholeInv'
  BY <1>1, <1>12 DEF Start, runFiles
<1>13. CASE UNCHANGED vars
  BY <1>13 DEF vars, WholeInv, Judged, RunId, Stored, Passes
<1>14. ~Kill /\ ~Terminate
  BY DEF Kill, Terminate
<1>15. QED
  BY <1>3, <1>4, <1>5, <1>6, <1>7, <1>8, <1>9, <1>10, <1>11, <1>12, <1>13, <1>14
     DEF Next, Command, Script

(* If the script is never ended from outside, what a later invocation skips  *)
(* as done passed the check of its stored share.                            *)
THEOREM ResultsPassed ==
  ASSUME "kill" \notin Faults, "signal" \notin Faults PROVE Spec => []ResultsAreWhole
<1>1. Init => WholeInv
  BY DEF Init, WholeInv
<1>2. Spec => []WholeInv
  BY <1>1, WholeStep, ResultsInvariant, PTL DEF Spec
<1>3. WholeInv => ResultsAreWhole
  BY DEF WholeInv, Judged, ResultsAreWhole
<1>4. QED
  BY <1>2, <1>3, PTL

-----------------------------------------------------------------------------
(* What holds of a session made in one invocation.  The script finds an     *)
(* empty session, and what it finds later it left itself.                   *)

Fresh == starts = 0 => pc = "off" /\ manifest = {} /\ h1Status = NoStatus

LEMMA FreshStep == TInv /\ Fresh /\ [Next]_vars => Fresh'
<1> SUFFICES ASSUME TInv, Fresh, [Next]_vars PROVE Fresh'
  OBVIOUS
<1>1. starts \in Nat
  BY EnvironmentAssumption DEF TInv, TypeOK
<1>2. ASSUME NEW c \in Commands, Start(c) PROVE Fresh'
  BY <1>1, <1>2 DEF Fresh, Start
<1>3. ASSUME pc # "off", starts' = starts PROVE Fresh'
  BY <1>3 DEF Fresh
<1>4. CASE UNCHANGED vars
  BY <1>4 DEF Fresh, vars
<1>5. QED
  BY <1>2, <1>3, <1>4
     DEF Next, Command, Script, OpenGate, OpenMain, OpenSweep, run_plan, ClockGoesOn,
         ClockStops, Skip, Pick, apply_pool, apply_pool_fails, StartRun, run_k6, AppendRow,
         KeepRun, MoveDir, RenameRow, PlanDone, SummarizeGate, SummarizeSession,
         NextGateRate, EndGate, Kill, Terminate, Die

LEMMA FirstStart ==
  ASSUME MaxStarts = 1, Fresh, TInv, NEW c \in Commands, Start(c)
  PROVE  manifest = {} /\ h1Status = NoStatus
BY DEF Fresh, Start, TInv, TypeOK

(* The clock was checked before the first run, so that every later check has *)
(* a reading and marks all the runs since the one before.                   *)
ClockInv ==
  /\ pc # "off" => shell.checked \/ manifest = {}
  /\ pc \notin {"off", "gate", "main", "check"} => shell.checked
  /\ pc # "off" => \A r \in manifest : r.counted => r.clock \in {"unchecked", "short", "ok"}
  /\ ClockMeasured

LEMMA ClockStep ==
  ASSUME MaxStarts = 1
  PROVE  Fresh /\ TInv /\ ClockInv /\ [Next]_vars => ClockInv'
<1> SUFFICES ASSUME Fresh, TInv, ClockInv, [Next]_vars PROVE ClockInv'
  OBVIOUS
<1> USE DEF ClockInv, ClockMeasured, runFiles
<1>0. shell \in ShellType /\ manifest \subseteq RowType
  BY DEF TInv, TypeOK
<1>1. ASSUME NEW c \in Commands, Start(c) PROVE ClockInv'
  BY <1>1, FirstStart DEF Start
<1>2. ASSUME pc' = "off" PROVE ClockInv'
  BY <1>2
<1>3. ASSUME NEW plan, NEW phase, run_plan(plan, phase), pc \in {"gate", "main"}
      PROVE  ClockInv'
  BY <1>0, <1>3 DEF run_plan, ShellType
<1>4. CASE ClockGoesOn
  <2>1. PICK reading \in IF shell.checked THEN Readings \ {"bad"} ELSE {"blank"} :
          manifest' = Measured(reading)
    BY <1>4 DEF ClockGoesOn
  <2>2. shell'.checked
    BY <1>0, <1>4 DEF ClockGoesOn, ShellType
  <2>3. pc = "check"
    BY <1>4 DEF ClockGoesOn
  <2>4. \A r \in manifest' : r.counted => r.clock \in {"short", "ok"}
    <3>1. CASE manifest = {}
      BY <2>1, <3>1 DEF Measured
    <3>2. CASE shell.checked
      <4>1. reading \in {"short", "ok"}
        BY <2>1, <3>2, EnvironmentAssumption
      <4>2. \A r \in manifest : r.counted => r.clock \in {"unchecked", "short", "ok"}
        BY <2>3
      <4>3. QED
        BY <1>0, <2>1, <4>1, <4>2 DEF Measured, RowType
    <3>3. QED
      BY <2>3, <3>1, <3>2
  <2>5. QED
    BY <2>2, <2>4
<1>5. ASSUME NEW e \in shell.todo, Skip(e) \/ Pick(e) PROVE ClockInv'
  BY <1>0, <1>5 DEF Skip, Pick, ShellType
<1>6. CASE \/ apply_pool \/ StartRun \/ run_k6 \/ KeepRun \/ MoveDir \/ PlanDone
           \/ SummarizeGate \/ NextGateRate
  BY <1>0, <1>6 DEF apply_pool, StartRun, run_k6, KeepRun, MoveDir, PlanDone, AfterLoop,
     SummarizeGate, NextGateRate, ShellType
<1>7. CASE AppendRow
  <2>1. PICK v : manifest' = manifest \cup {Row(v)}
    BY <1>7 DEF AppendRow
  <2>2. Row(v).clock = "unchecked"
    BY DEF Row
  <2>3. QED
    BY <1>7, <2>1, <2>2 DEF AppendRow
<1>8. CASE RenameRow
  <2>1. \A r \in manifest' : r.counted => r \in manifest
    BY <1>0, <1>8 DEF RenameRow, Renamed, RowType
  <2>2. pc = "sed" /\ pc' \in {"run", "loop"} /\ shell'.checked = shell.checked
    BY <1>0, <1>8 DEF RenameRow, Retry, ShellType
  <2>3. QED
    BY <2>1, <2>2
<1>9. CASE EndGate
  BY <1>9 DEF EndGate, Exit
<1>10. CASE UNCHANGED vars
  BY <1>10 DEF vars
<1> HIDE DEF ClockInv
<1>11. QED
  BY <1>1, <1>2, <1>3, <1>4, <1>5, <1>6, <1>7, <1>8, <1>9, <1>10
     DEF Next, Command, Script, OpenGate, OpenMain, OpenSweep, ClockStops, apply_pool_fails,
         SummarizeSession, Exit, Kill, Terminate, Die

(* When a plan of a session made in one invocation is summarized, every run  *)
(* that counts lies between two clock checks.                               *)
THEOREM ClockChecked ==
  ASSUME MaxStarts = 1 PROVE Spec => []ClockMeasured
<1>1. Init => Fresh /\ ClockInv
  BY DEF Init, Fresh, ClockInv, ClockMeasured
<1>2. Spec => []TInv
  BY InitTypes, TypeStep, PTL DEF Spec
<1>3. Spec => []Fresh
  BY <1>1, <1>2, FreshStep, PTL DEF Spec
<1>4. Spec => []ClockInv
  BY <1>1, <1>2, <1>3, ClockStep, PTL DEF Spec
<1>5. ClockInv => ClockMeasured
  BY DEF ClockInv
<1>6. QED
  BY <1>4, <1>5, PTL

(* The gate and the main plan.  A row that counts keeps its directory while  *)
(* the script runs, so that Eligible misses no collapse; only a later       *)
(* invocation could find one without.                                       *)
DirInv ==
  /\ pc # "off" => \A r \in manifest : r.counted =>
       <<r.entry, r.attempt>> \in dirs \/ (pc = "sed" /\ <<r.entry, r.attempt>> = RunId)
  /\ pc \in {"k6", "row", "judge"} => RunId \in dirs

(* What a clock check leaves of a row, and what renaming leaves.             *)
SameRow(r, q) == /\ r.entry = q.entry /\ r.attempt = q.attempt
                 /\ r.counted = q.counted /\ r.verdict = q.verdict

LEMMA MarkedRows ==
  ASSUME TInv, NEW reading, manifest' = Measured(reading)
  PROVE  /\ \A r \in manifest : \E q \in manifest' : SameRow(r, q)
         /\ \A q \in manifest' : \E r \in manifest : SameRow(r, q)
<1> DEFINE Mark(r) == IF r.counted /\ r.clock = "unchecked"
                      THEN [r EXCEPT !.clock = reading] ELSE r
<1>1. manifest' = {Mark(r) : r \in manifest}
  BY DEF Measured
<1>2. \A r \in manifest : SameRow(r, Mark(r))
  BY DEF TInv, TypeOK, RowType, SameRow
<1> HIDE DEF Mark
<1>3. QED
  BY <1>1, <1>2

LEMMA RenamedRows ==
  ASSUME TInv, RenameRow
  PROVE  /\ \A q \in manifest' : q.counted => q \in manifest /\ <<q.entry, q.attempt>> # RunId
         /\ \A r \in manifest : r.entry # shell.line => r \in manifest'
<1> DEFINE Named(r) == IF <<r.entry, r.attempt>> = RunId
                       THEN [r EXCEPT !.counted = FALSE] ELSE r
<1>1. manifest' = {Named(r) : r \in manifest}
  BY DEF RenameRow, Renamed
<1>2. \A r \in manifest :
        /\ Named(r).counted => Named(r) = r /\ <<r.entry, r.attempt>> # RunId
        /\ r.entry # shell.line => Named(r) = r
  BY DEF TInv, TypeOK, RowType, RunId
<1> HIDE DEF Named
<1>3. QED
  BY <1>1, <1>2

LEMMA DirStep ==
  ASSUME MaxStarts = 1
  PROVE  Fresh /\ TInv /\ DirInv /\ [Next]_vars => DirInv'
<1> SUFFICES ASSUME Fresh, TInv, DirInv, [Next]_vars PROVE DirInv'
  OBVIOUS
<1>0. shell \in ShellType
  BY DEF TInv, TypeOK
<1> USE DEF DirInv, runFiles
<1>1. ASSUME NEW c \in Commands, Start(c) PROVE DirInv'
  BY <1>1, FirstStart DEF Start
<1>2. ASSUME pc' = "off" PROVE DirInv'
  BY <1>2
<1>3. ASSUME pc \notin {"off", "sed"}, manifest' = manifest, dirs' = dirs,
             pc' \notin {"k6", "row", "judge"}
      PROVE  DirInv'
  BY <1>3
<1>4. CASE ClockGoesOn
  <2>1. \A q \in manifest' : \E r \in manifest : SameRow(r, q)
    BY <1>4, MarkedRows DEF ClockGoesOn
  <2>2. pc = "check" /\ dirs' = dirs /\ pc' \notin {"k6", "row", "judge"}
    BY <1>0, <1>4 DEF ClockGoesOn, ShellType
  <2>3. QED
    BY <2>1, <2>2 DEF SameRow
<1>5. CASE StartRun
  BY <1>5 DEF StartRun, RunId
<1>6. CASE run_k6
  <2>1. RunId' = RunId
    BY <1>0, <1>6 DEF run_k6, RunId, ShellType
  <2>2. QED
    BY <1>6, <2>1 DEF run_k6
<1>7. CASE AppendRow
  <2>1. PICK v : manifest' = manifest \cup {Row(v)}
    BY <1>7 DEF AppendRow
  <2>2. <<Row(v).entry, Row(v).attempt>> = RunId /\ RunId' = RunId
    BY <1>7 DEF Row, RunId, AppendRow
  <2>3. QED
    BY <1>7, <2>1, <2>2 DEF AppendRow
<1>8. CASE MoveDir
  BY <1>8 DEF MoveDir, RunId
<1>9. CASE RenameRow
  <2>1. pc = "sed" /\ pc' \in {"run", "loop"} /\ dirs' = dirs
    BY <1>9 DEF RenameRow
  <2>2. QED
    BY <1>9, <2>1, RenamedRows
<1>10. CASE UNCHANGED vars
  BY <1>10 DEF vars, RunId
<1>11. CASE \/ OpenGate \/ OpenMain \/ OpenSweep \/ apply_pool \/ KeepRun \/ PlanDone
            \/ SummarizeGate \/ NextGateRate
  BY <1>3, <1>11 DEF OpenGate, OpenMain, OpenSweep, run_plan, apply_pool, KeepRun, PlanDone,
     AfterLoop, SummarizeGate, NextGateRate
<1>12. ASSUME NEW e \in shell.todo, Skip(e) \/ Pick(e) PROVE DirInv'
  BY <1>3, <1>12 DEF Skip, Pick
<1>13. CASE EndGate
  BY <1>2, <1>3, <1>13 DEF EndGate, Exit
<1> HIDE DEF DirInv
<1>14. QED
  BY <1>1, <1>2, <1>4, <1>5, <1>6, <1>7, <1>8, <1>9, <1>10, <1>11, <1>12, <1>13
     DEF Next, Command, Script, ClockStops, apply_pool_fails, SummarizeSession, Exit,
         Kill, Terminate, Die

(* While "all" runs a gate plan, gate_rate.txt holds the rate of the plan,   *)
(* and every collapse found so far is at that rate: the plans before it     *)
(* found none.                                                              *)
Collapsed(r) == r.counted /\ IsBase(r.entry) /\ r.verdict = "collapse"

Rate   == GATE_RATES[shell.gate]
Gating == /\ shell.cmd = "all" /\ shell.phase = "gate"
          /\ pc \notin {"off", "gate", "main"}

AtRate == /\ gateRate = Rate
          /\ \A r \in manifest : Collapsed(r) => r.entry.rate = Rate
          /\ \A e \in shell.todo : e.rate = Rate
          /\ HasLine => shell.line.rate = Rate

RateInv ==
  /\ shell.cmd = "all" => outDir
  /\ pc = "gate" /\ shell.cmd = "all" => \A r \in manifest : ~Collapsed(r)
  /\ Gating => AtRate
  /\ pc = "gated" => eligible = Eligible /\ shell.phase = "gate"

(* No architecture is eligible when no row collapsed, and the reverse.       *)
LEMMA EligibleCollapsed ==
  ASSUME DirInv, pc \notin {"off", "sed"}
  PROVE  /\ \A r \in manifest : Collapsed(r) => r.entry.arch \in Eligible
         /\ \A a \in Eligible : \E r \in manifest : Collapsed(r) /\ r.entry.arch = a
BY DEF DirInv, Eligible, Collapsed

LEMMA RateStep ==
  ASSUME MaxStarts = 1
  PROVE  Fresh /\ TInv /\ DirInv /\ RateInv /\ [Next]_vars => RateInv'
<1> SUFFICES ASSUME Fresh, TInv, DirInv, RateInv, [Next]_vars PROVE RateInv'
  OBVIOUS
<1>0. shell \in ShellType
  BY DEF TInv, TypeOK
<1> USE DEF RateInv, Gating, AtRate, HasLine, Rate, runFiles, gateFiles
<1>1. ASSUME NEW c \in Commands, Start(c) PROVE RateInv'
  <2>1. manifest' = {} /\ outDir' = (outDir \/ c # "gate") /\ pc' \in {"gate", "main"}
    BY <1>1, FirstStart DEF Start
  <2>2. shell'.cmd = c
    BY <1>1 DEF Start, Off
  <2>3. QED
    BY <2>1, <2>2
<1>2. ASSUME pc' = "off", shell' = Off PROVE RateInv'
  BY <1>2 DEF Off
<1>3. CASE OpenGate
  <2>1. /\ pc = "gate" /\ pc' = "check" /\ shell'.then = "loop" /\ manifest' = manifest
        /\ shell'.cmd = shell.cmd /\ shell'.gate = shell.gate
        /\ shell'.todo = build_gate_plan(Rate) /\ outDir'
    BY <1>0, <1>3 DEF OpenGate, run_plan, ShellType
  <2>2. \A e \in build_gate_plan(Rate) : e.rate = Rate
    BY DEF build_gate_plan, Line
  <2>3. shell.cmd = "all" => gateRate' = Rate
    BY <1>3 DEF OpenGate
  <2>4. QED
    BY <2>1, <2>2, <2>3 DEF Collapsed
<1>4. CASE OpenMain
  BY <1>0, <1>4 DEF OpenMain, run_plan, ShellType
<1>5. CASE OpenSweep
  BY <1>0, <1>5 DEF OpenSweep, run_plan, ShellType
<1>6. CASE ClockGoesOn
  <2>1. \A q \in manifest' : \E r \in manifest : SameRow(r, q)
    BY <1>6, MarkedRows DEF ClockGoesOn
  <2>2. \A q \in manifest' : Collapsed(q) =>
          \E r \in manifest : Collapsed(r) /\ r.entry = q.entry
    BY <2>1 DEF SameRow, Collapsed
  <2>3. /\ pc = "check" /\ pc' = shell.then /\ pc' \in {"loop", "apply", "summary"}
        /\ shell'.cmd = shell.cmd /\ shell'.phase = shell.phase /\ shell'.gate = shell.gate
        /\ shell'.todo = shell.todo /\ shell'.line = shell.line
        /\ UNCHANGED gateFiles
    BY <1>0, <1>6 DEF ClockGoesOn, ShellType
  <2>4. QED
    BY <2>2, <2>3
<1>7. ASSUME NEW e \in shell.todo, Skip(e) \/ Pick(e) PROVE RateInv'
  <2>1. /\ pc = "loop" /\ pc' \in {"loop", "run", "apply", "check"}
        /\ shell'.cmd = shell.cmd /\ shell'.phase = shell.phase /\ shell'.gate = shell.gate
        /\ shell'.todo = shell.todo \ {e} /\ (shell'.line = e \/ pc' = "loop")
        /\ UNCHANGED <<manifest, gateFiles>>
    BY <1>0, <1>7 DEF Skip, Pick, ShellType
  <2>2. QED
    BY <2>1 DEF Collapsed
<1>8. CASE apply_pool \/ StartRun \/ run_k6 \/ KeepRun \/ MoveDir \/ PlanDone
  <2>1. /\ pc \notin {"off", "gate", "main", "gated", "check"}
        /\ pc' \notin {"off", "gate", "main", "gated"}
        /\ HasLine' => HasLine
        /\ shell'.cmd = shell.cmd /\ shell'.phase = shell.phase /\ shell'.gate = shell.gate
        /\ shell'.todo = shell.todo /\ shell'.line = shell.line
        /\ UNCHANGED <<manifest, gateFiles>>
    BY <1>0, <1>8 DEF apply_pool, StartRun, run_k6, KeepRun, MoveDir, PlanDone, AfterLoop,
       ShellType
  <2>2. QED
    BY <2>1 DEF Collapsed
<1>9. CASE AppendRow
  <2>1. PICK v : manifest' = manifest \cup {Row(v)}
    BY <1>9 DEF AppendRow
  <2>2. Row(v).entry = shell.line
    BY DEF Row
  <2>3. QED
    BY <1>9, <2>1, <2>2 DEF AppendRow, Collapsed
<1>10. CASE RenameRow
  <2>1. \A q \in manifest' : Collapsed(q) => q \in manifest
    BY <1>10, RenamedRows DEF Collapsed
  <2>2. /\ pc = "sed" /\ pc' \in {"run", "loop"}
        /\ shell'.cmd = shell.cmd /\ shell'.phase = shell.phase /\ shell'.gate = shell.gate
        /\ shell'.todo = shell.todo /\ shell'.line = shell.line
        /\ UNCHANGED gateFiles
    BY <1>0, <1>10 DEF RenameRow, Retry, ShellType
  <2>3. QED
    BY <2>1, <2>2
<1>11. CASE SummarizeGate
  <2>1. eligible' = Eligible /\ Eligible' = Eligible
    BY <1>11 DEF SummarizeGate, Eligible
  <2>2. QED
    BY <1>11, <2>1 DEF SummarizeGate, Collapsed
<1>12. CASE NextGateRate
  <2>1. \A r \in manifest : ~Collapsed(r)
    BY <1>12, EligibleCollapsed DEF NextGateRate, Reproduced
  <2>2. QED
    BY <1>0, <1>12, <2>1 DEF NextGateRate, ShellType, Collapsed
<1>13. CASE EndGate
  BY <1>2, <1>13 DEF EndGate, Exit
<1>14. CASE UNCHANGED vars
  BY <1>14 DEF vars, Eligible, Collapsed
<1> HIDE DEF RateInv
<1>15. QED
  BY <1>1, <1>2, <1>3, <1>4, <1>5, <1>6, <1>7, <1>8, <1>9, <1>10, <1>11, <1>12, <1>13, <1>14
     DEF Next, Command, Script, ClockStops, apply_pool_fails, SummarizeSession, Exit,
         Kill, Terminate, Die

(* The collapses behind what the gate decided: at the end of the gate, one   *)
(* at its rate for each eligible architecture; once h1_status.txt names      *)
(* them, rows that no later run replaces.                                   *)
Shows(a, rate, r) == Collapsed(r) /\ r.entry.arch = a /\ r.entry.rate = rate

GateShown ==
  pc = "gated" /\ shell.cmd = "all" =>
    \A a \in eligible : \E r \in manifest : Shows(a, gateRate, r)

WitnessInv ==
  /\ pc = "main" /\ shell.cmd = "all" =>
       \A a \in eligible : \E r \in manifest : Shows(a, gateRate, r)
  /\ \A a \in h1Status.archs : \E r \in manifest :
       Shows(a, h1Status.rate, r) /\ (HasLine => r.entry # shell.line)

LEMMA WitnessStep == TInv /\ GateShown /\ WitnessInv /\ [Next]_vars => WitnessInv'
<1> SUFFICES ASSUME TInv, GateShown, WitnessInv, [Next]_vars PROVE WitnessInv'
  OBVIOUS
<1>0. shell \in ShellType
  BY DEF TInv, TypeOK
<1> USE DEF WitnessInv, HasLine, runFiles, gateFiles
<1>1. ASSUME NEW c \in Commands, Start(c) PROVE WitnessInv'
  <2>1. /\ pc' \in {"gate", "main"} /\ h1Status' = h1Status /\ manifest' = manifest
        /\ pc' = "main" => c = "sweep"
    BY <1>1 DEF Start
  <2>2. shell'.cmd = c
    BY <1>1 DEF Start, Off
  <2>3. QED
    BY <2>1, <2>2 DEF Shows, Collapsed
<1>2. ASSUME pc' # "main", h1Status' = h1Status, HasLine' => HasLine /\ shell'.line = shell.line,
             \A r \in manifest : \E q \in manifest' : SameRow(r, q)
      PROVE  WitnessInv'
  BY <1>2 DEF Shows, Collapsed, SameRow
<1>3. ASSUME manifest' = manifest
      PROVE  \A r \in manifest : \E q \in manifest' : SameRow(r, q)
  BY <1>3 DEF SameRow
<1>4. CASE OpenMain
  <2>1. /\ pc = "main" /\ shell.cmd = "all" /\ pc' = "check" /\ shell'.then = "loop"
        /\ manifest' = manifest
    BY <1>0, <1>4 DEF OpenMain, run_plan, ShellType
  <2>2. \A a \in h1Status'.archs : \E r \in manifest : Shows(a, h1Status'.rate, r)
    BY <1>4, <2>1 DEF OpenMain, NoStatus
  <2>3. QED
    BY <2>1, <2>2 DEF Shows, Collapsed
<1>5. CASE OpenGate \/ OpenSweep
  <2>1. /\ pc' = "check" /\ shell'.then = "loop" /\ manifest' = manifest
        /\ h1Status' = h1Status
    BY <1>0, <1>5 DEF OpenGate, OpenSweep, run_plan, ShellType
  <2>2. QED
    BY <1>2, <1>3, <2>1
<1>6. CASE ClockGoesOn
  <2>1. /\ pc = "check" /\ pc' = shell.then /\ shell'.line = shell.line
        /\ pc' \in {"loop", "apply", "summary"} /\ h1Status' = h1Status
    BY <1>0, <1>6 DEF ClockGoesOn, ShellType
  <2>2. \A r \in manifest : \E q \in manifest' : SameRow(r, q)
    BY <1>6, MarkedRows DEF ClockGoesOn
  <2>3. QED
    BY <1>2, <2>1, <2>2
<1>7. CASE ClockStops
  <2>1. \A r \in manifest : \E q \in manifest' : SameRow(r, q)
    BY <1>7, MarkedRows DEF ClockStops
  <2>2. QED
    BY <1>2, <1>7, <2>1 DEF ClockStops, Exit
<1>8. ASSUME NEW e \in shell.todo, Skip(e) PROVE WitnessInv'
  BY <1>2, <1>3, <1>8 DEF Skip
<1>9. ASSUME NEW e \in shell.todo, Pick(e) PROVE WitnessInv'
  <2>1. /\ manifest' = manifest /\ h1Status' = h1Status /\ pc' # "main"
        /\ shell'.line = e /\ ~Done(e)
    BY <1>0, <1>9 DEF Pick, ShellType
  <2>2. QED
    BY <2>1 DEF Shows, Collapsed, Done
<1>10. CASE apply_pool \/ StartRun \/ run_k6 \/ KeepRun \/ MoveDir \/ PlanDone
            \/ SummarizeGate \/ NextGateRate
  <2>1. /\ pc' # "main" /\ h1Status' = h1Status /\ manifest' = manifest
        /\ HasLine' => HasLine /\ shell'.line = shell.line
    BY <1>0, <1>10 DEF apply_pool, StartRun, run_k6, KeepRun, MoveDir, PlanDone, AfterLoop,
       SummarizeGate, NextGateRate, ShellType
  <2>2. QED
    BY <1>2, <1>3, <2>1
<1>11. CASE AppendRow
  <2>1. \A r \in manifest : \E q \in manifest' : SameRow(r, q)
    BY <1>11 DEF AppendRow, SameRow
  <2>2. QED
    BY <1>2, <1>11, <2>1 DEF AppendRow
<1>12. CASE RenameRow
  <2>1. /\ pc = "sed" /\ pc' \in {"run", "loop"} /\ h1Status' = h1Status
        /\ shell'.line = shell.line
    BY <1>0, <1>12 DEF RenameRow, Retry, ShellType
  <2>2. QED
    BY <1>12, <2>1, RenamedRows DEF Shows, Collapsed
<1>13. CASE EndGate
  <2>1. CASE shell.cmd = "all"
    <3>1. /\ pc = "gated" /\ pc' = "main" /\ shell' = shell
          /\ UNCHANGED <<manifest, gateFiles>>
      BY <1>13, <2>1 DEF EndGate
    <3>2. \A a \in eligible : \E r \in manifest : Shows(a, gateRate, r)
      BY <2>1, <3>1 DEF GateShown
    <3>3. QED
      BY <3>1, <3>2 DEF Shows, Collapsed
  <2>2. CASE shell.cmd # "all"
    BY <1>2, <1>3, <1>13, <2>2 DEF EndGate, Exit
  <2>3. QED
    BY <2>1, <2>2
<1>14. CASE \/ apply_pool_fails \/ SummarizeSession \/ Kill \/ Terminate
  <2>1. pc' = "off" /\ h1Status' = h1Status /\ manifest' = manifest
    BY <1>14 DEF apply_pool_fails, SummarizeSession, Exit, Kill, Terminate, Die
  <2>2. QED
    BY <1>2, <1>3, <2>1
<1>15. CASE UNCHANGED vars
  BY <1>15 DEF vars, Shows, Collapsed
<1> HIDE DEF WitnessInv
<1>16. QED
  BY <1>1, <1>4, <1>5, <1>6, <1>7, <1>8, <1>9, <1>10, <1>11, <1>12, <1>13, <1>14, <1>15
     DEF Next, Command, Script

LEMMA WitnessReproduces == WitnessInv => GateRateReproduced
BY DEF WitnessInv, GateRateReproduced, Shows, Collapsed

(* In a session made in one invocation, each architecture h1_status.txt      *)
(* names has a run that counts and collapsed at the rate it names, which is *)
(* the rate the main plan repeats with every pool.                          *)
THEOREM GateRateKept ==
  ASSUME MaxStarts = 1 PROVE Spec => []GateRateReproduced
<1>1. Init => Fresh /\ DirInv /\ RateInv /\ WitnessInv
  BY DEF Init, Fresh, DirInv, RateInv, WitnessInv, Gating, Off, NoStatus
<1>2. Spec => []TInv
  BY InitTypes, TypeStep, PTL DEF Spec
<1>3. Spec => []Fresh
  BY <1>1, <1>2, FreshStep, PTL DEF Spec
<1>4. Spec => []DirInv
  BY <1>1, <1>2, <1>3, DirStep, PTL DEF Spec
<1>5. Spec => []RateInv
  BY <1>1, <1>2, <1>3, <1>4, RateStep, PTL DEF Spec
<1>6. DirInv /\ RateInv => GateShown
  BY EligibleCollapsed DEF GateShown, RateInv, Gating, AtRate, Shows
<1>7. Spec => []GateShown
  BY <1>4, <1>5, <1>6, PTL
<1>8. Spec => []WitnessInv
  BY <1>1, <1>2, <1>7, WitnessStep, PTL DEF Spec
<1>9. QED
  BY <1>8, WitnessReproduces, PTL

-----------------------------------------------------------------------------
(* What holds of a session made in any number of invocations.                *)

(* With one gate rate, "all" has written it to gate_rate.txt by the time its *)
(* gate is summarized, and what is eligible then collapsed at that rate: the *)
(* base condition has no other, whichever invocation ran it.                *)
OneRateInv ==
  /\ shell.cmd = "all" => outDir
  /\ Gating => gateRate = GATE_RATES[1]
  /\ pc = "gated" =>
       /\ shell.phase = "gate"
       /\ \A a \in eligible : \E r \in manifest : Collapsed(r) /\ r.entry.arch = a

LEMMA OneRateStep ==
  ASSUME Len(GATE_RATES) = 1
  PROVE  TInv /\ OneRateInv /\ [Next]_vars => OneRateInv'
<1> SUFFICES ASSUME TInv, OneRateInv, [Next]_vars PROVE OneRateInv'
  OBVIOUS
<1>0. shell \in ShellType
  BY DEF TInv, TypeOK
<1> USE DEF OneRateInv, Gating, runFiles, gateFiles
<1>1. ASSUME NEW c \in Commands, Start(c) PROVE OneRateInv'
  <2>1. outDir' = (outDir \/ c # "gate") /\ pc' \in {"gate", "main"}
    BY <1>1 DEF Start
  <2>2. shell'.cmd = c
    BY <1>1 DEF Start, Off
  <2>3. QED
    BY <2>1, <2>2
<1>2. ASSUME pc' = "off", shell' = Off PROVE OneRateInv'
  BY <1>2 DEF Off
<1>3. CASE OpenGate
  <2>1. /\ pc = "gate" /\ pc' = "check" /\ shell'.cmd = shell.cmd /\ outDir'
    BY <1>0, <1>3 DEF OpenGate, run_plan, ShellType
  <2>2. shell.gate = 1
    BY <2>1 DEF TInv, GateChosen
  <2>3. shell.cmd = "all" => gateRate' = GATE_RATES[1]
    BY <1>3, <2>2 DEF OpenGate
  <2>4. QED
    BY <2>1, <2>3
<1>4. CASE OpenMain \/ OpenSweep
  <2>1. pc' = "check" /\ shell'.phase # "gate" /\ outDir'
    BY <1>0, <1>4 DEF OpenMain, OpenSweep, run_plan, ShellType
  <2>2. QED
    BY <2>1
<1>5. CASE \/ ClockGoesOn \/ apply_pool \/ StartRun \/ run_k6 \/ AppendRow \/ KeepRun
           \/ MoveDir \/ RenameRow \/ PlanDone
  <2>1. /\ pc \notin {"off", "gate", "main", "gated"} /\ pc' # "gated"
        /\ shell'.cmd = shell.cmd /\ shell'.phase = shell.phase
        /\ UNCHANGED gateFiles
    BY <1>0, <1>5 DEF ClockGoesOn, apply_pool, StartRun, run_k6, AppendRow, KeepRun,
       MoveDir, RenameRow, Retry, PlanDone, AfterLoop, ShellType
  <2>2. QED
    BY <2>1
<1>6. ASSUME NEW e \in shell.todo, Skip(e) \/ Pick(e) PROVE OneRateInv'
  <2>1. /\ pc = "loop" /\ pc' # "gated"
        /\ shell'.cmd = shell.cmd /\ shell'.phase = shell.phase
        /\ UNCHANGED gateFiles
    BY <1>0, <1>6 DEF Skip, Pick, ShellType
  <2>2. QED
    BY <2>1
<1>7. CASE SummarizeGate
  <2>1. \A a \in Eligible : \E r \in manifest : Collapsed(r) /\ r.entry.arch = a
    BY DEF Eligible, Collapsed
  <2>2. QED
    BY <1>7, <2>1 DEF SummarizeGate, Collapsed
<1>8. CASE NextGateRate
  <2>1. pc' = "gate" /\ shell'.cmd = shell.cmd /\ UNCHANGED gateFiles
    BY <1>0, <1>8 DEF NextGateRate, ShellType
  <2>2. QED
    BY <2>1
<1>9. CASE EndGate
  BY <1>2, <1>9 DEF EndGate, Exit
<1>10. CASE UNCHANGED vars
  BY <1>10 DEF vars, Collapsed
<1> HIDE DEF OneRateInv
<1>11. QED
  BY <1>1, <1>2, <1>3, <1>4, <1>5, <1>6, <1>7, <1>8, <1>9, <1>10
     DEF Next, Command, Script, ClockStops, apply_pool_fails, SummarizeSession, Exit,
         Kill, Terminate, Die

(* With one gate rate h1_status.txt is right however often the session was   *)
(* interrupted and resumed: it takes two rates for a resumed gate to name a *)
(* rate that no run collapsed at.                                           *)
THEOREM GateRateOfOne ==
  ASSUME Len(GATE_RATES) = 1 PROVE Spec => []GateRateReproduced
<1>1. Init => OneRateInv /\ WitnessInv
  BY DEF Init, OneRateInv, WitnessInv, Gating, Off, NoStatus
<1>2. Spec => []TInv
  BY InitTypes, TypeStep, PTL DEF Spec
<1>3. Spec => []OneRateInv
  BY <1>1, <1>2, OneRateStep, PTL DEF Spec
<1>4. OneRateInv => GateShown
  <2> SUFFICES ASSUME OneRateInv, pc = "gated", shell.cmd = "all", NEW a \in eligible
               PROVE  \E r \in manifest : Shows(a, gateRate, r)
    BY DEF GateShown
  <2>1. gateRate = GATE_RATES[1]
    BY DEF OneRateInv, Gating
  <2>2. PICK r \in manifest : Collapsed(r) /\ r.entry.arch = a
    BY DEF OneRateInv
  <2>3. PICK i \in DOMAIN GATE_RATES : GATE_RATES[i] = r.entry.rate
    BY <2>2 DEF Collapsed, IsBase
  <2>4. i = 1
    BY <2>3, SettingsAssumption
  <2>5. QED
    BY <2>1, <2>2, <2>3, <2>4 DEF Shows
<1>5. Spec => []GateShown
  BY <1>3, <1>4, PTL
<1>6. Spec => []WitnessInv
  BY <1>1, <1>2, <1>5, WitnessStep, PTL DEF Spec
<1>7. QED
  BY <1>6, WitnessReproduces, PTL

(* The clock of a session that ran to its summaries.  Every summary comes    *)
(* after a check that marked all the runs before it, so that the next       *)
(* invocation, whose first check has no reading, finds none to mark.        *)
AllMarked == \A r \in manifest : r.counted => r.clock \in {"short", "ok"}

ClockEndsInv ==
  /\ \A r \in manifest : r.counted => r.clock \in {"unchecked", "short", "ok"}
  /\ pc \in {"off", "gate", "main", "summary", "gated"} => AllMarked
  /\ pc = "check" => shell.checked \/ AllMarked
  /\ pc \in {"loop", "apply", "run", "k6", "row", "judge", "sed"} => shell.checked

LEMMA ClockEndsStep ==
  ASSUME Faults \cap {"kill", "signal", "pool"} = {}, "bad" \notin Readings
  PROVE  TInv /\ ClockEndsInv /\ [Next]_vars => ClockEndsInv'
<1> SUFFICES ASSUME TInv, ClockEndsInv, [Next]_vars PROVE ClockEndsInv'
  OBVIOUS
<1> USE DEF ClockEndsInv, AllMarked, runFiles
<1>0. shell \in ShellType /\ manifest \subseteq RowType
  BY DEF TInv, TypeOK
<1>1. ASSUME NEW c \in Commands, Start(c) PROVE ClockEndsInv'
  BY <1>1 DEF Start
<1>2. ASSUME NEW plan, NEW phase, run_plan(plan, phase), pc \in {"gate", "main"}
      PROVE  ClockEndsInv'
  BY <1>0, <1>2 DEF run_plan, ShellType
<1>3. CASE ClockGoesOn
  <2>1. PICK reading \in IF shell.checked THEN Readings \ {"bad"} ELSE {"blank"} :
          manifest' = Measured(reading)
    BY <1>3 DEF ClockGoesOn
  <2>2. pc = "check" /\ shell'.checked /\ pc' \in {"loop", "apply", "summary"}
    BY <1>0, <1>3 DEF ClockGoesOn, ShellType
  <2>3. AllMarked'
    <3>1. CASE AllMarked
      BY <1>0, <2>1, <3>1 DEF Measured, RowType
    <3>2. CASE shell.checked
      <4>1. reading \in {"short", "ok"}
        BY <2>1, <3>2, EnvironmentAssumption
      <4>2. QED
        BY <1>0, <2>1, <4>1 DEF Measured, RowType
    <3>3. QED
      BY <2>2, <3>1, <3>2
  <2>4. QED
    BY <2>2, <2>3
<1>4. ASSUME NEW e \in shell.todo, Skip(e) \/ Pick(e) PROVE ClockEndsInv'
  BY <1>0, <1>4 DEF Skip, Pick, ShellType
<1>5. CASE \/ apply_pool \/ StartRun \/ run_k6 \/ KeepRun \/ MoveDir \/ PlanDone
           \/ SummarizeGate \/ SummarizeSession \/ NextGateRate \/ EndGate
  BY <1>0, <1>5 DEF apply_pool, StartRun, run_k6, KeepRun, MoveDir, PlanDone, AfterLoop,
     SummarizeGate, SummarizeSession, NextGateRate, EndGate, Exit, ShellType
<1>6. CASE AppendRow
  <2>1. PICK v : manifest' = manifest \cup {Row(v)}
    BY <1>6 DEF AppendRow
  <2>2. Row(v).clock = "unchecked"
    BY DEF Row
  <2>3. QED
    BY <1>6, <2>1, <2>2 DEF AppendRow
<1>7. CASE RenameRow
  <2>1. \A r \in manifest' : r.counted => r \in manifest
    BY <1>7, RenamedRows
  <2>2. pc = "sed" /\ pc' \in {"run", "loop"} /\ shell'.checked = shell.checked
    BY <1>0, <1>7 DEF RenameRow, Retry, ShellType
  <2>3. QED
    BY <2>1, <2>2
<1>8. CASE UNCHANGED vars
  BY <1>8 DEF vars
<1>9. ~Kill /\ ~Terminate /\ ~apply_pool_fails /\ ~ClockStops
  BY DEF Kill, Terminate, apply_pool_fails, ClockStops
<1> HIDE DEF ClockEndsInv
<1>10. QED
  BY <1>1, <1>2, <1>3, <1>4, <1>5, <1>6, <1>7, <1>8, <1>9
     DEF Next, Command, Script, OpenGate, OpenMain, OpenSweep

(* If every invocation reaches its end, the clock was checked around every   *)
(* run of a session however many invocations made it ("gate", then "all",    *)
(* then "sweep", each with lost points and retries).                         *)
THEOREM ClockCheckedAcross ==
  ASSUME Faults \cap {"kill", "signal", "pool"} = {}, "bad" \notin Readings
  PROVE  Spec => []ClockMeasured
<1>1. Spec => []TInv
  BY InitTypes, TypeStep, PTL DEF Spec
<1>2. Init => ClockEndsInv
  BY DEF Init, ClockEndsInv, AllMarked
<1>3. Spec => []ClockEndsInv
  BY <1>1, <1>2, ClockEndsStep, PTL DEF Spec
<1>4. ClockEndsInv => ClockMeasured
  BY DEF ClockEndsInv, AllMarked, ClockMeasured
<1>5. QED
  BY <1>3, <1>4, PTL

(* What an interruption can spoil.  A result that is not whole is the row of *)
(* the run an invocation was judging when it was ended: one for each.        *)
Spoiled    == {r \in manifest : r.counted /\ ~r.whole}
Current(r) == <<r.entry, r.attempt>> = RunId
Left       == {r \in Spoiled : ~Current(r)}

Judging == pc \in {"judge", "sed"}

SpoiledInv ==
  /\ IsFiniteSet(Spoiled)
  /\ IF pc = "off" THEN Cardinality(Spoiled) <= starts
     ELSE Cardinality(IF Judging THEN Left ELSE Spoiled) < starts
  /\ Judging => \A r, q \in Spoiled : Current(r) /\ Current(q) => r = q
  /\ pc = "judge" => \A r \in manifest :
       Current(r) /\ r.counted => r.whole = Passes(shell.total, Stored(RunId))

(* A session of n invocations has at most n results that are not whole.      *)
SpoiledBounded == Cardinality(Spoiled) <= starts

LEMMA LeftFinite ==
  ASSUME SpoiledInv
  PROVE  /\ IsFiniteSet(Left) /\ Cardinality(Left) \in Nat
         /\ Cardinality(Spoiled) \in Nat /\ Cardinality(Left) <= Cardinality(Spoiled)
BY FS_Subset, FS_CardinalityType DEF SpoiledInv, Left

(* One row at most is being judged.                                          *)
LEMMA OneIsJudged ==
  ASSUME SpoiledInv, Judging
  PROVE  Cardinality(Spoiled) <= Cardinality(Left) + 1
<1>1. CASE Left = Spoiled
  BY <1>1, LeftFinite
<1>2. CASE Left # Spoiled
  <2>1. PICK r \in Spoiled : Current(r)
    BY <1>2 DEF Left
  <2>2. Spoiled = Left \cup {r}
    BY <2>1 DEF SpoiledInv, Left
  <2>3. QED
    BY <2>2, LeftFinite, FS_AddElement
<1>3. QED
  BY <1>1, <1>2

(* A clock check marks a spoiled result and adds none.                       *)
LEMMA MeasuredSpoiled ==
  ASSUME TInv, IsFiniteSet(Spoiled), NEW reading, manifest' = Measured(reading)
  PROVE  IsFiniteSet(Spoiled') /\ Cardinality(Spoiled') <= Cardinality(Spoiled)
<1> DEFINE Mark(r) == IF r.counted /\ r.clock = "unchecked"
                      THEN [r EXCEPT !.clock = reading] ELSE r
<1> DEFINE mark == [r \in Spoiled |-> Mark(r)]
<1>1. manifest' = {Mark(r) : r \in manifest}
  BY DEF Measured
<1>2. \A r \in manifest : Mark(r).counted = r.counted /\ Mark(r).whole = r.whole
  BY DEF TInv, TypeOK, RowType
<1> HIDE DEF Mark
<1>3. Spoiled' = {Mark(r) : r \in Spoiled}
  BY <1>1, <1>2 DEF Spoiled
<1>4. mark \in Surjection(Spoiled, Spoiled')
  BY <1>3 DEF Surjection
<1> HIDE DEF mark
<1>5. QED
  BY <1>4, FS_Surjection

LEMMA SpoiledStep == TInv /\ ResultInv /\ SpoiledInv /\ [Next]_vars => SpoiledInv'
<1> SUFFICES ASSUME TInv, ResultInv, SpoiledInv, [Next]_vars PROVE SpoiledInv'
  OBVIOUS
<1>0. /\ shell \in ShellType /\ manifest \subseteq RowType /\ starts \in Nat
      /\ IsFiniteSet(Spoiled) /\ Cardinality(Spoiled) \in Nat
  BY EnvironmentAssumption, LeftFinite DEF TInv, TypeOK, SpoiledInv
<1> USE DEF runFiles, Judging
<1>1. ASSUME NEW c \in Commands, Start(c) PROVE SpoiledInv'
  <2>1. /\ pc = "off" /\ pc' \in {"gate", "main"} /\ starts' = starts + 1
        /\ Spoiled' = Spoiled
    BY <1>1 DEF Start, Spoiled
  <2>2. Cardinality(Spoiled) < starts'
    BY <1>0, <2>1 DEF SpoiledInv
  <2>3. QED
    BY <1>0, <2>1, <2>2 DEF SpoiledInv
<1>2. ASSUME pc \notin {"off", "judge", "sed"}, pc' \notin {"judge", "sed"},
             starts' = starts, IsFiniteSet(Spoiled'),
             Cardinality(Spoiled') <= Cardinality(Spoiled)
      PROVE  SpoiledInv'
  <2>1. Cardinality(Spoiled) < starts
    BY <1>2 DEF SpoiledInv
  <2>2. Cardinality(Spoiled') \in Nat
    BY <1>2, FS_CardinalityType
  <2>3. Cardinality(Spoiled') < starts'
    BY <1>0, <1>2, <2>1, <2>2
  <2>4. QED
    BY <1>0, <1>2, <2>2, <2>3 DEF SpoiledInv
<1>3. ASSUME pc \notin {"off", "judge", "sed"}, pc' \notin {"judge", "sed"},
             starts' = starts, manifest' = manifest
      PROVE  SpoiledInv'
  <2>1. Spoiled' = Spoiled
    BY <1>3 DEF Spoiled
  <2>2. QED
    BY <1>0, <1>2, <1>3, <2>1
<1>4. CASE ClockGoesOn \/ ClockStops
  <2>1. PICK reading : manifest' = Measured(reading)
    BY <1>4 DEF ClockGoesOn, ClockStops
  <2>2. /\ pc = "check" /\ pc' \notin {"judge", "sed"} /\ starts' = starts
    BY <1>0, <1>4 DEF ClockGoesOn, ClockStops, Exit, ShellType
  <2>3. QED
    BY <1>0, <1>2, <2>1, <2>2, MeasuredSpoiled
<1>5. CASE AppendRow
  <2>1. PICK v : manifest' = manifest \cup {Row(v)}
    BY <1>5 DEF AppendRow
  <2>2. /\ pc = "row" /\ pc' = "judge" /\ shell' = shell /\ stored' = stored
        /\ starts' = starts /\ RunId' = RunId
    BY <1>5 DEF AppendRow, RunId
  <2>3. \A r \in manifest : ~(r.entry = shell.line /\ r.counted)
    BY <2>2 DEF ResultInv, Unmeasured, Done
  <2>4. /\ <<Row(v).entry, Row(v).attempt>> = RunId /\ Row(v).counted
        /\ Row(v).whole = Passes(shell.total, Stored(RunId))
    BY DEF Row, RunId
  <2>5. Spoiled' = Spoiled \/ Spoiled' = Spoiled \cup {Row(v)}
    BY <2>1 DEF Spoiled
  <2>6. IsFiniteSet(Spoiled')
    BY <1>0, <2>5, FS_AddElement
  <2>7. Left' = Spoiled
    BY <2>1, <2>2, <2>3, <2>4 DEF Left, Spoiled, Current, RunId
  <2>8. \A r \in manifest' : (r.counted /\ <<r.entry, r.attempt>> = RunId) => r = Row(v)
    BY <2>1, <2>3 DEF RunId
  <2>9. Cardinality(Spoiled) < starts
    BY <2>2 DEF SpoiledInv
  <2>10. \A r, q \in Spoiled' : Current(r)' /\ Current(q)' => r = q
    BY <2>2, <2>8 DEF Spoiled, Current
  <2>11. \A r \in manifest' :
           Current(r)' /\ r.counted => r.whole = Passes(shell'.total, Stored(RunId)')
    BY <2>2, <2>4, <2>8 DEF Current, Stored
  <2>12. QED
    BY <2>2, <2>6, <2>7, <2>9, <2>10, <2>11 DEF SpoiledInv, Passes
<1>6. CASE KeepRun
  <2>1. /\ pc = "judge" /\ pc' = "loop" /\ manifest' = manifest /\ starts' = starts
        /\ Passes(shell.total, Stored(RunId))
    BY <1>6 DEF KeepRun
  <2>2. Left = Spoiled /\ Spoiled' = Spoiled
    BY <2>1 DEF SpoiledInv, Left, Spoiled
  <2>3. QED
    BY <1>0, <2>1, <2>2 DEF SpoiledInv
<1>7. CASE MoveDir
  <2>1. /\ pc = "judge" /\ pc' = "sed" /\ manifest' = manifest /\ starts' = starts
        /\ shell' = shell
    BY <1>7 DEF MoveDir
  <2>2. /\ Spoiled' = Spoiled /\ Left' = Left
        /\ \A r : Current(r)' <=> Current(r)
    BY <2>1 DEF Spoiled, Left, Current, RunId
  <2>3. QED
    BY <1>0, <2>1, <2>2 DEF SpoiledInv
<1>8. CASE RenameRow
  <2>1. /\ pc = "sed" /\ pc' \in {"run", "loop"} /\ starts' = starts
    BY <1>8 DEF RenameRow
  <2>2. Spoiled' \subseteq Left
    BY <1>8, RenamedRows DEF Spoiled, Left, Current
  <2>3. IsFiniteSet(Spoiled') /\ Cardinality(Spoiled') <= Cardinality(Left)
    BY <2>2, LeftFinite, FS_Subset
  <2>4. Cardinality(Spoiled') \in Nat /\ Cardinality(Left) < starts
    BY <2>1, <2>3, FS_CardinalityType DEF SpoiledInv
  <2>5. Cardinality(Spoiled') < starts'
    BY <1>0, <2>1, <2>3, <2>4, LeftFinite
  <2>6. QED
    BY <2>1, <2>3, <2>5 DEF SpoiledInv
<1>9. CASE Kill \/ Terminate
  <2>1. pc # "off" /\ pc' = "off" /\ manifest' = manifest /\ starts' = starts
    BY <1>9 DEF Kill, Terminate, Die
  <2>2. Spoiled' = Spoiled
    BY <2>1 DEF Spoiled
  <2>3. Cardinality(Spoiled) <= starts
    <3>1. CASE Judging
      <4>1. Cardinality(Left) < starts
        BY <3>1 DEF SpoiledInv
      <4>2. QED
        BY <1>0, <3>1, <4>1, LeftFinite, OneIsJudged
    <3>2. CASE ~Judging
      BY <1>0, <2>1, <3>2 DEF SpoiledInv
    <3>3. QED
      BY <3>1, <3>2
  <2>4. QED
    BY <1>0, <2>1, <2>2, <2>3 DEF SpoiledInv
<1>10. CASE \/ apply_pool \/ apply_pool_fails \/ StartRun \/ run_k6 \/ PlanDone
            \/ SummarizeGate \/ SummarizeSession \/ NextGateRate \/ EndGate
  BY <1>3, <1>10 DEF apply_pool, apply_pool_fails, StartRun, run_k6, PlanDone, AfterLoop,
     SummarizeGate, SummarizeSession, NextGateRate, EndGate, Exit
<1>11. CASE OpenGate \/ OpenMain \/ OpenSweep
  BY <1>3, <1>11 DEF OpenGate, OpenMain, OpenSweep, run_plan
<1>12. ASSUME NEW e \in shell.todo, Skip(e) \/ Pick(e) PROVE SpoiledInv'
  BY <1>3, <1>12 DEF Skip, Pick
<1>13. CASE UNCHANGED vars
  <2>1. /\ Spoiled' = Spoiled /\ Left' = Left /\ \A r : Current(r)' <=> Current(r)
        /\ UNCHANGED vars
    BY <1>13 DEF vars, Spoiled, Left, Current, RunId
  <2>2. QED
    BY <2>1 DEF SpoiledInv, vars, RunId, Stored, Passes
<1>14. QED
  BY <1>1, <1>4, <1>5, <1>6, <1>7, <1>8, <1>9, <1>10, <1>11, <1>12, <1>13
     DEF Next, Command, Script

(* Whatever ends the script and however often: an invocation leaves at most  *)
(* one result that is not whole.                                            *)
THEOREM OneSpoiledEach == Spec => []SpoiledBounded
<1>1. Init => SpoiledInv
  <2> SUFFICES ASSUME Init PROVE SpoiledInv
    OBVIOUS
  <2>1. Spoiled = {} /\ pc = "off" /\ starts = 0 /\ manifest = {}
    BY DEF Init, Spoiled
  <2>2. QED
    BY <2>1, FS_EmptySet DEF SpoiledInv, Judging
<1>2. Spec => []SpoiledInv
  BY <1>1, SpoiledStep, ResultsInvariant, PTL DEF Spec
<1>3. TInv /\ SpoiledInv => SpoiledBounded
  <2> SUFFICES ASSUME TInv, SpoiledInv PROVE SpoiledBounded
    OBVIOUS
  <2>1. starts \in Nat
    BY EnvironmentAssumption DEF TInv, TypeOK
  <2>2. CASE Judging
    <3>1. Cardinality(Left) < starts
      BY <2>2 DEF SpoiledInv, Judging
    <3>2. QED
      BY <2>1, <2>2, <3>1, LeftFinite, OneIsJudged DEF SpoiledBounded
  <2>3. CASE ~Judging
    BY <2>1, <2>3, LeftFinite DEF SpoiledInv, SpoiledBounded
  <2>4. QED
    BY <2>2, <2>3
<1>4. QED
  BY <1>2, <1>3, ResultsInvariant, PTL

=============================================================================
