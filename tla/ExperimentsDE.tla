----------------------------- MODULE ExperimentsDE -----------------------------
(***************************************************************************)
(* The session runner experiments_de.sh and the part of its summary        *)
(* (summarize_de.py) that it reads back.  A session is a directory; every  *)
(* invocation of the script with the same SESSION_ID works on it.  The     *)
(* script executes a plan of k6 runs, one after the other: it recreates    *)
(* the services for each connection pool, exports the points InfluxDB      *)
(* stored for the run, appends a row to manifest.csv, and repeats once a   *)
(* run whose points are incomplete.  Between pools it checks the clock of  *)
(* the machine and stops when it drifts.  A later invocation skips what    *)
(* the manifest says is done.                                              *)
(*                                                                         *)
(* The files outlive the script; the record shell is its memory and does   *)
(* not.  A plan is the set of its lines: the code shuffles the pools of a  *)
(* repetition and the lines of a pool, with a seed fixed by the session.   *)
(***************************************************************************)
EXTENDS Naturals, Sequences

CONSTANTS
  ARCHS, POOLS, BASELINE_POOL, GATE_RATES, SAT_RATE, CONTRAST_RATE,
  CONTRAST_POOLS, E_RATES, REPS,             \* settings, by their names in the script
  SWEEP_POOLS, SWEEP_RATES, SWEEP_ARCHS, SWEEP_LIGHTS,
  None,        \* no pool, no rate, no entry
  Commands,    \* which of "gate", "all" and "sweep" are invoked
  MaxStarts,   \* bound: invocations of the script in one session
  Points,      \* bound: the units of requests a k6 run makes
  Faults,      \* "kill" and "signal" (end the script without and with its trap),
               \* "influx" (loses points), "k6" (no requests or no summary),
               \* "pool" (recreating the services fails)
  Readings     \* what a clock check may find: "short", "ok", "bad"

ASSUME SettingsAssumption ==
  /\ GATE_RATES \in Seq(Nat) /\ GATE_RATES # <<>>
  /\ {SAT_RATE, CONTRAST_RATE} \cup E_RATES \cup SWEEP_RATES \subseteq Nat
  /\ REPS \in Nat \ {0}
  /\ SWEEP_LIGHTS \subseteq {0, 1}
  /\ BASELINE_POOL \in POOLS
  /\ None \notin POOLS \cup SWEEP_POOLS \cup Nat

ASSUME EnvironmentAssumption ==
  /\ Commands \subseteq {"gate", "all", "sweep"}
  /\ MaxStarts \in Nat
  /\ Points \in Nat \ {0}
  /\ Faults \subseteq {"kill", "signal", "influx", "k6", "pool"}
  /\ Readings \subseteq {"short", "ok", "bad"}

Archs == ARCHS \cup SWEEP_ARCHS \cup {"graphql"}
Pools == POOLS \cup SWEEP_POOLS

(* A line of a plan, "exp|arch|open|idle|rate|light|rep".                    *)
Entry == [exp : {"D", "E", "F"}, arch : Archs, pool : Pools, rate : Nat,
          light : {0, 1}, rep : 1..REPS]

Line(e, a, p, r, l, n) ==
  [exp |-> e, arch |-> a, pool |-> p, rate |-> r, light |-> l, rep |-> n]

VARIABLES
  pc,          \* where the script is; "off" when it does not run
  shell,       \* the script's memory
  manifest,    \* the rows of manifest.csv
  dirs,        \* the run directories that carry a run_id's own name
  stored,      \* stored[id]: how much InfluxDB holds under run_id id
  outDir,      \* whether the session's directory exists
  gateRate,    \* gate_rate.txt, or None
  eligible,    \* gate_eligible.txt
  h1Status,    \* h1_status.txt
  applied,     \* the pool the service containers were created with
  swappiness,  \* vm.swappiness of the machine: "orig" or "low"
  exit,        \* how the last invocation ended
  starts       \* invocations so far

vars == <<pc, shell, manifest, dirs, stored, outDir, gateRate, eligible, h1Status,
          applied, swappiness, exit, starts>>

gateFiles == <<outDir, gateRate, eligible, h1Status>>
runFiles  == <<manifest, dirs, stored>>
machine   == <<applied, swappiness>>

-----------------------------------------------------------------------------
(* Plans.                                                                    *)

build_gate_plan(rate) ==
  {Line("D", a, BASELINE_POOL, rate, 0, n) : a \in ARCHS, n \in 1..REPS}

(* The lines of one pool in one repetition, from what the gate files say.   *)
block_entries(pool, n) ==
  {Line("D", a, pool, SAT_RATE, 0, n) : a \in ARCHS}
  \cup (IF gateRate = None THEN {}
        ELSE {Line("D", a, pool, gateRate, 0, n) : a \in eligible})
  \cup (IF pool \in CONTRAST_POOLS
        THEN {Line("D", a, pool, CONTRAST_RATE, 0, n) : a \in ARCHS} ELSE {})
  \cup (IF pool = BASELINE_POOL
        THEN {Line("E", "graphql", pool, r, 1, n) : r \in E_RATES} ELSE {})

build_plan == UNION {block_entries(p, n) : p \in POOLS, n \in 1..REPS}

build_sweep_plan ==
  {Line("F", a, p, r, l, n) : a \in SWEEP_ARCHS, p \in SWEEP_POOLS,
                              r \in SWEEP_RATES, l \in SWEEP_LIGHTS, n \in 1..REPS}
  \ {Line("F", a, p, r, 1, n) : a \in SWEEP_ARCHS \ {"graphql"}, p \in SWEEP_POOLS,
                                r \in SWEEP_RATES, n \in 1..REPS}

(* What may come next: the rest of the current block, then any block of the *)
(* earliest repetition that is left.                                        *)
Block(e) == <<e.rep, e.pool>>

NextLines ==
  LET rest == {e \in shell.todo : Block(e) = shell.block}
  IN  IF rest # {} THEN rest
      ELSE {e \in shell.todo : \A f \in shell.todo : e.rep <= f.rep}

-----------------------------------------------------------------------------
(* Runs.  A run_id is a line and whether it is the retry; k6 makes Points   *)
(* units of requests, of which InfluxDB stores some.                        *)

Stored(id) == IF id \in DOMAIN stored THEN stored[id] ELSE 0

(* run_k6 writes its points under its run_id, beside those that are there.  *)
Store(id, n) ==
  stored' = [i \in DOMAIN stored \cup {id} |->
               IF i = id THEN (IF Stored(id) + n < Points THEN Stored(id) + n ELSE Points)
               ELSE stored[i]]

(* influx_completeness >= 0.999, as awk compares it.  With requests it is   *)
(* the stored share; without requests it is "nan", which awk compares as a  *)
(* string and lets pass; without a k6 summary it is empty and does not.     *)
Passes(total, inInflux) ==
  \/ total = "zero"
  \/ total = "some" /\ inInflux >= Points

(* The manifest has a row "<run_id>," or "<run_id>_retry1,".  The rows of    *)
(* incomplete runs carry another name and do not count.                     *)
BugDoneFirst(e)  == \E r \in manifest : r.entry = e /\ r.counted /\ r.attempt = 0
BugDonePrefix(e) == \E r \in manifest : r.entry = e
Done(e)          == \E r \in manifest : r.entry = e /\ r.counted

(* The base condition: the runs whose verdict summarize_de.py reads back.   *)
IsBase(e) == /\ e.pool = BASELINE_POOL
             /\ e.light = 0
             /\ \E i \in DOMAIN GATE_RATES : GATE_RATES[i] = e.rate

Verdicts(e) == IF IsBase(e) THEN {"collapse", "other"} ELSE {"other"}

(* The architectures with a collapse in the base condition, over the rows   *)
(* that count and whose directory is there.                                 *)
Eligible ==
  {r.entry.arch : r \in {q \in manifest : /\ q.counted
                                          /\ <<q.entry, q.attempt>> \in dirs
                                          /\ IsBase(q.entry)
                                          /\ q.verdict = "collapse"}}

-----------------------------------------------------------------------------
(* The script's memory: the command, the kind of plan (phase) and the index *)
(* of the gate rate; the plan, what is left of it and the block it is in;   *)
(* the line being run, its attempt and its k6 run; current_pool; whether    *)
(* the clock was checked before (CLOCK_PREV_R) and where to go after the    *)
(* check; SWAPPINESS_ORIG.                                                   *)
Off == [cmd |-> "none", phase |-> "none", gate |-> 0, plan |-> {}, todo |-> {},
        block |-> <<0, None>>, line |-> None, attempt |-> 0,
        total |-> "missing", own |-> 0, pool |-> None, checked |-> FALSE,
        then |-> "loop", saved |-> "none"]

NoStatus == [archs |-> {}, rate |-> None]

Init ==
  /\ pc = "off"
  /\ shell = Off
  /\ manifest = {}
  /\ dirs = {}
  /\ stored = [id \in {} |-> 0]
  /\ outDir = FALSE
  /\ gateRate = None
  /\ eligible = {}
  /\ h1Status = NoStatus
  /\ applied = None
  /\ swappiness = "orig"
  /\ exit = "none"
  /\ starts = 0

(* The EXIT trap: restore_swappiness, when set_swappiness saved a value.    *)
BugRestored == swappiness
Restored    == IF shell.saved = "none" THEN swappiness ELSE shell.saved

Exit(code) ==
  /\ pc' = "off"
  /\ shell' = Off
  /\ exit' = code
  /\ swappiness' = Restored

(* The script starts.  All commands but "gate" make the session's directory *)
(* at once; run_plan makes it in any case.                                  *)
Start(c) ==
  /\ pc = "off"
  /\ starts < MaxStarts
  /\ starts' = starts + 1
  /\ exit' = "none"
  /\ shell' = [Off EXCEPT !.cmd = c, !.gate = 1]
  /\ pc' = IF c = "sweep" THEN "main" ELSE "gate"
  /\ outDir' = (outDir \/ c # "gate")
  /\ UNCHANGED <<runFiles, gateRate, eligible, h1Status, machine>>

(* run_plan up to its loop: set_swappiness, and the first clock check.      *)
run_plan(plan, phase) ==
  /\ pc' = "check"
  /\ shell' = [shell EXCEPT !.phase = phase, !.plan = plan, !.todo = plan,
                            !.block = <<0, None>>, !.pool = None, !.then = "loop",
                            !.saved = IF @ = "none" THEN swappiness ELSE @]
  /\ swappiness' = "low"
  /\ outDir' = TRUE
  /\ UNCHANGED <<runFiles, eligible, applied, exit, starts>>

(* gate_rate.txt is written before the plan of the gate; without a directory *)
(* that fails, and the script goes on.                                      *)
OpenGate ==
  /\ pc = "gate"
  /\ gateRate' = IF outDir THEN GATE_RATES[shell.gate] ELSE gateRate
  /\ run_plan(build_gate_plan(GATE_RATES[shell.gate]), "gate")
  /\ UNCHANGED h1Status

(* After the gate of "all": the verdict file, then the whole plan.          *)
OpenMain ==
  /\ pc = "main"
  /\ shell.cmd = "all"
  /\ gateRate' = IF eligible = {} THEN None ELSE gateRate
  /\ h1Status' = IF eligible = {} THEN NoStatus
                 ELSE [archs |-> eligible, rate |-> gateRate]
  /\ run_plan(build_plan, "all")

OpenSweep ==
  /\ pc = "main"
  /\ shell.cmd = "sweep"
  /\ run_plan(build_sweep_plan, "sweep")
  /\ UNCHANGED <<gateRate, h1Status>>

(* clock_check.  Its reading is the drift over the interval since the last  *)
(* check of this invocation: "blank" when there was none, "short" when the  *)
(* interval is too short to judge.  It is what summarize_de.py finds for    *)
(* the runs that ended since then.                                          *)
Measured(reading) ==
  {IF r.counted /\ r.clock = "unchecked" THEN [r EXCEPT !.clock = reading] ELSE r :
     r \in manifest}

ClockGoesOn ==
  /\ pc = "check"
  /\ \E reading \in IF shell.checked THEN Readings \ {"bad"} ELSE {"blank"} :
       manifest' = Measured(reading)
  /\ pc' = shell.then
  /\ shell' = [shell EXCEPT !.checked = TRUE]
  /\ UNCHANGED <<dirs, stored, gateFiles, machine, exit, starts>>

(* The clock drifts: summarize what there is, and exit 3.                   *)
ClockStops ==
  /\ pc = "check"
  /\ shell.checked
  /\ "bad" \in Readings
  /\ manifest' = Measured("bad")
  /\ eligible' = IF shell.phase = "sweep" THEN eligible ELSE Eligible
  /\ Exit("drift")
  /\ UNCHANGED <<dirs, stored, outDir, gateRate, h1Status, applied, starts>>

(* A line the manifest knows is done.                                       *)
Skip(e) ==
  /\ pc = "loop"
  /\ e \in NextLines
  /\ Done(e)
  /\ shell' = [shell EXCEPT !.todo = @ \ {e}, !.block = Block(e)]
  /\ UNCHANGED <<pc, runFiles, gateFiles, machine, exit, starts>>

(* Any other line: with another pool, check the clock (unless no pool was   *)
(* applied yet) and recreate the services first.                            *)
BugOtherPool(e) == shell.pool # None /\ e.pool # shell.pool
OtherPool(e)    == e.pool # shell.pool

Pick(e) ==
  /\ pc = "loop"
  /\ e \in NextLines
  /\ ~Done(e)
  /\ shell' = [shell EXCEPT !.todo = @ \ {e}, !.block = Block(e), !.line = e,
                            !.attempt = 0, !.then = "apply"]
  /\ pc' = IF ~OtherPool(e) THEN "run"
           ELSE IF shell.pool = None THEN "apply" ELSE "check"
  /\ UNCHANGED <<runFiles, gateFiles, machine, exit, starts>>

apply_pool ==
  /\ pc = "apply"
  /\ applied' = shell.line.pool
  /\ shell' = [shell EXCEPT !.pool = shell.line.pool]
  /\ pc' = "run"
  /\ UNCHANGED <<runFiles, gateFiles, swappiness, exit, starts>>

(* Recreating, the health check or the check of the settings fails.         *)
apply_pool_fails ==
  /\ pc = "apply"
  /\ "pool" \in Faults
  /\ applied' \in {applied, shell.line.pool}
  /\ Exit("error")
  /\ UNCHANGED <<runFiles, gateFiles, starts>>

-----------------------------------------------------------------------------
(* run_one, for attempt 0 and 1.                                             *)

RunId == <<shell.line, shell.attempt>>

(* What k6_summary.json says of k6's requests; without it, "missing".       *)
Summaries == IF "k6" \in Faults THEN {"missing", "zero", "some"} ELSE {"some"}

(* What the directory holds of a run that was interrupted: its k6, which    *)
(* outlives the script, may have written its summary.                       *)
LeftBehind ==
  {"missing"} \cup (IF RunId \in dirs /\ RunId \in DOMAIN stored THEN Summaries ELSE {})

(* The run directory is made, unless it is there; the collectors and k6 are  *)
(* started.                                                                 *)
StartRun ==
  /\ pc = "run"
  /\ dirs' = dirs \cup {RunId}
  /\ \E summary \in LeftBehind : shell' = [shell EXCEPT !.total = summary]
  /\ pc' = "k6"
  /\ UNCHANGED <<manifest, stored, gateFiles, machine, exit, starts>>

(* k6 ends: it made requests, made none, or died and wrote no summary.      *)
run_k6 ==
  /\ pc = "k6"
  /\ \E summary \in Summaries, own \in 0..Points :
       /\ summary = "zero" => own = 0
       /\ summary = "some" /\ "influx" \notin Faults => own = Points
       /\ Store(RunId, own)
       /\ shell' = [shell EXCEPT !.total = IF summary = "missing" THEN @ ELSE summary,
                                 !.own = own]
  /\ pc' = "row"
  /\ UNCHANGED <<manifest, dirs, gateFiles, machine, exit, starts>>

Row(verdict) ==
  [entry |-> shell.line, attempt |-> shell.attempt, counted |-> TRUE,
   total |-> shell.total, own |-> shell.own,
   whole |-> Passes(shell.total, Stored(RunId)),
   verdict |-> verdict, pool |-> applied, clock |-> "unchecked"]

(* export_run, influx_completeness, and the row is appended.                *)
AppendRow ==
  /\ pc = "row"
  /\ \E verdict \in Verdicts(shell.line) : manifest' = manifest \cup {Row(verdict)}
  /\ pc' = "judge"
  /\ UNCHANGED <<shell, dirs, stored, gateFiles, machine, exit, starts>>

KeepRun ==
  /\ pc = "judge"
  /\ Passes(shell.total, Stored(RunId))
  /\ pc' = "loop"
  /\ UNCHANGED <<shell, runFiles, gateFiles, machine, exit, starts>>

(* Incomplete: mv of the directory ...                                       *)
MoveDir ==
  /\ pc = "judge"
  /\ ~Passes(shell.total, Stored(RunId))
  /\ dirs' = dirs \ {RunId}
  /\ pc' = "sed"
  /\ UNCHANGED <<shell, manifest, stored, gateFiles, machine, exit, starts>>

(* ... and sed of the row; after the first attempt, one retry.              *)
BugRetry == [shell EXCEPT !.attempt = 0]
Retry    == [shell EXCEPT !.attempt = 1]

BugRenamed == manifest
Renamed == {IF <<r.entry, r.attempt>> = RunId THEN [r EXCEPT !.counted = FALSE]
            ELSE r : r \in manifest}

RenameRow ==
  /\ pc = "sed"
  /\ manifest' = Renamed
  /\ IF shell.attempt = 0
     THEN pc' = "run" /\ shell' = Retry
     ELSE pc' = "loop" /\ UNCHANGED shell
  /\ UNCHANGED <<dirs, stored, gateFiles, machine, exit, starts>>

-----------------------------------------------------------------------------
(* The end of a plan: a clock check, the summary, and what the command does *)
(* next.                                                                     *)

BugAfterLoop == "summary"
AfterLoop    == "check"

PlanDone ==
  /\ pc = "loop"
  /\ shell.todo = {}
  /\ pc' = AfterLoop
  /\ shell' = [shell EXCEPT !.then = "summary"]
  /\ UNCHANGED <<runFiles, gateFiles, machine, exit, starts>>

SummarizeGate ==
  /\ pc = "summary"
  /\ shell.phase = "gate"
  /\ eligible' = Eligible
  /\ pc' = "gated"
  /\ UNCHANGED <<shell, runFiles, outDir, gateRate, h1Status, machine, exit, starts>>

SummarizeSession ==
  /\ pc = "summary"
  /\ shell.phase # "gate"
  /\ eligible' = IF shell.phase = "sweep" THEN eligible ELSE Eligible
  /\ Exit("ok")
  /\ UNCHANGED <<runFiles, outDir, gateRate, h1Status, applied, starts>>

(* A collapse was reproduced: the loop over the gate rates breaks.          *)
BugReproduced == FALSE
Reproduced    == eligible # {}

BugMoreRates == shell.gate <= Len(GATE_RATES)
MoreRates    == shell.gate < Len(GATE_RATES)

NextGateRate ==
  /\ pc = "gated"
  /\ ~Reproduced
  /\ MoreRates
  /\ shell' = [shell EXCEPT !.gate = @ + 1]
  /\ pc' = "gate"
  /\ UNCHANGED <<runFiles, gateFiles, machine, exit, starts>>

EndGate ==
  /\ pc = "gated"
  /\ Reproduced \/ ~MoreRates
  /\ IF shell.cmd = "all"
     THEN pc' = "main" /\ UNCHANGED <<shell, exit, swappiness>>
     ELSE Exit("ok")
  /\ UNCHANGED <<runFiles, gateFiles, applied, starts>>

(* The script dies at any point, by a signal it runs its EXIT trap for or by *)
(* one it does not (SIGKILL, the end of the machine).  A k6 run may have     *)
(* stored points by then, and a pool may have been applied.                 *)
Die(code) ==
  /\ pc # "off"
  /\ pc' = "off"
  /\ shell' = Off
  /\ exit' = code
  /\ IF pc = "k6" THEN \E n \in 0..Points : Store(RunId, n) ELSE UNCHANGED stored
  /\ applied' \in IF pc = "apply" THEN {applied, shell.line.pool} ELSE {applied}
  /\ UNCHANGED <<manifest, dirs, gateFiles, starts>>

Terminate == "signal" \in Faults /\ Die("signal") /\ swappiness' = Restored

Kill == "kill" \in Faults /\ Die("killed") /\ UNCHANGED swappiness

-----------------------------------------------------------------------------
Command == \E c \in Commands : Start(c)

Script ==
  \/ OpenGate \/ OpenMain \/ OpenSweep
  \/ ClockGoesOn \/ ClockStops
  \/ \E e \in shell.todo : Skip(e) \/ Pick(e)
  \/ apply_pool \/ apply_pool_fails
  \/ StartRun \/ run_k6 \/ AppendRow \/ KeepRun \/ MoveDir \/ RenameRow
  \/ PlanDone \/ SummarizeGate \/ SummarizeSession \/ NextGateRate \/ EndGate

Next == Command \/ Script \/ Terminate \/ Kill

Spec == Init /\ [][Next]_vars

(* The script takes its next step: every command it waits for returns (the  *)
(* waits for services and for quiet are bounded, k6 runs for a fixed time). *)
FairSpec == Spec /\ WF_vars(Script)

-----------------------------------------------------------------------------
(* Properties.                                                               *)

Codes  == {"none", "ok", "error", "drift", "signal", "killed"}
Totals == {"missing", "zero", "some"}
Clocks == {"unchecked", "blank", "short", "ok", "bad"}
Id     == Entry \X {0, 1}

ShellType ==
  [cmd : Commands \cup {"none"}, phase : {"none", "gate", "all", "sweep"},
   gate : 0..Len(GATE_RATES), plan : SUBSET Entry, todo : SUBSET Entry,
   block : Nat \X (Pools \cup {None}), line : Entry \cup {None},
   attempt : {0, 1}, total : Totals, own : 0..Points, pool : Pools \cup {None},
   checked : BOOLEAN, then : {"loop", "apply", "summary"},
   saved : {"none", "orig", "low"}]

RowType ==
  [entry : Entry, attempt : {0, 1}, counted : BOOLEAN, total : Totals,
   own : 0..Points, whole : BOOLEAN, verdict : {"collapse", "other"},
   pool : Pools \cup {None}, clock : Clocks]

(* Every variable has its type; the manifest's rows are of lines of a plan, *)
(* attempts are 0 and 1, and the gate's position is one of GATE_RATES.      *)
TypeOK ==
  /\ pc \in {"off", "gate", "main", "check", "loop", "apply", "run", "k6",
             "row", "judge", "sed", "summary", "gated"}
  /\ shell \in ShellType
  /\ manifest \subseteq RowType
  /\ dirs \subseteq Id
  /\ DOMAIN stored \subseteq Id /\ stored \in [DOMAIN stored -> 0..Points]
  /\ outDir \in BOOLEAN
  /\ gateRate \in Nat \cup {None}
  /\ eligible \subseteq Archs
  /\ h1Status \in [archs : SUBSET Archs, rate : Nat \cup {None}]
  /\ applied \in Pools \cup {None}
  /\ swappiness \in {"orig", "low"}
  /\ exit \in Codes
  /\ starts \in 0..MaxStarts

HasResult(e) == \E r \in manifest : r.entry = e /\ r.counted

(* No k6 run is spent on a line that has a result, whatever was killed and   *)
(* resumed, retried or planned twice: run_plan and run_one look a line up   *)
(* under both of its run_ids.                                               *)
MeasuredOnce == [][pc = "run" /\ pc' = "k6" => ~HasResult(shell.line)]_vars

(* Every row was measured with the services created for the row's pool:     *)
(* current_pool is forgotten between plans and invocations, the services    *)
(* keep the last pool applied to them.                                      *)
RunsUnderItsPool == \A r \in manifest : r.pool = r.entry.pool

(* A plan that reaches its summary is covered: each line has a result, or    *)
(* both of its attempts were incomplete.                                    *)
PlanCovered ==
  pc = "summary" =>
    \A e \in shell.plan :
      \/ HasResult(e)
      \/ \A n \in {0, 1} :
           \E r \in manifest : r.entry = e /\ r.attempt = n /\ ~r.counted

(* h1_status.txt, "collapse_reproduced_at=<archs>@<rate>": each architecture *)
(* it names has a run of the base condition at that rate that collapsed.    *)
(* block_entries runs that rate with every pool to judge the hypothesis.    *)
GateRateReproduced ==
  \A a \in h1Status.archs :
    \E r \in manifest : /\ r.counted
                        /\ r.entry.arch = a
                        /\ r.entry.rate = h1Status.rate
                        /\ IsBase(r.entry)
                        /\ r.verdict = "collapse"

(* When no script runs, what a later invocation will skip as done is         *)
(* complete: its stored share passed.                                       *)
ResultsAreWhole == pc = "off" => \A r \in manifest : r.counted => r.whole

(* The stored share of a result is that of its own k6 run: all the requests  *)
(* it made are in InfluxDB.                                                 *)
OwnPointsStored ==
  \A r \in manifest : r.counted /\ r.whole /\ r.total = "some" => r.own = Points

(* When a plan is summarized, the clock was measured over every run that     *)
(* counts, from a check before it to a check after it, by the invocation    *)
(* that made the run.  It holds of a session made in one invocation: after  *)
(* an interruption the next first check has no reading to start from.       *)
ClockMeasured ==
  pc = "summary" => \A r \in manifest : r.counted => r.clock \in {"short", "ok"}

(* However an invocation ends, unless it is killed, the machine has its      *)
(* original swappiness again: two plans of one invocation both set it, and   *)
(* the trap restores what the first of them saved.  The next invocation      *)
(* saves what it finds, which need not be the original after a kill.         *)
SwappinessRestored == exit \in {"ok", "error", "drift", "signal"} => swappiness = "orig"

(* Every invocation ends: retries are bounded, a line is left behind even    *)
(* when both its attempts fail.                                             *)
ScriptEnds == pc # "off" ~> pc = "off"
=============================================================================
