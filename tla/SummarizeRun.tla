----------------------------- MODULE SummarizeRun ------------------------------
(***************************************************************************)
(* How summarize_de.py judges one k6 run.  collapse_episodes walks over    *)
(* the seconds of the run and collects the stretches in which fewer than   *)
(* half the scheduled iterations completed, if they are long enough and    *)
(* enough VUs were active; summarize_run then gives the verdict, from the  *)
(* episodes and from what k6 and the container's cgroup report.            *)
(*                                                                         *)
(* Seconds are counted from the first sample.  Of an iteration count the   *)
(* model keeps whether it is low, of a VU count whether it is missing, few *)
(* or many (COLLAPSE_MIN_VUS), of k6's numbers the side of each threshold  *)
(* they are on.                                                            *)
(***************************************************************************)
EXTENDS Integers

CONSTANTS
  Dur,                \* scheduled duration of the run, in seconds
  COLLAPSE_MIN_SECS,  \* 5 in the code
  None                \* no second

ASSUME DurationAssumption ==
  /\ Dur \in Nat /\ Dur >= 2
  /\ COLLAPSE_MIN_SECS \in Nat \ {0}
  /\ None \notin Nat

(* The first and the last second are cut by the boundary and left out.      *)
Secs == 1..(Dur - 2)

(* What k6 and the cgroup files say; nothing is "missing" in a number that  *)
(* defaults to 0, p99 defaults to NaN.                                      *)
Report == [dropped : {"none", "some", "many"},     \* < 0.1 %, between, >= 1 %
           p99     : {"low", "high", "missing"},   \* 50 ms
           cpuFull : BOOLEAN,   \* the database at its limit for half of the run
           behind  : BOOLEAN,   \* achieved < 95 % of the rate
           steady  : BOOLEAN]   \* variation of iterations per second < 0.25

NoReport == [dropped |-> "none", p99 |-> "missing", cpuFull |-> FALSE,
             behind |-> TRUE, steady |-> FALSE]

VARIABLES
  recorded,   \* iterations.csv has rows
  low,        \* the seconds with too few completed iterations
  vus,        \* vus[s]: the VU sample of second s
  pc, s,      \* the loop of collapse_episodes and its second
  start,      \* the first second of the stretch the loop is in, or None
  episodes,   \* the stretches found, as <<first, last>>
  report,
  verdict

vars == <<recorded, low, vus, pc, s, start, episodes, report, verdict>>
input == <<recorded, low, vus>>

Init ==
  /\ recorded \in BOOLEAN
  /\ low \in IF recorded THEN SUBSET Secs ELSE {{}}
  /\ vus \in [0..(Dur - 1) -> {"missing", "few", "many"}]
  /\ pc = IF recorded THEN "scan" ELSE "judge"
  /\ s = 1
  /\ start = None
  /\ episodes = {}
  /\ report = NoReport
  /\ verdict = "none"

(* vus_near: the samples of a second and of its neighbours.                 *)
Near(x)     == {vus[y] : y \in {x - 1, x, x + 1}}
NoSample(x) == Near(x) = {"missing"}

(* peak_vus is NaN or at least COLLAPSE_MIN_VUS.  The peak is Python's max  *)
(* over the stretch: a NaN stays if it comes first and loses otherwise.     *)
Loaded(first, last) ==
  \/ NoSample(first)
  \/ \E x \in first..last : "many" \in Near(x)

BugLongEnough(first, last) == last - first >= COLLAPSE_MIN_SECS
LongEnough(first, last)    == last - first + 1 >= COLLAPSE_MIN_SECS

(* The loop goes one position beyond the last second (None in the code), to *)
(* close a stretch that is open at the end.                                 *)
BugBeyond == Dur - 2
BugFarBeyond == Dur
Beyond    == Dur - 1

Close ==
  /\ start' = None
  /\ episodes' = IF LongEnough(start, s - 1) /\ Loaded(start, s - 1)
                 THEN episodes \cup {<<start, s - 1>>} ELSE episodes

collapse_episodes ==
  /\ pc = "scan"
  /\ \/ s \in low /\ start = None /\ start' = s /\ UNCHANGED episodes
     \/ s \notin low /\ start # None /\ Close
     \/ (s \in low <=> start # None) /\ UNCHANGED <<start, episodes>>
  /\ s' = s + 1
  /\ pc' = IF s = Beyond THEN "judge" ELSE "scan"
  /\ UNCHANGED <<input, report, verdict>>

Saturated(r) == r.cpuFull \/ (r.behind /\ r.steady)

(* NaN is below no threshold.                                               *)
BugQuick(r) == r.p99 # "high"
Quick(r)    == r.p99 = "low"

Verdict(r) ==
  CASE episodes # {} \/ (r.dropped = "many" /\ ~Saturated(r)) -> "collapse"
    [] episodes = {} /\ r.dropped = "none" /\ Quick(r)        -> "stable"
    [] episodes = {} /\ ~(r.dropped = "none" /\ Quick(r)) /\ Saturated(r) -> "saturated"
    [] OTHER -> "degraded"

(* Without iterations there is no variation to be below its threshold.      *)
summarize_run ==
  /\ pc = "judge"
  /\ \E r \in Report :
       /\ recorded \/ ~r.steady
       /\ report' = r
       /\ verdict' = Verdict(r)
  /\ pc' = "done"
  /\ UNCHANGED <<input, s, start, episodes>>

Next == collapse_episodes \/ summarize_run

Spec == Init /\ [][Next]_vars

-----------------------------------------------------------------------------
(* Properties.                                                               *)

TypeOK ==
  /\ recorded \in BOOLEAN
  /\ low \subseteq Secs
  /\ vus \in [0..(Dur - 1) -> {"missing", "few", "many"}]
  /\ pc \in {"scan", "judge", "done"}
  /\ s \in 1..Dur
  /\ start \in Secs \cup {None}
  /\ episodes \subseteq Secs \X Secs
  /\ report \in Report
  /\ verdict \in {"none", "collapse", "stable", "saturated", "degraded"}

(* A stretch of low seconds that neither second beside it prolongs.         *)
Stretch(first, last) ==
  /\ first <= last
  /\ first..last \subseteq low
  /\ first - 1 \notin low
  /\ last + 1 \notin low

(* When the loop has ended, it has found all the stretches that are long     *)
(* enough and loaded, and nothing else: none is cut, merged with another or *)
(* lost at the end of the run (collapse_episodes).  Loaded is the code's    *)
(* own notion here; CollapseCriterion compares it with the document's.       *)
EpisodesExact ==
  pc # "scan" =>
    episodes = {e \in Secs \X Secs : /\ Stretch(e[1], e[2])
                                     /\ e[2] - e[1] >= COLLAPSE_MIN_SECS - 1
                                     /\ Loaded(e[1], e[2])}

Window(first) == first..(first + COLLAPSE_MIN_SECS - 1)

(* Enough seconds in a row are low and near one of them many VUs are active. *)
LoadedWindow ==
  \E first \in Secs : Window(first) \subseteq low /\ \E x \in Window(first) : "many" \in Near(x)

(* The criterion environment.md 10-5 fixes before the experiment, in terms   *)
(* of windows of seconds and not of the loop that looks for them.           *)
Documented == LoadedWindow \/ (report.dropped = "many" /\ ~Saturated(report))

(* A VU sample was stored near the beginning of every low stretch.          *)
Watched == \A x \in low : x - 1 \notin low => ~NoSample(x)

(* What 10-5 calls a collapse is judged one; and a run is judged one only if *)
(* 10-5 says so, provided that its low stretches were watched.  The premise  *)
(* stands for a disagreement: 10-5, and the head of summarize_de.py, want    *)
(* active VUs, but collapse_episodes also counts a stretch that begins       *)
(* without a VU sample (math.isnan of the peak), so that a run can be       *)
(* judged a collapse which is none by the document.                         *)
CollapseCriterion ==
  verdict # "none" =>
    /\ Documented => verdict = "collapse"
    /\ verdict = "collapse" /\ Watched => Documented

(* A run is called stable only on a p99 that k6 reported, and not when a     *)
(* loaded window of low seconds was recorded.                               *)
StableIsMeasured ==
  verdict = "stable" => report.p99 = "low" /\ ~LoadedWindow
=============================================================================
