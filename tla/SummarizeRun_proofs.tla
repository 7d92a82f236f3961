-------------------------- MODULE SummarizeRun_proofs --------------------------
(***************************************************************************)
(* The loop of collapse_episodes finds the stretches of low seconds that   *)
(* count and nothing else, for runs of any length, any threshold and any   *)
(* samples; and the verdict is a collapse exactly under the criterion,     *)
(* which speaks of windows of seconds and not of stretches.                *)
(***************************************************************************)
EXTENDS SummarizeRun, TLAPS

(* The types hold together with the loop's place: it is at most one beyond   *)
(* the seconds, and a stretch began before it.                              *)
Place == pc = "scan" => s <= Beyond /\ (start # None => start < s)

LEMMA InitTypes == Init => TypeOK /\ Place
<1> SUFFICES ASSUME Init PROVE TypeOK /\ Place
  OBVIOUS
<1>1. low \subseteq Secs /\ s \in 1..Dur /\ pc \in {"scan", "judge", "done"}
  BY DurationAssumption DEF Init
<1>2. report \in Report
  BY DEF Init, Report, NoReport
<1>3. recorded \in BOOLEAN /\ vus \in [0..(Dur - 1) -> {"missing", "few", "many"}]
  BY DEF Init
<1>4. /\ start \in Secs \cup {None} /\ episodes \subseteq Secs \X Secs
      /\ verdict \in {"none", "collapse", "stable", "saturated", "degraded"}
  BY DEF Init
<1>5. Place
  BY DurationAssumption DEF Init, Place, Beyond
<1>6. QED
  BY <1>1, <1>2, <1>3, <1>4, <1>5 DEF TypeOK

LEMMA TypeStep == TypeOK /\ Place /\ [Next]_vars => TypeOK' /\ Place'
<1> SUFFICES ASSUME TypeOK, Place, [Next]_vars PROVE TypeOK' /\ Place'
  OBVIOUS
<1>1. CASE collapse_episodes
  <2>1. s \in 1..Beyond /\ s' = s + 1
    BY <1>1, DurationAssumption DEF collapse_episodes, TypeOK, Place, Beyond
  <2>2. s' \in 1..Dur /\ pc' \in {"scan", "judge"} /\ (pc' = "scan" => s' <= Beyond)
    BY <1>1, <2>1, DurationAssumption DEF collapse_episodes, Beyond
  <2>3. start' \in Secs \cup {None} /\ (start' # None => start' < s')
    BY <1>1, <2>1, DurationAssumption
       DEF collapse_episodes, Close, TypeOK, Place, Beyond, Secs
  <2>4. start # None => <<start, s - 1>> \in Secs \X Secs
    BY <1>1, <2>1, DurationAssumption DEF collapse_episodes, TypeOK, Place, Beyond, Secs
  <2>5. episodes' \subseteq Secs \X Secs
    BY <1>1, <2>4 DEF collapse_episodes, Close, TypeOK
  <2>6. UNCHANGED <<input, report, verdict>>
    BY <1>1 DEF collapse_episodes
  <2>7. QED
    BY <2>2, <2>3, <2>5, <2>6 DEF input, TypeOK, Place
<1>2. CASE summarize_run
  BY <1>2 DEF summarize_run, Verdict, input, TypeOK, Place
<1>3. CASE UNCHANGED vars
  BY <1>3 DEF vars, TypeOK, Place
<1>4. QED
  BY <1>1, <1>2, <1>3 DEF Next

(* Every variable keeps its type.                                            *)
THEOREM TypeCorrect == Spec => []TypeOK
BY InitTypes, TypeStep, PTL DEF Spec

-----------------------------------------------------------------------------
(* What the loop knows at second s: start is where the low seconds that end  *)
(* at s - 1 begin, and the stretches that ended before are collected.       *)

Counts(first, last) ==
  /\ Stretch(first, last)
  /\ last - first >= COLLAPSE_MIN_SECS - 1
  /\ Loaded(first, last)

Found(bound) == {e \in Secs \X Secs : Counts(e[1], e[2]) /\ e[2] + 1 < bound}

InStretch ==
  /\ start = None => s - 1 \notin low
  /\ start # None => start < s /\ start..(s - 1) \subseteq low /\ start - 1 \notin low

ScanInv ==
  /\ pc = "scan" => s <= Beyond /\ InStretch
  /\ episodes = Found(IF pc = "scan" THEN s ELSE Dur)
  /\ ~recorded => low = {} /\ pc # "scan"

(* Going on by one second, the stretch that ends at s - 1 is found, if s is  *)
(* not low and the stretch counts.                                          *)
LEMMA FoundNext ==
  ASSUME TypeOK, InStretch, s <= Beyond
  PROVE  Found(s + 1) =
           IF s \notin low /\ start # None /\ Counts(start, s - 1)
           THEN Found(s) \cup {<<start, s - 1>>} ELSE Found(s)
<1>1. ASSUME NEW e \in Secs \X Secs, Counts(e[1], e[2]), e[2] + 1 = s
      PROVE  s \notin low /\ start # None /\ e = <<start, s - 1>>
  <2>1. e[1] \in Nat /\ e[2] \in Nat /\ s \in Nat /\ e[1] <= e[2] /\ e[2] = s - 1
    BY <1>1, DurationAssumption DEF Secs, TypeOK, Counts, Stretch
  <2>2. s \notin low /\ s - 1 \in low
    BY <1>1, <2>1 DEF Counts, Stretch
  <2>3. start # None /\ start \in Nat /\ start <= s - 1 /\ start..(s - 1) \subseteq low
    BY <2>2, <2>1, DurationAssumption DEF InStretch, TypeOK, Secs
  <2>4. e[1] = start
    <3>1. CASE e[1] < start
      BY <3>1, <2>1, <2>3, <1>1 DEF Counts, Stretch, InStretch
    <3>2. CASE start < e[1]
      BY <3>2, <2>1, <2>3, <1>1 DEF Counts, Stretch
    <3>3. QED
      BY <3>1, <3>2, <2>1, <2>3
  <2>5. QED
    BY <2>1, <2>2, <2>3, <2>4
<1>2. s \in Nat /\ \A e \in Secs \X Secs : e[2] \in Nat
  BY DurationAssumption DEF TypeOK, Secs
<1>3. ASSUME NEW e \in Found(s + 1), e \notin Found(s)
      PROVE  /\ s \notin low /\ start # None
             /\ Counts(start, s - 1) /\ e = <<start, s - 1>>
  <2>1. e \in Secs \X Secs /\ Counts(e[1], e[2]) /\ e[2] + 1 = s
    BY <1>3, <1>2 DEF Found
  <2>2. QED
    BY <2>1, <1>1
<1>4. Found(s) \subseteq Found(s + 1)
  BY <1>2 DEF Found
<1>5. ASSUME s \notin low, start # None, Counts(start, s - 1)
      PROVE  <<start, s - 1>> \in Found(s + 1)
  <2>1. start \in Secs /\ s - 1 \in Secs
    BY <1>5, <1>2, DurationAssumption DEF TypeOK, Secs, InStretch, Counts, Stretch, Beyond
  <2>2. (s - 1) + 1 < s + 1
    BY <1>2
  <2>3. QED
    BY <1>5, <2>1, <2>2 DEF Found
<1>6. QED
  BY <1>3, <1>4, <1>5

(* A stretch that the loop closes counts if it is long enough and loaded.    *)
LEMMA ClosedStretch ==
  ASSUME TypeOK, InStretch, s \notin low, start # None
  PROVE  Counts(start, s - 1) <=> LongEnough(start, s - 1) /\ Loaded(start, s - 1)
<1>1. Stretch(start, s - 1)
  BY DurationAssumption DEF TypeOK, Secs, InStretch, Stretch
<1>2. s - 1 - start >= COLLAPSE_MIN_SECS - 1 <=> s - 1 - start + 1 >= COLLAPSE_MIN_SECS
  BY DurationAssumption DEF TypeOK, Secs
<1>3. QED
  BY <1>1, <1>2 DEF Counts, LongEnough

LEMMA ScanStep == TypeOK /\ ScanInv /\ [Next]_vars => ScanInv'
<1> SUFFICES ASSUME TypeOK, ScanInv, [Next]_vars PROVE ScanInv'
  OBVIOUS
<1>1. CASE collapse_episodes
  <2>1. pc = "scan" /\ InStretch /\ s <= Beyond /\ episodes = Found(s)
    BY <1>1 DEF collapse_episodes, ScanInv
  <2>2. s \in Nat /\ s' = s + 1 /\ low' = low /\ vus' = vus /\ recorded' = recorded
    BY <1>1, DurationAssumption DEF collapse_episodes, input, TypeOK
  <2>3. episodes' = Found(s + 1)
    BY <2>1, <1>1, FoundNext, ClosedStretch DEF collapse_episodes, Close
  <2>4. InStretch'
    <3>1. CASE s \in low /\ start = None /\ start' = s
      BY <3>1, <2>1, <2>2, DurationAssumption DEF InStretch, Secs, TypeOK
    <3>2. CASE s \notin low /\ start # None /\ Close
      BY <3>2, <2>2 DEF InStretch, Close
    <3>3. CASE s \in low /\ start # None /\ start' = start
      <4>1. start \in Nat
        BY <3>3, DurationAssumption DEF TypeOK, Secs
      <4>2. start..s \subseteq low
        BY <3>3, <4>1, <2>1, <2>2 DEF InStretch
      <4>3. QED
        BY <3>3, <4>1, <4>2, <2>1, <2>2 DEF InStretch
    <3>4. CASE s \notin low /\ start = None /\ start' = start
      BY <3>4, <2>2 DEF InStretch
    <3>5. QED
      BY <1>1, <3>1, <3>2, <3>3, <3>4 DEF collapse_episodes
  <2>5. Found(s + 1) = {e \in Secs \X Secs : Counts(e[1], e[2])' /\ e[2] + 1 < s'}
    BY <2>2 DEF Found, Counts, Stretch, Loaded, NoSample, Near
  <2>6. pc' # "scan" => s' = Dur
    BY <1>1, <2>2, DurationAssumption DEF collapse_episodes, Beyond
  <2>7. pc' = "scan" => s' <= Beyond
    BY <1>1, <2>1, <2>2, DurationAssumption DEF collapse_episodes, Beyond
  <2>8. episodes' = Found(IF pc = "scan" THEN s ELSE Dur)'
    BY <2>3, <2>5, <2>6 DEF Found
  <2>9. recorded
    BY <2>1 DEF ScanInv
  <2>10. QED
    BY <2>2, <2>4, <2>7, <2>8, <2>9 DEF ScanInv, Beyond
<1>2. CASE summarize_run
  BY <1>2 DEF summarize_run, input, ScanInv, Found, Counts, Stretch, Loaded, NoSample, Near
<1>3. CASE UNCHANGED vars
  BY <1>3 DEF vars, ScanInv, InStretch, Found, Counts, Stretch, Loaded, NoSample, Near
<1>4. QED
  BY <1>1, <1>2, <1>3 DEF Next

LEMMA InitScan == Init => ScanInv
<1> SUFFICES ASSUME Init PROVE ScanInv
  OBVIOUS
<1>1. pc = "scan" => s <= Beyond /\ InStretch
  BY DurationAssumption DEF Init, Beyond, InStretch, Secs
<1>2. ASSUME NEW e \in Secs \X Secs, Counts(e[1], e[2])
      PROVE  recorded /\ ~(e[2] + 1 < 1)
  BY <1>2, DurationAssumption DEF Init, Counts, Stretch, Secs
<1>3. Found(IF pc = "scan" THEN s ELSE Dur) = {}
  BY <1>2 DEF Init, Found
<1>4. QED
  BY <1>1, <1>3 DEF Init, ScanInv

(* The loop finds exactly the stretches that count.                          *)
THEOREM AllFound == Spec => []EpisodesExact
<1>1. TypeOK /\ ScanInv => EpisodesExact
  <2> SUFFICES ASSUME TypeOK, ScanInv, pc # "scan" PROVE EpisodesExact
    BY DEF EpisodesExact
  <2>1. \A e \in Secs \X Secs : e[2] + 1 < Dur
    BY DurationAssumption DEF Secs
  <2>2. QED
    BY <2>1 DEF ScanInv, Found, Counts, EpisodesExact
<1>2. Spec => []TypeOK
  BY TypeCorrect
<1>3. QED
  BY <1>1, <1>2, InitScan, ScanStep, PTL DEF Spec

-----------------------------------------------------------------------------
(* Every low second the loop has passed lies in a stretch, or in the one the *)
(* loop is in: the loop does the induction that finds, for a window of low   *)
(* seconds, the stretch around it.                                          *)

InSome(x) == \E e \in Secs \X Secs : Stretch(e[1], e[2]) /\ e[1] <= x /\ x <= e[2]

Around ==
  /\ \A x \in low : x < s => InSome(x) \/ (start # None /\ start <= x)
  /\ pc # "scan" /\ recorded => s = Dur /\ start = None

LEMMA InitAround == Init => Around
BY DurationAssumption DEF Init, Around, Secs

LEMMA AroundStep == TypeOK /\ ScanInv /\ Around /\ [Next]_vars => Around'
<1> SUFFICES ASSUME TypeOK, ScanInv, Around, [Next]_vars PROVE Around'
  OBVIOUS
<1>1. CASE collapse_episodes
  <2>1. pc = "scan" /\ InStretch /\ s \in Nat /\ s <= Beyond /\ s' = s + 1 /\ low' = low
    BY <1>1, DurationAssumption DEF collapse_episodes, ScanInv, TypeOK, input
  <2>2. low \subseteq Nat
    BY DurationAssumption DEF TypeOK, Secs
  <2>3. ASSUME s \notin low, start # None PROVE \A x \in low : start <= x /\ x < s => InSome(x)
    <3>1. Stretch(start, s - 1) /\ start \in Secs /\ s - 1 \in Secs
      BY <2>1, <2>3, DurationAssumption DEF InStretch, Stretch, TypeOK, Secs, Beyond
    <3>2. \A x \in low : x < s => x <= s - 1
      BY <2>1, <2>2
    <3>3. <<start, s - 1>> \in Secs \X Secs
      BY <3>1
    <3>4. QED
      BY <3>1, <3>2, <3>3 DEF InSome
  <2>4. ASSUME NEW x \in low, x < s + 1
        PROVE  InSome(x) \/ (start' # None /\ start' <= x)
    <3>1. CASE x = s
      <4>1. start' # None /\ start' <= s
        BY <3>1, <2>1, <2>4, <1>1, DurationAssumption DEF collapse_episodes, InStretch, TypeOK, Secs
      <4>2. QED
        BY <4>1, <3>1
    <3>2. CASE x < s
      <4>1. InSome(x) \/ (start # None /\ start <= x)
        BY <3>2 DEF Around
      <4>2. start # None => start' = start \/ s \notin low
        BY <1>1 DEF collapse_episodes
      <4>3. QED
        BY <4>1, <4>2, <2>3, <3>2
    <3>3. QED
      BY <3>1, <3>2, <2>1, <2>2, <2>4
  <2>5. pc' # "scan" => s' = Dur /\ start' = None
    <3>1. pc' # "scan" => s = Beyond
      BY <1>1 DEF collapse_episodes
    <3>2. Beyond \notin low /\ Beyond + 1 = Dur
      BY DurationAssumption DEF TypeOK, Secs, Beyond
    <3>3. QED
      BY <3>1, <3>2, <2>1, <1>1 DEF collapse_episodes, Close
  <2>6. \A x : InSome(x)' <=> InSome(x)
    BY <2>1 DEF InSome, Stretch
  <2>7. QED
    BY <2>1, <2>4, <2>5, <2>6 DEF Around
<1>2. CASE summarize_run
  BY <1>2 DEF summarize_run, input, Around, InSome, Stretch
<1>3. CASE UNCHANGED vars
  BY <1>3 DEF vars, Around, InSome, Stretch
<1>4. QED
  BY <1>1, <1>2, <1>3 DEF Next

(* A window of low seconds lies in a stretch that is long enough.            *)
LEMMA StretchAround ==
  ASSUME TypeOK, Around, pc # "scan", recorded,
         NEW first \in Secs, Window(first) \subseteq low
  PROVE  \E e \in Secs \X Secs :
           /\ Stretch(e[1], e[2]) /\ e[2] - e[1] >= COLLAPSE_MIN_SECS - 1
           /\ Window(first) \subseteq e[1]..e[2]
<1>1. first \in low /\ first < s
  BY DurationAssumption DEF Window, Around, Secs
<1>2. PICK e \in Secs \X Secs : Stretch(e[1], e[2]) /\ e[1] <= first /\ first <= e[2]
  BY <1>1 DEF Around, InSome
<1>3. e[1] \in Nat /\ e[2] \in Nat /\ first \in Nat
  BY DurationAssumption DEF Secs
<1>4. first + COLLAPSE_MIN_SECS - 1 <= e[2]
  <2>1. SUFFICES ASSUME e[2] < first + COLLAPSE_MIN_SECS - 1 PROVE FALSE
    BY <1>3, DurationAssumption
  <2>2. e[2] + 1 \in Window(first)
    BY <2>1, <1>2, <1>3, DurationAssumption DEF Window
  <2>3. QED
    BY <2>2, <1>2 DEF Stretch
<1>5. Window(first) \subseteq e[1]..e[2]
  BY <1>2, <1>3, <1>4, DurationAssumption DEF Window
<1>6. QED
  BY <1>2, <1>3, <1>4, <1>5, DurationAssumption

(* Within a stretch that is long enough every second lies in a window.       *)
LEMMA WindowWithin ==
  ASSUME TypeOK, NEW e \in Secs \X Secs, Stretch(e[1], e[2]),
         e[2] - e[1] >= COLLAPSE_MIN_SECS - 1, NEW x \in e[1]..e[2]
  PROVE  \E first \in Secs : Window(first) \subseteq low /\ x \in Window(first)
<1>1. e[1] \in Nat /\ e[2] \in Nat /\ x \in Nat
  BY DurationAssumption DEF Secs
<1> DEFINE last  == e[2] - COLLAPSE_MIN_SECS + 1
           first == IF x <= last THEN x ELSE last
<1>2. first \in Nat /\ e[1] <= first /\ first <= x /\ first + COLLAPSE_MIN_SECS - 1 <= e[2]
  BY <1>1, DurationAssumption
<1>3. x \in Window(first)
  BY <1>1, <1>2, DurationAssumption DEF Window
<1>4. Window(first) \subseteq e[1]..e[2]
  BY <1>1, <1>2, DurationAssumption DEF Window
<1>5. first \in Secs
  BY <1>1, <1>2, DurationAssumption DEF Secs
<1>6. QED
  BY <1>3, <1>4, <1>5 DEF Stretch

(* A loaded window makes an episode, and an episode that was watched comes   *)
(* from a loaded window.                                                    *)
LEMMA EpisodesAreWindows ==
  ASSUME TypeOK, ScanInv, Around, EpisodesExact, pc # "scan"
  PROVE  /\ LoadedWindow => episodes # {}
         /\ episodes # {} /\ Watched => LoadedWindow
<1>1. ASSUME LoadedWindow PROVE episodes # {}
  <2>1. PICK first \in Secs :
          Window(first) \subseteq low /\ \E x \in Window(first) : "many" \in Near(x)
    BY <1>1 DEF LoadedWindow
  <2>2. first \in low
    BY <2>1, DurationAssumption DEF Window, Secs
  <2>3. recorded
    BY <2>2 DEF ScanInv
  <2>4. PICK e \in Secs \X Secs :
          /\ Stretch(e[1], e[2]) /\ e[2] - e[1] >= COLLAPSE_MIN_SECS - 1
          /\ Window(first) \subseteq e[1]..e[2]
    BY <2>1, <2>3, StretchAround
  <2>5. Loaded(e[1], e[2])
    BY <2>1, <2>4 DEF Loaded
  <2>6. e \in episodes
    BY <2>4, <2>5 DEF EpisodesExact
  <2>7. QED
    BY <2>6
<1>2. ASSUME NEW e \in episodes, Watched PROVE LoadedWindow
  <2>1. /\ e \in Secs \X Secs /\ Stretch(e[1], e[2])
        /\ e[2] - e[1] >= COLLAPSE_MIN_SECS - 1 /\ Loaded(e[1], e[2])
    BY <1>2 DEF EpisodesExact
  <2>2. ~NoSample(e[1])
    <3>1. e[1] \in low /\ e[1] - 1 \notin low
      BY <2>1, DurationAssumption DEF Stretch, Secs
    <3>2. QED
      BY <3>1, <1>2 DEF Watched
  <2>3. PICK x \in e[1]..e[2] : "many" \in Near(x)
    BY <2>1, <2>2 DEF Loaded
  <2>4. QED
    BY <2>3, <2>1, WindowWithin DEF LoadedWindow
<1>3. QED
  BY <1>1, <1>2

-----------------------------------------------------------------------------
(* The verdict.                                                              *)

Judged ==
  /\ pc # "done" => verdict = "none"
  /\ verdict # "none" =>
       /\ verdict = "collapse" <=> episodes # {} \/ (report.dropped = "many" /\ ~Saturated(report))
       /\ verdict = "stable" => episodes = {} /\ report.p99 = "low"

LEMMA JudgedStep == Judged /\ [Next]_vars => Judged'
<1> SUFFICES ASSUME Judged, [Next]_vars PROVE Judged'
  OBVIOUS
<1>1. CASE collapse_episodes
  BY <1>1 DEF collapse_episodes, Judged
<1>2. CASE summarize_run
  <2>1. PICK r \in Report : report' = r /\ verdict' = Verdict(r)
    BY <1>2 DEF summarize_run
  <2>2. pc' = "done" /\ episodes' = episodes
    BY <1>2 DEF summarize_run
  <2>3. Saturated(report)' = Saturated(r)
    BY <2>1 DEF Saturated
  <2>4. verdict' = "collapse" <=> episodes # {} \/ (r.dropped = "many" /\ ~Saturated(r))
    BY <2>1 DEF Verdict
  <2>5. verdict' = "stable" => episodes = {} /\ r.p99 = "low"
    BY <2>1 DEF Verdict, Quick
  <2>6. QED
    BY <2>1, <2>2, <2>3, <2>4, <2>5 DEF Judged
<1>3. CASE UNCHANGED vars
  BY <1>3 DEF vars, Judged, Saturated
<1>4. QED
  BY <1>1, <1>2, <1>3 DEF Next

LEMMA AllInvariants == Spec => [](TypeOK /\ ScanInv /\ Around /\ EpisodesExact /\ Judged)
<1>1. Init => Judged
  BY DEF Init, Judged
<1>2. QED
  BY <1>1, TypeCorrect, AllFound, InitScan, ScanStep, InitAround, AroundStep, JudgedStep, PTL
     DEF Spec

(* What the document calls a collapse is judged one, and, if the low         *)
(* stretches were watched, nothing else: the loop and the verdict together  *)
(* implement the criterion of environment.md up to stretches without VU     *)
(* samples.                                                                 *)
THEOREM CriterionKept == Spec => []CollapseCriterion
<1>1. TypeOK /\ ScanInv /\ Around /\ EpisodesExact /\ Judged => CollapseCriterion
  <2> SUFFICES ASSUME TypeOK, ScanInv, Around, EpisodesExact, Judged, verdict # "none"
               PROVE  /\ Documented => verdict = "collapse"
                      /\ verdict = "collapse" /\ Watched => Documented
    BY DEF CollapseCriterion
  <2>1. pc # "scan"
    BY DEF Judged
  <2>2. /\ LoadedWindow => episodes # {}
        /\ episodes # {} /\ Watched => LoadedWindow
    BY <2>1, EpisodesAreWindows
  <2>3. QED
    BY <2>2 DEF Judged, Documented
<1>2. QED
  BY <1>1, AllInvariants, PTL

(* A run is called stable only on a reported p99 and without a loaded window.*)
THEOREM StableOnEvidence == Spec => []StableIsMeasured
<1>1. TypeOK /\ ScanInv /\ Around /\ EpisodesExact /\ Judged => StableIsMeasured
  <2> SUFFICES ASSUME TypeOK, ScanInv, Around, EpisodesExact, Judged, verdict = "stable"
               PROVE  report.p99 = "low" /\ ~LoadedWindow
    BY DEF StableIsMeasured
  <2>1. pc # "scan" /\ episodes = {} /\ report.p99 = "low"
    BY DEF Judged
  <2>2. QED
    BY <2>1, EpisodesAreWindows
<1>2. QED
  BY <1>1, AllInvariants, PTL
=============================================================================
