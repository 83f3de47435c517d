-------------------------- MODULE SupervisorProofs --------------------------
(***************************************************************************)
(* Theorems about Supervisor, and the iteration it extends, for any number *)
(* of runs on one hidden suite, any arguments and any number of failures,  *)
(* kills and stray processes.                                              *)
(***************************************************************************)
EXTENDS Supervisor, TLAPS

-----------------------------------------------------------------------------
(* Type correctness *)

Bounds == {"runs", "faults", "crashes", "strays"}

LEMMA SpendTyped ==
    ASSUME CoreTypeOK, NEW k \in Bounds, Spend(k)
    PROVE  /\ left' \in [runs : Nat, faults : Nat, crashes : Nat, strays : Nat]
           /\ left'[k] < left[k]
           /\ \A j \in Bounds : left'[j] <= left[j]
BY DEF CoreTypeOK, Spend, Bounds

LEMMA CrashSpends ==
    ASSUME CoreTypeOK, NEW r \in Runs, Crash(r)
    PROVE  /\ left' \in [runs : Nat, faults : Nat, crashes : Nat, strays : Nat]
           /\ left'.crashes < left.crashes
           /\ \A j \in Bounds : left'[j] <= left[j]
<1> USE DEF CoreTypeOK, Bounds
<1>1. CASE left.crashes > 0 /\ left' = [left EXCEPT !.crashes = @ - 1]
  BY <1>1
<1>2. CASE /\ left.crashes > 0 /\ left.strays > 0
           /\ left' = [left EXCEPT !.crashes = @ - 1, !.strays = @ - 1]
  <2>1. left.crashes - 1 \in Nat /\ left.strays - 1 \in Nat
    BY <1>2
  <2>2. left' = [runs |-> left.runs, faults |-> left.faults,
                 crashes |-> left.crashes - 1, strays |-> left.strays - 1]
    BY <1>2
  <2> QED
    BY <2>1, <2>2
<1> QED
  BY <1>1, <1>2 DEF Crash

LEMMA NewIterationTyped == NewIteration \in Iteration
BY DEF NewIteration, Iteration

\* What an attempt, its worker and its verdict note in the locals.
LEMMA AttemptTyped ==
    ASSUME NEW i \in Iteration, NEW n \in Nat, NEW hidden \in BOOLEAN
    PROVE  [i EXCEPT !.attempt = n, !.hidden = hidden] \in Iteration
BY DEF Iteration

LEMMA WorkerTyped ==
    ASSUME NEW i \in Iteration, NEW killed \in BOOLEAN, NEW completed \in BOOLEAN,
           NEW session \in BOOLEAN
    PROVE  [i EXCEPT !.killed = killed, !.completed = completed, !.session = session]
               \in Iteration
BY DEF Iteration

LEMMA VerdictTyped ==
    ASSUME NEW i \in Iteration, NEW grace \in BOOLEAN, NEW aborted \in BOOLEAN
    PROVE  [i EXCEPT !.grace = grace, !.aborted = aborted] \in Iteration
BY DEF Iteration

LEMMA PassTyped == \A i \in Iteration : [i EXCEPT !.passed = TRUE] \in Iteration
BY DEF Iteration

LEMMA SetTyped ==
    ASSUME CoreTypeOK, NEW r \in Runs, NEW i \in Iteration, Set(r, i)
    PROVE  it' \in [Runs -> Iteration]
BY DEF CoreTypeOK, Set

\* The end of an iteration, by an error or with a result.
LEMMA FailTyped ==
    ASSUME TypeOK, NEW r \in Runs, Fail(r)
    PROVE  it' \in [Runs -> Iteration] /\ pc' \in [Runs -> Location]
<1>1. [it[r] EXCEPT !.result = "error"] \in Iteration
  BY DEF TypeOK, CoreTypeOK, Iteration
<1> QED
  BY <1>1, SetTyped DEF Fail, TypeOK, Goto, Location, CoreLocation

LEMMA FinishTyped ==
    ASSUME TypeOK, NEW r \in Runs, NEW i \in Iteration, Finish(r, i)
    PROVE  it' \in [Runs -> Iteration] /\ pc' \in [Runs -> Location]
<1>1. [i EXCEPT !.result = "ok"] \in Iteration
  BY DEF Iteration
<1> QED
  BY <1>1, SetTyped DEF Finish, TypeOK, Goto, Location, CoreLocation

Places == {"real", "none", "other"}

\* The suite is moved between two places.
LEMMA MovesTyped ==
    ASSUME CoreTypeOK, NEW r \in Runs
    PROVE  /\ PutBack => suite' \in [dir : Places, aside : Places]
           /\ TryPutBack(r) => suite' \in [dir : Places, aside : Places]
BY DEF CoreTypeOK, PutBack, TryPutBack, Places

LEMMA InitTypeOK == Init => TypeOK
BY NewIterationTyped, VerifiedIterationAssumption
   DEF Init, CoreInit, TypeOK, CoreTypeOK, Location, CoreLocation, Written, Sup, NewSup

\* The iteration's own steps, which leave the caller's variables.
LEMMA CoreStepTypeOK ==
    ASSUME TypeOK, NEW r \in Runs, CoreStep(r), UNCHANGED supVars
    PROVE  TypeOK'
<1> USE DEF TypeOK, CoreTypeOK, supVars, Bounds
<1> DEFINE Lefts == [runs : Nat, faults : Nat, crashes : Nat, strays : Nat]
<1>1. CASE BeginAttempt(r)
  <2>1. left' \in Lefts
    BY <1>1, SpendTyped DEF BeginAttempt
  <2>2. it' \in [Runs -> Iteration] /\ pc' \in [Runs -> Location]
    <3>1. args[r].blind \in BOOLEAN
      BY VerifiedIterationAssumption DEF Args
    <3>2. [it[r] EXCEPT !.attempt = @ + 1, !.hidden = args[r].blind] \in Iteration
      <4>1. it[r].attempt + 1 \in Nat
        BY DEF Iteration
      <4> QED
        BY <3>1, <4>1, AttemptTyped
    <3> QED
      BY <1>1, <3>2, SetTyped, FailTyped DEF BeginAttempt, Goto, Location, CoreLocation
  <2>3. suite' \in [dir : Places, aside : Places]
    BY <1>1 DEF BeginAttempt, Places
  <2> QED
    BY <1>1, <2>1, <2>2, <2>3 DEF BeginAttempt, Places
<1>2. CASE ReadIdleCap(r) \/ Launch(r)
  <2>1. left' \in Lefts
    BY <1>2, SpendTyped DEF ReadIdleCap, Launch
  <2>2. it' \in [Runs -> Iteration] /\ pc' \in [Runs -> Location]
    BY <1>2, FailTyped DEF ReadIdleCap, Launch, Goto, Location, CoreLocation
  <2>3. suite' \in [dir : Places, aside : Places]
    BY <1>2, MovesTyped DEF ReadIdleCap, Launch, Places
  <2> QED
    BY <1>2, <2>1, <2>2, <2>3 DEF ReadIdleCap, Launch, Places
<1>3. CASE WorkerEnds(r)
  <2>1. left' \in Lefts /\ strays' \subseteq Runs
    BY <1>3, SpendTyped DEF WorkerEnds
  <2>2. PICK killed, completed, found \in BOOLEAN :
           Set(r, [it[r] EXCEPT !.killed = killed, !.completed = completed,
                                !.session = @ \/ found])
    BY <1>3 DEF WorkerEnds
  <2>3. [it[r] EXCEPT !.killed = killed, !.completed = completed,
                      !.session = @ \/ found] \in Iteration
    <3>1. (it[r].session \/ found) \in BOOLEAN
      OBVIOUS
    <3> QED
      BY <3>1, WorkerTyped
  <2>4. it' \in [Runs -> Iteration]
    BY <2>2, <2>3, SetTyped
  <2> QED
    BY <1>3, <2>1, <2>4 DEF WorkerEnds, Goto, Location, CoreLocation
<1>4. CASE Restore(r)
  <2>1. left' \in Lefts
    BY <1>4, SpendTyped DEF Restore
  <2>2. it' \in [Runs -> Iteration] /\ pc' \in [Runs -> Location]
    BY <1>4, FailTyped DEF Restore, Goto, Location, CoreLocation
  <2>3. suite' \in [dir : Places, aside : Places]
    BY <1>4, MovesTyped DEF Restore, Places
  <2> QED
    BY <1>4, <2>1, <2>2, <2>3 DEF Restore, Places
<1>5. CASE Assess(r)
  <2>1. left' \in Lefts
    BY <1>5, SpendTyped DEF Assess
  <2>2. it' \in [Runs -> Iteration] /\ pc' \in [Runs -> Location]
    <3>1. CASE Fail(r)
      BY <3>1, FailTyped
    <3>2. ASSUME NEW violated \in BOOLEAN, NEW overTotal \in BOOLEAN,
                 NEW i, i = [it[r] EXCEPT !.grace = @ \/ Grace(it[r]),
                               !.aborted = (it[r].killed \/ violated) \/ overTotal],
                 Finish(r, i) \/ (Goto(r, "verify") /\ Set(r, i))
          PROVE  it' \in [Runs -> Iteration] /\ pc' \in [Runs -> Location]
      <4>1. i \in Iteration
        <5>1. /\ (it[r].grace \/ Grace(it[r])) \in BOOLEAN
              /\ ((it[r].killed \/ violated) \/ overTotal) \in BOOLEAN
          OBVIOUS
        <5> QED
          BY <3>2, <5>1, VerdictTyped
      <4> QED
        BY <3>2, <4>1, FinishTyped, SetTyped DEF Goto, Location, CoreLocation
    <3> QED
      BY <1>5, <3>1, <3>2 DEF Assess
  <2> QED
    BY <1>5, <2>1, <2>2 DEF Assess
<1>6. CASE Verify(r)
  <2>1. left' \in Lefts
    BY <1>6, SpendTyped DEF Verify
  <2>2. it[r] \in Iteration /\ [it[r] EXCEPT !.passed = TRUE] \in Iteration
    BY PassTyped
  <2>3. it' \in [Runs -> Iteration] /\ pc' \in [Runs -> Location]
    BY <1>6, <2>2, FinishTyped, FailTyped DEF Verify, Goto, Location, CoreLocation
  <2> QED
    BY <1>6, <2>1, <2>3 DEF Verify
<1> QED
  BY <1>1, <1>2, <1>3, <1>4, <1>5, <1>6 DEF CoreStep

\* What the reviewer and the fixer note.
LEMMA OutcomeTyped == \A b : Outcome(b) \in {"passed", "failed"}
BY DEF Outcome

LEMMA SupTyped ==
    ASSUME NEW s \in Sup
    PROVE  /\ \A v \in {"APPROVE", "UNPARSEABLE", "REWORK"} : [s EXCEPT !.verdict = v] \in Sup
           /\ [s EXCEPT !.ran = TRUE] \in Sup
           /\ \A o \in {"passed", "failed"} : [s EXCEPT !.fix = o] \in Sup
BY DEF Sup

\* The callers' steps, which leave the locals of the iteration.
LEMMA CallerStepTypeOK ==
    ASSUME TypeOK, NEW r \in Runs,
           \/ IterationFailed(r) \/ CodexReturns(r) \/ BeginReview(r) \/ ReviewEnds(r)
           \/ BeginFix(r) \/ FixEnds(r) \/ FixVerify(r)
           \/ WriteDraft(r) \/ WriteReport(r) \/ Hook(r)
    PROVE  TypeOK'
<1> USE DEF TypeOK, CoreTypeOK, Bounds, End, Tell, Goto, SetSup, Location, CoreLocation
<1>1. CASE IterationFailed(r)
  BY <1>1 DEF IterationFailed
<1>2. CASE CodexReturns(r)
  <2>1. left' \in [runs : Nat, faults : Nat, crashes : Nat, strays : Nat]
    BY <1>2, SpendTyped DEF CodexReturns
  <2>2. \A w \in BOOLEAN : CodexExit(r, w) \in {"aborted", "exhausted", "error", "passed", "done"}
    BY DEF CodexExit
  <2>3. told' \in [Runs -> {"none", "error", "done", "passed", "exhausted", "aborted"}]
    BY <1>2, <2>2 DEF CodexReturns
  <2>4. draft' \in [Runs -> Written]
    <3>1. Outcome(it[r].passed) \in Written
      BY OutcomeTyped DEF Written
    <3>2. \/ draft' = [draft EXCEPT ![r] = Outcome(it[r].passed)]
          \/ UNCHANGED draft
      BY <1>2 DEF CodexReturns
    <3> QED
      BY <3>1, <3>2
  <2> QED
    BY <1>2, <2>1, <2>3, <2>4 DEF CodexReturns
<1>3. CASE BeginReview(r)
  <2>1. left' \in [runs : Nat, faults : Nat, crashes : Nat, strays : Nat]
    BY <1>3, SpendTyped DEF BeginReview
  <2> QED
    BY <1>3, <2>1 DEF BeginReview
<1>4. CASE ReviewEnds(r)
  <2>1. sup' \in [Runs -> Sup]
    <3>1. PICK v \in {"APPROVE", "UNPARSEABLE", "REWORK"} :
             sup' = [sup EXCEPT ![r] = [sup[r] EXCEPT !.verdict = v]]
      BY <1>4 DEF ReviewEnds
    <3>2. [sup[r] EXCEPT !.verdict = v] \in Sup
      BY SupTyped
    <3> QED
      BY <3>1, <3>2
  <2>2. pc' \in [Runs -> Location]
    BY <1>4 DEF ReviewEnds
  <2> QED
    BY <1>4, <2>1, <2>2 DEF ReviewEnds
<1>5. CASE BeginFix(r)
  <2>1. left' \in [runs : Nat, faults : Nat, crashes : Nat, strays : Nat]
    BY <1>5, SpendTyped DEF BeginFix
  <2>3. sup' \in [Runs -> Sup]
    <3>1. [sup[r] EXCEPT !.ran = TRUE] \in Sup
      BY SupTyped
    <3> QED
      BY <1>5, <3>1 DEF BeginFix
  <2> QED
    BY <1>5, <2>1, <2>3 DEF BeginFix
<1>6. CASE FixEnds(r)
  BY <1>6 DEF FixEnds, supVars
<1>7. CASE FixVerify(r)
  <2>1. sup' \in [Runs -> Sup]
    <3>1. PICK p \in Passes(r) \cup {FALSE} :
             sup' = [sup EXCEPT ![r] = [sup[r] EXCEPT !.fix = Outcome(sup[r].ran /\ p)]]
      BY <1>7 DEF FixVerify
    <3>2. [sup[r] EXCEPT !.fix = Outcome(sup[r].ran /\ p)] \in Sup
      BY SupTyped, OutcomeTyped
    <3> QED
      BY <3>1, <3>2
  <2> QED
    BY <1>7, <2>1 DEF FixVerify
<1>8. CASE WriteDraft(r)
  <2>1. left' \in [runs : Nat, faults : Nat, crashes : Nat, strays : Nat]
    BY <1>8, SpendTyped DEF WriteDraft
  <2> QED
    BY <1>8, <2>1 DEF WriteDraft, Outcome, Written
<1>9. CASE WriteReport(r)
  <2>1. left' \in [runs : Nat, faults : Nat, crashes : Nat, strays : Nat]
    BY <1>9, SpendTyped DEF WriteReport
  <2> QED
    BY <1>9, <2>1 DEF WriteReport, Outcome, Written
<1>10. CASE Hook(r)
  BY <1>10 DEF Hook
<1> QED
  BY <1>1, <1>2, <1>3, <1>4, <1>5, <1>6, <1>7, <1>8, <1>9, <1>10

\* Every step of a run, of what it started and of the operator keeps the types.
LEMMA StepTypeOK == TypeOK /\ [Next]_vars => TypeOK'
<1> SUFFICES ASSUME TypeOK, [Next]_vars PROVE TypeOK'
  OBVIOUS
<1> USE DEF TypeOK, CoreTypeOK, Bounds
<1>1. ASSUME NEW r \in Runs, Begin(r) PROVE TypeOK'
  <2>1. left' \in [runs : Nat, faults : Nat, crashes : Nat, strays : Nat]
    BY <1>1, SpendTyped DEF Begin, Start
  <2>2. it' \in [Runs -> Iteration]
    BY <1>1, NewIterationTyped, SetTyped DEF Begin, Start
  <2>3. args' \in [Runs -> ArgSets] /\ pc' \in [Runs -> Location]
    BY <1>1 DEF Begin, Start, Goto, Location, CoreLocation
  <2>4. sup' \in [Runs -> Sup]
    BY <1>1 DEF Begin, SetSup, NewSup, Sup
  <2>5. draft' \in [Runs -> Written] /\ report' \in [Runs -> Written]
    <3>1. \A w \in Written : Stale(w) \in Written
      BY DEF Stale, Written
    <3> QED
      BY <1>1, <3>1 DEF Begin
  <2> QED
    BY <1>1, <2>1, <2>2, <2>3, <2>4, <2>5 DEF Begin, Start, Tell
<1>2. ASSUME NEW r \in Runs, Refuse(r) PROVE TypeOK'
  <2>1. left' \in [runs : Nat, faults : Nat, crashes : Nat, strays : Nat]
    BY <1>2, SpendTyped DEF Refuse
  <2> QED
    BY <1>2, <2>1 DEF Refuse, Tell, Stale, Written
<1>3. ASSUME NEW r \in Runs, Step(r) PROVE TypeOK'
  BY <1>3, CoreStepTypeOK, CallerStepTypeOK DEF Step
<1>4. ASSUME NEW r \in Runs, Environment(r) PROVE TypeOK'
  BY <1>4 DEF Environment, WorkerWrites, StrayWrites, ReviewerWrites, FixerWrites, supVars
<1>5. ASSUME NEW r \in Runs, CrashRun(r) PROVE TypeOK'
  <2>1. it' \in [Runs -> Iteration]
    BY <1>5, NewIterationTyped, SetTyped DEF CrashRun, Crash
  <2>2. left' \in [runs : Nat, faults : Nat, crashes : Nat, strays : Nat]
    BY <1>5, CrashSpends DEF CrashRun
  <2>3. pc' \in [Runs -> Location]
    BY <1>5 DEF CrashRun, Crash, Goto, Location, CoreLocation
  <2> QED
    BY <1>5, <2>1, <2>2, <2>3 DEF CrashRun, Crash, Tell
<1>6. CASE Resolve /\ UNCHANGED supVars
  BY <1>6 DEF Resolve, PutBack, supVars
<1>7. CASE UNCHANGED vars
  BY <1>7 DEF vars, coreVars, supVars
<1> QED
  BY <1>1, <1>2, <1>3, <1>4, <1>5, <1>6, <1>7 DEF Next, Finished

\* Every reachable state of the supervisor and its iterations is well typed.
THEOREM TypeCorrect == Spec => []TypeOK
<1> QED
  BY InitTypeOK, StepTypeOK, PTL DEF Spec

-----------------------------------------------------------------------------
(* The hidden suite.  A blind run has it aside from hide_verifier to       *)
(* restore_verifier; the refusal of a stale directory makes that the work  *)
(* of one run at a time.                                                   *)

Hiding == {"config", "launch", "working", "restore"}

Hides(r) == args[r].blind /\ pc[r] \in Hiding

HiddenWhile == \A r \in Runs : pc[r] \in Hiding => it[r].hidden = args[r].blind
OneHides == \A r, q \in Runs : Hides(r) /\ Hides(q) => r = q
AsideWhile == \A r \in Runs : Hides(r) => suite.aside = "real"
OnlyReal == suite.aside # "other"
Disturbed == left.crashes < MaxCrashes \/ left.faults < MaxFaults \/ suite.dir = "other"
AsideForSomeone == suite.aside = "real" => (\E r \in Runs : Hides(r)) \/ Disturbed
Bounded == left.crashes <= MaxCrashes /\ left.faults <= MaxFaults

SuiteInv ==
    /\ HiddenWhile /\ OneHides /\ AsideWhile
    /\ SuiteIsSomewhere /\ OnlyReal /\ AsideForSomeone
    /\ Bounded

\* What a step of one run does not touch.
Others(r) == \A q \in Runs \ {r} : pc'[q] = pc[q] /\ args'[q] = args[q] /\ it'[q] = it[q]

\* No bound grows.
Spent ==
    /\ left'.crashes <= left.crashes /\ left'.faults <= left.faults
    /\ left'.crashes \in Nat /\ left'.faults \in Nat

LEMMA SpentTyped ==
    ASSUME TypeOK, \/ UNCHANGED left
                   \/ \E k \in Bounds : Spend(k)
                   \/ \E r \in Runs : Crash(r)
    PROVE  Spent
BY SpendTyped, CrashSpends DEF TypeOK, CoreTypeOK, Spent, Bounds

\* A run that spends a fault or a kill is a reason for a suite left aside.
LEMMA FaultDisturbs ==
    ASSUME TypeOK, Bounded, Spend("faults") PROVE left'.faults < MaxFaults
BY SpendTyped, VerifiedIterationAssumption DEF TypeOK, CoreTypeOK, Bounded, Bounds

LEMMA CrashDisturbs ==
    ASSUME TypeOK, Bounded, NEW r \in Runs, Crash(r) PROVE left'.crashes < MaxCrashes
BY CrashSpends, VerifiedIterationAssumption DEF TypeOK, CoreTypeOK, Bounded

LEMMA SpentBounded == ASSUME TypeOK, Bounded, Spent PROVE Bounded'
BY VerifiedIterationAssumption DEF TypeOK, CoreTypeOK, Bounded, Spent

\* A step of a run that has nothing aside and takes nothing aside.
LEMMA QuietStep ==
    ASSUME TypeOK, SuiteInv, NEW r \in Runs, Others(r), UNCHANGED suite, Spent,
           pc[r] \notin Hiding, pc'[r] \notin Hiding
    PROVE  SuiteInv'
<1>1. Bounded'
  BY SpentBounded DEF SuiteInv
<1>2. \A q \in Runs : Hides(q)' <=> Hides(q)
  BY DEF Others, Hides
<1>3. HiddenWhile'
  BY DEF SuiteInv, HiddenWhile, Others
<1>4. OneHides' /\ AsideWhile' /\ SuiteIsSomewhere' /\ OnlyReal'
  BY <1>2 DEF SuiteInv, OneHides, AsideWhile, SuiteIsSomewhere, OnlyReal
<1>5. AsideForSomeone'
  BY <1>2, VerifiedIterationAssumption
  DEF SuiteInv, AsideForSomeone, Disturbed, Spent, TypeOK, CoreTypeOK
<1> QED
  BY <1>1, <1>3, <1>4, <1>5 DEF SuiteInv

\* A step of a run between its hide and its restore that moves nothing.
LEMMA HidingStep ==
    ASSUME TypeOK, SuiteInv, NEW r \in Runs, Others(r), UNCHANGED suite, Spent,
           pc[r] \in Hiding, pc'[r] \in Hiding,
           args'[r] = args[r], it'[r].hidden = it[r].hidden
    PROVE  SuiteInv'
<1>1. Bounded'
  BY SpentBounded DEF SuiteInv
<1>2. \A q \in Runs : Hides(q)' <=> Hides(q)
  BY DEF Others, Hides
<1>3. HiddenWhile'
  BY DEF SuiteInv, HiddenWhile, Others
<1>4. OneHides' /\ AsideWhile' /\ SuiteIsSomewhere' /\ OnlyReal'
  BY <1>2 DEF SuiteInv, OneHides, AsideWhile, SuiteIsSomewhere, OnlyReal
<1>5. AsideForSomeone'
  BY <1>2, VerifiedIterationAssumption
  DEF SuiteInv, AsideForSomeone, Disturbed, Spent, TypeOK, CoreTypeOK
<1> QED
  BY <1>1, <1>3, <1>4, <1>5 DEF SuiteInv

\* A run that leaves the region with its suite put back, with a reason for
\* leaving it aside, or with no suite to put back.
LEMMA LeavingStep ==
    ASSUME TypeOK, SuiteInv, NEW r \in Runs, Others(r), Spent,
           pc[r] \in Hiding, pc'[r] \notin Hiding,
           \/ UNCHANGED suite /\ ((~args[r].blind) \/ Disturbed')
           \/ args[r].blind /\ suite.dir = "none" /\ PutBack
    PROVE  SuiteInv'
<1>1. Bounded'
  BY SpentBounded DEF SuiteInv
<1>2. HiddenWhile'
  BY DEF SuiteInv, HiddenWhile, Others
<1>3. CASE UNCHANGED suite
  <2>1. \A q \in Runs : Hides(q)' => Hides(q)
    BY DEF Others, Hides
  <2>2. OneHides' /\ AsideWhile' /\ SuiteIsSomewhere' /\ OnlyReal'
    BY <1>3, <2>1 DEF SuiteInv, OneHides, AsideWhile, SuiteIsSomewhere, OnlyReal
  <2>3. CASE Disturbed'
    BY <1>1, <1>2, <2>2, <2>3 DEF SuiteInv, AsideForSomeone
  <2>4. CASE ~args[r].blind
    <3>1. \A q \in Runs : Hides(q) => Hides(q)'
      BY <2>4 DEF Others, Hides
    <3>2. AsideForSomeone'
      BY <1>3, <3>1, VerifiedIterationAssumption
      DEF SuiteInv, AsideForSomeone, Disturbed, Spent, TypeOK, CoreTypeOK
    <3> QED
      BY <1>1, <1>2, <2>2, <3>2 DEF SuiteInv
  <2>5. CASE args[r].blind /\ suite.dir = "none" /\ PutBack
    <3>1. suite' = suite /\ suite.aside = "real"
      BY <1>3, <2>5 DEF SuiteInv, SuiteIsSomewhere, AsideWhile, Hides
    <3> QED
      BY <2>5, <3>1 DEF PutBack, CoreTypeOK, TypeOK
  <2> QED
    BY <2>3, <2>4, <2>5
<1>4. CASE args[r].blind /\ suite.dir = "none" /\ PutBack
  <2>1. Hides(r) /\ suite.aside = "real"
    BY <1>4 DEF SuiteInv, AsideWhile, Hides
  <2>2. \A q \in Runs : ~Hides(q)'
    BY <2>1 DEF SuiteInv, OneHides, Others, Hides
  <2>3. suite'.dir = "real" /\ suite'.aside = "none"
    BY <1>4, <2>1 DEF PutBack
  <2> QED
    BY <1>1, <1>2, <2>2, <2>3
    DEF SuiteInv, OneHides, AsideWhile, SuiteIsSomewhere, OnlyReal, AsideForSomeone
<1> QED
  BY <1>3, <1>4

LEMMA InitSuiteInv == Init => SuiteInv
BY VerifiedIterationAssumption
DEF Init, CoreInit, SuiteInv, HiddenWhile, OneHides, AsideWhile, SuiteIsSomewhere, OnlyReal,
    AsideForSomeone, Bounded, Hides, Hiding

\* An attempt of a blind run takes the suite aside; only a real suite can be
\* there, and only while no other run has it.
LEMMA BeginAttemptSuiteInv ==
    ASSUME TypeOK, SuiteInv, NEW r \in Runs, BeginAttempt(r)
    PROVE  SuiteInv'
<1> USE DEF TypeOK, CoreTypeOK
<1>1. Others(r) /\ pc[r] \notin Hiding
  BY DEF BeginAttempt, Others, Fail, Goto, Set, Hiding
<1>2. Spent
  BY SpentTyped DEF BeginAttempt, Bounds
<1>3. CASE Fail(r) /\ UNCHANGED suite
  BY <1>1, <1>2, <1>3, QuietStep DEF Fail, Goto, Hiding
<1>4. CASE /\ args[r].blind => CanHide
           /\ Goto(r, "config")
           /\ Set(r, [it[r] EXCEPT !.attempt = @ + 1, !.hidden = args[r].blind])
           /\ suite' = IF args[r].blind THEN [dir |-> "none", aside |-> suite.dir] ELSE suite
           /\ UNCHANGED <<args, left>>
  <2>1. it'[r].hidden = args[r].blind
    BY <1>4 DEF Set, Iteration
  <2>2. HiddenWhile'
    BY <1>1, <1>4, <2>1 DEF SuiteInv, HiddenWhile, Others
  <2>3. CASE args[r].blind
    <3>1. suite.aside = "none" /\ suite.dir = "real"
      BY <1>4, <2>3 DEF CanHide, SuiteInv, SuiteIsSomewhere
    <3>2. \A q \in Runs : ~Hides(q)
      BY <3>1 DEF SuiteInv, AsideWhile
    <3>3. suite' = [dir |-> "none", aside |-> "real"]
      BY <1>4, <2>3, <3>1
    <3>4. \A q \in Runs \ {r} : ~Hides(q)'
      BY <1>1, <3>2 DEF Others, Hides
    <3>5. Hides(r)'
      BY <1>4, <2>3 DEF Hides, Hiding, Goto
    <3> QED
      BY <1>2, <2>2, <3>3, <3>4, <3>5, SpentBounded
      DEF SuiteInv, OneHides, AsideWhile, SuiteIsSomewhere, OnlyReal, AsideForSomeone
  <2>4. CASE ~args[r].blind
    <3>1. suite' = suite /\ left' = left
      BY <1>4, <2>4
    <3>2. \A q \in Runs : Hides(q)' <=> Hides(q)
      BY <1>1, <1>4, <2>4 DEF Others, Hides
    <3> QED
      BY <1>2, <2>2, <3>1, <3>2, SpentBounded
      DEF SuiteInv, OneHides, AsideWhile, SuiteIsSomewhere, OnlyReal, AsideForSomeone, Disturbed
  <2> QED
    BY <2>3, <2>4
<1> QED
  BY <1>3, <1>4 DEF BeginAttempt

\* The error paths of the idle cap and the spawn put the suite back if they can.
LEMMA ErrorPathSuiteInv ==
    ASSUME TypeOK, SuiteInv, NEW r \in Runs, pc[r] \in Hiding, Spend("faults"), Fail(r),
           TryPutBack(r), UNCHANGED args
    PROVE  SuiteInv'
<1>1. Others(r) /\ pc'[r] \notin Hiding
  BY DEF Others, Fail, Goto, Set, Hiding, TypeOK, CoreTypeOK
<1>2. Spent /\ Disturbed'
  BY SpentTyped, FaultDisturbs DEF SuiteInv, Disturbed, Bounds
<1>3. it[r].hidden = args[r].blind
  BY DEF SuiteInv, HiddenWhile
<1> QED
  BY <1>1, <1>2, <1>3, LeavingStep DEF TryPutBack, CanRestore

LEMMA RestoreSuiteInv ==
    ASSUME TypeOK, SuiteInv, NEW r \in Runs, Restore(r)
    PROVE  SuiteInv'
<1>1. /\ Others(r) /\ pc[r] \in Hiding /\ pc'[r] \notin Hiding
  BY DEF Restore, Others, Fail, Goto, Set, Hiding, TypeOK, CoreTypeOK
<1>2. Spent
  BY SpentTyped DEF Restore, Bounds
<1>3. it[r].hidden = args[r].blind
  BY <1>1 DEF SuiteInv, HiddenWhile
<1>4. args[r].blind => suite.aside = "real" /\ suite.dir # "real"
  BY <1>1 DEF SuiteInv, AsideWhile, SuiteIsSomewhere, Hides
<1>5. CASE /\ it[r].hidden /\ suite.aside # "none" => CanRestore
           /\ IF it[r].hidden /\ suite.aside # "none" THEN PutBack ELSE UNCHANGED suite
  BY <1>1, <1>2, <1>3, <1>4, <1>5, LeavingStep DEF CanRestore
<1>6. CASE /\ IF CanRestore THEN Spend("faults") ELSE UNCHANGED left
           /\ UNCHANGED suite
           /\ it[r].hidden /\ suite.aside # "none"
  <2>1. Disturbed'
    <3>1. CASE CanRestore
      BY <1>6, <3>1, FaultDisturbs DEF SuiteInv, Disturbed
    <3>2. CASE ~CanRestore
      BY <1>3, <1>4, <1>6, <3>2 DEF CanRestore, Disturbed, TypeOK, CoreTypeOK
    <3> QED
      BY <3>1, <3>2
  <2> QED
    BY <1>1, <1>2, <1>6, <2>1, LeavingStep
<1> QED
  BY <1>5, <1>6 DEF Restore

LEMMA StepSuiteInv == TypeOK /\ SuiteInv /\ [Next]_vars => SuiteInv'
<1> SUFFICES ASSUME TypeOK, SuiteInv, [Next]_vars PROVE SuiteInv'
  OBVIOUS
<1> USE DEF TypeOK, CoreTypeOK, Goto, Set, Hiding, Bounds
<1>1. ASSUME NEW r \in Runs, Begin(r) \/ Refuse(r) PROVE SuiteInv'
  <2>1. Others(r) /\ UNCHANGED suite /\ pc[r] \notin Hiding /\ pc'[r] \notin Hiding
    BY <1>1 DEF Begin, Start, Refuse, Others
  <2>2. Spent
    BY <1>1, SpentTyped DEF Begin, Start, Refuse
  <2> QED
    BY <2>1, <2>2, QuietStep
<1>2. ASSUME NEW r \in Runs, CoreStep(r) PROVE SuiteInv'
  <2>1. CASE BeginAttempt(r)
    BY <2>1, BeginAttemptSuiteInv
  <2>2. CASE ReadIdleCap(r)
    <3>1. CASE Goto(r, "launch") /\ UNCHANGED <<it, suite, left>>
      BY <2>2, <3>1, SpentTyped, HidingStep DEF ReadIdleCap, Others
    <3> QED
      BY <2>2, <3>1, ErrorPathSuiteInv DEF ReadIdleCap
  <2>3. CASE Launch(r)
    <3>1. CASE Goto(r, "working") /\ UNCHANGED <<it, suite, left>>
      BY <2>3, <3>1, SpentTyped, HidingStep DEF Launch, Others
    <3> QED
      BY <2>3, <3>1, ErrorPathSuiteInv DEF Launch
  <2>4. CASE WorkerEnds(r)
    <3>1. Others(r) /\ it'[r].hidden = it[r].hidden
      BY <2>4 DEF WorkerEnds, Others, Iteration
    <3>2. Spent
      BY <2>4, SpentTyped DEF WorkerEnds
    <3> QED
      BY <2>4, <3>1, <3>2, HidingStep DEF WorkerEnds
  <2>5. CASE Restore(r)
    BY <2>5, RestoreSuiteInv
  <2>6. CASE Assess(r) \/ Verify(r)
    <3>1. Others(r) /\ UNCHANGED suite /\ pc[r] \notin Hiding /\ pc'[r] \notin Hiding
      BY <2>6 DEF Assess, Verify, Fail, Finish, Others
    <3>2. Spent
      BY <2>6, SpentTyped DEF Assess, Verify
    <3> QED
      BY <3>1, <3>2, QuietStep
  <2> QED
    BY <1>2, <2>1, <2>2, <2>3, <2>4, <2>5, <2>6 DEF CoreStep
<1>3. ASSUME NEW r \in Runs,
             \/ IterationFailed(r) \/ CodexReturns(r) \/ BeginReview(r) \/ ReviewEnds(r)
             \/ BeginFix(r) \/ FixEnds(r) \/ FixVerify(r)
             \/ WriteDraft(r) \/ WriteReport(r) \/ Hook(r)
      PROVE SuiteInv'
  <2>1. /\ UNCHANGED <<args, it, suite>>
        /\ pc[r] \notin Hiding /\ pc'[r] \notin Hiding
        /\ \A q \in Runs \ {r} : pc'[q] = pc[q]
    <3>1. CASE \/ IterationFailed(r) \/ CodexReturns(r) \/ BeginFix(r) \/ FixEnds(r)
               \/ FixVerify(r)
      BY <3>1 DEF IterationFailed, CodexReturns, BeginFix, FixEnds, FixVerify, End
    <3>2. CASE BeginReview(r)
      BY <3>2 DEF BeginReview, End
    <3>3. CASE ReviewEnds(r)
      BY <3>3 DEF ReviewEnds
    <3>4. CASE WriteDraft(r) \/ WriteReport(r) \/ Hook(r)
      BY <3>4 DEF WriteDraft, WriteReport, Hook, End
    <3> QED
      BY <1>3, <3>1, <3>2, <3>3, <3>4
  <2>2. UNCHANGED left \/ Spend("faults")
    BY <1>3 DEF IterationFailed, CodexReturns, BeginReview, ReviewEnds, BeginFix, FixEnds,
                FixVerify, WriteDraft, WriteReport, Hook
  <2> QED
    BY <2>1, <2>2, SpentTyped, QuietStep DEF Others
<1>4. ASSUME NEW r \in Runs, Environment(r) PROVE SuiteInv'
  <2>1. CASE suite.dir = "none" /\ suite' = [suite EXCEPT !.dir = "other"]
             /\ UNCHANGED <<pc, args, it, left>>
    <3>1. \A q \in Runs : Hides(q)' <=> Hides(q)
      BY <2>1 DEF Hides
    <3>2. suite'.dir = "other" /\ suite'.aside = suite.aside
      BY <2>1
    <3> QED
      BY <2>1, <3>1, <3>2
      DEF SuiteInv, HiddenWhile, OneHides, AsideWhile, SuiteIsSomewhere, OnlyReal,
          AsideForSomeone, Disturbed, Bounded
  <2>2. CASE UNCHANGED <<pc, args, it, suite, left>>
    BY <2>2
    DEF SuiteInv, HiddenWhile, OneHides, AsideWhile, SuiteIsSomewhere, OnlyReal,
        AsideForSomeone, Disturbed, Bounded, Hides
  <2> QED
    BY <1>4, <2>1, <2>2
    DEF Environment, WorkerWrites, StrayWrites, ReviewerWrites, FixerWrites
<1>5. ASSUME NEW r \in Runs, CrashRun(r) PROVE SuiteInv'
  <2>1. Others(r) /\ UNCHANGED suite /\ pc'[r] \notin Hiding
    BY <1>5 DEF CrashRun, Crash, Others
  <2>2. Spent /\ Disturbed'
    BY <1>5, SpentTyped, CrashDisturbs DEF CrashRun, SuiteInv, Disturbed
  <2>3. CASE pc[r] \in Hiding
    BY <2>1, <2>2, <2>3, LeavingStep
  <2>4. CASE pc[r] \notin Hiding
    BY <2>1, <2>2, <2>4, QuietStep
  <2> QED
    BY <2>3, <2>4
<1>6. CASE Resolve
  <2>1. suite.aside = "real" /\ \A r \in Runs : ~Hides(r)'
    BY <1>6 DEF Resolve, SuiteInv, OnlyReal, Hides
  <2>2. suite'.dir = "real" /\ suite'.aside = "none"
    BY <1>6, <2>1 DEF Resolve, PutBack
  <2> QED
    BY <1>6, <2>1, <2>2
    DEF Resolve, SuiteInv, HiddenWhile, OneHides, AsideWhile, SuiteIsSomewhere, OnlyReal,
        AsideForSomeone, Bounded
<1>7. CASE UNCHANGED vars
  BY <1>7
  DEF vars, coreVars, SuiteInv, HiddenWhile, OneHides, AsideWhile, SuiteIsSomewhere, OnlyReal,
      AsideForSomeone, Disturbed, Bounded, Hides
<1> QED
  BY <1>1, <1>2, <1>3, <1>4, <1>5, <1>6, <1>7 DEF Next, Step, Finished

LEMMA SuiteInvariant == Spec => []SuiteInv
<1>1. Init => TypeOK /\ SuiteInv
  BY InitTypeOK, InitSuiteInv
<1>2. TypeOK /\ SuiteInv /\ [Next]_vars => (TypeOK /\ SuiteInv)'
  BY StepTypeOK, StepSuiteInv
<1> QED
  BY <1>1, <1>2, PTL DEF Spec

\* run_verified_iteration: whatever other runs do with the same hidden suite, and
\* whatever fails or dies, no attempt of a blind run is made in sight of it.
THEOREM AttemptsAreBlind == Spec => []AttemptIsBlind
<1>1. SuiteInv => AttemptIsBlind
  BY DEF SuiteInv, AsideWhile, SuiteIsSomewhere, AttemptIsBlind, Hides, Hiding
<1> QED
  BY <1>1, SuiteInvariant, PTL

\* hide_verifier and restore_verifier never lose the suite, and leave it aside
\* only for a run at work, a failure, a kill or something put in its place.
THEOREM SuiteIsKept == Spec => []SuiteKept
<1>1. SuiteInv => SuiteKept
  BY DEF SuiteInv, HiddenWhile, AsideForSomeone, Disturbed, SuiteKept, SuitePutBack, Hides, Hiding
<1> QED
  BY <1>1, SuiteInvariant, PTL

-----------------------------------------------------------------------------
(* The record of a pass.  The draft and the report are written before the  *)
(* pass is told, from locals nothing changes on the way.                   *)

RecordOf(r) ==
    /\ told[r] = "passed" =>
          /\ pc[r] = "idle" /\ ~it[r].aborted /\ draft[r] = "passed"
          /\ args[r].client = "supervisor" => report[r] = "passed"
    /\ pc[r] \in {"report", "hook"} => draft[r] = Outcome(FinalPassed(r))
    /\ pc[r] = "hook" => report[r] = Outcome(FinalPassed(r))

RecordInv == \A r \in Runs : RecordOf(r)

\* What belongs to one run and a step of another leaves.
Untouched(r) ==
    /\ pc'[r] = pc[r] /\ args'[r] = args[r] /\ it'[r] = it[r]
    /\ sup'[r] = sup[r] /\ draft'[r] = draft[r] /\ report'[r] = report[r] /\ told'[r] = told[r]

LEMMA UntouchedRecord ==
    ASSUME RecordInv, NEW r \in Runs, Untouched(r)
    PROVE  RecordOf(r)'
BY DEF RecordInv, RecordOf, Untouched, FinalPassed, Outcome

\* A step of a run touches no other run's locals and files.
LEMMA OthersUntouched ==
    ASSUME TypeOK, NEW r \in Runs,
           Begin(r) \/ Refuse(r) \/ Step(r) \/ Environment(r) \/ CrashRun(r)
    PROVE  \A q \in Runs \ {r} : Untouched(q)
<1> USE DEF TypeOK, CoreTypeOK, Untouched, Goto, Set, Fail, Finish, Tell, End, SetSup, supVars
<1>1. CASE Begin(r) \/ Refuse(r) \/ CrashRun(r)
  BY <1>1 DEF Begin, Start, Refuse, CrashRun, Crash
<1>2. CASE Environment(r)
  BY <1>2 DEF Environment, WorkerWrites, StrayWrites, ReviewerWrites, FixerWrites
<1>3. CASE CoreStep(r) /\ UNCHANGED supVars
  <2>1. CASE BeginAttempt(r)
    BY <1>3, <2>1 DEF BeginAttempt
  <2>2. CASE ReadIdleCap(r) \/ Launch(r)
    BY <1>3, <2>2 DEF ReadIdleCap, Launch
  <2>3. CASE WorkerEnds(r)
    BY <1>3, <2>3 DEF WorkerEnds
  <2>4. CASE Restore(r)
    BY <1>3, <2>4 DEF Restore
  <2>5. CASE Assess(r) \/ Verify(r)
    BY <1>3, <2>5 DEF Assess, Verify
  <2> QED
    BY <1>3, <2>1, <2>2, <2>3, <2>4, <2>5 DEF CoreStep
<1>4. CASE IterationFailed(r) \/ CodexReturns(r) \/ BeginReview(r) \/ ReviewEnds(r)
  BY <1>4 DEF IterationFailed, CodexReturns, BeginReview, ReviewEnds
<1>5. CASE BeginFix(r) \/ FixEnds(r) \/ FixVerify(r)
  BY <1>5 DEF BeginFix, FixEnds, FixVerify
<1>6. CASE WriteDraft(r) \/ WriteReport(r) \/ Hook(r)
  BY <1>6 DEF WriteDraft, WriteReport, Hook
<1> QED
  BY <1>1, <1>2, <1>3, <1>4, <1>5, <1>6 DEF Step

LEMMA InitRecordInv == Init => RecordInv
BY DEF Init, CoreInit, RecordInv, RecordOf

\* The step's own run.
LEMMA StepRecordOf ==
    ASSUME TypeOK, RecordInv, NEW r \in Runs,
           Begin(r) \/ Refuse(r) \/ Step(r) \/ Environment(r) \/ CrashRun(r)
    PROVE  RecordOf(r)'
<1> USE DEF TypeOK, CoreTypeOK, Goto, Set, Fail, Finish, Tell, End, SetSup, supVars
<1>0. RecordOf(r)
  BY DEF RecordInv
<1>1. CASE Begin(r) \/ Refuse(r) \/ CrashRun(r)
  BY <1>0, <1>1 DEF Begin, Start, Refuse, CrashRun, Crash, RecordOf
<1>2. CASE Environment(r)
  <2>1. Untouched(r)
    BY <1>2 DEF Environment, WorkerWrites, StrayWrites, ReviewerWrites, FixerWrites, Untouched
  <2> QED
    BY <2>1, UntouchedRecord
<1>3. CASE CoreStep(r) /\ UNCHANGED supVars
  <2>1. /\ pc[r] # "idle" /\ pc'[r] \notin {"idle", "report", "hook"}
        /\ told'[r] = told[r]
    BY <1>3
    DEF CoreStep, BeginAttempt, ReadIdleCap, Launch, WorkerEnds, Restore, Assess, Verify
  <2> QED
    BY <1>0, <2>1 DEF RecordOf
<1>4. CASE IterationFailed(r) \/ BeginReview(r) \/ ReviewEnds(r) \/ BeginFix(r) \/ FixEnds(r)
           \/ FixVerify(r)
  <2>1. /\ pc[r] # "idle" /\ pc'[r] \notin {"report", "hook"}
        /\ told'[r] = "error" \/ told'[r] = told[r]
    BY <1>4 DEF IterationFailed, BeginReview, ReviewEnds, BeginFix, FixEnds, FixVerify
  <2> QED
    BY <1>0, <2>1 DEF RecordOf
<1>5. CASE CodexReturns(r)
  <2>1. pc'[r] = "idle" /\ args'[r] = args[r] /\ it'[r] = it[r] /\ args[r].client = "codex"
    BY <1>5 DEF CodexReturns
  <2>2. PICK w \in BOOLEAN :
          /\ told'[r] = CodexExit(r, w)
          /\ w => draft'[r] = Outcome(it[r].passed)
    BY <1>5 DEF CodexReturns
  <2>3. args[r].iterate \in Nat /\ args[r].iterate >= 1
    BY VerifiedIterationAssumption DEF Args
  <2>4. told'[r] = "passed" => w /\ ~it[r].aborted /\ it[r].passed
    BY <2>2, <2>3 DEF CodexExit
  <2> QED
    BY <2>1, <2>2, <2>4 DEF RecordOf, Outcome
<1>6. CASE WriteDraft(r)
  <2>1. told'[r] = told[r] \/ told'[r] = "error"
    BY <1>6 DEF WriteDraft
  <2>2. pc'[r] = "report" => draft'[r] = Outcome(FinalPassed(r))
    BY <1>6 DEF WriteDraft
  <2>3. FinalPassed(r)' <=> FinalPassed(r)
    BY <1>6 DEF WriteDraft, FinalPassed
  <2>4. pc'[r] \in {"report", "idle"} /\ pc[r] = "record"
    BY <1>6 DEF WriteDraft
  <2> QED
    BY <1>0, <2>1, <2>2, <2>3, <2>4 DEF RecordOf, Outcome
<1>7. CASE WriteReport(r)
  <2>1. told'[r] = told[r] \/ told'[r] = "error"
    BY <1>7 DEF WriteReport
  <2>2. pc'[r] = "hook" => report'[r] = Outcome(FinalPassed(r))
    BY <1>7 DEF WriteReport
  <2>3. FinalPassed(r)' <=> FinalPassed(r)
    BY <1>7 DEF WriteReport, FinalPassed
  <2>4. pc'[r] \in {"hook", "idle"} /\ pc[r] = "report" /\ draft'[r] = draft[r]
    BY <1>7 DEF WriteReport
  <2> QED
    BY <1>0, <2>1, <2>2, <2>3, <2>4 DEF RecordOf, Outcome
<1>8. CASE Hook(r)
  <2>1. told'[r] = "passed" => FinalPassed(r) /\ ~it[r].aborted
    BY <1>8 DEF Hook
  <2>2. pc'[r] = "idle" /\ UNCHANGED <<args, it, draft, report>> /\ pc[r] = "hook"
    BY <1>8 DEF Hook
  <2> QED
    BY <1>0, <2>1, <2>2 DEF RecordOf, Outcome
<1> QED
  BY <1>1, <1>2, <1>3, <1>4, <1>5, <1>6, <1>7, <1>8 DEF Step

LEMMA StepRecordInv == TypeOK /\ RecordInv /\ [Next]_vars => RecordInv'
<1> SUFFICES ASSUME TypeOK, RecordInv, [Next]_vars PROVE RecordInv'
  OBVIOUS
<1>1. ASSUME NEW r \in Runs,
             Begin(r) \/ Refuse(r) \/ Step(r) \/ Environment(r) \/ CrashRun(r)
      PROVE  RecordInv'
  <2>1. \A q \in Runs \ {r} : RecordOf(q)'
    BY <1>1, OthersUntouched, UntouchedRecord
  <2>2. RecordOf(r)'
    BY <1>1, StepRecordOf
  <2> QED
    BY <2>1, <2>2 DEF RecordInv
<1>2. CASE (Resolve /\ UNCHANGED supVars) \/ UNCHANGED vars
  <2>1. \A q \in Runs : Untouched(q)
    BY <1>2 DEF Resolve, supVars, vars, coreVars, Untouched
  <2> QED
    BY <2>1, UntouchedRecord DEF RecordInv
<1> QED
  BY <1>1, <1>2 DEF Next, Finished

\* cmd_codex and Supervisor.run: a pass is told only when the run's own draft,
\* and the report of a supervised run, say it too.
THEOREM PassesAreRecorded == Spec => []PassIsRecorded
<1>1. Init => TypeOK /\ RecordInv
  BY InitTypeOK, InitRecordInv
<1>2. TypeOK /\ RecordInv /\ [Next]_vars => (TypeOK /\ RecordInv)'
  BY StepTypeOK, StepRecordInv
<1>3. RecordInv => PassIsRecorded
  BY DEF RecordInv, RecordOf, PassIsRecorded
<1> QED
  BY <1>1, <1>2, <1>3, PTL DEF Spec

-----------------------------------------------------------------------------
(* The verdict on a blind run that has the suite for itself.  With another *)
(* run on the suite it does not hold: that run may take the suite aside    *)
(* while this one's verifier works.                                        *)

OneRun == \A q, r \in Runs : q = r

Working == {"attempt", "config", "launch", "working", "restore", "assess", "verify"}
Reviewing == {"reviewing", "fix", "fixing", "fixverify"}
Recording == {"record", "report", "hook"}

Trusted(r) == args[r].blind /\ args[r].sandboxed /\ r \notin strays

\* From its restore on a run has the suite in its place, if it goes on.
SuiteIn(r) ==
    args[r].blind /\ (\/ pc[r] \in {"assess", "verify"} \cup Reviewing \cup Recording
                      \/ pc[r] = "returned" /\ it[r].result = "ok")
        => suite.dir = "real"

\* Before the caller takes over nothing has passed and no review was made.
NotYet(r) ==
    /\ pc[r] \in Working => ~it[r].passed /\ it[r].result = "none"
    /\ pc[r] \in Working \cup {"returned"} => sup[r] = NewSup

Reviewed(r) ==
    /\ pc[r] \in Reviewing => Reviews(r) /\ sup[r].fix = "none"
    /\ pc[r] \in {"fix", "fixing", "fixverify"} => sup[r].verdict = "REWORK"

\* A pass is the tree's: of the loop, of the review and the fix, and as told.
PassIsRight(r) ==
    Trusted(r) => /\ pc[r] \in {"returned", "reviewing", "fix"} /\ it[r].passed => tree[r] = "right"
                  /\ pc[r] \in Recording /\ FinalPassed(r) => tree[r] = "right"
                  /\ told[r] = "passed" => tree[r] = "right"

ToldAtEnd(r) == told[r] = "passed" => pc[r] = "idle"

VerifiedOf(r) == SuiteIn(r) /\ NotYet(r) /\ Reviewed(r) /\ PassIsRight(r) /\ ToldAtEnd(r)

VerifiedInv == \A r \in Runs : VerifiedOf(r)

LEMMA InitVerifiedInv == Init => VerifiedInv
BY DEF Init, CoreInit, VerifiedInv, VerifiedOf, SuiteIn, NotYet, Reviewed, PassIsRight, ToldAtEnd,
       Working, Reviewing, Recording

\* What the verifier may say of a run that has the suite in its place.
LEMMA OnlyRightPasses ==
    ASSUME TypeOK, NEW r \in Runs, suite.dir = "real", TRUE \in Passes(r)
    PROVE  tree[r] = "right"
BY DEF Passes, TypeOK, CoreTypeOK

\* The updates of an iteration that do not touch its verdict.
LEMMA FieldsKept ==
    ASSUME NEW i \in Iteration
    PROVE  /\ \A n \in Nat, h \in BOOLEAN :
                 /\ [i EXCEPT !.attempt = n, !.hidden = h].passed = i.passed
                 /\ [i EXCEPT !.attempt = n, !.hidden = h].result = i.result
           /\ \A g \in BOOLEAN, a \in BOOLEAN :
                 /\ [i EXCEPT !.grace = g, !.aborted = a].passed = i.passed
                 /\ [i EXCEPT !.grace = g, !.aborted = a].result = i.result
           /\ \A e \in {"ok", "error"} :
                 /\ [i EXCEPT !.result = e].passed = i.passed
                 /\ [i EXCEPT !.result = e].result = e
BY DEF Iteration

LEMMA CoreStepVerified ==
    ASSUME TypeOK, SuiteInv, NEW r \in Runs, VerifiedOf(r), CoreStep(r), UNCHANGED supVars
    PROVE  VerifiedOf(r)'
<1> USE DEF TypeOK, CoreTypeOK, Goto, Set, Fail, Finish, supVars, VerifiedOf, Working, Reviewing,
            Recording, ToldAtEnd, NewSup
<1>1. CASE BeginAttempt(r)
  <2>1. /\ pc[r] = "attempt" /\ pc'[r] \in {"config", "returned"}
        /\ pc'[r] = "returned" => it'[r].result = "error"
        /\ pc'[r] = "config" => it'[r].result = it[r].result
        /\ it'[r].passed = it[r].passed
    <3>1. CASE Fail(r)
      BY <1>1, <3>1, FieldsKept DEF BeginAttempt
    <3>2. CASE Goto(r, "config") /\ Set(r, [it[r] EXCEPT !.attempt = @ + 1, !.hidden = args[r].blind])
      <4>1. it[r].attempt + 1 \in Nat /\ args[r].blind \in BOOLEAN
        BY VerifiedIterationAssumption DEF Iteration, Args
      <4>2. it'[r] = [it[r] EXCEPT !.attempt = @ + 1, !.hidden = args[r].blind]
        BY <3>2
      <4> QED
        BY <1>1, <3>2, <4>1, <4>2, FieldsKept DEF BeginAttempt
    <3> QED
      BY <1>1, <3>1, <3>2 DEF BeginAttempt
  <2> QED
    BY <1>1, <2>1 DEF BeginAttempt, SuiteIn, NotYet, Reviewed, PassIsRight, Trusted
<1>2. CASE ReadIdleCap(r) \/ Launch(r)
  <2>1. /\ pc[r] \in Working /\ pc'[r] \in {"launch", "working", "returned"}
        /\ pc'[r] = "returned" => it'[r].result = "error"
        /\ pc'[r] # "returned" => it'[r] = it[r]
        /\ it'[r].passed = it[r].passed
    BY <1>2 DEF ReadIdleCap, Launch, Iteration
  <2> QED
    BY <1>2, <2>1 DEF ReadIdleCap, Launch, SuiteIn, NotYet, Reviewed, PassIsRight, Trusted
<1>3. CASE WorkerEnds(r)
  <2>1. /\ pc[r] = "working" /\ pc'[r] = "restore"
        /\ it'[r].result = it[r].result /\ it'[r].passed = it[r].passed
    BY <1>3 DEF WorkerEnds, Iteration
  <2> QED
    BY <1>3, <2>1 DEF WorkerEnds, SuiteIn, NotYet, Reviewed, PassIsRight, Trusted
<1>4. CASE Restore(r)
  <2>1. /\ pc[r] = "restore" /\ pc'[r] \in {"assess", "returned"}
        /\ pc'[r] = "returned" => it'[r].result = "error"
        /\ pc'[r] = "assess" => it'[r] = it[r]
        /\ it'[r].passed = it[r].passed
    BY <1>4 DEF Restore, Iteration
  <2>2. args[r].blind /\ pc'[r] = "assess" => suite'.dir = "real"
    <3>1. args[r].blind => it[r].hidden /\ suite.aside = "real"
      BY <2>1 DEF SuiteInv, HiddenWhile, AsideWhile, Hides, Hiding
    <3> QED
      BY <1>4, <3>1 DEF Restore, PutBack
  <2> QED
    BY <1>4, <2>1, <2>2 DEF Restore, SuiteIn, NotYet, Reviewed, PassIsRight, Trusted
<1>5. CASE Assess(r)
  <2>1. /\ pc[r] = "assess" /\ pc'[r] \in {"verify", "returned"}
        /\ it'[r].passed = it[r].passed
        /\ pc'[r] = "verify" => it'[r].result = it[r].result
    <3>1. pc[r] = "assess"
      BY <1>5 DEF Assess
    <3>2. CASE Fail(r)
      BY <3>1, <3>2, FieldsKept
    <3>3. ASSUME NEW violated \in BOOLEAN, NEW overTotal \in BOOLEAN,
                 NEW i, i = [it[r] EXCEPT !.grace = @ \/ Grace(it[r]),
                               !.aborted = (it[r].killed \/ violated) \/ overTotal],
                 Finish(r, i) \/ (Goto(r, "verify") /\ Set(r, i))
          PROVE  /\ pc'[r] \in {"verify", "returned"} /\ it'[r].passed = it[r].passed
                 /\ pc'[r] = "verify" => it'[r].result = it[r].result
      <4>1. /\ (it[r].grace \/ Grace(it[r])) \in BOOLEAN
            /\ ((it[r].killed \/ violated) \/ overTotal) \in BOOLEAN
        OBVIOUS
      <4>2. i \in Iteration
        BY <3>3, <4>1, VerdictTyped
      <4>3. i.passed = it[r].passed /\ i.result = it[r].result
        <5>1. it[r] \in Iteration
          OBVIOUS
        <5> QED
          BY ONLY <3>3, <5>1 DEF Iteration
      <4>4. [i EXCEPT !.result = "ok"].passed = i.passed
        BY <4>2, FieldsKept
      <4>5. CASE Finish(r, i)
        BY <4>3, <4>4, <4>5
      <4>6. CASE Goto(r, "verify") /\ Set(r, i)
        BY <4>3, <4>6
      <4> QED
        BY <3>3, <4>5, <4>6
    <3> QED
      BY <1>5, <3>1, <3>2, <3>3 DEF Assess
  <2> QED
    BY <1>5, <2>1 DEF Assess, SuiteIn, NotYet, Reviewed, PassIsRight, Trusted
<1>6. CASE Verify(r)
  <2>1. CASE TRUE \in Passes(r) /\ Finish(r, [it[r] EXCEPT !.passed = TRUE])
    <3>1. args[r].blind => tree[r] = "right"
      BY <1>6, <2>1, OnlyRightPasses DEF Verify, SuiteIn
    <3> QED
      BY <1>6, <2>1, <3>1 DEF Verify, SuiteIn, NotYet, Reviewed, PassIsRight, Trusted
  <2>2. CASE Goto(r, "attempt") /\ UNCHANGED it
    BY <1>6, <2>2 DEF Verify, SuiteIn, NotYet, Reviewed, PassIsRight, Trusted
  <2>3. CASE Finish(r, it[r]) \/ Fail(r)
    <3>1. pc'[r] = "returned" /\ it'[r].passed = it[r].passed
      BY <2>3 DEF Iteration
    <3> QED
      BY <1>6, <3>1 DEF Verify, SuiteIn, NotYet, Reviewed, PassIsRight, Trusted
  <2> QED
    BY <1>6, <2>1, <2>2, <2>3 DEF Verify
<1> QED
  BY <1>1, <1>2, <1>3, <1>4, <1>5, <1>6 DEF CoreStep

LEMMA CallerStepVerified ==
    ASSUME TypeOK, NEW r \in Runs, VerifiedOf(r),
           \/ IterationFailed(r) \/ CodexReturns(r) \/ BeginReview(r) \/ ReviewEnds(r)
           \/ BeginFix(r) \/ FixEnds(r) \/ FixVerify(r)
           \/ WriteDraft(r) \/ WriteReport(r) \/ Hook(r)
    PROVE  VerifiedOf(r)'
<1> USE DEF TypeOK, CoreTypeOK, Goto, Tell, End, SetSup, VerifiedOf, Working, Reviewing,
            Recording, ToldAtEnd, SuiteIn, NotYet, PassIsRight, Trusted
<1>1. CASE IterationFailed(r)
  BY <1>1 DEF IterationFailed, Reviewed
<1>2. CASE CodexReturns(r)
  <2>1. args[r].iterate \in Nat /\ args[r].iterate >= 1
    BY VerifiedIterationAssumption DEF Args
  <2>2. told'[r] = "passed" => it[r].passed
    BY <1>2, <2>1 DEF CodexReturns, CodexExit
  <2> QED
    BY <1>2, <2>2 DEF CodexReturns, Reviewed
<1>3. CASE BeginReview(r)
  <2>1. sup[r].fix = "none" /\ sup[r].verdict = "none"
    BY <1>3 DEF BeginReview, NewSup
  <2>2. CASE Reviews(r) /\ Goto(r, "reviewing") /\ UNCHANGED told
    BY <1>3, <2>1, <2>2 DEF BeginReview, Reviewed, Reviews
  <2>3. CASE End(r, "error")
    BY <1>3, <2>3 DEF BeginReview, Reviewed
  <2>4. CASE ~Reviews(r) /\ Goto(r, "record") /\ UNCHANGED told
    <3>1. FinalPassed(r)' => it[r].passed
      BY <1>3, <2>1 DEF BeginReview, FinalPassed
    <3> QED
      BY <1>3, <2>4, <3>1 DEF BeginReview, Reviewed
  <2> QED
    BY <1>3, <2>2, <2>3, <2>4 DEF BeginReview
<1>4. CASE ReviewEnds(r)
  <2>1. Reviews(r) /\ sup[r].fix = "none"
    BY <1>4 DEF ReviewEnds, Reviewed
  <2>2. PICK v \in {"APPROVE", "UNPARSEABLE", "REWORK"} :
          /\ sup' = [sup EXCEPT ![r] = [sup[r] EXCEPT !.verdict = v]]
          /\ pc' = [pc EXCEPT ![r] = IF v = "REWORK" /\ it[r].session THEN "fix" ELSE "record"]
    BY <1>4 DEF ReviewEnds
  <2>3. sup'[r].verdict = v /\ sup'[r].fix = "none"
    BY <2>1, <2>2 DEF Sup
  <2>4. FinalPassed(r)' => it[r].passed
    BY <1>4, <2>1, <2>3 DEF ReviewEnds, FinalPassed, Reviews
  <2>5. pc'[r] = "fix" => v = "REWORK"
    BY <2>2
  <2>6. pc[r] = "reviewing" /\ pc'[r] \in {"fix", "record"}
    BY <1>4, <2>2 DEF ReviewEnds
  <2> QED
    BY <1>4, <2>1, <2>3, <2>4, <2>5, <2>6 DEF ReviewEnds, Reviewed, Reviews
<1>5. CASE BeginFix(r)
  <2>1. sup'[r].verdict = sup[r].verdict /\ sup'[r].fix = sup[r].fix
    BY <1>5 DEF BeginFix, Sup
  <2> QED
    BY <1>5, <2>1 DEF BeginFix, Reviewed, Reviews
<1>6. CASE FixEnds(r)
  BY <1>6 DEF FixEnds, supVars, Reviewed, Reviews
<1>7. CASE FixVerify(r)
  <2>1. PICK p \in Passes(r) \cup {FALSE} :
          sup' = [sup EXCEPT ![r] = [sup[r] EXCEPT !.fix = Outcome(sup[r].ran /\ p)]]
    BY <1>7 DEF FixVerify
  <2>2. sup'[r].verdict = "REWORK" /\ sup'[r].fix = Outcome(sup[r].ran /\ p)
    <3>1. sup[r].verdict = "REWORK"
      BY <1>7 DEF FixVerify, Reviewed
    <3>2. sup'[r] = [sup[r] EXCEPT !.fix = Outcome(sup[r].ran /\ p)]
      BY <2>1
    <3> QED
      BY <3>1, <3>2 DEF Sup
  <2>3. sup'[r].fix = "passed" => TRUE \in Passes(r)
    <3>1. p \in BOOLEAN
      BY <2>1 DEF Passes
    <3>2. CASE p = FALSE
      BY <2>2, <3>2 DEF Outcome
    <3>3. CASE p = TRUE
      BY <2>1, <3>3
    <3> QED
      BY <3>1, <3>2, <3>3
  <2>4. args[r].template = "sequential-reviewer"
    BY <1>7 DEF FixVerify, Reviewed, Reviews
  <2>5. args[r].blind /\ FinalPassed(r)' => tree[r] = "right"
    <3>1. FinalPassed(r)' => sup'[r].fix = "passed"
      BY <1>7, <2>2, <2>4 DEF FixVerify, FinalPassed
    <3>2. args[r].blind => suite.dir = "real"
      BY <1>7 DEF FixVerify
    <3> QED
      BY <2>3, <3>1, <3>2, OnlyRightPasses
  <2> QED
    BY <1>7, <2>5 DEF FixVerify, Reviewed
<1>8. CASE WriteDraft(r)
  BY <1>8 DEF WriteDraft, Reviewed, FinalPassed
<1>9. CASE WriteReport(r)
  BY <1>9 DEF WriteReport, Reviewed, FinalPassed
<1>10. CASE Hook(r)
  <2>1. told'[r] = "passed" => FinalPassed(r)
    BY <1>10 DEF Hook
  <2> QED
    BY <1>10, <2>1 DEF Hook, Reviewed
<1> QED
  BY <1>1, <1>2, <1>3, <1>4, <1>5, <1>6, <1>7, <1>8, <1>9, <1>10

LEMMA StepVerifiedInv ==
    ASSUME OneRun
    PROVE  TypeOK /\ SuiteInv /\ VerifiedInv /\ [Next]_vars => VerifiedInv'
<1> SUFFICES ASSUME TypeOK, SuiteInv, VerifiedInv, [Next]_vars, NEW r \in Runs
             PROVE  VerifiedOf(r)'
  BY DEF VerifiedInv
<1>0. VerifiedOf(r)
  BY DEF VerifiedInv
<1> USE DEF TypeOK, CoreTypeOK, Goto, Set, Tell, SetSup, supVars, VerifiedOf, Working,
            Reviewing, Recording, ToldAtEnd, SuiteIn, NotYet, Reviewed, Reviews, PassIsRight,
            Trusted, FinalPassed
<1>1. CASE Begin(r)
  <2>1. /\ pc'[r] = "attempt" /\ it'[r] = NewIteration /\ sup'[r] = NewSup /\ told'[r] = "none"
    BY <1>1 DEF Begin, Start
  <2> QED
    BY <2>1 DEF NewIteration, NewSup
<1>2. CASE Refuse(r)
  BY <1>2 DEF Refuse
<1>3. CASE Step(r)
  BY <1>0, <1>3, CoreStepVerified, CallerStepVerified DEF Step
<1>4. CASE Environment(r)
  <2>1. CASE WorkerWrites(r) /\ UNCHANGED supVars
    BY <1>0, <2>1 DEF WorkerWrites
  <2>2. CASE StrayWrites(r) /\ UNCHANGED supVars
    BY <1>0, <2>2 DEF StrayWrites
  <2>3. CASE ReviewerWrites(r)
    BY <1>0, <2>3 DEF ReviewerWrites
  <2>4. CASE FixerWrites(r)
    BY <1>0, <2>4 DEF FixerWrites
  <2> QED
    BY <1>4, <2>1, <2>2, <2>3, <2>4 DEF Environment
<1>5. CASE CrashRun(r)
  BY <1>5 DEF CrashRun, Crash
<1>6. CASE Resolve /\ UNCHANGED supVars
  BY <1>0, <1>6 DEF Resolve
<1>7. CASE UNCHANGED vars
  BY <1>0, <1>7 DEF vars, coreVars
<1> QED
  BY <1>1, <1>2, <1>3, <1>4, <1>5, <1>6, <1>7 DEF Next, Finished, OneRun

\* A blind, sandboxed run that has the hidden suite for itself is told passed
\* only when its tree satisfies the suite, through every attempt, review, fix,
\* failure, kill and restart, and for any number of each.
THEOREM BlindPassesAreVerified == ASSUME OneRun PROVE Spec => []BlindPassIsVerified
<1>1. Init => TypeOK /\ SuiteInv /\ VerifiedInv
  BY InitTypeOK, InitSuiteInv, InitVerifiedInv
<1>2. TypeOK /\ SuiteInv /\ VerifiedInv /\ [Next]_vars => (TypeOK /\ SuiteInv /\ VerifiedInv)'
  BY StepTypeOK, StepSuiteInv, StepVerifiedInv
<1>3. VerifiedInv => BlindPassIsVerified
  BY DEF VerifiedInv, VerifiedOf, PassIsRight, Trusted, BlindPassIsVerified
<1> QED
  BY <1>1, <1>2, <1>3, PTL DEF Spec
=============================================================================
