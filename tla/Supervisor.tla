------------------------------ MODULE Supervisor ------------------------------
(***************************************************************************)
(* The two callers of the verified iteration: cmd_codex of the mini-agi    *)
(* crate's worker.rs, which writes run.json and exits, and the supervisor, *)
(* which may have the work reviewed and fixed, then writes run.json and    *)
(* the run report and tells the on-done hook.                              *)
(***************************************************************************)
EXTENDS VerifiedIteration

VARIABLES
    sup,     \* the locals of Supervisor.run after the iteration
    draft,   \* the outcome in run.json, or that it is an earlier run's
    report,  \* the outcome in REPORT.md
    told     \* the exit code, or what the hook and the caller are told

supVars == <<sup, draft, report, told>>
vars == <<coreVars, supVars>>

Location == CoreLocation \cup
            {"reviewing", "fix", "fixing", "fixverify", "record", "report", "hook"}

Written == {"none", "earlier", "passed", "failed"}

Sup == [verdict : {"none", "APPROVE", "UNPARSEABLE", "REWORK"},
        ran : BOOLEAN, fix : {"none", "passed", "failed"}]

NewSup == [verdict |-> "none", ran |-> FALSE, fix |-> "none"]

Init ==
    /\ CoreInit
    /\ sup = [r \in Runs |-> NewSup]
    /\ draft = [r \in Runs |-> "none"]
    /\ report = [r \in Runs |-> "none"]
    /\ told = [r \in Runs |-> "none"]

Outcome(passed) == IF passed THEN "passed" ELSE "failed"
Stale(w) == IF w = "none" THEN "none" ELSE "earlier"

Tell(r, o) == told' = [told EXCEPT ![r] = o]
End(r, o) == Goto(r, "idle") /\ Tell(r, o)
SetSup(r, s) == sup' = [sup EXCEPT ![r] = s]

\* A command that is refused (no verifier, no target, no approval, a corrupt
\* configuration, no progress.md) does nothing.
Begin(r) ==
    /\ Start(r)
    /\ SetSup(r, NewSup)
    /\ draft' = [draft EXCEPT ![r] = Stale(@)]
    /\ report' = [report EXCEPT ![r] = Stale(@)]
    /\ Tell(r, "none")

Refuse(r) ==
    /\ pc[r] = "idle"
    /\ Spend("runs")
    /\ draft' = [draft EXCEPT ![r] = Stale(@)]
    /\ report' = [report EXCEPT ![r] = Stale(@)]
    /\ Tell(r, "error")
    /\ UNCHANGED <<pc, args, it, suite, tree, strays, sup>>

\* The iteration returns Err: no draft, no report, no hook.
IterationFailed(r) ==
    /\ pc[r] = "returned" /\ it[r].result = "error"
    /\ End(r, "error")
    /\ UNCHANGED <<args, it, suite, tree, strays, left, sup, draft, report>>

-----------------------------------------------------------------------------
(* cmd_codex *)

\* (mutant of CodexExit) The verdict of the loop is not looked at.
CodexExitAsWritten(r, written) ==
    IF it[r].aborted THEN "aborted" ELSE IF written THEN "passed" ELSE "error"

\* 3 for an abort, 1 for a loop that never passed, else as the draft's write.
CodexExit(r, written) ==
    IF it[r].aborted THEN "aborted"
    ELSE IF args[r].iterate > 1 /\ ~it[r].passed THEN "exhausted"
    ELSE IF ~written THEN "error"
    ELSE IF args[r].iterate > 1 THEN "passed" ELSE "done"

CodexReturns(r) ==
    /\ pc[r] = "returned" /\ it[r].result = "ok" /\ args[r].client = "codex"
    /\ \/ /\ draft' = [draft EXCEPT ![r] = Outcome(it[r].passed)]
          /\ End(r, CodexExit(r, TRUE))
          /\ UNCHANGED left
       \/ Spend("faults") /\ End(r, CodexExit(r, FALSE)) /\ UNCHANGED draft
    /\ UNCHANGED <<args, it, suite, tree, strays, sup, report>>

-----------------------------------------------------------------------------
(* The supervisor: review and fix *)

Reviews(r) == args[r].template = "sequential-reviewer" /\ it[r].passed

\* A review that cannot be started loses the run: no draft, report or hook.
BeginReview(r) ==
    /\ pc[r] = "returned" /\ it[r].result = "ok" /\ args[r].client = "supervisor"
    /\ \/ Reviews(r) /\ Goto(r, "reviewing") /\ UNCHANGED <<told, left>>
       \/ Reviews(r) /\ Spend("faults") /\ End(r, "error")
       \/ ~Reviews(r) /\ Goto(r, "record") /\ UNCHANGED <<told, left>>
    /\ UNCHANGED <<args, it, suite, tree, strays, sup, draft, report>>

\* Only the sandbox keeps the reviewer from writing.
ReviewerWrites(r) ==
    /\ pc[r] = "reviewing" /\ ~args[r].sandboxed
    /\ \E t \in {"right", "wrong"} : tree' = [tree EXCEPT ![r] = t]
    /\ UNCHANGED <<pc, args, it, suite, strays, left, supVars>>

ReviewEnds(r) ==
    /\ pc[r] = "reviewing"
    /\ \E v \in {"APPROVE", "UNPARSEABLE", "REWORK"} :
          /\ SetSup(r, [sup[r] EXCEPT !.verdict = v])
          /\ Goto(r, IF v = "REWORK" /\ it[r].session THEN "fix" ELSE "record")
    /\ UNCHANGED <<args, it, suite, tree, strays, left, draft, report, told>>

\* The fix resumes the worker's session, with the suite in its place.
BeginFix(r) ==
    /\ pc[r] = "fix"
    /\ \/ /\ Goto(r, "fixing")
          /\ SetSup(r, [sup[r] EXCEPT !.ran = TRUE])
          /\ UNCHANGED <<told, left>>
       \/ Spend("faults") /\ Goto(r, "fixverify") /\ UNCHANGED <<sup, told>>
       \/ Spend("faults") /\ End(r, "error") /\ UNCHANGED sup
    /\ UNCHANGED <<args, it, suite, tree, strays, draft, report>>

FixerWrites(r) ==
    /\ pc[r] = "fixing"
    /\ \E t \in {"right", "wrong"} : tree' = [tree EXCEPT ![r] = t]
    /\ UNCHANGED <<pc, args, it, suite, strays, left, supVars>>

\* A fix that a cap killed counts as a fix that ran.
FixEnds(r) ==
    /\ pc[r] = "fixing"
    /\ Goto(r, "fixverify")
    /\ UNCHANGED <<args, it, suite, tree, strays, left, supVars>>

FixVerify(r) ==
    /\ pc[r] = "fixverify"
    /\ \E p \in Passes(r) \cup {FALSE} :
          SetSup(r, [sup[r] EXCEPT !.fix = Outcome(sup[r].ran /\ p)])
    /\ Goto(r, "record")
    /\ UNCHANGED <<args, it, suite, tree, strays, left, draft, report, told>>

-----------------------------------------------------------------------------
(* The supervisor: the record of the run *)

\* resolve_final_outcome: a fix that ran or was required has the last word, and
\* a template that made no review counts as one that asks for a fix.
FinalPassed(r) ==
    IF args[r].template = "none" \/ sup[r].verdict \in {"APPROVE", "UNPARSEABLE"}
    THEN it[r].passed
    ELSE it[r].session /\ sup[r].fix = "passed"

WriteDraft(r) ==
    /\ pc[r] = "record"
    /\ \/ /\ draft' = [draft EXCEPT ![r] = Outcome(FinalPassed(r))]
          /\ Goto(r, "report")
          /\ UNCHANGED <<told, left>>
       \/ Spend("faults") /\ End(r, "error") /\ UNCHANGED draft
    /\ UNCHANGED <<args, it, suite, tree, strays, sup, report>>

WriteReport(r) ==
    /\ pc[r] = "report"
    /\ \/ /\ report' = [report EXCEPT ![r] = Outcome(FinalPassed(r))]
          /\ Goto(r, "hook")
          /\ UNCHANGED <<told, left>>
       \/ Spend("faults") /\ End(r, "error") /\ UNCHANGED report
    /\ UNCHANGED <<args, it, suite, tree, strays, sup, draft>>

\* The hook is told the outcome, capped, and its own failure is ignored.
Hook(r) ==
    /\ pc[r] = "hook"
    /\ End(r, IF it[r].aborted THEN "aborted"
              ELSE IF FinalPassed(r) THEN "passed" ELSE "exhausted")
    /\ UNCHANGED <<args, it, suite, tree, strays, left, sup, draft, report>>

-----------------------------------------------------------------------------

CrashRun(r) ==
    /\ Crash(r)
    /\ Tell(r, "error")
    /\ UNCHANGED <<sup, draft, report>>

Step(r) ==
    \/ CoreStep(r) /\ UNCHANGED supVars
    \/ IterationFailed(r) \/ CodexReturns(r)
    \/ BeginReview(r) \/ ReviewEnds(r) \/ BeginFix(r) \/ FixEnds(r) \/ FixVerify(r)
    \/ WriteDraft(r) \/ WriteReport(r) \/ Hook(r)

Environment(r) ==
    \/ (WorkerWrites(r) \/ StrayWrites(r)) /\ UNCHANGED supVars
    \/ ReviewerWrites(r) \/ FixerWrites(r)

Finished ==
    /\ left.runs = 0
    /\ \A r \in Runs : pc[r] = "idle"
    /\ UNCHANGED vars

Next ==
    \/ \E r \in Runs :
          Begin(r) \/ Refuse(r) \/ Step(r) \/ Environment(r) \/ CrashRun(r)
    \/ Resolve /\ UNCHANGED supVars
    \/ Finished

\* The kernel goes on, and a worker ends if a cap ends it; the review, the fix,
\* the verifier and the hook are always capped.
Fairness ==
    \A r \in Runs : WF_vars((pc[r] = "working" => args[r].capped) /\ Step(r))

Spec == Init /\ [][Next]_vars
LiveSpec == Spec /\ Fairness

-----------------------------------------------------------------------------
(* Properties *)

TypeOK ==
    /\ pc \in [Runs -> Location]
    /\ CoreTypeOK
    /\ sup \in [Runs -> Sup]
    /\ draft \in [Runs -> Written]
    /\ report \in [Runs -> Written]
    /\ told \in [Runs -> {"none", "error", "done", "passed", "exhausted", "aborted"}]

\* What a blind, sandboxed run reports as passed satisfies the real suite, through
\* every attempt, fix, crash and restart (worker.rs:457: "a gate over the missing
\* suite could pass vacuously"), unless a stray process goes on writing the tree.
BlindPassIsVerified ==
    \A r \in Runs :
        told[r] = "passed" /\ args[r].blind /\ args[r].sandboxed /\ r \notin strays
            => tree[r] = "right"

\* While a worker of a blind run makes an attempt, the suite is out of its sight
\* (worker.rs:91-94), whatever other runs on the same suite do.
AttemptIsBlind ==
    \A r \in Runs : pc[r] = "working" /\ args[r].blind => suite.dir # "real"

\* The suite is never lost: it is at its place or aside, and not at both.
SuiteIsSomewhere == suite.dir = "real" <=> suite.aside # "real"

\* A suite stays aside only while a blind run is at work, after a crash, after
\* a rename that failed, or when something was put in its place.
SuitePutBack ==
    suite.aside = "real" =>
        \/ \E r \in Runs : it[r].hidden /\ pc[r] # "idle"
        \/ left.crashes < MaxCrashes
        \/ left.faults < MaxFaults
        \/ suite.dir = "other"

SuiteKept == SuiteIsSomewhere /\ SuitePutBack

\* A run that is told to have passed was not aborted, and its own run.json, and
\* the report of a supervised run, say so too.
PassIsRecorded ==
    \A r \in Runs : told[r] = "passed" =>
        /\ ~it[r].aborted
        /\ draft[r] = "passed"
        /\ args[r].client = "supervisor" => report[r] = "passed"

\* A run whose attempts are capped ends, by a result or an error.
RunEnds ==
    \A r \in Runs : (pc[r] # "idle" /\ args[r].capped) ~> pc[r] = "idle"

-----------------------------------------------------------------------------
(* Claims of the documentation that the code does not keep *)

\* "The kernel's loop is the ONLY feedback path" (worker.rs:93-94): a worker of
\* a blind run never sees the suite.  The fix pass resumes it with the suite in
\* its place.
WorkerIsBlind ==
    \A r \in Runs :
        pc[r] \in {"working", "fixing"} /\ args[r].blind => suite.dir # "real"

\* "A worker killed by a cap is NOT an abort when its transcript already
\* contains the completion marker" (worker.rs:169-170): once the verifier has
\* passed its work, it is not reported as aborted.
GraceIsSuccess ==
    \A r \in Runs : told[r] = "aborted" => ~(it[r].grace /\ it[r].passed)
=============================================================================
