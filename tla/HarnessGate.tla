----------------------------- MODULE HarnessGate -----------------------------
(***************************************************************************)
(* The counterfactual gate of harness.rs: verify_candidate runs the gate,  *)
(* swaps a candidate in for the target file, runs the gate again, restores *)
(* the target and gives a verdict; snapshot records the gate's verdict on  *)
(* the current revision.  Both hold the harness lock while they measure.   *)
(*                                                                         *)
(* A file is one of a few versions, or Absent.  What the gate reports on a *)
(* version is its red labels; a run of the gate may also be cut short, or  *)
(* (a drift of verify.sh) exit with success though it printed failures.    *)
(***************************************************************************)
EXTENDS Naturals, FiniteSets

CONSTANTS
    Verifiers,     \* processes that call harness verify
    Snapshotters,  \* processes that call harness snapshot
    Versions,
    Absent,        \* no file at the target
    FirstVersion,  \* what is at the target before anything runs
    Labels,
    RedOf,         \* the labels that fail with each version, or none, in place
    ClaimSets,     \* sets of failures a candidate may claim to fix
    Unmarked,      \* the failure made up for a gate that fails without a marker
    Free, Abandoned,
    MaxRuns,       \* commands started
    MaxFaults,     \* failing writes
    MaxCrashes

Procs == Verifiers \cup Snapshotters
Contents == Versions \cup {Absent}
Failures == SUBSET (Labels \cup {Unmarked})
Report == [failures : Failures, ok : BOOLEAN]

ASSUME HarnessGateAssumption ==
    /\ Verifiers \cap Snapshotters = {}
    /\ Absent \notin Versions
    /\ FirstVersion \in Contents
    /\ RedOf \in [Contents -> SUBSET Labels]
    /\ ClaimSets \subseteq SUBSET Labels
    /\ Unmarked \notin Labels
    /\ Free \notin Procs /\ Abandoned \notin Procs /\ Free # Abandoned
    /\ {MaxRuns, MaxFaults, MaxCrashes} \subseteq Nat

VARIABLES
    target,    \* the content at the target path
    row,       \* the gate column of the revision's row in docs/harness/ledger.md
    lock,      \* the harness lock
    pc,
    job,       \* the local variables of a command and the verdict of the last one
    left       \* what remains of each bound

vars == <<target, row, lock, pc, job, left>>

Location == {"idle", "lock", "before", "candidate", "after", "restore",
             "measure", "record"}

NoReport == [failures |-> {}, ok |-> FALSE]

Job == [candidate : Contents, claims : SUBSET Labels, original : Contents,
        before : Report, after : Report,
        verdict : {"none", "error", "accept", "neutral", "reject"}]

NoJob == [candidate |-> Absent, claims |-> {}, original |-> Absent,
          before |-> NoReport, after |-> NoReport, verdict |-> "none"]

Init ==
    /\ target = FirstVersion
    /\ row = NoReport
    /\ lock = Free
    /\ pc = [p \in Procs |-> "idle"]
    /\ job = [p \in Procs |-> NoJob]
    /\ left = [runs |-> MaxRuns, faults |-> MaxFaults, crashes |-> MaxCrashes]

Goto(p, l) == pc' = [pc EXCEPT ![p] = l]
Set(p, j) == job' = [job EXCEPT ![p] = j]
Spend(k) == left[k] > 0 /\ left' = [left EXCEPT ![k] = @ - 1]

\* Return with a verdict, and drop the lock if it is held.
Return(p, v) ==
    /\ Goto(p, "idle")
    /\ Set(p, [job[p] EXCEPT !.verdict = v])
    /\ lock' = IF lock = p THEN Free ELSE lock

-----------------------------------------------------------------------------
(* gate_run *)

Reports(c) ==
    LET cut == {IF f = {} THEN {Unmarked} ELSE f : f \in SUBSET RedOf[c]} IN
    {[failures |-> RedOf[c], ok |-> TRUE]}
        \cup [failures : cut, ok : {FALSE}]

-----------------------------------------------------------------------------
(* harness verify *)

\* The target is read before the lock is taken.
ReadOriginal(p) ==
    /\ p \in Verifiers /\ pc[p] = "idle"
    /\ Spend("runs")
    /\ \E c \in Versions, k \in ClaimSets :
          Set(p, [NoJob EXCEPT !.candidate = c, !.claims = k, !.original = target])
    /\ Goto(p, "lock")
    /\ UNCHANGED <<target, row, lock>>

\* (mutant of TakeLock) The claims lock's threshold of 30 s: a gate that still
\* runs is taken for dead.
TakeLockStealing(p) ==
    /\ pc[p] = "lock"
    /\ lock' = p
    /\ Goto(p, IF p \in Verifiers THEN "before" ELSE "measure")
    /\ UNCHANGED <<target, row, job, left>>

\* lock_file, which steals the lock of a dead process and gives up on a busy one.
TakeLock(p) ==
    /\ pc[p] = "lock"
    /\ \/ /\ lock \in {Free, Abandoned}
          /\ lock' = p
          /\ Goto(p, IF p \in Verifiers THEN "before" ELSE "measure")
          /\ UNCHANGED job
       \/ lock # Free /\ Return(p, "error")
    /\ UNCHANGED <<target, row, left>>

\* The gate on the unchanged target, and the check of the claims against it.
\* A phantom claim is rejected, and the original is written back.
Before(p) ==
    /\ pc[p] = "before"
    /\ \E r \in Reports(target) :
          \/ /\ job[p].claims \subseteq r.failures
             /\ Set(p, [job[p] EXCEPT !.before = r])
             /\ Goto(p, "candidate")
             /\ UNCHANGED <<target, lock, left>>
          \/ /\ ~(job[p].claims \subseteq r.failures)
             /\ \/ target' = job[p].original /\ UNCHANGED left
                \/ Spend("faults") /\ UNCHANGED target
             /\ Return(p, "reject")
    /\ UNCHANGED row

\* Read the candidate and swap it in; a failed swap writes the original back.
SwapIn(p) ==
    /\ pc[p] = "candidate"
    /\ \/ /\ target' = job[p].candidate
          /\ Goto(p, "after")
          /\ UNCHANGED <<job, lock, left>>
       \/ /\ Spend("faults")
          /\ target' \in {target, job[p].original}
          /\ Return(p, "error")
    /\ UNCHANGED row

After(p) ==
    /\ pc[p] = "after"
    /\ \E r \in Reports(target) : Set(p, [job[p] EXCEPT !.after = r])
    /\ Goto(p, "restore")
    /\ UNCHANGED <<target, row, lock, left>>

\* (mutant of Verdict) Fewer failures than before are enough.
VerdictOfReduction(before, after) ==
    IF Cardinality(after.failures) < Cardinality(before.failures) THEN "accept"
    ELSE IF Cardinality(after.failures) = Cardinality(before.failures) THEN "neutral"
    ELSE "reject"

\* Only a gate that ended well and printed no failure is accepted.
Verdict(before, after) ==
    IF ~after.ok THEN "reject"
    ELSE IF after.failures = {} THEN "accept"
    ELSE IF Cardinality(after.failures) = Cardinality(before.failures) THEN "neutral"
    ELSE "reject"

\* (mutant of Restore) The candidate stays when it is accepted.
RestoreUnlessAccepted(p) ==
    LET v == Verdict(job[p].before, job[p].after) IN
    /\ pc[p] = "restore"
    /\ target' = IF v = "accept" THEN target ELSE job[p].original
    /\ Return(p, v)
    /\ UNCHANGED <<row, left>>

Restore(p) ==
    /\ pc[p] = "restore"
    /\ \/ /\ target' = job[p].original
          /\ Return(p, Verdict(job[p].before, job[p].after))
          /\ UNCHANGED left
       \/ /\ Spend("faults")
          /\ Return(p, "error")
          /\ UNCHANGED target
    /\ UNCHANGED row

-----------------------------------------------------------------------------
(* harness snapshot *)

StartSnapshot(p) ==
    /\ p \in Snapshotters /\ pc[p] = "idle"
    /\ Spend("runs")
    /\ Set(p, NoJob)
    /\ Goto(p, "lock")
    /\ UNCHANGED <<target, row, lock>>

Measure(p) ==
    /\ pc[p] = "measure"
    /\ \E r \in Reports(target) : Set(p, [job[p] EXCEPT !.after = r])
    /\ Goto(p, "record")
    /\ UNCHANGED <<target, row, lock, left>>

\* The row of the revision is added or refreshed.
Record(p) ==
    /\ pc[p] = "record"
    /\ \/ row' = job[p].after /\ Return(p, "none") /\ UNCHANGED left
       \/ Spend("faults") /\ Return(p, "error") /\ UNCHANGED row
    /\ UNCHANGED target

-----------------------------------------------------------------------------

\* The process is killed; its swap and its lock file stay.
Crash(p) ==
    /\ pc[p] # "idle"
    /\ Spend("crashes")
    /\ Goto(p, "idle")
    /\ Set(p, NoJob)
    /\ lock' = IF lock = p THEN Abandoned ELSE lock
    /\ UNCHANGED <<target, row>>

Step(p) ==
    \/ TakeLock(p) \/ Before(p) \/ SwapIn(p) \/ After(p) \/ Restore(p)
    \/ Measure(p) \/ Record(p)

Finished ==
    /\ left.runs = 0
    /\ \A p \in Procs : pc[p] = "idle"
    /\ UNCHANGED vars

Next ==
    \/ \E p \in Procs : ReadOriginal(p) \/ StartSnapshot(p) \/ Step(p) \/ Crash(p)
    \/ Finished

Spec == Init /\ [][Next]_vars

-----------------------------------------------------------------------------
(* Properties *)

TypeOK ==
    /\ target \in Contents
    /\ row \in Report
    /\ lock \in Procs \cup {Free, Abandoned}
    /\ pc \in [Procs -> Location]
    /\ job \in [Procs -> Job]
    /\ left \in [runs : Nat, faults : Nat, crashes : Nat]

\* An ACCEPT is earned: the candidate is green, and every failure it claims to
\* fix is one a gate saw (harness.rs:135: "ACCEPT is reachable ONLY on a fully
\* green after-gate"), although other runs swap the same file meanwhile.
AcceptIsEarned ==
    \A p \in Verifiers : job[p].verdict = "accept" =>
        /\ RedOf[job[p].candidate] = {}
        /\ job[p].claims \subseteq job[p].before.failures

\* No write failed, no process was killed, and no verifier read its original
\* while a candidate of another was in place: ReadOriginal does not hold the lock.
Undisturbed ==
    /\ left.faults = MaxFaults /\ left.crashes = MaxCrashes
    /\ \A p \in Verifiers : job[p] # NoJob => job[p].original = FirstVersion

\* When no command runs, the target is what it was (harness.rs:130: "then
\* restores the original"), whatever the verdicts and however runs interleave.
TargetRestored ==
    Undisturbed /\ (\A p \in Procs : pc[p] = "idle") => target = FirstVersion

\* A gate before the swap, and a snapshot's, measures the real target, never a
\* candidate of another run (harness.rs:188: concurrent runs "must not measure
\* each other's candidate as a baseline"; harness.rs:48).
BaselineIsReal ==
    Undisturbed => \A p \in Procs : pc[p] \in {"before", "measure"} => target = FirstVersion

-----------------------------------------------------------------------------
(* What the comments promise without those conditions *)

\* The target is restored although another run may have read it meanwhile.
AlwaysRestored ==
    left.faults = MaxFaults /\ left.crashes = MaxCrashes /\ (\A p \in Procs : pc[p] = "idle")
        => target = FirstVersion
=============================================================================
