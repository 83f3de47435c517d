-------------------------- MODULE VerifiedIteration --------------------------
(***************************************************************************)
(* The verified iteration of the mini-agi crate's worker.rs: a worker is   *)
(* run on a tree, the verifier judges what it left, and a failure is fed   *)
(* back to the next attempt.  In a blind run the verifier's hidden suite   *)
(* is renamed aside while the worker works and renamed back before the     *)
(* verifier runs.                                                          *)
(*                                                                         *)
(* Several runs may share one hidden suite, each on a tree of its own.  A  *)
(* tree is right or wrong by the real suite; a verifier that runs without  *)
(* the real suite may say anything.                                        *)
(***************************************************************************)
EXTENDS Naturals, FiniteSets

CONSTANTS
    Runs,          \* the slots a run can occupy, one tree each
    ArgSets,       \* the arguments a run may be started with
    MaxIterate,
    MaxRuns,       \* runs started
    MaxFaults,     \* failing reads, writes, spawns and configurations
    MaxCrashes,
    MaxStrays      \* processes that outlive their worker and go on writing

Args == [client : {"codex", "supervisor"}, iterate : 1..MaxIterate,
         blind : BOOLEAN, capped : BOOLEAN, sandboxed : BOOLEAN,
         template : {"none", "sequential-reviewer", "other"}]

ASSUME VerifiedIterationAssumption ==
    /\ ArgSets \subseteq Args
    /\ {MaxIterate, MaxRuns, MaxFaults, MaxCrashes, MaxStrays} \subseteq Nat

VARIABLES
    pc,      \* where each run is
    args,    \* its IterationInput and, for a supervised run, the template
    it,      \* the locals of run_verified_iteration and its result
    suite,   \* what is at the place of the hidden suite, and what is aside
    tree,    \* does the tree satisfy the real suite
    strays,  \* the runs whose tree a stray process may write
    left     \* what remains of each bound

coreVars == <<pc, args, it, suite, tree, strays, left>>

CoreLocation == {"idle", "attempt", "config", "launch", "working", "restore",
                 "assess", "verify", "returned"}

Iteration == [attempt : Nat, hidden : BOOLEAN, killed : BOOLEAN,
              completed : BOOLEAN, aborted : BOOLEAN, grace : BOOLEAN,
              passed : BOOLEAN, session : BOOLEAN,
              result : {"none", "ok", "error"}]

NewIteration == [attempt |-> 0, hidden |-> FALSE, killed |-> FALSE,
                 completed |-> FALSE, aborted |-> FALSE, grace |-> FALSE,
                 passed |-> FALSE, session |-> FALSE, result |-> "none"]

CoreInit ==
    /\ pc = [r \in Runs |-> "idle"]
    /\ args \in [Runs -> ArgSets]
    /\ it = [r \in Runs |-> NewIteration]
    /\ suite = [dir |-> "real", aside |-> "none"]
    /\ tree = [r \in Runs |-> "wrong"]
    /\ strays = {}
    /\ left = [runs |-> MaxRuns, faults |-> MaxFaults,
               crashes |-> MaxCrashes, strays |-> MaxStrays]

Goto(r, l) == pc' = [pc EXCEPT ![r] = l]
Set(r, i) == it' = [it EXCEPT ![r] = i]
Spend(k) == left[k] > 0 /\ left' = [left EXCEPT ![k] = @ - 1]

\* run_verified_iteration returns Err, or its result.
Fail(r) == Goto(r, "returned") /\ Set(r, [it[r] EXCEPT !.result = "error"])
Finish(r, i) == Goto(r, "returned") /\ Set(r, [i EXCEPT !.result = "ok"])

\* The caller hands over its arguments.
Start(r) ==
    /\ pc[r] = "idle"
    /\ Spend("runs")
    /\ \E a \in ArgSets : args' = [args EXCEPT ![r] = a]
    /\ Set(r, NewIteration)
    /\ Goto(r, "attempt")
    /\ UNCHANGED <<suite, tree, strays>>

-----------------------------------------------------------------------------
(* The hidden suite *)


\* (mutant of CanHide) A leftover of a crashed run does not matter.
CanHideOverStale == suite.dir # "none"

\* hide_verifier: a directory already aside is a crashed run's, and an error.
CanHide == suite.dir # "none" /\ suite.aside = "none"

\* restore_verifier: a rename onto what the worker put in the place fails.
CanRestore == suite.dir = "none"
PutBack == suite' = [dir |-> suite.aside, aside |-> "none"]

\* The restore of an error path, whose own failure is ignored.
TryPutBack(r) ==
    IF it[r].hidden /\ suite.aside # "none" /\ CanRestore THEN PutBack ELSE UNCHANGED suite

\* (mutant of BeginAttempt) The suite is hidden for the first attempt only.
BeginAttemptHidingOnce(r) ==
    LET hides == args[r].blind /\ it[r].attempt = 0 IN
    /\ pc[r] = "attempt"
    /\ \/ /\ hides => CanHide
          /\ Goto(r, "config")
          /\ Set(r, [it[r] EXCEPT !.attempt = @ + 1, !.hidden = hides])
          /\ suite' = IF hides THEN [dir |-> "none", aside |-> suite.dir] ELSE suite
       \/ hides /\ ~CanHide /\ Fail(r) /\ UNCHANGED suite
    /\ UNCHANGED <<args, tree, strays, left>>

\* Blind mode refuses a missing suite and a stale one.
BeginAttempt(r) ==
    LET i == [it[r] EXCEPT !.attempt = @ + 1, !.hidden = args[r].blind] IN
    /\ pc[r] = "attempt"
    /\ \/ /\ args[r].blind => CanHide
          /\ Goto(r, "config")
          /\ Set(r, i)
          /\ suite' = IF args[r].blind THEN [dir |-> "none", aside |-> suite.dir] ELSE suite
          /\ UNCHANGED left
       \/ /\ args[r].blind
          /\ IF CanHide THEN Spend("faults") ELSE UNCHANGED left
          /\ Fail(r)
          /\ UNCHANGED suite
    /\ UNCHANGED <<args, tree, strays>>

-----------------------------------------------------------------------------
(* The worker *)

\* The idle cap is read from a configuration that may be corrupt by now.
ReadIdleCap(r) ==
    /\ pc[r] = "config"
    /\ \/ Goto(r, "launch") /\ UNCHANGED <<it, suite, left>>
       \/ Spend("faults") /\ Fail(r) /\ TryPutBack(r)
    /\ UNCHANGED <<args, tree, strays>>

\* run_worker_sandboxed returns Err only when nothing could be spawned: behind
\* the sandbox wrapper a missing worker is a worker that does nothing.
Launch(r) ==
    /\ pc[r] = "launch"
    /\ \/ Goto(r, "working") /\ UNCHANGED <<it, suite, left>>
       \/ Spend("faults") /\ Fail(r) /\ TryPutBack(r)
    /\ UNCHANGED <<args, tree, strays>>

\* A worker edits its tree, and may make a directory where the suite was.
WorkerWrites(r) ==
    /\ pc[r] = "working"
    /\ \/ \E t \in {"right", "wrong"} : tree' = [tree EXCEPT ![r] = t] /\ UNCHANGED suite
       \/ suite.dir = "none" /\ suite' = [suite EXCEPT !.dir = "other"] /\ UNCHANGED tree
    /\ UNCHANGED <<pc, args, it, strays, left>>

\* It exits, or a cap kills it with its process group.  A worker that exits may
\* leave a process behind.  A session is kept until a newer one is found.
WorkerEnds(r) ==
    /\ pc[r] = "working"
    /\ \E killed, completed, found \in BOOLEAN :
          /\ killed => args[r].capped
          /\ Set(r, [it[r] EXCEPT !.killed = killed, !.completed = completed,
                                  !.session = @ \/ found])
          /\ \/ UNCHANGED <<strays, left>>
             \/ ~killed /\ Spend("strays") /\ strays' = strays \cup {r}
    /\ Goto(r, "restore")
    /\ UNCHANGED <<args, suite, tree>>

\* (mutant of Restore) A suite that cannot be put back is not an error.
RestoreBestEffort(r) ==
    /\ pc[r] = "restore"
    /\ TryPutBack(r)
    /\ Goto(r, "assess")
    /\ UNCHANGED <<args, it, tree, strays, left>>

\* Fail-hard: the verifier must not run without the suite.
Restore(r) ==
    LET moves == it[r].hidden /\ suite.aside # "none" IN
    /\ pc[r] = "restore"
    /\ \/ /\ moves => CanRestore
          /\ IF moves THEN PutBack ELSE UNCHANGED suite
          /\ Goto(r, "assess")
          /\ UNCHANGED <<it, left>>
       \/ /\ moves
          /\ IF CanRestore THEN Spend("faults") ELSE UNCHANGED left
          /\ Fail(r)
          /\ UNCHANGED suite
    /\ UNCHANGED <<args, tree, strays>>

-----------------------------------------------------------------------------
(* The verdict on an attempt *)

\* attempt_grace
Grace(i) == i.killed /\ i.completed

\* (mutant of Assess) The last attempt is not counted.
AssessForever(r) ==
    /\ pc[r] = "assess"
    /\ Goto(r, IF args[r].iterate = 1 THEN "returned" ELSE "verify")
    /\ Set(r, [it[r] EXCEPT !.attempt = 0, !.result = IF args[r].iterate = 1 THEN "ok" ELSE @])
    /\ UNCHANGED <<args, suite, tree, strays, left>>

\* The caps on steps, cost, wall time and repeated actions make an attempt an
\* abort; so do the totals over all attempts, which grace does not excuse.  A
\* single shot is never verified here.
Assess(r) ==
    /\ pc[r] = "assess"
    /\ \/ Spend("faults") /\ Fail(r)
       \/ /\ \E violated, overTotal \in BOOLEAN :
                LET grace == Grace(it[r])
                    aborted == it[r].killed \/ violated
                    i == [it[r] EXCEPT !.grace = @ \/ grace,
                                             !.aborted = aborted \/ overTotal]
                IN IF (aborted /\ ~grace) \/ overTotal \/ args[r].iterate = 1
                     THEN Finish(r, i)
                     ELSE Goto(r, "verify") /\ Set(r, i)
          /\ UNCHANGED left
    /\ UNCHANGED <<args, suite, tree, strays>>

\* What the gate may say: a right tree may still run into its time limit, and
\* without the real suite the gate means nothing.
Passes(r) ==
    IF suite.dir = "real" /\ tree[r] = "wrong" THEN {FALSE} ELSE BOOLEAN

\* The gate runs on the target; a failure is the next attempt's feedback.
Verify(r) ==
    /\ pc[r] = "verify"
    /\ \/ /\ TRUE \in Passes(r)
          /\ Finish(r, [it[r] EXCEPT !.passed = TRUE])
          /\ UNCHANGED left
       \/ /\ it[r].attempt < args[r].iterate
          /\ Goto(r, "attempt")
          /\ UNCHANGED <<it, left>>
       \/ it[r].attempt >= args[r].iterate /\ Finish(r, it[r]) /\ UNCHANGED left
       \/ Spend("faults") /\ Fail(r)
    /\ UNCHANGED <<args, suite, tree, strays>>

-----------------------------------------------------------------------------
(* The environment *)

\* A process that outlived its worker goes on writing.
StrayWrites(r) ==
    /\ r \in strays
    /\ \E t \in {"right", "wrong"} : tree' = [tree EXCEPT ![r] = t]
    /\ UNCHANGED <<pc, args, it, suite, strays, left>>

\* The kernel dies, with its worker or without; nothing puts the suite back.
Crash(r) ==
    /\ pc[r] # "idle"
    /\ left.crashes > 0
    /\ \/ left' = [left EXCEPT !.crashes = @ - 1] /\ UNCHANGED strays
       \/ /\ pc[r] = "working" /\ left.strays > 0
          /\ left' = [left EXCEPT !.crashes = @ - 1, !.strays = @ - 1]
          /\ strays' = strays \cup {r}
    /\ Goto(r, "idle")
    /\ Set(r, NewIteration)
    /\ UNCHANGED <<args, suite, tree>>

\* The operator resolves a leftover by hand when nothing runs.
Resolve ==
    /\ suite.aside # "none"
    /\ \A r \in Runs : pc[r] = "idle"
    /\ PutBack
    /\ UNCHANGED <<pc, args, it, tree, strays, left>>

CoreStep(r) ==
    \/ BeginAttempt(r) \/ ReadIdleCap(r) \/ Launch(r) \/ WorkerEnds(r)
    \/ Restore(r) \/ Assess(r) \/ Verify(r)

\* The types of what the callers do not extend.
CoreTypeOK ==
    /\ args \in [Runs -> ArgSets]
    /\ it \in [Runs -> Iteration]
    /\ suite \in [dir : {"real", "none", "other"}, aside : {"real", "none", "other"}]
    /\ tree \in [Runs -> {"right", "wrong"}]
    /\ strays \subseteq Runs
    /\ left \in [runs : Nat, faults : Nat, crashes : Nat, strays : Nat]
=============================================================================
