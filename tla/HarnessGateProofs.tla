-------------------------- MODULE HarnessGateProofs --------------------------
(***************************************************************************)
(* Theorems about HarnessGate for any number of verifiers and snapshots,   *)
(* any versions and labels, and any number of failures and kills.          *)
(***************************************************************************)
EXTENDS HarnessGate, TLAPS

-----------------------------------------------------------------------------
(* Type correctness.  What a verifier swaps in was read by ReadOriginal.   *)

\* Only a verifier is where a candidate is measured, and it has one by then.
Candidates ==
    /\ \A p \in Procs : pc[p] \in {"before", "candidate", "after", "restore"} => p \in Verifiers
    /\ \A p \in Verifiers : pc[p] # "idle" => job[p].candidate \in Versions

TypeInv == TypeOK /\ Candidates

LEMMA ReportsTyped == \A c \in Contents : Reports(c) \subseteq Report
<1> SUFFICES ASSUME NEW c \in Contents, NEW r \in Reports(c) PROVE r \in Report
  OBVIOUS
<1>1. RedOf[c] \subseteq Labels
  BY HarnessGateAssumption
<1>2. \A f \in SUBSET RedOf[c] : (IF f = {} THEN {Unmarked} ELSE f) \in Failures
  BY <1>1 DEF Failures
<1>3. CASE r = [failures |-> RedOf[c], ok |-> TRUE]
  BY <1>1, <1>3 DEF Report, Failures
<1>4. CASE r \in [failures : {IF f = {} THEN {Unmarked} ELSE f : f \in SUBSET RedOf[c]},
                 ok : {FALSE}]
  BY <1>2, <1>4 DEF Report
<1> QED
  BY <1>3, <1>4 DEF Reports

\* Verdict always says accept, neutral or reject.
LEMMA VerdictTyped == \A b, a : Verdict(b, a) \in {"accept", "neutral", "reject"}
BY DEF Verdict

LEMMA NoJobTyped == NoJob \in Job
BY DEF NoJob, NoReport, Job, Report, Failures, Contents

\* A bound that is spent is a number again, and no bound grows.
LEMMA SpendTyped ==
    ASSUME TypeOK, NEW k \in {"runs", "faults", "crashes"}, Spend(k)
    PROVE  /\ left' \in [runs : Nat, faults : Nat, crashes : Nat]
           /\ left'[k] < left[k]
           /\ \A j \in {"runs", "faults", "crashes"} : left'[j] <= left[j]
BY DEF TypeOK, Spend

LEMMA VerifiersAreProcs == Verifiers \subseteq Procs
BY DEF Procs

LEMMA InitTypeInv == Init => TypeInv
<1> SUFFICES ASSUME Init PROVE TypeInv
  OBVIOUS
<1>1. target \in Contents /\ row \in Report
  BY HarnessGateAssumption DEF Init, NoReport, Report, Failures
<1>2. job \in [Procs -> Job]
  BY NoJobTyped DEF Init
<1>3. left \in [runs : Nat, faults : Nat, crashes : Nat]
  BY HarnessGateAssumption DEF Init
<1> QED
  BY <1>1, <1>2, <1>3, VerifiersAreProcs DEF Init, TypeInv, TypeOK, Candidates, Location

\* A command that returns keeps its job but for the verdict.
LEMMA ReturnTyped ==
    ASSUME TypeOK, NEW p \in Procs, NEW v \in {"none", "error", "accept", "neutral", "reject"},
           Return(p, v)
    PROVE  /\ pc' \in [Procs -> Location]
           /\ job' \in [Procs -> Job]
           /\ lock' \in Procs \cup {Free, Abandoned}
           /\ pc'[p] = "idle"
           /\ \A q \in Procs \ {p} : pc'[q] = pc[q] /\ job'[q] = job[q]
BY DEF TypeOK, Return, Goto, Set, Location, Job

\* Every command of harness.rs keeps the types.
LEMMA StepTypeInv == TypeInv /\ [Next]_vars => TypeInv'
<1> SUFFICES ASSUME TypeInv, [Next]_vars PROVE TypeInv'
  OBVIOUS
<1> USE HarnessGateAssumption DEF TypeInv
<1>1. ASSUME NEW p \in Procs, ReadOriginal(p) PROVE TypeInv'
  <2>1. left' \in [runs : Nat, faults : Nat, crashes : Nat]
    BY <1>1, SpendTyped DEF ReadOriginal
  <2>2. PICK c \in Versions, k \in ClaimSets :
           job' = [job EXCEPT ![p] =
                     [NoJob EXCEPT !.candidate = c, !.claims = k, !.original = target]]
    BY <1>1 DEF ReadOriginal, Set
  <2>3. [NoJob EXCEPT !.candidate = c, !.claims = k, !.original = target] \in Job
    BY NoJobTyped DEF TypeOK, Job, Contents
  <2>4. job'[p].candidate \in Versions
    BY <2>2 DEF TypeOK, NoJob
  <2> QED
    BY <1>1, <2>1, <2>2, <2>3, <2>4 DEF ReadOriginal, Goto, TypeOK, Candidates, Location
<1>2. ASSUME NEW p \in Procs, StartSnapshot(p) PROVE TypeInv'
  <2>1. left' \in [runs : Nat, faults : Nat, crashes : Nat]
    BY <1>2, SpendTyped DEF StartSnapshot
  <2> QED
    BY <1>2, <2>1, NoJobTyped DEF StartSnapshot, Set, Goto, TypeOK, Candidates, Location
<1>3. ASSUME NEW p \in Procs, TakeLock(p) PROVE TypeInv'
  <2>1. CASE Return(p, "error")
    BY <1>3, <2>1, ReturnTyped, VerifiersAreProcs DEF TakeLock, TypeOK, Candidates
  <2>2. CASE lock' = p /\ Goto(p, IF p \in Verifiers THEN "before" ELSE "measure")
             /\ UNCHANGED job
    BY <1>3, <2>2 DEF TakeLock, Goto, TypeOK, Candidates, Location
  <2> QED
    BY <1>3, <2>1, <2>2 DEF TakeLock
<1>4. ASSUME NEW p \in Procs, Before(p) PROVE TypeInv'
  <2>1. PICK r \in Reports(target) :
          \/ /\ Set(p, [job[p] EXCEPT !.before = r])
             /\ Goto(p, "candidate")
             /\ UNCHANGED <<target, lock, left>>
          \/ /\ \/ target' = job[p].original /\ UNCHANGED left
                \/ Spend("faults") /\ UNCHANGED target
             /\ Return(p, "reject")
    BY <1>4 DEF Before
  <2>2. r \in Report
    BY <2>1, ReportsTyped DEF TypeOK
  <2>3. CASE Set(p, [job[p] EXCEPT !.before = r]) /\ Goto(p, "candidate")
             /\ UNCHANGED <<target, lock, left>>
    BY <1>4, <2>2, <2>3 DEF Before, Set, Goto, TypeOK, Candidates, Location, Job
  <2>4. CASE Return(p, "reject") /\ (\/ target' = job[p].original /\ UNCHANGED left
                                     \/ Spend("faults") /\ UNCHANGED target)
    <3>1. left' \in [runs : Nat, faults : Nat, crashes : Nat]
      BY <2>4, SpendTyped DEF TypeOK
    <3>2. target' \in Contents
      BY <2>4 DEF TypeOK, Job
    <3> QED
      BY <1>4, <2>4, <3>1, <3>2, ReturnTyped, VerifiersAreProcs DEF Before, TypeOK, Candidates
  <2> QED
    BY <2>1, <2>3, <2>4
<1>5. ASSUME NEW p \in Procs, SwapIn(p) PROVE TypeInv'
  <2>1. CASE target' = job[p].candidate /\ Goto(p, "after") /\ UNCHANGED <<job, lock, left>>
    BY <1>5, <2>1 DEF SwapIn, Goto, TypeOK, Candidates, Location, Job
  <2>2. CASE Spend("faults") /\ target' \in {target, job[p].original} /\ Return(p, "error")
    <3>1. left' \in [runs : Nat, faults : Nat, crashes : Nat]
      BY <2>2, SpendTyped
    <3>2. target' \in Contents
      BY <2>2 DEF TypeOK, Job
    <3> QED
      BY <1>5, <2>2, <3>1, <3>2, ReturnTyped, VerifiersAreProcs DEF SwapIn, TypeOK, Candidates
  <2> QED
    BY <1>5, <2>1, <2>2 DEF SwapIn
<1>6. ASSUME NEW p \in Procs, After(p) PROVE TypeInv'
  <2>1. PICK r \in Report : job' = [job EXCEPT ![p] = [job[p] EXCEPT !.after = r]]
    BY <1>6, ReportsTyped DEF After, Set, TypeOK
  <2> QED
    BY <1>6, <2>1 DEF After, Goto, TypeOK, Candidates, Location, Job
<1>7. ASSUME NEW p \in Procs, Restore(p) PROVE TypeInv'
  <2>1. PICK v \in {"none", "error", "accept", "neutral", "reject"} : Return(p, v)
    BY <1>7, VerdictTyped DEF Restore
  <2>2. left' \in [runs : Nat, faults : Nat, crashes : Nat]
    BY <1>7, SpendTyped DEF Restore, TypeOK
  <2>3. target' \in Contents
    BY <1>7 DEF Restore, TypeOK, Job
  <2> QED
    BY <1>7, <2>1, <2>2, <2>3, ReturnTyped, VerifiersAreProcs DEF Restore, TypeOK, Candidates
<1>8. ASSUME NEW p \in Procs, Measure(p) PROVE TypeInv'
  <2>1. PICK r \in Report : job' = [job EXCEPT ![p] = [job[p] EXCEPT !.after = r]]
    BY <1>8, ReportsTyped DEF Measure, Set, TypeOK
  <2> QED
    BY <1>8, <2>1 DEF Measure, Goto, TypeOK, Candidates, Location, Job
<1>9. ASSUME NEW p \in Procs, Record(p) PROVE TypeInv'
  <2>1. PICK v \in {"none", "error"} : Return(p, v)
    BY <1>9 DEF Record
  <2>2. left' \in [runs : Nat, faults : Nat, crashes : Nat]
    BY <1>9, SpendTyped DEF Record, TypeOK
  <2>3. row' \in Report
    BY <1>9 DEF Record, TypeOK, Job
  <2> QED
    BY <1>9, <2>1, <2>2, <2>3, ReturnTyped, VerifiersAreProcs DEF Record, TypeOK, Candidates
<1>10. ASSUME NEW p \in Procs, Crash(p) PROVE TypeInv'
  <2>1. left' \in [runs : Nat, faults : Nat, crashes : Nat]
    BY <1>10, SpendTyped DEF Crash
  <2> QED
    BY <1>10, <2>1, NoJobTyped DEF Crash, Set, Goto, TypeOK, Candidates, Location
<1>11. CASE UNCHANGED vars
  BY <1>11 DEF vars, TypeOK, Candidates
<1> QED
  BY <1>1, <1>2, <1>3, <1>4, <1>5, <1>6, <1>7, <1>8, <1>9, <1>10, <1>11
  DEF Next, Step, Finished

\* Every reachable state of the harness gate is well typed.
THEOREM TypeCorrect == Spec => []TypeOK
<1>1. Init => TypeInv
  BY InitTypeInv
<1>2. TypeInv /\ [Next]_vars => TypeInv'
  BY StepTypeInv
<1>3. TypeInv => TypeOK
  BY DEF TypeInv
<1> QED
  BY <1>1, <1>2, <1>3, PTL DEF Spec

-----------------------------------------------------------------------------
(* The lock: whoever measures holds it, from the gate before to the end.   *)

Measuring == {"before", "candidate", "after", "restore", "measure", "record"}

Locked == \A p \in Procs : pc[p] \in Measuring <=> lock = p

LEMMA OneMeasures ==
    ASSUME Locked, NEW p \in Procs, pc[p] \in Measuring
    PROVE  \A q \in Procs \ {p} : pc[q] \notin Measuring
BY DEF Locked

LEMMA InitLocked == Init => Locked
BY HarnessGateAssumption DEF Init, Locked, Measuring

\* What Return does to the process and its lock.
LEMMA ReturnUnlocks ==
    ASSUME TypeInv, Locked, NEW p \in Procs, NEW v, Return(p, v)
    PROVE  Locked'
BY HarnessGateAssumption DEF TypeInv, TypeOK, Locked, Return, Goto, Measuring

LEMMA StepLocked == TypeInv /\ Locked /\ [Next]_vars => Locked'
<1> SUFFICES ASSUME TypeInv, Locked, [Next]_vars PROVE Locked'
  OBVIOUS
<1> USE HarnessGateAssumption DEF TypeInv, TypeOK, Goto, Measuring
<1>1. ASSUME NEW p \in Procs, ReadOriginal(p) PROVE Locked'
  BY <1>1 DEF ReadOriginal, Locked
<1>2. ASSUME NEW p \in Procs, StartSnapshot(p) PROVE Locked'
  BY <1>2 DEF StartSnapshot, Locked
<1>3. ASSUME NEW p \in Procs, TakeLock(p) PROVE Locked'
  <2>1. CASE Return(p, "error")
    BY <2>1, ReturnUnlocks
  <2>2. CASE /\ lock \in {Free, Abandoned} /\ lock' = p
             /\ Goto(p, IF p \in Verifiers THEN "before" ELSE "measure")
    BY <2>2 DEF Locked
  <2> QED
    BY <1>3, <2>1, <2>2 DEF TakeLock
<1>4. ASSUME NEW p \in Procs, Before(p) PROVE Locked'
  <2>1. CASE Return(p, "reject")
    BY <2>1, ReturnUnlocks
  <2>2. CASE Goto(p, "candidate") /\ UNCHANGED lock
    BY <1>4, <2>2 DEF Before, Locked
  <2> QED
    BY <1>4, <2>1, <2>2 DEF Before
<1>5. ASSUME NEW p \in Procs, SwapIn(p) PROVE Locked'
  <2>1. CASE Return(p, "error")
    BY <2>1, ReturnUnlocks
  <2>2. CASE Goto(p, "after") /\ UNCHANGED lock
    BY <1>5, <2>2 DEF SwapIn, Locked
  <2> QED
    BY <1>5, <2>1, <2>2 DEF SwapIn
<1>6. ASSUME NEW p \in Procs, After(p) PROVE Locked'
  BY <1>6 DEF After, Locked
<1>7. ASSUME NEW p \in Procs, Restore(p) PROVE Locked'
  <2>1. PICK v : Return(p, v)
    BY <1>7 DEF Restore
  <2> QED
    BY <2>1, ReturnUnlocks
<1>8. ASSUME NEW p \in Procs, Measure(p) PROVE Locked'
  BY <1>8 DEF Measure, Locked
<1>9. ASSUME NEW p \in Procs, Record(p) PROVE Locked'
  <2>1. PICK v : Return(p, v)
    BY <1>9 DEF Record
  <2> QED
    BY <2>1, ReturnUnlocks
<1>10. ASSUME NEW p \in Procs, Crash(p) PROVE Locked'
  BY <1>10 DEF Crash, Locked
<1>11. CASE UNCHANGED vars
  BY <1>11 DEF vars, Locked
<1> QED
  BY <1>1, <1>2, <1>3, <1>4, <1>5, <1>6, <1>7, <1>8, <1>9, <1>10, <1>11
  DEF Next, Step, Finished

-----------------------------------------------------------------------------
(* What an ACCEPT rests on.  The gate after the swap measures the          *)
(* candidate because nobody else may swap the target meanwhile.            *)

InPlace == \A p \in Procs : pc[p] = "after" => target = job[p].candidate

ClaimsSeen ==
    \A p \in Procs : pc[p] \in {"candidate", "after", "restore"} =>
        job[p].claims \subseteq job[p].before.failures

CandidateSeen ==
    \A p \in Procs : pc[p] = "restore" => job[p].after \in Reports(job[p].candidate)

\* AcceptIsEarned, of snapshots too: they are never told ACCEPT.
AcceptsEarned ==
    \A p \in Procs : job[p].verdict = "accept" =>
        /\ RedOf[job[p].candidate] = {}
        /\ job[p].claims \subseteq job[p].before.failures

Earned == InPlace /\ ClaimsSeen /\ CandidateSeen /\ AcceptsEarned

\* Only a gate that ended well on a green version reports no failure.
LEMMA AcceptNeedsGreen ==
    ASSUME NEW c, NEW r \in Reports(c), NEW b, Verdict(b, r) = "accept"
    PROVE  RedOf[c] = {}
<1>1. r.ok /\ r.failures = {}
  BY DEF Verdict
<1>2. CASE r = [failures |-> RedOf[c], ok |-> TRUE]
  BY <1>1, <1>2
<1>3. CASE r \in [failures : {IF f = {} THEN {Unmarked} ELSE f : f \in SUBSET RedOf[c]},
                 ok : {FALSE}]
  BY <1>1, <1>3
<1> QED
  BY <1>2, <1>3 DEF Reports

\* A step of one process leaves what the others rest on, if it moves the target
\* only while it measures.
LEMMA OthersKeepEarned ==
    ASSUME TypeInv, Locked, Earned, NEW p \in Procs, pc[p] \in Measuring \/ UNCHANGED target,
           \A q \in Procs \ {p} : pc'[q] = pc[q] /\ job'[q] = job[q],
           pc'[p] = "after" => target' = job'[p].candidate,
           pc'[p] \in {"candidate", "after", "restore"} =>
               job'[p].claims \subseteq job'[p].before.failures,
           pc'[p] = "restore" => job'[p].after \in Reports(job'[p].candidate),
           job'[p].verdict = "accept" =>
               /\ RedOf[job'[p].candidate] = {}
               /\ job'[p].claims \subseteq job'[p].before.failures
    PROVE  Earned'
<1> USE DEF Earned
<1>1. InPlace'
  BY OneMeasures DEF InPlace, Measuring
<1>2. ClaimsSeen'
  BY DEF ClaimsSeen
<1>3. CandidateSeen'
  BY DEF CandidateSeen, Reports
<1>4. AcceptsEarned'
  BY DEF AcceptsEarned
<1> QED
  BY <1>1, <1>2, <1>3, <1>4

\* A command may return anything but an ACCEPT that is not earned.
LEMMA ReturnEarned ==
    ASSUME TypeInv, Locked, Earned, NEW p \in Procs, pc[p] \in Measuring \/ UNCHANGED target,
           NEW v \in {"none", "error", "accept", "neutral", "reject"}, Return(p, v),
           v = "accept" => /\ RedOf[job[p].candidate] = {}
                           /\ job[p].claims \subseteq job[p].before.failures
    PROVE  Earned'
<1>1. /\ pc'[p] = "idle"
      /\ job'[p] = [job[p] EXCEPT !.verdict = v]
      /\ \A q \in Procs \ {p} : pc'[q] = pc[q] /\ job'[q] = job[q]
  BY DEF Return, Goto, Set, TypeInv, TypeOK
<1>2. /\ job'[p].candidate = job[p].candidate /\ job'[p].claims = job[p].claims
      /\ job'[p].before = job[p].before /\ job'[p].verdict = v
  BY <1>1 DEF TypeInv, TypeOK, Job
<1> QED
  BY <1>1, <1>2, OthersKeepEarned

LEMMA InitEarned == Init => Earned
BY VerifiersAreProcs
   DEF Init, Earned, InPlace, ClaimsSeen, CandidateSeen, AcceptsEarned, NoJob

LEMMA StepEarned == TypeInv /\ Locked /\ Earned /\ [Next]_vars => Earned'
<1> SUFFICES ASSUME TypeInv, Locked, Earned, [Next]_vars PROVE Earned'
  OBVIOUS
<1> USE DEF TypeInv, TypeOK
<1>1. ASSUME NEW p \in Procs, ReadOriginal(p) PROVE Earned'
  <2>1. PICK c \in Versions, k \in ClaimSets :
           job' = [job EXCEPT ![p] =
                     [NoJob EXCEPT !.candidate = c, !.claims = k, !.original = target]]
    BY <1>1 DEF ReadOriginal, Set
  <2>2. job'[p].verdict = "none"
    BY <2>1 DEF NoJob
  <2> QED
    BY <1>1, <2>1, <2>2, OthersKeepEarned DEF ReadOriginal, Goto
<1>2. ASSUME NEW p \in Procs, StartSnapshot(p) PROVE Earned'
  <2>1. job'[p].verdict = "none"
    BY <1>2 DEF StartSnapshot, Set, NoJob
  <2> QED
    BY <1>2, <2>1, OthersKeepEarned DEF StartSnapshot, Set, Goto
<1>3. ASSUME NEW p \in Procs, TakeLock(p) PROVE Earned'
  <2>1. CASE Return(p, "error")
    BY <1>3, <2>1, ReturnEarned DEF TakeLock
  <2>2. CASE Goto(p, IF p \in Verifiers THEN "before" ELSE "measure") /\ UNCHANGED job
    <3>1. job[p].verdict = "accept" => /\ RedOf[job[p].candidate] = {}
                                       /\ job[p].claims \subseteq job[p].before.failures
      BY <2>2 DEF Earned, AcceptsEarned
    <3> QED
      BY <1>3, <2>2, <3>1, OthersKeepEarned DEF TakeLock, Goto
  <2> QED
    BY <1>3, <2>1, <2>2 DEF TakeLock
<1>4. ASSUME NEW p \in Procs, Before(p) PROVE Earned'
  <2>1. CASE Return(p, "reject")
    BY <1>4, <2>1, ReturnEarned DEF Before, Measuring
  <2>2. ASSUME NEW r \in Report, job[p].claims \subseteq r.failures,
               Set(p, [job[p] EXCEPT !.before = r]), Goto(p, "candidate"), UNCHANGED target
        PROVE  Earned'
    <3>1. /\ job'[p].before = r /\ job'[p].claims = job[p].claims
          /\ job'[p].verdict = job[p].verdict /\ job'[p].candidate = job[p].candidate
      BY <2>2 DEF Set, Job
    <3>2. p \in Verifiers
      BY <1>4 DEF Before, Candidates
    <3>3. job[p].verdict = "accept" => RedOf[job[p].candidate] = {}
      BY <3>2 DEF Earned, AcceptsEarned
    <3> QED
      BY <2>2, <3>1, <3>3, OthersKeepEarned DEF Set, Goto
  <2> QED
    BY <1>4, <2>1, <2>2, ReportsTyped DEF Before
<1>5. ASSUME NEW p \in Procs, SwapIn(p) PROVE Earned'
  <2>1. CASE Return(p, "error")
    BY <1>5, <2>1, ReturnEarned DEF SwapIn, Measuring
  <2>2. CASE target' = job[p].candidate /\ Goto(p, "after") /\ UNCHANGED job
    <3>1. /\ p \in Verifiers
          /\ job[p].claims \subseteq job[p].before.failures
      BY <1>5 DEF SwapIn, Candidates, Earned, ClaimsSeen
    <3>2. job[p].verdict = "accept" => RedOf[job[p].candidate] = {}
      BY <3>1 DEF Earned, AcceptsEarned
    <3> QED
      BY <1>5, <2>2, <3>1, <3>2, OthersKeepEarned DEF SwapIn, Goto, Measuring
  <2> QED
    BY <1>5, <2>1, <2>2 DEF SwapIn
<1>6. ASSUME NEW p \in Procs, After(p) PROVE Earned'
  <2>1. PICK r \in Reports(job[p].candidate) : job' = [job EXCEPT ![p] = [job[p] EXCEPT !.after = r]]
    BY <1>6 DEF After, Set, Earned, InPlace
  <2>2. /\ job'[p].after = r /\ job'[p].before = job[p].before
        /\ job'[p].claims = job[p].claims /\ job'[p].candidate = job[p].candidate
        /\ job'[p].verdict = job[p].verdict
    BY <2>1 DEF Job
  <2>3. /\ p \in Verifiers
        /\ job[p].claims \subseteq job[p].before.failures
    BY <1>6 DEF After, Candidates, Earned, ClaimsSeen
  <2>4. job[p].verdict = "accept" => RedOf[job[p].candidate] = {}
    BY <2>3 DEF Earned, AcceptsEarned
  <2> QED
    BY <1>6, <2>1, <2>2, <2>3, <2>4, OthersKeepEarned DEF After, Goto
<1>7. ASSUME NEW p \in Procs, Restore(p) PROVE Earned'
  <2>1. CASE Return(p, "error")
    BY <1>7, <2>1, ReturnEarned DEF Restore, Measuring
  <2>2. CASE Return(p, Verdict(job[p].before, job[p].after))
    <3>1. job[p].after \in Reports(job[p].candidate)
      BY <1>7 DEF Restore, Earned, CandidateSeen
    <3>2. job[p].claims \subseteq job[p].before.failures
      BY <1>7 DEF Restore, Earned, ClaimsSeen
    <3>3. Verdict(job[p].before, job[p].after) = "accept" => RedOf[job[p].candidate] = {}
      BY <3>1, AcceptNeedsGreen
    <3>4. Verdict(job[p].before, job[p].after) \in {"accept", "neutral", "reject"}
      BY VerdictTyped
    <3>5. pc[p] \in Measuring
      BY <1>7 DEF Restore, Measuring
    <3> QED
      BY <2>2, <3>2, <3>3, <3>4, <3>5, ReturnEarned
  <2> QED
    BY <1>7, <2>1, <2>2 DEF Restore
<1>8. ASSUME NEW p \in Procs, Measure(p) PROVE Earned'
  <2>1. PICK r : job' = [job EXCEPT ![p] = [job[p] EXCEPT !.after = r]]
    BY <1>8 DEF Measure, Set
  <2>2. /\ job'[p].before = job[p].before /\ job'[p].verdict = job[p].verdict
        /\ job'[p].claims = job[p].claims /\ job'[p].candidate = job[p].candidate
    BY <2>1 DEF Job
  <2>3. job[p].verdict = "accept" => /\ RedOf[job[p].candidate] = {}
                                     /\ job[p].claims \subseteq job[p].before.failures
    BY DEF Earned, AcceptsEarned
  <2> QED
    BY <1>8, <2>1, <2>2, <2>3, OthersKeepEarned DEF Measure, Goto
<1>9. ASSUME NEW p \in Procs, Record(p) PROVE Earned'
  <2>1. PICK v \in {"none", "error"} : Return(p, v)
    BY <1>9 DEF Record
  <2> QED
    BY <1>9, <2>1, ReturnEarned DEF Record, Measuring
<1>10. ASSUME NEW p \in Procs, Crash(p) PROVE Earned'
  <2>1. job'[p].verdict = "none"
    BY <1>10 DEF Crash, Set, NoJob
  <2> QED
    BY <1>10, <2>1, OthersKeepEarned DEF Crash, Set, Goto
<1>11. CASE UNCHANGED vars
  BY <1>11 DEF vars, Earned, InPlace, ClaimsSeen, CandidateSeen, AcceptsEarned, Reports
<1> QED
  BY <1>1, <1>2, <1>3, <1>4, <1>5, <1>6, <1>7, <1>8, <1>9, <1>10, <1>11
  DEF Next, Step, Finished

\* verify_candidate: whatever other runs of the gate do, a candidate is accepted
\* only if it is green and its claims were seen to fail before.
THEOREM AcceptsAreEarned == Spec => []AcceptIsEarned
<1>1. Init => TypeInv /\ Locked /\ Earned
  BY InitTypeInv, InitLocked, InitEarned
<1>2. TypeInv /\ Locked /\ Earned /\ [Next]_vars => (TypeInv /\ Locked /\ Earned)'
  BY StepTypeInv, StepLocked, StepEarned
<1>3. Earned => AcceptIsEarned
  BY VerifiersAreProcs DEF Earned, AcceptsEarned, AcceptIsEarned
<1> QED
  BY <1>1, <1>2, <1>3, PTL DEF Spec

-----------------------------------------------------------------------------
(* The target is put back.  Undisturbed looks at the bounds that are left  *)
(* and at every original in memory: it holds before a step that leads to   *)
(* a state where it holds, but for the verifier that the step starts.      *)

Bounded == left.faults <= MaxFaults /\ left.crashes <= MaxCrashes

\* Only a measurement leaves a candidate at the target.
OnlySwapped ==
    Undisturbed => \/ target = FirstVersion
                   \/ \E p \in Procs : pc[p] \in {"after", "restore"}

LEMMA InitOnlySwapped == Init => Bounded /\ OnlySwapped
BY HarnessGateAssumption DEF Init, Bounded, OnlySwapped

\* A failing write disturbs.
LEMMA FaultDisturbs ==
    ASSUME TypeInv, Bounded, NEW k \in {"faults", "crashes"}, Spend(k)
    PROVE  ~Undisturbed'
BY HarnessGateAssumption, SpendTyped DEF TypeInv, TypeOK, Bounded, Undisturbed, Spend

\* If the runs in memory are undisturbed after a step that only fills in a
\* verdict or a report, they were before, and the original is the real one.
LEMMA UndisturbedBefore ==
    ASSUME TypeInv, TypeInv', UNCHANGED left, NEW p \in Procs,
           \A q \in Procs \ {p} : job'[q] = job[q],
           job'[p].original = job[p].original, job'[p].candidate = job[p].candidate,
           pc[p] # "idle", Undisturbed'
    PROVE  /\ Undisturbed
           /\ p \in Verifiers => job[p].original = FirstVersion
<1>1. ASSUME p \in Verifiers PROVE job[p].original = FirstVersion
  <2>1. job[p].candidate \in Versions
    BY <1>1 DEF TypeInv, Candidates
  <2>2. job'[p] # NoJob
    BY <2>1, HarnessGateAssumption DEF NoJob
  <2> QED
    BY <1>1, <2>2 DEF Undisturbed
<1>2. \A q \in Verifiers : job[q] # NoJob => job[q].original = FirstVersion
  BY <1>1, VerifiersAreProcs DEF Undisturbed
<1> QED
  BY <1>1, <1>2 DEF Undisturbed

\* A step that leaves the target, by a process that measures no candidate.
LEMMA OthersSwapped ==
    ASSUME OnlySwapped, Undisturbed, UNCHANGED target, NEW p \in Procs,
           pc[p] \notin {"after", "restore"}, \A q \in Procs \ {p} : pc'[q] = pc[q]
    PROVE  OnlySwapped'
BY DEF OnlySwapped

\* What Return leaves of a job.
LEMMA ReturnKeeps ==
    ASSUME TypeInv, NEW p \in Procs, NEW v, Return(p, v)
    PROVE  /\ \A q \in Procs \ {p} : pc'[q] = pc[q] /\ job'[q] = job[q]
           /\ job'[p].original = job[p].original /\ job'[p].candidate = job[p].candidate
BY DEF TypeInv, TypeOK, Return, Goto, Set, Job

LEMMA StepBounded == TypeInv /\ Bounded /\ [Next]_vars => Bounded'
<1> SUFFICES ASSUME TypeInv, Bounded, [Next]_vars PROVE Bounded'
  OBVIOUS
<1>1. \/ UNCHANGED left
      \/ \E k \in {"runs", "faults", "crashes"} : Spend(k)
  BY DEF Next, Step, Finished, vars, ReadOriginal, StartSnapshot, TakeLock, Before, SwapIn,
         After, Restore, Measure, Record, Crash
<1>2. CASE UNCHANGED left
  BY <1>2 DEF Bounded
<1>3. ASSUME NEW k \in {"runs", "faults", "crashes"}, Spend(k) PROVE Bounded'
  BY <1>3, SpendTyped, HarnessGateAssumption DEF TypeInv, TypeOK, Bounded
<1> QED
  BY <1>1, <1>2, <1>3

LEMMA StepOnlySwapped ==
    TypeInv /\ TypeInv' /\ Bounded /\ OnlySwapped /\ [Next]_vars => OnlySwapped'
<1> SUFFICES ASSUME TypeInv, TypeInv', Bounded, OnlySwapped, [Next]_vars, Undisturbed'
             PROVE  OnlySwapped'
  BY DEF OnlySwapped
<1> USE DEF TypeInv, TypeOK
<1>1. ASSUME NEW p \in Procs, ReadOriginal(p) PROVE OnlySwapped'
  <2>1. PICK c \in Versions, k \in ClaimSets :
           job' = [job EXCEPT ![p] =
                     [NoJob EXCEPT !.candidate = c, !.claims = k, !.original = target]]
    BY <1>1 DEF ReadOriginal, Set
  <2>2. job'[p].candidate = c /\ job'[p].original = target
    BY <2>1 DEF NoJob
  <2>3. job'[p] # NoJob
    BY <2>2, HarnessGateAssumption DEF NoJob
  <2> QED
    BY <1>1, <2>2, <2>3 DEF ReadOriginal, Undisturbed, OnlySwapped
<1>2. ASSUME NEW p \in Procs, StartSnapshot(p) PROVE OnlySwapped'
  <2>1. \A q \in Verifiers : q # p
    BY <1>2, HarnessGateAssumption DEF StartSnapshot
  <2>2. left'.faults = left.faults /\ left'.crashes = left.crashes
    BY <1>2 DEF StartSnapshot, Spend
  <2>3. Undisturbed
    BY <1>2, <2>1, <2>2, VerifiersAreProcs DEF StartSnapshot, Set, Undisturbed
  <2> QED
    BY <1>2, <2>3, OthersSwapped DEF StartSnapshot, Goto
<1>3. ASSUME NEW p \in Procs, TakeLock(p) PROVE OnlySwapped'
  <2>1. /\ \A q \in Procs \ {p} : pc'[q] = pc[q] /\ job'[q] = job[q]
        /\ job'[p].original = job[p].original /\ job'[p].candidate = job[p].candidate
    BY <1>3, ReturnKeeps DEF TakeLock, Goto
  <2> QED
    BY <1>3, <2>1, UndisturbedBefore, OthersSwapped DEF TakeLock
<1>4. ASSUME NEW p \in Procs, Before(p) PROVE OnlySwapped'
  <2>1. CASE Return(p, "reject") /\ target' = job[p].original /\ UNCHANGED left
    <3>1. p \in Verifiers
      BY <1>4 DEF Before, Candidates
    <3> QED
      BY <1>4, <2>1, <3>1, ReturnKeeps, UndisturbedBefore DEF Before, OnlySwapped
  <2>2. CASE Spend("faults")
    BY <2>2, FaultDisturbs
  <2>3. ASSUME NEW r, Set(p, [job[p] EXCEPT !.before = r]), Goto(p, "candidate"),
               UNCHANGED <<target, left>>
        PROVE  OnlySwapped'
    <3>1. /\ \A q \in Procs \ {p} : pc'[q] = pc[q] /\ job'[q] = job[q]
          /\ job'[p].original = job[p].original /\ job'[p].candidate = job[p].candidate
      BY <2>3 DEF Set, Goto, Job
    <3> QED
      BY <1>4, <2>3, <3>1, UndisturbedBefore, OthersSwapped DEF Before
  <2> QED
    BY <1>4, <2>1, <2>2, <2>3 DEF Before
<1>5. ASSUME NEW p \in Procs, SwapIn(p) PROVE OnlySwapped'
  <2>1. CASE Goto(p, "after")
    BY <2>1 DEF Goto, OnlySwapped
  <2>2. CASE Spend("faults")
    BY <2>2, FaultDisturbs
  <2> QED
    BY <1>5, <2>1, <2>2 DEF SwapIn
<1>6. ASSUME NEW p \in Procs, After(p) PROVE OnlySwapped'
  BY <1>6 DEF After, Goto, OnlySwapped
<1>7. ASSUME NEW p \in Procs, Restore(p) PROVE OnlySwapped'
  <2>1. CASE Spend("faults")
    BY <2>1, FaultDisturbs
  <2>2. CASE /\ target' = job[p].original /\ UNCHANGED left
             /\ Return(p, Verdict(job[p].before, job[p].after))
    <3>1. p \in Verifiers /\ pc[p] # "idle"
      BY <1>7 DEF Restore, Candidates
    <3> QED
      BY <2>2, <3>1, ReturnKeeps, UndisturbedBefore DEF OnlySwapped
  <2> QED
    BY <1>7, <2>1, <2>2 DEF Restore
<1>8. ASSUME NEW p \in Procs, Measure(p) PROVE OnlySwapped'
  <2>1. PICK r : job' = [job EXCEPT ![p] = [job[p] EXCEPT !.after = r]]
    BY <1>8 DEF Measure, Set
  <2>2. /\ \A q \in Procs \ {p} : pc'[q] = pc[q] /\ job'[q] = job[q]
        /\ job'[p].original = job[p].original /\ job'[p].candidate = job[p].candidate
    BY <1>8, <2>1 DEF Measure, Goto, Job
  <2> QED
    BY <1>8, <2>2, UndisturbedBefore, OthersSwapped DEF Measure
<1>9. ASSUME NEW p \in Procs, Record(p) PROVE OnlySwapped'
  <2>1. CASE Spend("faults")
    BY <2>1, FaultDisturbs
  <2>2. CASE Return(p, "none") /\ UNCHANGED left
    BY <1>9, <2>2, ReturnKeeps, UndisturbedBefore, OthersSwapped DEF Record
  <2> QED
    BY <1>9, <2>1, <2>2 DEF Record
<1>10. ASSUME NEW p \in Procs, Crash(p) PROVE OnlySwapped'
  BY <1>10, FaultDisturbs DEF Crash
<1>11. CASE UNCHANGED vars
  BY <1>11 DEF vars, OnlySwapped, Undisturbed
<1> QED
  BY <1>1, <1>2, <1>3, <1>4, <1>5, <1>6, <1>7, <1>8, <1>9, <1>10, <1>11
  DEF Next, Step, Finished

GateInv == TypeInv /\ Locked /\ Bounded /\ OnlySwapped

LEMMA GateInvariant == Spec => []GateInv
<1>1. Init => GateInv
  BY InitTypeInv, InitLocked, InitOnlySwapped DEF GateInv
<1>2. GateInv /\ [Next]_vars => GateInv'
  BY StepTypeInv, StepLocked, StepBounded, StepOnlySwapped DEF GateInv
<1> QED
  BY <1>1, <1>2, PTL DEF Spec

\* verify_candidate puts the original back, whatever the verdict and however
\* many runs of the gate wait for each other.
THEOREM TargetIsRestored == Spec => []TargetRestored
<1>1. GateInv => TargetRestored
  BY DEF GateInv, OnlySwapped, TargetRestored
<1> QED
  BY <1>1, GateInvariant, PTL

\* Neither a gate before the swap nor a snapshot measures a candidate of
\* another run: the harness lock excludes them.
THEOREM BaselinesAreReal == Spec => []BaselineIsReal
<1>1. GateInv => BaselineIsReal
  BY OneMeasures DEF GateInv, OnlySwapped, BaselineIsReal, Measuring
<1> QED
  BY <1>1, GateInvariant, PTL
=============================================================================
