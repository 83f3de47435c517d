------------------------------ MODULE GapLoop ------------------------------
(***************************************************************************)
(* The gap loop of loopcmd.rs over the files it owns: the ledger row of    *)
(* each case, the tickets, the claims registry and the slice specs.        *)
(* Several processes (CLI calls, the MCP server) run dispatch, objective   *)
(* and verify at once.  One action is one stretch of reads up to one       *)
(* durable write, so a process may die between any two writes; the claims  *)
(* lock is the critical section of AbstractLock.                           *)
(*                                                                         *)
(* A case is a number in the order case_dirs lists the directories; a      *)
(* ticket is its number; 0 stands for "no ticket" and "no case".           *)
(***************************************************************************)
EXTENDS Naturals

CONSTANTS
    Procs,
    Claimants,
    NumCases,
    MaxTicket,     \* ticket numbers 1..MaxTicket exist in the model
    MaxAttempts,   \* max_rerun_attempts, or Unbounded when not configured
    Costs,         \* declared cost of each case's run
    Budget,        \* --budget-cost of objective
    MaxPlanned,    \* max_cases of objective
    FirstTickets,  \* tickets written by hand before the loop runs
    FirstRuns,     \* the cases' runs before the loop runs
    MaxOps,        \* commands started
    MaxEdits,      \* rewrites of a run.json by a worker or a human
    MaxFaults,     \* failing reads and writes
    MaxTimeouts,   \* lock_claims giving up after LOCK_MAX_WAIT_MS
    MaxCrashes,    \* processes killed in the middle of a command
    NoOne, Free, Abandoned, Unbounded

Cases == 1..NumCases
Ids == 1..MaxTicket

RowState == {"absent", "open", "dispatched", "closed", "exhausted", "unverifiable"}
Row == [state : RowState, attempts : Nat, closedTicket : 0..MaxTicket]
Ticket == [case : 0..NumCases, closed : BOOLEAN, blockedBy : SUBSET Ids]
Outcome == {"missing", "failed", "achieved"}
Run == [base : {"failed", "achieved"}, rerun : Outcome, gated : BOOLEAN]
Registry == [Ids -> Claimants \cup {NoOne}]

NoRow == [state |-> "absent", attempts |-> 0, closedTicket |-> 0]
NoTicketFile == [case |-> 0, closed |-> FALSE, blockedBy |-> {}]

ASSUME GapLoopAssumption ==
    /\ NumCases \in Nat \ {0}
    /\ MaxTicket \in Nat \ {0}
    /\ MaxAttempts \in Nat \cup {Unbounded}
    /\ Unbounded \notin Nat
    /\ Costs \in [Cases -> Nat]
    /\ Budget \in Nat
    /\ MaxPlanned \in Nat
    /\ FirstTickets \in [Ids -> Ticket]
    /\ FirstRuns \in [Cases -> Run]
    /\ {MaxOps, MaxEdits, MaxFaults, MaxTimeouts, MaxCrashes} \subseteq Nat
    /\ NoOne \notin Claimants
    /\ Free \notin Procs /\ Abandoned \notin Procs /\ Free # Abandoned

VARIABLES
    ledger,     \* evals/ledger/<case>.json
    tickets,    \* tickets/TICKET-<n>.md
    claims,     \* tickets/claims.md: the claimant a ticket is leased to
    artifacts,  \* artifacts/<ticket>/spec.md: the case the spec is for, or 0
    runs,       \* evals/cases/<case>/run.json and the rerun directory's
    lock,       \* the claims lock: its holder, Free, or Abandoned by a dead one
    pc,         \* where a process is in its command
    job,        \* the local variables of that command
    left        \* what remains of each bound

files == <<ledger, tickets, claims, artifacts, runs>>
vars == <<ledger, tickets, claims, artifacts, runs, lock, pc, job, left>>

Location ==
    {"idle", "scan", "pick", "find", "create", "claim", "lease", "commit",
     "spec", "row", "rbClaim", "rbTicket", "rbSpec", "rbRow", "giveBack",
     "dropTicket", "mark", "markRow", "gate", "close", "closeRow",
     "closeClaim", "closeTicket", "undoRow", "undoClaims", "undoTicket", "miss"}

Job == [who : Claimants \cup {NoOne}, case : 0..NumCases,
        mode : {"one", "auto", "plan"}, tid : 0..MaxTicket, made : BOOLEAN,
        goal : {"exhausted", "unverifiable"}, prior : Row, snap : Registry,
        wasClosed : BOOLEAN, dir : {"base", "rerun"},
        gate : {"declared", "trusted", "none"}, spent : Nat, planned : Nat]

NoJob ==
    [who |-> NoOne, case |-> 0, mode |-> "one", tid |-> 0, made |-> FALSE,
     goal |-> "exhausted", prior |-> NoRow, snap |-> [t \in Ids |-> NoOne],
     wasClosed |-> FALSE, dir |-> "base", gate |-> "none",
     spent |-> 0, planned |-> 0]

Init ==
    /\ ledger = [c \in Cases |-> NoRow]
    /\ tickets = FirstTickets
    /\ claims = [t \in Ids |-> NoOne]
    /\ artifacts = [t \in Ids |-> 0]
    /\ runs = FirstRuns
    /\ lock = Free
    /\ pc = [p \in Procs |-> "idle"]
    /\ job = [p \in Procs |-> NoJob]
    /\ left = [ops |-> MaxOps, edits |-> MaxEdits, faults |-> MaxFaults,
               timeouts |-> MaxTimeouts, crashes |-> MaxCrashes]

-----------------------------------------------------------------------------
(* Reads *)

Terminal(row) == row.state \in {"closed", "exhausted", "unverifiable"}

Exists(t) == t \in Ids /\ tickets[t].case # 0

\* ticket_for_case: the first ticket, by id, that names the case.
IsFirstFor(t, c) ==
    /\ tickets[t].case = c
    /\ \A u \in Ids : tickets[u].case = c => t <= u
TicketFor(c) ==
    IF \E t \in Ids : IsFirstFor(t, c) THEN CHOOSE t \in Ids : IsFirstFor(t, c) ELSE 0

\* next_ticket_number + 1: one more than the highest number on disk.
IsNextNumber(n) ==
    /\ \A t \in Ids : Exists(t) => t < n
    /\ n = 1 \/ Exists(n - 1)

TicketClosed(c) == \E t \in Ids : t = TicketFor(c) /\ tickets[t].closed
Leased(c) == \E t \in Ids : t = TicketFor(c) /\ claims[t] # NoOne

\* case_exceeded_bound
ExceedsBound(c) == MaxAttempts # Unbounded /\ ledger[c].attempts > MaxAttempts

DepsClosed(t) == \A d \in tickets[t].blockedBy : Exists(d) /\ tickets[d].closed

-----------------------------------------------------------------------------
(* Control *)

Goto(p, l) == pc' = [pc EXCEPT ![p] = l]
Set(p, j) == job' = [job EXCEPT ![p] = j]
Finish(p) == Goto(p, "idle") /\ Set(p, NoJob)
Spend(k) == left[k] > 0 /\ left' = [left EXCEPT ![k] = @ - 1]

\* The loop of pick_target and objective goes on to the next directory.
NextDir(p, j) ==
    IF j.case < NumCases
    THEN /\ Goto(p, "scan")
         /\ Set(p, [NoJob EXCEPT !.who = j.who, !.mode = j.mode, !.case = j.case + 1,
                                 !.spent = j.spent, !.planned = j.planned])
    ELSE Finish(p)

\* lock_claims: a lock whose holder died is stolen once it is stale; until
\* then, and while it is held, a waiter may run out of time.
LockIsUp == lock \in {Free, Abandoned}
TimesOut == lock # Free /\ Spend("timeouts")

Fault == Spend("faults")

-----------------------------------------------------------------------------
(* Commands *)

StartDispatch(p) ==
    /\ pc[p] = "idle"
    /\ Spend("ops")
    /\ \E k \in Claimants :
          \/ \E c \in Cases :
                /\ Set(p, [NoJob EXCEPT !.who = k, !.case = c])
                /\ Goto(p, "pick")
          \/ /\ Set(p, [NoJob EXCEPT !.who = k, !.case = 1, !.mode = "auto"])
             /\ Goto(p, "scan")
    /\ UNCHANGED <<files, lock>>

StartObjective(p) ==
    /\ pc[p] = "idle"
    /\ Spend("ops")
    /\ \E k \in Claimants : Set(p, [NoJob EXCEPT !.who = k, !.case = 1, !.mode = "plan"])
    /\ Goto(p, "scan")
    /\ UNCHANGED <<files, lock>>

\* pick_target for a named case.
Pick(p) ==
    LET c == job[p].case IN
    /\ pc[p] = "pick"
    /\ \/ /\ TicketClosed(c) \/ Terminal(ledger[c])
          /\ Finish(p)
       \/ /\ ~TicketClosed(c) /\ ~Terminal(ledger[c])
          /\ ExceedsBound(c)
          /\ Goto(p, "mark")
          /\ Set(p, [job[p] EXCEPT !.goal = "exhausted", !.mode = "one"])
       \/ /\ ~TicketClosed(c) /\ ~Terminal(ledger[c])
          /\ ~ExceedsBound(c)
          /\ Goto(p, "find")
          /\ UNCHANGED job
    /\ UNCHANGED <<files, lock, left>>

\* Directories that the loop over case_dirs passes over without a write.
PassesOver(p) ==
    LET c == job[p].case IN
    \/ runs[c].base = "achieved"
    \/ Terminal(ledger[c])
    \/ ~ExceedsBound(c)
          /\ \/ TicketClosed(c)
             \/ Leased(c)
             \/ job[p].mode = "plan" /\ ~runs[c].gated

\* The budget governor and the case limit of objective: stop, do not skip.
PlanIsFull(p) ==
    LET c == job[p].case IN
    /\ job[p].mode = "plan"
    /\ \/ job[p].planned >= MaxPlanned
       \/ /\ ~PassesOver(p)
          /\ ~ExceedsBound(c)
          /\ job[p].spent + Costs[c] > Budget

Scan(p) ==
    LET c == job[p].case IN
    /\ pc[p] = "scan"
    /\ \/ PlanIsFull(p) /\ Finish(p)
       \/ ~PlanIsFull(p) /\ PassesOver(p) /\ NextDir(p, job[p])
       \/ /\ ~PlanIsFull(p) /\ ~PassesOver(p)
          /\ ExceedsBound(c)
          /\ Goto(p, "mark")
          /\ Set(p, [job[p] EXCEPT !.goal = "exhausted"])
       \/ /\ ~PlanIsFull(p) /\ ~PassesOver(p)
          /\ ~ExceedsBound(c)
          /\ Goto(p, IF job[p].mode = "plan" THEN "pick" ELSE "find")
          /\ UNCHANGED job
    /\ UNCHANGED <<files, lock, left>>

-----------------------------------------------------------------------------
(* dispatch: the ticket and its lease, each under a lock of its own. *)

\* Read the run; without a complete gate the case is marked unverifiable.
FindTicket(p) ==
    LET c == job[p].case IN
    /\ pc[p] = "find"
    /\ \/ /\ ~runs[c].gated
          /\ Goto(p, "mark")
          /\ Set(p, [job[p] EXCEPT !.goal = "unverifiable", !.mode = "one"])
       \/ /\ runs[c].gated
          /\ TicketFor(c) # 0
          /\ Goto(p, "claim")
          /\ Set(p, [job[p] EXCEPT !.tid = TicketFor(c)])
       \/ /\ runs[c].gated
          /\ TicketFor(c) = 0
          /\ Goto(p, "create")
          /\ UNCHANGED job
    /\ UNCHANGED <<files, lock, left>>

\* (mutant of CreateTicket) No second look under the lock.
CreateTicketUnchecked(p) ==
    /\ pc[p] = "create"
    /\ LockIsUp /\ lock' = Free
    /\ \E n \in Ids :
          /\ IsNextNumber(n)
          /\ tickets' = [tickets EXCEPT ![n] = [NoTicketFile EXCEPT !.case = job[p].case]]
          /\ Set(p, [job[p] EXCEPT !.tid = n, !.made = TRUE])
    /\ Goto(p, "claim")
    /\ UNCHANGED <<ledger, claims, artifacts, runs, left>>

\* create_case_ticket looks again under the lock, and dispatch counts the
\* ticket as created by it even when another process was faster.
CreateTicket(p) ==
    LET c == job[p].case IN
    /\ pc[p] = "create"
    /\ \/ /\ LockIsUp /\ lock' = Free
          /\ TicketFor(c) # 0
          /\ Goto(p, "claim")
          /\ Set(p, [job[p] EXCEPT !.tid = TicketFor(c), !.made = TRUE])
          /\ UNCHANGED <<tickets, left>>
       \/ /\ LockIsUp /\ lock' = Free
          /\ TicketFor(c) = 0
          /\ \E n \in Ids :
                /\ IsNextNumber(n)
                /\ tickets' = [tickets EXCEPT ![n] = [NoTicketFile EXCEPT !.case = c]]
                /\ Set(p, [job[p] EXCEPT !.tid = n, !.made = TRUE])
          /\ Goto(p, "claim")
          /\ UNCHANGED left
       \/ /\ LockIsUp /\ lock' = Free
          /\ TicketFor(c) = 0 /\ Fault
          /\ Finish(p)
          /\ UNCHANGED tickets
       \/ /\ TimesOut
          /\ Finish(p)
          /\ UNCHANGED <<lock, tickets>>
    /\ UNCHANGED <<ledger, claims, artifacts, runs>>

\* claim_ticket looks the ticket up before it takes the lock.
Claim(p) ==
    /\ pc[p] = "claim"
    /\ \/ Exists(job[p].tid) /\ Goto(p, "lease") /\ UNCHANGED job
       \/ ~Exists(job[p].tid) /\ Finish(p)
    /\ UNCHANGED <<files, lock, left>>

\* (mutant of Lease) The registry entry is written whoever holds the lease.
LeaseOverwrites(p) ==
    /\ pc[p] = "lease"
    /\ LockIsUp /\ lock' = Free
    /\ claims' = [claims EXCEPT ![job[p].tid] = job[p].who]
    /\ Goto(p, "commit")
    /\ UNCHANGED <<ledger, tickets, artifacts, runs, job, left>>

Lease(p) ==
    LET t == job[p].tid
        k == job[p].who IN
    /\ pc[p] = "lease"
    /\ \/ /\ LockIsUp /\ lock' = Free
          /\ claims[t] = k
          /\ Goto(p, "commit")
          /\ UNCHANGED <<claims, job, left>>
       \/ /\ LockIsUp /\ lock' = Free
          /\ claims[t] = NoOne /\ DepsClosed(t)
          /\ claims' = [claims EXCEPT ![t] = k]
          /\ Goto(p, "commit")
          /\ UNCHANGED <<job, left>>
       \/ /\ LockIsUp /\ lock' = Free
          /\ claims[t] \notin {k, NoOne} \/ (claims[t] = NoOne /\ ~DepsClosed(t))
          /\ Finish(p)
          /\ UNCHANGED <<claims, left>>
       \/ /\ LockIsUp /\ lock' = Free
          /\ Fault
          /\ Finish(p)
          /\ UNCHANGED claims
       \/ /\ TimesOut
          /\ Finish(p)
          /\ UNCHANGED <<lock, claims>>
    /\ UNCHANGED <<ledger, tickets, artifacts, runs>>

-----------------------------------------------------------------------------
(* dispatch: the section that re-reads the ledger and commits. *)

\* release_ticket_locked: an absent ticket or a foreign lease is an error the
\* rollbacks ignore.
Released(t, k) ==
    IF Exists(t) /\ claims[t] = k THEN [claims EXCEPT ![t] = NoOne] ELSE claims

\* (mutant of Commit) The state read by pick_target is trusted.
CommitUnchecked(p) ==
    /\ pc[p] = "commit"
    /\ LockIsUp /\ lock' = p
    /\ Set(p, [job[p] EXCEPT !.prior = ledger[job[p].case]])
    /\ Goto(p, "spec")
    /\ UNCHANGED <<files, left>>

Commit(p) ==
    LET c == job[p].case
        t == job[p].tid IN
    /\ pc[p] = "commit"
    /\ \/ /\ LockIsUp /\ lock' = p
          /\ Set(p, [job[p] EXCEPT !.prior = ledger[c]])
          /\ Goto(p, IF Terminal(ledger[c]) THEN "rbClaim" ELSE "spec")
          /\ UNCHANGED <<claims, left>>
       \/ /\ LockIsUp /\ lock' = p          \* the row is unreadable
          /\ Fault
          /\ claims' \in {Released(t, job[p].who), claims}
          /\ Goto(p, "dropTicket")
          /\ UNCHANGED job
       \/ /\ TimesOut
          /\ Goto(p, "giveBack")
          /\ UNCHANGED <<lock, claims, job>>
    /\ UNCHANGED <<ledger, tickets, artifacts, runs>>

DispatchedRow(row) == [row EXCEPT !.state = "dispatched", !.attempts = @ + 1]

\* (mutant of WriteSpec) The ledger row is written before the spec.
WriteSpecLast(p) ==
    /\ pc[p] = "spec"
    /\ ledger' = [ledger EXCEPT ![job[p].case] = DispatchedRow(job[p].prior)]
    /\ Goto(p, "row")
    /\ UNCHANGED <<tickets, claims, artifacts, runs, lock, job, left>>

WriteSpec(p) ==
    /\ pc[p] = "spec"
    /\ \/ /\ artifacts' = [artifacts EXCEPT ![job[p].tid] = job[p].case]
          /\ Goto(p, "row")
          /\ UNCHANGED left
       \/ /\ Fault
          /\ Goto(p, "rbClaim")
          /\ UNCHANGED artifacts
    /\ UNCHANGED <<ledger, tickets, claims, runs, lock, job>>

\* The ledger row is written last: it is the commit point.  objective then
\* counts the cost and goes on.
WriteRow(p) ==
    LET j == job[p] IN
    /\ pc[p] = "row"
    /\ \/ /\ ledger' = [ledger EXCEPT ![j.case] = DispatchedRow(j.prior)]
          /\ lock' = Free
          /\ IF j.mode = "plan"
             THEN NextDir(p, [j EXCEPT !.spent = @ + Costs[j.case], !.planned = @ + 1])
             ELSE Finish(p)
          /\ UNCHANGED left
       \/ /\ Fault
          /\ Goto(p, "rbClaim")
          /\ UNCHANGED <<ledger, lock, job>>
    /\ UNCHANGED <<tickets, claims, artifacts, runs>>

\* (mutant of RollbackClaim) release_ticket, which takes the lock again.
RollbackClaimNested(p) ==
    /\ pc[p] = "rbClaim"
    /\ LockIsUp
    /\ claims' = Released(job[p].tid, job[p].who)
    /\ Goto(p, "rbTicket")
    /\ UNCHANGED <<ledger, tickets, artifacts, runs, lock, job, left>>

\* The rollback ignores the failure of each of its writes.
RollbackClaim(p) ==
    /\ pc[p] = "rbClaim"
    /\ \/ claims' = Released(job[p].tid, job[p].who) /\ UNCHANGED left
       \/ Fault /\ UNCHANGED claims
    /\ Goto(p, "rbTicket")
    /\ UNCHANGED <<ledger, tickets, artifacts, runs, lock, job>>

\* A created ticket is removed unless the case is terminal by now.
RollbackTicket(p) ==
    LET remove == job[p].made /\ ~Terminal(ledger[job[p].case]) IN
    /\ pc[p] = "rbTicket"
    /\ \/ /\ tickets' = IF remove THEN [tickets EXCEPT ![job[p].tid] = NoTicketFile]
                                  ELSE tickets
          /\ UNCHANGED left
       \/ remove /\ Fault /\ UNCHANGED tickets
    /\ Goto(p, "rbSpec")
    /\ UNCHANGED <<ledger, claims, artifacts, runs, lock, job>>

RollbackSpec(p) ==
    /\ pc[p] = "rbSpec"
    /\ \/ artifacts' = [artifacts EXCEPT ![job[p].tid] = 0] /\ UNCHANGED left
       \/ Fault /\ UNCHANGED artifacts
    /\ Goto(p, "rbRow")
    /\ UNCHANGED <<ledger, tickets, claims, runs, lock, job>>

\* (mutant of RollbackRow) The row is deleted, not restored.
RollbackRowDeletes(p) ==
    /\ pc[p] = "rbRow"
    /\ ledger' = [ledger EXCEPT ![job[p].case] = NoRow]
    /\ lock' = Free
    /\ Finish(p)
    /\ UNCHANGED <<tickets, claims, artifacts, runs, left>>

RollbackRow(p) ==
    /\ pc[p] = "rbRow"
    /\ \/ ledger' = [ledger EXCEPT ![job[p].case] = job[p].prior] /\ UNCHANGED left
       \/ Fault /\ UNCHANGED ledger
    /\ lock' = Free
    /\ Finish(p)
    /\ UNCHANGED <<tickets, claims, artifacts, runs>>

\* The lock was not obtained after the lease: release_ticket tries once more.
GiveBack(p) ==
    /\ pc[p] = "giveBack"
    /\ \/ /\ LockIsUp /\ lock' = Free
          /\ claims' = Released(job[p].tid, job[p].who)
          /\ UNCHANGED left
       \/ /\ LockIsUp /\ lock' = Free
          /\ Fault
          /\ UNCHANGED claims
       \/ TimesOut /\ UNCHANGED <<lock, claims>>
    /\ Goto(p, "dropTicket")
    /\ UNCHANGED <<ledger, tickets, artifacts, runs, job>>

\* Removes a created ticket on the two early error paths: with the lock after
\* an unreadable row, without it after a lock failure.
DropTicket(p) ==
    /\ pc[p] = "dropTicket"
    /\ \/ /\ tickets' = IF job[p].made THEN [tickets EXCEPT ![job[p].tid] = NoTicketFile]
                                       ELSE tickets
          /\ UNCHANGED left
       \/ job[p].made /\ Fault /\ UNCHANGED tickets
    /\ lock' = IF lock = p THEN Free ELSE lock
    /\ Finish(p)
    /\ UNCHANGED <<ledger, claims, artifacts, runs>>

-----------------------------------------------------------------------------
(* mark_state *)

\* Afterwards the scan of an automatic pick or of objective goes on.
AfterMark(p) ==
    IF job[p].mode = "one" THEN Finish(p) ELSE NextDir(p, job[p])

\* Only an exhausted case gives up its lease, whoever holds it.
Mark(p) ==
    LET c == job[p].case
        t == TicketFor(c) IN
    /\ pc[p] = "mark"
    /\ \/ /\ LockIsUp /\ lock' = p
          /\ Set(p, [job[p] EXCEPT !.prior = ledger[c]])
          /\ Goto(p, "markRow")
          /\ \/ /\ claims' = IF job[p].goal = "exhausted" /\ t # 0
                             THEN [claims EXCEPT ![t] = NoOne] ELSE claims
                /\ UNCHANGED left
             \/ /\ job[p].goal = "exhausted" /\ Leased(c)
                /\ Fault
                /\ UNCHANGED claims
       \/ /\ LockIsUp /\ lock' = Free       \* the row is unreadable
          /\ Fault
          /\ AfterMark(p)
          /\ UNCHANGED claims
       \/ /\ TimesOut
          /\ AfterMark(p)
          /\ UNCHANGED <<lock, claims>>
    /\ UNCHANGED <<ledger, tickets, artifacts, runs>>

MarkRow(p) ==
    /\ pc[p] = "markRow"
    /\ \/ /\ ledger' = [ledger EXCEPT ![job[p].case] = [job[p].prior EXCEPT !.state = job[p].goal]]
          /\ UNCHANGED left
       \/ Fault /\ UNCHANGED ledger
    /\ lock' = Free
    /\ AfterMark(p)
    /\ UNCHANGED <<tickets, claims, artifacts, runs>>

-----------------------------------------------------------------------------
(* verify *)

\* The guards that run before the gate: a terminal case is a no-op, a foreign
\* lease an error; neither changes anything, so only the calls that go on are
\* steps.  The gate to run is the base's, read now.
StartVerify(p) ==
    /\ pc[p] = "idle"
    /\ Spend("ops")
    /\ \E k \in Claimants, c \in Cases, d \in {"base", "rerun"}, trust \in BOOLEAN :
          /\ runs[c][d] # "missing"
          /\ ~Terminal(ledger[c])
          /\ \A t \in Ids : t = TicketFor(c) => claims[t] \in {k, NoOne}
          /\ Set(p, [NoJob EXCEPT !.who = k, !.case = c, !.dir = d,
                        !.gate = IF runs[c].gated THEN "declared"
                                 ELSE IF trust THEN "trusted" ELSE "none"])
    /\ Goto(p, "gate")
    /\ UNCHANGED <<files, lock>>

\* The gate runs for up to two minutes, with any outcome; then the closing
\* run is read again.  A gate that cannot be started is an error.
RunGate(p) ==
    LET achieved == runs[job[p].case][job[p].dir] = "achieved" IN
    /\ pc[p] = "gate"
    /\ \/ /\ \E passed \in BOOLEAN :
                /\ job[p].gate = "trusted" => passed
                /\ job[p].gate = "none" => ~passed
                /\ Goto(p, IF passed /\ achieved THEN "close" ELSE "miss")
          /\ UNCHANGED job
       \/ job[p].gate = "declared" /\ Finish(p)
    /\ UNCHANGED <<files, lock, left>>

\* A failed attempt is counted in the row, if there is one and it is not final.
Miss(p) ==
    LET c == job[p].case IN
    /\ pc[p] = "miss"
    /\ \/ /\ LockIsUp /\ lock' = Free
          /\ ledger' = IF ledger[c].state = "absent" \/ Terminal(ledger[c]) THEN ledger
                       ELSE [ledger EXCEPT ![c].attempts = @ + 1]
          /\ UNCHANGED left
       \/ LockIsUp /\ lock' = Free /\ Fault /\ UNCHANGED ledger
       \/ TimesOut /\ UNCHANGED <<lock, ledger>>
    /\ Finish(p)
    /\ UNCHANGED <<tickets, claims, artifacts, runs>>

\* The guards once more, now under the lock.
Close(p) ==
    LET c == job[p].case
        t == TicketFor(c)
        foreign == t # 0 /\ claims[t] \notin {job[p].who, NoOne} IN
    /\ pc[p] = "close"
    /\ \/ /\ LockIsUp /\ lock' = p
          /\ ~Terminal(ledger[c]) /\ ~foreign
          /\ Set(p, [job[p] EXCEPT !.prior = ledger[c], !.snap = claims, !.tid = t,
                                   !.wasClosed = TicketClosed(c)])
          /\ Goto(p, "closeRow")
          /\ UNCHANGED left
       \/ /\ LockIsUp /\ lock' = Free
          /\ Terminal(ledger[c]) \/ foreign
          /\ Finish(p)
          /\ UNCHANGED left
       \/ LockIsUp /\ lock' = Free /\ Fault /\ Finish(p)
       \/ TimesOut /\ Finish(p) /\ UNCHANGED lock
    /\ UNCHANGED files

ClosedRow(row, t) ==
    [state |-> "closed", closedTicket |-> t,
     attempts |-> IF row.attempts = 0 THEN 1 ELSE row.attempts]

CloseRow(p) ==
    LET j == job[p] IN
    /\ pc[p] = "closeRow"
    /\ \/ /\ ledger' = [ledger EXCEPT ![j.case] = ClosedRow(j.prior, j.tid)]
          /\ IF j.tid = 0
             THEN Finish(p) /\ lock' = Free
             ELSE Goto(p, "closeClaim") /\ UNCHANGED <<job, lock>>
          /\ UNCHANGED left
       \/ /\ Fault
          /\ Finish(p) /\ lock' = Free
          /\ UNCHANGED ledger
    /\ UNCHANGED <<tickets, claims, artifacts, runs>>

\* The registry is written back without the lease, from the copy read when
\* the section began.
CloseClaim(p) ==
    LET j == job[p]
        mine == j.snap[j.tid] = j.who IN
    /\ pc[p] = "closeClaim"
    /\ \/ /\ claims' = IF mine THEN [j.snap EXCEPT ![j.tid] = NoOne] ELSE claims
          /\ Goto(p, "closeTicket")
          /\ UNCHANGED left
       \/ /\ mine /\ Fault
          /\ Goto(p, "undoRow")
          /\ UNCHANGED claims
    /\ UNCHANGED <<ledger, tickets, artifacts, runs, lock, job>>

CloseTicket(p) ==
    LET t == job[p].tid IN
    /\ pc[p] = "closeTicket"
    /\ \/ /\ Exists(t)
          /\ tickets' = [tickets EXCEPT ![t].closed = TRUE]
          /\ Finish(p) /\ lock' = Free
          /\ UNCHANGED left
       \/ /\ IF Exists(t) THEN Fault ELSE UNCHANGED left
          /\ Goto(p, "undoRow")
          /\ UNCHANGED <<tickets, job, lock>>
    /\ UNCHANGED <<ledger, claims, artifacts, runs>>

\* (mutant of UndoRow) The row is removed, not restored.
UndoRowDeletes(p) ==
    /\ pc[p] = "undoRow"
    /\ ledger' = [ledger EXCEPT ![job[p].case] = NoRow]
    /\ Goto(p, "undoClaims")
    /\ UNCHANGED <<tickets, claims, artifacts, runs, lock, job, left>>

UndoRow(p) ==
    /\ pc[p] = "undoRow"
    /\ \/ ledger' = [ledger EXCEPT ![job[p].case] = job[p].prior] /\ UNCHANGED left
       \/ Fault /\ UNCHANGED ledger
    /\ Goto(p, "undoClaims")
    /\ UNCHANGED <<tickets, claims, artifacts, runs, lock, job>>

UndoClaims(p) ==
    /\ pc[p] = "undoClaims"
    /\ \/ claims' = job[p].snap /\ UNCHANGED left
       \/ Fault /\ UNCHANGED claims
    /\ Goto(p, "undoTicket")
    /\ UNCHANGED <<ledger, tickets, artifacts, runs, lock, job>>

UndoTicket(p) ==
    LET t == job[p].tid IN
    /\ pc[p] = "undoTicket"
    /\ \/ /\ tickets' = IF Exists(t) THEN [tickets EXCEPT ![t].closed = job[p].wasClosed]
                                     ELSE tickets
          /\ UNCHANGED left
       \/ Exists(t) /\ Fault /\ UNCHANGED tickets
    /\ lock' = Free
    /\ Finish(p)
    /\ UNCHANGED <<ledger, claims, artifacts, runs>>

-----------------------------------------------------------------------------
(* The world around the commands. *)

\* A worker, or a human, rewrites a run.json: its own claim, or its gate.
EditRun(c) ==
    /\ Spend("edits")
    /\ \/ \E o \in {"failed", "achieved"} :
             runs' = [runs EXCEPT ![c].base = o] \/ runs' = [runs EXCEPT ![c].rerun = o]
       \/ runs' = [runs EXCEPT ![c].gated = ~@]
    /\ runs' # runs
    /\ UNCHANGED <<ledger, tickets, claims, artifacts, lock, pc, job>>

\* The process is killed; what it wrote stays, and so does its lock file.
Crash(p) ==
    /\ pc[p] # "idle"
    /\ Spend("crashes")
    /\ lock' = IF lock = p THEN Abandoned ELSE lock
    /\ Finish(p)
    /\ UNCHANGED files

Start(p) == StartDispatch(p) \/ StartObjective(p) \/ StartVerify(p)

Step(p) ==
    \/ Pick(p) \/ Scan(p) \/ FindTicket(p) \/ CreateTicket(p) \/ Claim(p) \/ Lease(p)
    \/ Commit(p) \/ WriteSpec(p) \/ WriteRow(p)
    \/ RollbackClaim(p) \/ RollbackTicket(p) \/ RollbackSpec(p) \/ RollbackRow(p)
    \/ GiveBack(p) \/ DropTicket(p) \/ Mark(p) \/ MarkRow(p)
    \/ RunGate(p) \/ Miss(p) \/ Close(p) \/ CloseRow(p) \/ CloseClaim(p) \/ CloseTicket(p)
    \/ UndoRow(p) \/ UndoClaims(p) \/ UndoTicket(p)

\* The bound on commands is used up and every one has returned.
Finished ==
    /\ left.ops = 0
    /\ \A p \in Procs : pc[p] = "idle"
    /\ UNCHANGED vars

Next ==
    \/ \E p \in Procs : Start(p) \/ Step(p) \/ Crash(p)
    \/ \E c \in Cases : EditRun(c)
    \/ Finished

Spec == Init /\ [][Next]_vars

\* Commands run to their end, unless killed.
FairSpec == Spec /\ \A p \in Procs : WF_vars(Step(p))

-----------------------------------------------------------------------------
(* Properties *)

TypeOK ==
    /\ ledger \in [Cases -> Row]
    /\ tickets \in [Ids -> Ticket]
    /\ claims \in Registry
    /\ artifacts \in [Ids -> 0..NumCases]
    /\ runs \in [Cases -> Run]
    /\ lock \in Procs \cup {Free, Abandoned}
    /\ pc \in [Procs -> Location]
    /\ job \in [Procs -> Job]
    /\ left \in [ops : Nat, edits : Nat, faults : Nat, timeouts : Nat, crashes : Nat]

\* Places inside the critical section of the claims lock.
Locked == {"spec", "row", "rbClaim", "rbTicket", "rbSpec", "rbRow", "markRow",
           "closeRow", "closeClaim", "closeTicket", "undoRow", "undoClaims", "undoTicket"}

\* Places where a command has changed some of the files of its case and not
\* yet the rest.
InFlight(c) ==
    \E p \in Procs :
        /\ job[p].case = c
        /\ pc[p] \in Locked \cup {"commit", "giveBack", "dropTicket"}

\* A row that says dispatched always has a ticket of the case with a spec of
\* the case beside it, even when processes die at any point: the spec is
\* written first and the row last (loopcmd.rs:815).
DispatchedHasSpec ==
    \A c \in Cases : ledger[c].state = "dispatched" =>
        \E t \in Ids : tickets[t].case = c /\ artifacts[t] = c

\* As long as no process was killed, and while no command is in the middle of
\* a case, its lease tells the same story as its row: a dispatched case is
\* leased, a final one is not, and a closed one has its ticket closed.
LeaseMatchesRow ==
    left.crashes = MaxCrashes => \A c \in Cases : ~InFlight(c) =>
        /\ Leased(c) <=> ledger[c].state = "dispatched"
        /\ ledger[c].state = "closed" =>
              \A t \in Ids : t = ledger[c].closedTicket => tickets[t].case = c /\ tickets[t].closed

\* Two dispatches that both find no ticket create one between them
\* (loopcmd.rs:980: two leases for one case would strand the loser).
OneTicketPerCase ==
    \A t, u \in Ids : tickets[t].case = tickets[u].case /\ tickets[t].case # 0 => t = u

\* A final row is never opened again: the only step from a final to a live
\* state is the rollback, by the same verify, of its own unfinished close.
NeverReopened ==
    [][\A c \in Cases :
          Terminal(ledger[c]) /\ ~Terminal(ledger'[c])
             => \E p \in Procs : pc[p] = "undoRow" /\ job[p].case = c]_vars

\* The attempts of a case, which the rerun bound counts, never go down and
\* never vanish with the row, through failures, rollbacks and crashes: only a
\* close of a row that did not exist takes back the row it wrote itself.
AttemptsKept ==
    [][\A c \in Cases :
          ledger'[c].attempts < ledger[c].attempts
             => \E p \in Procs :
                   pc[p] = "undoRow" /\ job[p].case = c /\ job[p].prior.attempts = 0]_vars

\* A lease ends only through a command of its claimant or by the exhaustion of
\* its case; and no command overwrites it with another's.
LeaseKeptFromOthers ==
    [][\A t \in Ids :
          claims[t] # NoOne /\ claims'[t] # claims[t]
             => /\ claims'[t] = NoOne
                /\ \E p \in Procs :
                      /\ pc[p] # pc'[p]
                      /\ \/ job[p].who = claims[t]
                         \/ pc[p] = "mark" /\ job[p].goal = "exhausted"]_vars

\* Seen without the unfinished closes, the rows follow the life cycle.
Closing(p, c) ==
    pc[p] \in {"closeClaim", "closeTicket", "undoRow"} /\ job[p].case = c
GapOf(c) ==
    IF \E p \in Procs : Closing(p, c)
    THEN job[CHOOSE p \in Procs : Closing(p, c)].prior.state
    ELSE ledger[c].state
Lifecycle == INSTANCE GapLifecycle WITH gap <- [c \in Cases |-> GapOf(c)]
FollowsLifecycle == Lifecycle!Spec

\* Every command returns, although each waits for a lock the others hold or
\* have died with.
CommandsReturn == \A p \in Procs : pc[p] # "idle" ~> pc[p] = "idle"

-----------------------------------------------------------------------------
(* Promises of the documents and comments that the code does not keep; each *)
(* is the property of a run that TLC finds violated.                        *)

\* A final row never changes again, but for the rollback of an unfinished
\* close ("Does a closed gap STAY closed?", PIPELINE-DESIGN.md:295).
TerminalIsFinal ==
    [][\A c \in Cases :
          Terminal(ledger[c]) /\ ledger'[c] # ledger[c]
             => \E p \in Procs : pc[p] = "undoRow" /\ job[p].case = c]_vars

\* A dispatch that fails leaves no lease behind: when no command runs, every
\* lease is for a ticket that exists and a case that is dispatched
\* (loopcmd.rs:734, "Stranded-lease guard").
NoStrandedLease ==
    (\A p \in Procs : pc[p] = "idle") =>
        \A t \in Ids : claims[t] # NoOne =>
            /\ Exists(t)
            /\ \A c \in Cases : tickets[t].case = c => ledger[c].state = "dispatched"

\* The ticket a closed row points at is never deleted (loopcmd.rs:763).
ClosedRecordKept ==
    \A c \in Cases : ledger[c].state = "closed" /\ ledger[c].closedTicket # 0
        => Exists(ledger[c].closedTicket)

\* A close is all or nothing: once it is no longer under way, the row is
\* closed only with the lease released and the ticket closed
\* (ARCHITECTURE-CONDENSED.md:122, "One atomic close").
CloseIsAtomic ==
    \A c \in Cases, t \in Ids :
        ledger[c].state = "closed" /\ ledger[c].closedTicket = t /\ ~InFlight(c)
            => claims[t] = NoOne /\ tickets[t].closed

\* A case that left the loop holds no lease: nothing would release it any
\* more (loopcmd.rs:213).
FinalHasNoLease ==
    \A c \in Cases : Terminal(ledger[c]) /\ ~InFlight(c) => ~Leased(c)

\* No dispatch commits for a case whose attempts exceed the bound
\* (ARCHITECTURE-CONDENSED.md:267, "ENFORCED at dispatch time").
BoundEnforced ==
    [][\A p \in Procs :
          pc[p] = "row" /\ ledger' # ledger => ~ExceedsBound(job[p].case)]_vars
=============================================================================
