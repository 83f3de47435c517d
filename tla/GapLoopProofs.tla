---------------------------- MODULE GapLoopProofs ----------------------------
(***************************************************************************)
(* Theorems about GapLoop for any number of processes, claimants, cases,   *)
(* tickets and bounds.                                                     *)
(***************************************************************************)
EXTENDS GapLoop, WellFoundedInduction, TLAPS

-----------------------------------------------------------------------------
(* Type correctness.  A running command has a case, which the types alone  *)
(* do not say.                                                             *)

FilesOK ==
    /\ ledger \in [Cases -> Row]
    /\ tickets \in [Ids -> Ticket]
    /\ claims \in Registry
    /\ artifacts \in [Ids -> 0..NumCases]
    /\ runs \in [Cases -> Run]

Left == [ops : Nat, edits : Nat, faults : Nat, timeouts : Nat, crashes : Nat]

ControlOK ==
    /\ pc \in [Procs -> Location]
    /\ job \in [Procs -> Job]
    /\ \A p \in Procs : pc[p] # "idle" => job[p].case \in Cases

LockOK == lock \in Procs \cup {Free, Abandoned}

TypeInv == FilesOK /\ ControlOK /\ LockOK /\ left \in Left

LEMMA TypeInvGivesTypeOK == TypeInv => TypeOK
BY DEF TypeInv, FilesOK, ControlOK, LockOK, Left, TypeOK

\* The numbers 0, the cases and the tickets are where the types say.
LEMMA Numbers ==
    /\ 0 \in 0..NumCases /\ 0 \in 0..MaxTicket
    /\ \A c \in Cases : c \in 0..NumCases
    /\ \A t \in Ids : t \in 0..MaxTicket
    /\ 1 \in Cases
BY GapLoopAssumption DEF Cases, Ids

LEMMA NoRowTyped == NoRow \in Row
BY Numbers DEF NoRow, Row, RowState

LEMMA NoTicketTyped == NoTicketFile \in Ticket
BY Numbers DEF NoTicketFile, Ticket

LEMMA NoJobTyped == NoJob \in Job
BY Numbers, NoRowTyped DEF NoJob, Job, Registry

\* ticket_for_case answers a ticket or nothing.
LEMMA TicketForTyped == \A c : TicketFor(c) \in 0..MaxTicket
<1> TAKE c
<1>1. CASE \E t \in Ids : IsFirstFor(t, c)
  BY <1>1, Numbers DEF TicketFor
<1>2. CASE ~ \E t \in Ids : IsFirstFor(t, c)
  BY <1>2, Numbers DEF TicketFor
<1> QED
  BY <1>1, <1>2

LEMMA SpendTyped ==
    ASSUME left \in Left,
           NEW k \in {"ops", "edits", "faults", "timeouts", "crashes"},
           Spend(k)
    PROVE  left' \in Left
<1>1. left[k] \in Nat
  BY DEF Left
<1>2. left[k] - 1 \in Nat
  BY <1>1 DEF Spend
<1> QED
  BY <1>2 DEF Spend, Left

-----------------------------------------------------------------------------
(* The control of a command. *)

LEMMA MoveTyped ==
    ASSUME ControlOK, NEW p \in Procs, NEW l \in Location, NEW j \in Job,
           Goto(p, l), Set(p, j), l # "idle" => j.case \in Cases
    PROVE  ControlOK'
BY DEF ControlOK, Goto, Set

LEMMA GotoTyped ==
    ASSUME ControlOK, NEW p \in Procs, NEW l \in Location,
           Goto(p, l), UNCHANGED job, pc[p] # "idle"
    PROVE  ControlOK'
BY DEF ControlOK, Goto

LEMMA FinishTyped ==
    ASSUME ControlOK, NEW p \in Procs, Finish(p)
    PROVE  ControlOK'
BY MoveTyped, NoJobTyped DEF Finish, Location

LEMMA NextDirTyped ==
    ASSUME ControlOK, NEW p \in Procs, NEW j \in Job, NextDir(p, j)
    PROVE  ControlOK'
<1>1. CASE j.case < NumCases
  <2> DEFINE n == [NoJob EXCEPT !.who = j.who, !.mode = j.mode, !.case = j.case + 1,
                                !.spent = j.spent, !.planned = j.planned]
  <2>1. j.case + 1 \in Cases /\ j.case + 1 \in 0..NumCases
    BY <1>1, GapLoopAssumption DEF Job, Cases
  <2>2. n \in Job /\ n.case \in Cases
    BY <2>1, NoJobTyped DEF Job, NoJob
  <2>3. Goto(p, "scan") /\ Set(p, n)
    BY <1>1 DEF NextDir
  <2> QED
    BY <2>2, <2>3, MoveTyped DEF Location
<1>2. CASE ~(j.case < NumCases)
  BY <1>2, FinishTyped DEF NextDir
<1> QED
  BY <1>1, <1>2

LEMMA AfterMarkTyped ==
    ASSUME ControlOK, NEW p \in Procs, AfterMark(p)
    PROVE  ControlOK'
<1>1. job[p] \in Job
  BY DEF ControlOK
<1> QED
  BY <1>1, FinishTyped, NextDirTyped DEF AfterMark

-----------------------------------------------------------------------------
(* The files a command writes. *)

LEMMA ReleasedTyped ==
    ASSUME claims \in Registry, NEW t, NEW k
    PROVE  Released(t, k) \in Registry
BY DEF Released, Registry

LEMMA RowTyped ==
    /\ \A row \in Row : DispatchedRow(row) \in Row
    /\ \A row \in Row, t \in 0..MaxTicket : ClosedRow(row, t) \in Row
    /\ \A row \in Row, g \in {"exhausted", "unverifiable"} :
          [row EXCEPT !.state = g] \in Row
    /\ \A row \in Row : [row EXCEPT !.attempts = @ + 1] \in Row
<1>1. \A row \in Row : row.attempts \in Nat /\ row.attempts + 1 \in Nat
  BY DEF Row
<1> QED
  BY <1>1 DEF DispatchedRow, ClosedRow, Row, RowState

\* The local variables of a running command have the types of Job.
LEMMA JobFields ==
    ASSUME ControlOK, NEW p \in Procs
    PROVE  /\ job[p] \in Job
           /\ job[p].who \in Claimants \cup {NoOne}
           /\ job[p].tid \in 0..MaxTicket
           /\ job[p].goal \in {"exhausted", "unverifiable"}
           /\ job[p].prior \in Row
           /\ job[p].snap \in Registry
           /\ job[p].wasClosed \in BOOLEAN
           /\ job[p].spent \in Nat /\ job[p].planned \in Nat
           /\ pc[p] # "idle" => job[p].case \in Cases
BY DEF ControlOK, Job

-----------------------------------------------------------------------------
(* Every action keeps the types. *)

LEMMA StartTyped ==
    ASSUME TypeInv, NEW p \in Procs, Start(p)
    PROVE  TypeInv'
<1> USE DEF TypeInv, FilesOK, LockOK, files
<1>1. left' \in Left
  BY SpendTyped DEF Start, StartDispatch, StartObjective, StartVerify
<1>2. CASE StartDispatch(p)
  <2>1. ASSUME NEW k \in Claimants, NEW c \in Cases,
               Set(p, [NoJob EXCEPT !.who = k, !.case = c]), Goto(p, "pick")
        PROVE  ControlOK'
    <3>1. [NoJob EXCEPT !.who = k, !.case = c] \in Job
      BY NoJobTyped, Numbers DEF Job
    <3>2. [NoJob EXCEPT !.who = k, !.case = c].case = c
      BY DEF NoJob
    <3> QED
      BY <2>1, <3>1, <3>2, MoveTyped DEF Location
  <2>2. ASSUME NEW k \in Claimants, Goto(p, "scan"),
               Set(p, [NoJob EXCEPT !.who = k, !.case = 1, !.mode = "auto"])
        PROVE  ControlOK'
    <3>1. [NoJob EXCEPT !.who = k, !.case = 1, !.mode = "auto"] \in Job
      BY NoJobTyped, Numbers DEF Job
    <3>2. [NoJob EXCEPT !.who = k, !.case = 1, !.mode = "auto"].case = 1
      BY DEF NoJob
    <3> QED
      BY <2>2, <3>1, <3>2, Numbers, MoveTyped DEF Location
  <2> QED
    BY <1>1, <1>2, <2>1, <2>2 DEF StartDispatch
<1>3. CASE StartObjective(p)
  <2>1. PICK k \in Claimants :
           Set(p, [NoJob EXCEPT !.who = k, !.case = 1, !.mode = "plan"])
    BY <1>3 DEF StartObjective
  <2>2. [NoJob EXCEPT !.who = k, !.case = 1, !.mode = "plan"] \in Job
    BY NoJobTyped, Numbers DEF Job
  <2>3. [NoJob EXCEPT !.who = k, !.case = 1, !.mode = "plan"].case = 1
    BY DEF NoJob
  <2>4. ControlOK'
    BY <1>3, <2>1, <2>2, <2>3, Numbers, MoveTyped DEF StartObjective, Location
  <2> QED
    BY <1>1, <1>3, <2>4 DEF StartObjective
<1>4. CASE StartVerify(p)
  <2>1. PICK k \in Claimants, c \in Cases, d \in {"base", "rerun"},
             g \in {"declared", "trusted", "none"} :
           Set(p, [NoJob EXCEPT !.who = k, !.case = c, !.dir = d, !.gate = g])
    BY <1>4 DEF StartVerify
  <2>2. [NoJob EXCEPT !.who = k, !.case = c, !.dir = d, !.gate = g] \in Job
    BY NoJobTyped, Numbers DEF Job
  <2>3. [NoJob EXCEPT !.who = k, !.case = c, !.dir = d, !.gate = g].case = c
    BY DEF NoJob
  <2>4. Goto(p, "gate") /\ UNCHANGED <<files, lock>>
    BY <1>4 DEF StartVerify
  <2>5. ControlOK'
    BY <2>1, <2>2, <2>3, <2>4, MoveTyped DEF Location
  <2> QED
    BY <1>1, <2>4, <2>5
<1> QED
  BY <1>2, <1>3, <1>4 DEF Start

LEMMA PickingTyped ==
    ASSUME TypeInv, NEW p \in Procs,
           Pick(p) \/ Scan(p) \/ FindTicket(p) \/ Claim(p) \/ RunGate(p)
    PROVE  TypeInv'
<1> USE DEF TypeInv, FilesOK, LockOK, files
<1>1. /\ \A g \in {"exhausted", "unverifiable"} : [job[p] EXCEPT !.goal = g] \in Job
      /\ \A g \in {"exhausted", "unverifiable"} :
            [job[p] EXCEPT !.goal = g, !.mode = "one"] \in Job
      /\ \A t \in 0..MaxTicket : [job[p] EXCEPT !.tid = t] \in Job
  BY JobFields DEF Job
<1>2. /\ \A g : [job[p] EXCEPT !.goal = g].case = job[p].case
      /\ \A g : [job[p] EXCEPT !.goal = g, !.mode = "one"].case = job[p].case
      /\ \A t : [job[p] EXCEPT !.tid = t].case = job[p].case
  BY JobFields DEF Job
<1>3. CASE Pick(p)
  <2>1. ControlOK'
    BY <1>1, <1>2, <1>3, JobFields, MoveTyped, GotoTyped, FinishTyped DEF Pick, Location
  <2> QED
    BY <1>3, <2>1 DEF Pick
<1>4. CASE Scan(p)
  <2>1. ControlOK'
    BY <1>1, <1>2, <1>4, JobFields, MoveTyped, GotoTyped, FinishTyped, NextDirTyped
       DEF Scan, Location
  <2> QED
    BY <1>4, <2>1 DEF Scan
<1>5. CASE FindTicket(p)
  <2>1. ControlOK'
    BY <1>1, <1>2, <1>5, JobFields, MoveTyped, GotoTyped, TicketForTyped
       DEF FindTicket, Location
  <2> QED
    BY <1>5, <2>1 DEF FindTicket
<1>6. CASE Claim(p)
  <2>1. ControlOK'
    BY <1>6, GotoTyped, FinishTyped DEF Claim, Location
  <2> QED
    BY <1>6, <2>1 DEF Claim
<1>7. CASE RunGate(p)
  <2>1. ControlOK'
    BY <1>7, GotoTyped, FinishTyped DEF RunGate, Location
  <2> QED
    BY <1>7, <2>1 DEF RunGate
<1> QED
  BY <1>3, <1>4, <1>5, <1>6, <1>7

LEMMA FaultTyped ==
    ASSUME left \in Left
    PROVE  Fault \/ TimesOut => left' \in Left
BY SpendTyped DEF Fault, TimesOut

LEMMA LeasingTyped ==
    ASSUME TypeInv, NEW p \in Procs, CreateTicket(p) \/ Lease(p) \/ Commit(p) \/ GiveBack(p)
    PROVE  TypeInv'
<1> USE FaultTyped DEF TypeInv, FilesOK, LockOK, files
<1>0. pc[p] # "idle"
  BY DEF CreateTicket, Lease, Commit, GiveBack
<1>1. CASE CreateTicket(p)
  <2>1. /\ \A t \in 0..MaxTicket : [job[p] EXCEPT !.tid = t, !.made = TRUE] \in Job
        /\ \A t : [job[p] EXCEPT !.tid = t, !.made = TRUE].case = job[p].case
    BY JobFields DEF Job
  <2>2. ControlOK'
    BY <1>0, <1>1, <2>1, JobFields, MoveTyped, FinishTyped, TicketForTyped, Numbers
       DEF CreateTicket, Location
  <2>3. [NoTicketFile EXCEPT !.case = job[p].case] \in Ticket
    BY <1>0, JobFields, NoTicketTyped, Numbers DEF Ticket
  <2>4. tickets' \in [Ids -> Ticket]
    BY <1>1, <2>3 DEF CreateTicket
  <2> QED
    BY <1>1, <2>2, <2>4 DEF CreateTicket
<1>2. CASE Lease(p)
  <2>1. ControlOK'
    BY <1>0, <1>2, GotoTyped, FinishTyped DEF Lease, Location
  <2>2. claims' \in Registry
    BY <1>2, JobFields DEF Lease, Registry
  <2> QED
    BY <1>2, <2>1, <2>2 DEF Lease
<1>3. CASE Commit(p)
  <2>1. [job[p] EXCEPT !.prior = ledger[job[p].case]] \in Job
    BY <1>0, JobFields DEF Job
  <2>2. [job[p] EXCEPT !.prior = ledger[job[p].case]].case = job[p].case
    BY JobFields DEF Job
  <2>3. ControlOK'
    BY <1>0, <1>3, <2>1, <2>2, JobFields, MoveTyped, GotoTyped DEF Commit, Location
  <2>4. claims' \in Registry
    BY <1>3, ReleasedTyped DEF Commit
  <2> QED
    BY <1>3, <2>3, <2>4 DEF Commit
<1>4. CASE GiveBack(p)
  <2>1. ControlOK'
    BY <1>0, <1>4, GotoTyped DEF GiveBack, Location
  <2>2. claims' \in Registry
    BY <1>4, ReleasedTyped DEF GiveBack
  <2> QED
    BY <1>4, <2>1, <2>2 DEF GiveBack
<1> QED
  BY <1>1, <1>2, <1>3, <1>4

LEMMA WritingTyped ==
    ASSUME TypeInv, NEW p \in Procs, WriteSpec(p) \/ WriteRow(p) \/ DropTicket(p)
    PROVE  TypeInv'
<1> USE FaultTyped DEF TypeInv, FilesOK, LockOK, files
<1>0. pc[p] # "idle"
  BY DEF WriteSpec, WriteRow, DropTicket
<1>1. CASE WriteSpec(p)
  <2>1. ControlOK'
    BY <1>0, <1>1, GotoTyped DEF WriteSpec, Location
  <2>2. artifacts' \in [Ids -> 0..NumCases]
    BY <1>0, <1>1, JobFields, Numbers DEF WriteSpec
  <2> QED
    BY <1>1, <2>1, <2>2 DEF WriteSpec
<1>2. CASE WriteRow(p)
  <2>0. job[p].spent + Costs[job[p].case] \in Nat /\ job[p].planned + 1 \in Nat
    BY <1>0, JobFields, GapLoopAssumption
  <2>1. [job[p] EXCEPT !.spent = @ + Costs[job[p].case], !.planned = @ + 1] \in Job
    BY <2>0, JobFields DEF Job
  <2>2. ControlOK'
    BY <1>0, <1>2, <2>1, GotoTyped, FinishTyped, NextDirTyped DEF WriteRow, Location
  <2>3. ledger' \in [Cases -> Row]
    BY <1>2, JobFields, RowTyped DEF WriteRow
  <2> QED
    BY <1>2, <2>2, <2>3 DEF WriteRow
<1>3. CASE DropTicket(p)
  <2>1. ControlOK'
    BY <1>3, FinishTyped DEF DropTicket
  <2>2. tickets' \in [Ids -> Ticket]
    BY <1>3, NoTicketTyped DEF DropTicket
  <2> QED
    BY <1>3, <2>1, <2>2 DEF DropTicket
<1> QED
  BY <1>1, <1>2, <1>3

LEMMA RollbackTyped ==
    ASSUME TypeInv, NEW p \in Procs,
           RollbackClaim(p) \/ RollbackTicket(p) \/ RollbackSpec(p) \/ RollbackRow(p)
    PROVE  TypeInv'
<1> USE FaultTyped DEF TypeInv, FilesOK, LockOK, files
<1>0. pc[p] # "idle"
  BY DEF RollbackClaim, RollbackTicket, RollbackSpec, RollbackRow
<1>1. CASE RollbackClaim(p)
  BY <1>0, <1>1, GotoTyped, ReleasedTyped DEF RollbackClaim, Location
<1>2. CASE RollbackTicket(p)
  BY <1>0, <1>2, GotoTyped, NoTicketTyped DEF RollbackTicket, Location
<1>3. CASE RollbackSpec(p)
  BY <1>0, <1>3, GotoTyped, Numbers DEF RollbackSpec, Location
<1>4. CASE RollbackRow(p)
  BY <1>4, FinishTyped, JobFields DEF RollbackRow
<1> QED
  BY <1>1, <1>2, <1>3, <1>4

LEMMA MarkTyped ==
    ASSUME TypeInv, NEW p \in Procs, Mark(p) \/ MarkRow(p)
    PROVE  TypeInv'
<1> USE FaultTyped DEF TypeInv, FilesOK, LockOK, files
<1>0. pc[p] # "idle"
  BY DEF Mark, MarkRow
<1>1. CASE Mark(p)
  <2>1. [job[p] EXCEPT !.prior = ledger[job[p].case]] \in Job
    BY <1>0, JobFields DEF Job
  <2>2. [job[p] EXCEPT !.prior = ledger[job[p].case]].case = job[p].case
    BY JobFields DEF Job
  <2>3. ControlOK'
    BY <1>0, <1>1, <2>1, <2>2, JobFields, MoveTyped, AfterMarkTyped DEF Mark, Location
  <2>4. claims' \in Registry
    BY <1>1 DEF Mark, Registry
  <2> QED
    BY <1>1, <2>3, <2>4 DEF Mark
<1>2. CASE MarkRow(p)
  <2>0. [job[p].prior EXCEPT !.state = job[p].goal] \in Row
    BY JobFields, RowTyped
  <2>1. ledger' \in [Cases -> Row]
    BY <1>2, <2>0 DEF MarkRow
  <2> QED
    BY <1>2, <2>1, AfterMarkTyped DEF MarkRow
<1> QED
  BY <1>1, <1>2

LEMMA VerifyTyped ==
    ASSUME TypeInv, NEW p \in Procs,
           Miss(p) \/ Close(p) \/ CloseRow(p) \/ CloseClaim(p) \/ CloseTicket(p)
    PROVE  TypeInv'
<1> USE FaultTyped DEF TypeInv, FilesOK, LockOK, files
<1>0. pc[p] # "idle"
  BY DEF Miss, Close, CloseRow, CloseClaim, CloseTicket
<1>1. CASE Miss(p)
  <2>1. [ledger[job[p].case] EXCEPT !.attempts = @ + 1] \in Row
    BY <1>0, JobFields, RowTyped
  <2>2. ledger' \in [Cases -> Row]
    BY <1>1, <2>1 DEF Miss
  <2> QED
    BY <1>1, <2>2, FinishTyped DEF Miss
<1>2. CASE Close(p)
  <2> DEFINE c == job[p].case
             j == [job[p] EXCEPT !.prior = ledger[c], !.snap = claims,
                                 !.tid = TicketFor(c), !.wasClosed = TicketClosed(c)]
  <2>1. ledger[c] \in Row /\ TicketFor(c) \in 0..MaxTicket /\ TicketClosed(c) \in BOOLEAN
    BY <1>0, JobFields, TicketForTyped DEF TicketClosed
  <2>2. j \in Job /\ j.case = c
    BY <2>1, JobFields DEF Job
  <2>3. ControlOK'
    BY <1>0, <1>2, <2>2, JobFields, MoveTyped, FinishTyped DEF Close, Location
  <2> QED
    BY <1>2, <2>3 DEF Close
<1>3. CASE CloseRow(p)
  <2>1. ledger' \in [Cases -> Row]
    BY <1>3, JobFields, RowTyped DEF CloseRow
  <2>2. ControlOK'
    BY <1>0, <1>3, GotoTyped, FinishTyped DEF CloseRow, Location
  <2> QED
    BY <1>3, <2>1, <2>2 DEF CloseRow
<1>4. CASE CloseClaim(p)
  <2>1. claims' \in Registry
    BY <1>4, JobFields DEF CloseClaim, Registry
  <2>2. ControlOK'
    BY <1>0, <1>4, GotoTyped DEF CloseClaim, Location
  <2> QED
    BY <1>4, <2>1, <2>2 DEF CloseClaim
<1>5. CASE CloseTicket(p)
  <2>0. \A k \in Ticket : [k EXCEPT !.closed = TRUE] \in Ticket
    BY DEF Ticket
  <2>1. tickets' \in [Ids -> Ticket]
    BY <1>5, <2>0 DEF CloseTicket
  <2>2. ControlOK'
    BY <1>0, <1>5, GotoTyped, FinishTyped DEF CloseTicket, Location
  <2> QED
    BY <1>5, <2>1, <2>2 DEF CloseTicket
<1> QED
  BY <1>1, <1>2, <1>3, <1>4, <1>5

LEMMA UndoTyped ==
    ASSUME TypeInv, NEW p \in Procs, UndoRow(p) \/ UndoClaims(p) \/ UndoTicket(p)
    PROVE  TypeInv'
<1> USE FaultTyped, JobFields DEF TypeInv, FilesOK, LockOK, files
<1>0. pc[p] # "idle"
  BY DEF UndoRow, UndoClaims, UndoTicket
<1>1. CASE UndoRow(p)
  BY <1>0, <1>1, GotoTyped DEF UndoRow, Location
<1>2. CASE UndoClaims(p)
  BY <1>0, <1>2, GotoTyped DEF UndoClaims, Location
<1>3. CASE UndoTicket(p)
  <2>0. \A k \in Ticket : [k EXCEPT !.closed = job[p].wasClosed] \in Ticket
    BY DEF Ticket
  <2>1. tickets' \in [Ids -> Ticket]
    BY <1>3, <2>0 DEF UndoTicket
  <2> QED
    BY <1>3, <2>1, FinishTyped DEF UndoTicket
<1> QED
  BY <1>1, <1>2, <1>3

LEMMA WorldTyped ==
    ASSUME TypeInv
    PROVE  /\ \A p \in Procs : Crash(p) => TypeInv'
           /\ \A c \in Cases : EditRun(c) => TypeInv'
<1> USE DEF TypeInv, FilesOK, LockOK, files
<1>1. ASSUME NEW p \in Procs, Crash(p) PROVE TypeInv'
  <2>1. left' \in Left
    BY <1>1, SpendTyped DEF Crash
  <2> QED
    BY <1>1, <2>1, FinishTyped DEF Crash
<1>2. ASSUME NEW c \in Cases, EditRun(c) PROVE TypeInv'
  <2>1. left' \in Left
    BY <1>2, SpendTyped DEF EditRun
  <2>0. /\ \A o \in {"failed", "achieved"} : [runs[c] EXCEPT !.base = o] \in Run
        /\ \A o \in {"failed", "achieved"} : [runs[c] EXCEPT !.rerun = o] \in Run
        /\ [runs[c] EXCEPT !.gated = ~@] \in Run
    BY DEF Run, Outcome
  <2>2. runs' \in [Cases -> Run]
    <3>1. ASSUME NEW o \in {"failed", "achieved"}, runs' = [runs EXCEPT ![c].base = o]
          PROVE  runs' \in [Cases -> Run]
      BY <2>0, <3>1
    <3>2. ASSUME NEW o \in {"failed", "achieved"}, runs' = [runs EXCEPT ![c].rerun = o]
          PROVE  runs' \in [Cases -> Run]
      BY <2>0, <3>2
    <3>3. CASE runs' = [runs EXCEPT ![c].gated = ~@]
      BY <2>0, <3>3
    <3> QED
      BY <1>2, <3>1, <3>2, <3>3 DEF EditRun
  <2>3. ControlOK'
    BY <1>2 DEF EditRun, ControlOK
  <2> QED
    BY <1>2, <2>1, <2>2, <2>3 DEF EditRun
<1> QED
  BY <1>1, <1>2

LEMMA InitTypeInv == Init => TypeInv
<1> SUFFICES ASSUME Init PROVE TypeInv
  OBVIOUS
<1>1. left \in Left
  BY GapLoopAssumption DEF Init, Left
<1>2. FilesOK
  BY GapLoopAssumption, NoRowTyped, Numbers DEF Init, FilesOK, Registry
<1>3. ControlOK
  BY NoJobTyped DEF Init, ControlOK, Location
<1> QED
  BY <1>1, <1>2, <1>3 DEF Init, TypeInv, LockOK

LEMMA StepTypeInv == TypeInv /\ [Next]_vars => TypeInv'
<1> SUFFICES ASSUME TypeInv, [Next]_vars PROVE TypeInv'
  OBVIOUS
<1>1. ASSUME NEW p \in Procs, Step(p) PROVE TypeInv'
  BY <1>1, PickingTyped, LeasingTyped, WritingTyped, RollbackTyped, MarkTyped, VerifyTyped,
     UndoTyped DEF Step
<1>2. CASE UNCHANGED vars
  BY <1>2 DEF vars, files, TypeInv, FilesOK, ControlOK, LockOK
<1> QED
  BY <1>1, <1>2, StartTyped, WorldTyped DEF Next, Finished

\* Every reachable state of the gap loop of loopcmd.rs is well typed: no
\* index runs past the directories or the tickets, every row, lease and ticket
\* written is one.
THEOREM TypeCorrect == Spec => []TypeOK
<1>1. Init => TypeInv
  BY InitTypeInv
<1>2. TypeInv /\ [Next]_vars => TypeInv'
  BY StepTypeInv
<1>3. TypeInv => TypeOK
  BY TypeInvGivesTypeOK
<1> QED
  BY <1>1, <1>2, <1>3, PTL DEF Spec

-----------------------------------------------------------------------------
(* The critical section: what a process that holds the claims lock knows   *)
(* of the row and of the registry from one of its writes to the next.      *)

\* The row is as it was when the section read it.
RowUnwritten == {"spec", "row", "rbClaim", "rbTicket", "rbSpec", "rbRow", "markRow", "closeRow"}

\* The row is the one the close wrote.
RowClosed == {"closeClaim", "closeTicket", "undoRow"}

Section(p) ==
    LET j == job[p] IN
    /\ pc[p] \in Locked => lock = p
    /\ pc[p] \in RowUnwritten => ledger[j.case] = j.prior
    /\ pc[p] \in RowClosed => ledger[j.case] = ClosedRow(j.prior, j.tid)
    /\ pc[p] \in {"spec", "row"} => ~Terminal(j.prior)
    /\ pc[p] \in {"closeRow", "closeClaim"} => claims = j.snap
    /\ pc[p] \in {"closeTicket", "undoRow", "undoClaims"}
          => \A t \in Ids : claims[t] # j.snap[t] => claims[t] = NoOne

SectionInv == \A p \in Procs : Section(p)

\* Where a command can be after one of the moves of its control.
LEMMA MovesOwn ==
    ASSUME ControlOK, NEW p \in Procs
    PROVE  /\ \A l : Goto(p, l) => pc'[p] = l /\ \A q \in Procs \ {p} : pc'[q] = pc[q]
           /\ \A j : Set(p, j) => job'[p] = j /\ \A q \in Procs \ {p} : job'[q] = job[q]
           /\ Finish(p) => /\ pc'[p] = "idle"
                           /\ \A q \in Procs \ {p} : pc'[q] = pc[q] /\ job'[q] = job[q]
           /\ \A j : NextDir(p, j) =>
                           /\ pc'[p] \in {"idle", "scan"}
                           /\ \A q \in Procs \ {p} : pc'[q] = pc[q] /\ job'[q] = job[q]
           /\ AfterMark(p) => /\ pc'[p] \in {"idle", "scan"}
                              /\ \A q \in Procs \ {p} : pc'[q] = pc[q] /\ job'[q] = job[q]
<1>1. \A l : Goto(p, l) => pc'[p] = l /\ \A q \in Procs \ {p} : pc'[q] = pc[q]
  BY DEF ControlOK, Goto
<1>2. \A j : Set(p, j) => job'[p] = j /\ \A q \in Procs \ {p} : job'[q] = job[q]
  BY DEF ControlOK, Set
<1>3. Finish(p) => /\ pc'[p] = "idle"
                   /\ \A q \in Procs \ {p} : pc'[q] = pc[q] /\ job'[q] = job[q]
  BY <1>1, <1>2 DEF Finish
<1>4. \A j : NextDir(p, j) =>
                   /\ pc'[p] \in {"idle", "scan"}
                   /\ \A q \in Procs \ {p} : pc'[q] = pc[q] /\ job'[q] = job[q]
  BY <1>1, <1>2, <1>3 DEF NextDir
<1> QED
  BY <1>1, <1>2, <1>3, <1>4 DEF AfterMark

\* A command moves no other command.
LEMMA MovesOnlyItself ==
    ASSUME ControlOK, NEW p \in Procs, Start(p) \/ Step(p) \/ Crash(p)
    PROVE  \A q \in Procs \ {p} : pc'[q] = pc[q] /\ job'[q] = job[q]
<1> USE MovesOwn
<1>1. CASE Start(p)
  BY <1>1 DEF Start, StartDispatch, StartObjective, StartVerify
<1>2. CASE Pick(p) \/ Scan(p) \/ FindTicket(p) \/ Claim(p) \/ RunGate(p)
  BY <1>2 DEF Pick, Scan, FindTicket, Claim, RunGate
<1>3. CASE CreateTicket(p) \/ Lease(p) \/ Commit(p) \/ GiveBack(p)
  BY <1>3 DEF CreateTicket, Lease, Commit, GiveBack
<1>4. CASE WriteSpec(p) \/ WriteRow(p) \/ DropTicket(p)
  BY <1>4 DEF WriteSpec, WriteRow, DropTicket
<1>5. CASE RollbackClaim(p) \/ RollbackTicket(p) \/ RollbackSpec(p) \/ RollbackRow(p)
  BY <1>5 DEF RollbackClaim, RollbackTicket, RollbackSpec, RollbackRow
<1>6. CASE Mark(p) \/ MarkRow(p)
  BY <1>6 DEF Mark, MarkRow
<1>7. CASE Miss(p) \/ Close(p) \/ CloseRow(p) \/ CloseClaim(p) \/ CloseTicket(p)
  BY <1>7 DEF Miss, Close, CloseRow, CloseClaim, CloseTicket
<1>8. CASE UndoRow(p) \/ UndoClaims(p) \/ UndoTicket(p)
  BY <1>8 DEF UndoRow, UndoClaims, UndoTicket
<1>9. CASE Crash(p)
  BY <1>9 DEF Crash
<1> QED
  BY <1>1, <1>2, <1>3, <1>4, <1>5, <1>6, <1>7, <1>8, <1>9 DEF Step

\* While another process holds the claims lock, a command outside the section
\* leaves the rows, the registry and the lock alone.
LEMMA LockExcludes ==
    ASSUME NEW p \in Procs, NEW q \in Procs \ {p}, lock = q, pc[p] \notin Locked,
           Start(p) \/ Step(p) \/ Crash(p)
    PROVE  UNCHANGED <<ledger, claims, lock>>
<1>0. ~LockIsUp /\ lock # p
  BY GapLoopAssumption DEF LockIsUp
<1> USE <1>0 DEF files, Locked
<1>1. CASE Start(p)
  BY <1>1 DEF Start, StartDispatch, StartObjective, StartVerify
<1>2. CASE Pick(p) \/ Scan(p) \/ FindTicket(p) \/ Claim(p) \/ RunGate(p)
  BY <1>2 DEF Pick, Scan, FindTicket, Claim, RunGate
<1>3. CASE CreateTicket(p) \/ Lease(p) \/ Commit(p) \/ GiveBack(p) \/ DropTicket(p)
  BY <1>3 DEF CreateTicket, Lease, Commit, GiveBack, DropTicket
<1>4. CASE Mark(p) \/ Miss(p) \/ Close(p)
  BY <1>4 DEF Mark, Miss, Close
<1>5. CASE Crash(p)
  BY <1>5 DEF Crash
<1>6. /\ ~WriteSpec(p) /\ ~WriteRow(p) /\ ~MarkRow(p)
      /\ ~RollbackClaim(p) /\ ~RollbackTicket(p) /\ ~RollbackSpec(p) /\ ~RollbackRow(p)
      /\ ~CloseRow(p) /\ ~CloseClaim(p) /\ ~CloseTicket(p)
      /\ ~UndoRow(p) /\ ~UndoClaims(p) /\ ~UndoTicket(p)
  BY DEF WriteSpec, WriteRow, MarkRow, RollbackClaim, RollbackTicket, RollbackSpec,
     RollbackRow, CloseRow, CloseClaim, CloseTicket, UndoRow, UndoClaims, UndoTicket
<1> QED
  BY <1>1, <1>2, <1>3, <1>4, <1>5, <1>6 DEF Step

\* What one process knows, no other process disturbs.
LEMMA OthersKeepSection ==
    ASSUME TypeInv, SectionInv, NEW p \in Procs, NEW q \in Procs \ {p},
           Start(p) \/ Step(p) \/ Crash(p)
    PROVE  Section(q)'
<1>1. pc'[q] = pc[q] /\ job'[q] = job[q]
  BY MovesOnlyItself DEF TypeInv
<1>2. CASE pc[q] \in Locked
  <2>1. lock = q
    BY <1>2 DEF SectionInv, Section
  <2>2. pc[p] \notin Locked
    BY <2>1 DEF SectionInv, Section
  <2>3. UNCHANGED <<ledger, claims, lock>>
    BY <2>1, <2>2, LockExcludes
  <2>4. Section(q)
    BY DEF SectionInv
  <2> QED
    BY <1>1, <2>3, <2>4 DEF Section, Terminal, ClosedRow
<1>3. CASE pc[q] \notin Locked
  BY <1>1, <1>3 DEF Section, Locked, RowUnwritten, RowClosed
<1> QED
  BY <1>2, <1>3

\* A process outside the section has nothing to know.
LEMMA OutsideSection ==
    ASSUME NEW p \in Procs, pc'[p] \notin Locked
    PROVE  Section(p)'
BY DEF Section, Locked, RowUnwritten, RowClosed

\* A step of a dispatch or of mark_state carries what it knows along.
LEMMA DispatchKeepsSection ==
    ASSUME TypeInv, SectionInv, NEW p \in Procs,
           \/ Commit(p) \/ WriteSpec(p) \/ WriteRow(p) \/ RollbackClaim(p)
           \/ RollbackTicket(p) \/ RollbackSpec(p) \/ Mark(p)
    PROVE  Section(p)'
<1>0. Section(p) /\ job[p] \in Job
  BY JobFields DEF SectionInv, TypeInv
<1>1. CASE Commit(p) \/ Mark(p)
  <2> DEFINE j == [job[p] EXCEPT !.prior = ledger[job[p].case]]
  <2>1. j.prior = ledger[job[p].case] /\ j.case = job[p].case
    BY <1>0 DEF Job
  <2>2. CASE lock' = p /\ Set(p, j) /\ pc'[p] \in {"rbClaim", "spec", "markRow"}
             /\ ledger' = ledger /\ (pc'[p] = "spec" => ~Terminal(ledger[job[p].case]))
    <3>1. job'[p] = j
      BY <2>2, MovesOwn DEF TypeInv
    <3> QED
      BY <2>1, <2>2, <3>1 DEF Section, Terminal, RowUnwritten, RowClosed
  <2>3. CASE pc'[p] \in {"dropTicket", "giveBack", "idle", "scan"}
    BY <2>3, OutsideSection DEF Locked
  <2> QED
    BY <1>1, <2>2, <2>3, MovesOwn DEF Commit, Mark, TypeInv
<1>2. CASE WriteSpec(p)
  <2>1. pc'[p] \in {"row", "rbClaim"}
    BY <1>2, MovesOwn DEF WriteSpec, TypeInv
  <2> QED
    BY <1>0, <1>2, <2>1 DEF WriteSpec, Section, Terminal, Locked, RowUnwritten, RowClosed
<1>3. CASE WriteRow(p)
  <2>1. CASE pc'[p] \in {"idle", "scan"}
    BY <2>1, OutsideSection DEF Locked
  <2>2. CASE pc'[p] = "rbClaim" /\ UNCHANGED <<ledger, lock, job>>
    BY <1>0, <1>3, <2>2 DEF WriteRow, Section, Locked, RowUnwritten, RowClosed
  <2> QED
    BY <1>3, <2>1, <2>2, MovesOwn DEF WriteRow, TypeInv
<1>4. CASE RollbackClaim(p) \/ RollbackTicket(p) \/ RollbackSpec(p)
  <2>1. pc'[p] \in {"rbTicket", "rbSpec", "rbRow"}
    BY <1>4, MovesOwn DEF RollbackClaim, RollbackTicket, RollbackSpec, TypeInv
  <2> QED
    BY <1>0, <1>4, <2>1 DEF RollbackClaim, RollbackTicket, RollbackSpec, Section, Locked,
       RowUnwritten, RowClosed
<1> QED
  BY <1>1, <1>2, <1>3, <1>4

\* So does a step of the close that verify makes.
LEMMA CloseKeepsSection ==
    ASSUME TypeInv, SectionInv, NEW p \in Procs,
           \/ Close(p) \/ CloseRow(p) \/ CloseClaim(p) \/ CloseTicket(p)
           \/ UndoRow(p) \/ UndoClaims(p)
    PROVE  Section(p)'
<1>0. Section(p) /\ job[p] \in Job /\ (pc[p] # "idle" => job[p].case \in Cases)
  BY JobFields DEF SectionInv, TypeInv
<1>1. CASE Close(p)
  <2> DEFINE c == job[p].case
             j == [job[p] EXCEPT !.prior = ledger[c], !.snap = claims,
                                 !.tid = TicketFor(c), !.wasClosed = TicketClosed(c)]
  <2>1. j.prior = ledger[c] /\ j.case = c /\ j.snap = claims
    BY <1>0 DEF Job
  <2>2. CASE lock' = p /\ Set(p, j) /\ pc'[p] = "closeRow"
    <3>1. job'[p] = j
      BY <2>2, MovesOwn DEF TypeInv
    <3> QED
      BY <1>1, <2>1, <2>2, <3>1 DEF Close, files, Section, RowUnwritten, RowClosed
  <2>3. CASE pc'[p] = "idle"
    BY <2>3, OutsideSection DEF Locked
  <2> QED
    BY <1>1, <2>2, <2>3, MovesOwn DEF Close, TypeInv
<1>2. CASE CloseRow(p)
  <2>1. CASE pc'[p] = "idle"
    BY <2>1, OutsideSection DEF Locked
  <2>2. CASE pc'[p] = "closeClaim" /\ UNCHANGED <<job, lock>>
             /\ ledger' = [ledger EXCEPT ![job[p].case] = ClosedRow(job[p].prior, job[p].tid)]
    <3>1. ledger'[job[p].case] = ClosedRow(job[p].prior, job[p].tid)
      BY <1>0, <1>2, <2>2 DEF CloseRow, TypeInv, FilesOK
    <3> QED
      BY <1>0, <1>2, <2>2, <3>1 DEF CloseRow, Section, Locked, RowUnwritten, RowClosed, ClosedRow
  <2> QED
    BY <1>2, <2>1, <2>2, MovesOwn DEF CloseRow, TypeInv
<1>3. CASE CloseClaim(p)
  <2>1. pc'[p] \in {"closeTicket", "undoRow"} /\ UNCHANGED <<ledger, lock, job>>
    BY <1>3, MovesOwn DEF CloseClaim, TypeInv
  <2>2. \A t \in Ids : claims'[t] # job[p].snap[t] => claims'[t] = NoOne
    BY <1>0, <1>3 DEF CloseClaim, Section, TypeInv, FilesOK, Registry
  <2> QED
    BY <1>0, <1>3, <2>1, <2>2 DEF CloseClaim, Section, Locked, RowUnwritten, RowClosed, ClosedRow
<1>4. CASE CloseTicket(p)
  <2>1. CASE pc'[p] = "idle"
    BY <2>1, OutsideSection DEF Locked
  <2>2. CASE pc'[p] = "undoRow" /\ UNCHANGED <<job, lock>>
    BY <1>0, <1>4, <2>2 DEF CloseTicket, Section, Locked, RowUnwritten, RowClosed, ClosedRow
  <2> QED
    BY <1>4, <2>1, <2>2, MovesOwn DEF CloseTicket, TypeInv
<1>5. CASE UndoRow(p)
  <2>1. pc'[p] = "undoClaims"
    BY <1>5, MovesOwn DEF UndoRow, TypeInv
  <2> QED
    BY <1>0, <1>5, <2>1 DEF UndoRow, Section, Locked, RowUnwritten, RowClosed
<1>6. CASE UndoClaims(p)
  <2>1. pc'[p] = "undoTicket"
    BY <1>6, MovesOwn DEF UndoClaims, TypeInv
  <2> QED
    BY <1>0, <1>6, <2>1 DEF UndoClaims, Section, Locked, RowUnwritten, RowClosed
<1> QED
  BY <1>1, <1>2, <1>3, <1>4, <1>5, <1>6

\* The remaining steps of a command end outside the section.
LEMMA RestEndsOutside ==
    ASSUME ControlOK, NEW p \in Procs,
           \/ Start(p) \/ Crash(p)
           \/ Pick(p) \/ Scan(p) \/ FindTicket(p) \/ Claim(p) \/ RunGate(p)
           \/ CreateTicket(p) \/ Lease(p) \/ GiveBack(p) \/ DropTicket(p)
           \/ RollbackRow(p) \/ MarkRow(p) \/ Miss(p) \/ UndoTicket(p)
    PROVE  pc'[p] \notin Locked
<1> USE MovesOwn DEF Locked
<1>1. CASE Start(p) \/ Crash(p)
  <2>1. CASE StartDispatch(p)
    <3>1. Goto(p, "pick") \/ Goto(p, "scan")
      BY <2>1 DEF StartDispatch
    <3> QED
      BY <3>1
  <2>2. CASE StartObjective(p)
    BY <2>2 DEF StartObjective
  <2>3. CASE StartVerify(p)
    <3>1. Goto(p, "gate")
      BY <2>3 DEF StartVerify
    <3> QED
      BY <3>1
  <2> QED
    BY <1>1, <2>1, <2>2, <2>3 DEF Start, Crash
<1>2. CASE Pick(p) \/ Scan(p) \/ FindTicket(p) \/ Claim(p) \/ RunGate(p)
  BY <1>2 DEF Pick, Scan, FindTicket, Claim, RunGate
<1>3. CASE CreateTicket(p) \/ Lease(p) \/ GiveBack(p) \/ DropTicket(p)
  <2>1. CASE CreateTicket(p)
    <3>1. Goto(p, "claim") \/ Finish(p)
      BY <2>1 DEF CreateTicket
    <3> QED
      BY <3>1
  <2>2. CASE Lease(p)
    <3>1. Goto(p, "commit") \/ Finish(p)
      BY <2>2 DEF Lease
    <3> QED
      BY <3>1
  <2>3. CASE GiveBack(p) \/ DropTicket(p)
    BY <2>3 DEF GiveBack, DropTicket
  <2> QED
    BY <1>3, <2>1, <2>2, <2>3
<1>4. CASE RollbackRow(p) \/ MarkRow(p) \/ Miss(p) \/ UndoTicket(p)
  BY <1>4 DEF RollbackRow, MarkRow, Miss, UndoTicket
<1> QED
  BY <1>1, <1>2, <1>3, <1>4

IInv == TypeInv /\ SectionInv

LEMMA InitIInv == Init => IInv
BY InitTypeInv DEF Init, IInv, SectionInv, Section, Locked, RowUnwritten, RowClosed

LEMMA StepIInv == IInv /\ [Next]_vars => IInv'
<1> SUFFICES ASSUME IInv, [Next]_vars PROVE IInv'
  OBVIOUS
<1>0. TypeInv'
  BY StepTypeInv DEF IInv
<1>1. ASSUME NEW p \in Procs, Start(p) \/ Step(p) \/ Crash(p) PROVE SectionInv'
  <2>1. Section(p)'
    BY <1>1, DispatchKeepsSection, CloseKeepsSection, RestEndsOutside, OutsideSection
       DEF IInv, TypeInv, Step
  <2>2. \A q \in Procs \ {p} : Section(q)'
    BY <1>1, OthersKeepSection DEF IInv
  <2> QED
    BY <2>1, <2>2 DEF SectionInv
<1>2. ASSUME NEW c \in Cases, EditRun(c) PROVE SectionInv'
  BY <1>2 DEF EditRun, IInv, SectionInv, Section, Terminal, ClosedRow
<1>3. ASSUME UNCHANGED vars PROVE SectionInv'
  BY <1>3 DEF vars, files, IInv, SectionInv, Section, Terminal, ClosedRow
<1> QED
  BY <1>0, <1>1, <1>2, <1>3 DEF Next, Finished, IInv

-----------------------------------------------------------------------------
(* What can happen to a row. *)

\* The five ways a command changes the row of its case, told by the row as it
\* is on disk and not as the command remembers it.
RowStep(p) ==
    LET j == job[p]
        c == j.case IN
    \/ UNCHANGED ledger
    \/ /\ ~Terminal(ledger[c])
       /\ ledger' = [ledger EXCEPT ![c] = DispatchedRow(ledger[c])]
    \/ /\ ~Terminal(ledger[c])
       /\ ledger' = [ledger EXCEPT ![c].attempts = @ + 1]
    \/ ledger' = [ledger EXCEPT ![c] = [ledger[c] EXCEPT !.state = j.goal]]
    \/ ledger' = [ledger EXCEPT ![c] = ClosedRow(ledger[c], j.tid)]
    \/ /\ pc[p] = "undoRow"
       /\ ledger[c] = ClosedRow(j.prior, j.tid)
       /\ ledger' = [ledger EXCEPT ![c] = j.prior]

\* The section's knowledge makes every write of a remembered row a write of
\* the row on disk; the rollback of a dispatch rewrites what is there.
LEMMA RowSteps ==
    ASSUME IInv, NEW p \in Procs, Start(p) \/ Step(p) \/ Crash(p)
    PROVE  RowStep(p)
<1>0. Section(p) /\ (pc[p] # "idle" => job[p].case \in Cases)
  BY DEF IInv, SectionInv, TypeInv, ControlOK
<1>1. CASE \/ Start(p) \/ Crash(p)
           \/ Pick(p) \/ Scan(p) \/ FindTicket(p) \/ Claim(p) \/ RunGate(p)
  BY <1>1 DEF RowStep, files, Start, StartDispatch, StartObjective, StartVerify, Crash,
     Pick, Scan, FindTicket, Claim, RunGate
<1>2. CASE \/ CreateTicket(p) \/ Lease(p) \/ Commit(p) \/ GiveBack(p) \/ DropTicket(p)
           \/ WriteSpec(p) \/ RollbackClaim(p) \/ RollbackTicket(p) \/ RollbackSpec(p)
           \/ Mark(p)
  BY <1>2 DEF RowStep, CreateTicket, Lease, Commit, GiveBack, DropTicket, WriteSpec,
     RollbackClaim, RollbackTicket, RollbackSpec, Mark
<1>3. CASE Close(p) \/ CloseClaim(p) \/ CloseTicket(p) \/ UndoClaims(p) \/ UndoTicket(p)
  BY <1>3 DEF RowStep, files, Close, CloseClaim, CloseTicket, UndoClaims, UndoTicket
<1>4. CASE WriteRow(p)
  BY <1>0, <1>4 DEF WriteRow, RowStep, Section, RowUnwritten
<1>5. CASE RollbackRow(p)
  BY <1>0, <1>5 DEF RollbackRow, RowStep, Section, RowUnwritten, IInv, TypeInv, FilesOK
<1>6. CASE MarkRow(p)
  BY <1>0, <1>6 DEF MarkRow, RowStep, Section, RowUnwritten
<1>7. CASE Miss(p)
  BY <1>7 DEF Miss, RowStep
<1>8. CASE CloseRow(p)
  BY <1>0, <1>8 DEF CloseRow, RowStep, Section, RowUnwritten
<1>9. CASE UndoRow(p)
  BY <1>0, <1>9 DEF UndoRow, RowStep, Section, RowClosed
<1> QED
  BY <1>1, <1>2, <1>3, <1>4, <1>5, <1>6, <1>7, <1>8, <1>9 DEF Step

\* Steps of the world leave the rows alone.
LEMMA RowStepsOfNext ==
    ASSUME IInv, [Next]_vars
    PROVE  UNCHANGED ledger \/ \E p \in Procs : job[p].case \in Cases /\ RowStep(p)
<1>1. ASSUME NEW p \in Procs, Start(p) \/ Step(p) \/ Crash(p)
      PROVE  UNCHANGED ledger \/ (job[p].case \in Cases /\ RowStep(p))
  <2>1. CASE pc[p] = "idle"
    <3>1. Start(p)
      BY <1>1, <2>1 DEF Step, Pick, Scan, FindTicket, CreateTicket, Claim, Lease, Commit,
         WriteSpec, WriteRow, RollbackClaim, RollbackTicket, RollbackSpec, RollbackRow,
         GiveBack, DropTicket, Mark, MarkRow, RunGate, Miss, Close, CloseRow, CloseClaim,
         CloseTicket, UndoRow, UndoClaims, UndoTicket, Crash
    <3> QED
      BY <3>1 DEF Start, StartDispatch, StartObjective, StartVerify, files
  <2>2. CASE pc[p] # "idle"
    BY <1>1, <2>2, RowSteps DEF IInv, TypeInv, ControlOK
  <2> QED
    BY <2>1, <2>2
<1>2. ASSUME NEW c \in Cases, EditRun(c) PROVE UNCHANGED ledger
  BY <1>2 DEF EditRun
<1>3. CASE UNCHANGED vars
  BY <1>3 DEF vars, files
<1> QED
  BY <1>1, <1>2, <1>3 DEF Next, Finished

\* No interleaving, failure or crash opens a final row again: the only way
\* back to a live state is a verify that undoes its own unfinished close.
THEOREM FinalRowsStayFinal == Spec => NeverReopened
<1>1. IInv /\ [Next]_vars =>
        [\A c \in Cases : Terminal(ledger[c]) /\ ~Terminal(ledger'[c])
            => \E p \in Procs : pc[p] = "undoRow" /\ job[p].case = c]_vars
  <2> SUFFICES ASSUME IInv, [Next]_vars, NEW c \in Cases,
                      Terminal(ledger[c]), ~Terminal(ledger'[c])
               PROVE  \E p \in Procs : pc[p] = "undoRow" /\ job[p].case = c
    OBVIOUS
  <2>1. ledger \in [Cases -> Row]
    BY DEF IInv, TypeInv, FilesOK
  <2>2. PICK p \in Procs : job[p].case \in Cases /\ RowStep(p)
    BY RowStepsOfNext
  <2>3. job[p].goal \in {"exhausted", "unverifiable"} /\ job[p].tid \in 0..MaxTicket
    BY JobFields DEF IInv, TypeInv
  <2>4. job[p].case = c
    BY <2>1, <2>2 DEF RowStep
  <2>5. ledger[c] \in Row
    BY <2>1
  <2>6. [ledger[c] EXCEPT !.state = job[p].goal].state = job[p].goal
    BY <2>5 DEF Row
  <2>7. CASE ledger' = [ledger EXCEPT ![c].attempts = @ + 1]
    BY <2>1, <2>5, <2>7 DEF Row, Terminal
  <2>8. CASE ledger' = [ledger EXCEPT ![c] = [ledger[c] EXCEPT !.state = job[p].goal]]
    BY <2>1, <2>3, <2>6, <2>8 DEF Terminal
  <2>9. CASE ledger' = [ledger EXCEPT ![c] = ClosedRow(ledger[c], job[p].tid)]
    BY <2>1, <2>9 DEF ClosedRow, Terminal
  <2> QED
    BY <2>2, <2>4, <2>7, <2>8, <2>9 DEF RowStep
<1>2. Init => IInv
  BY InitIInv
<1>3. IInv /\ [Next]_vars => IInv'
  BY StepIInv
<1> QED
  BY <1>1, <1>2, <1>3, PTL DEF Spec, NeverReopened

\* The attempts that the rerun bound counts never go down, whatever fails and
\* whoever dies; only the undoing of a close takes back the one it invented.
THEOREM AttemptsNeverLost == Spec => AttemptsKept
<1>1. IInv /\ [Next]_vars =>
        [\A c \in Cases : ledger'[c].attempts < ledger[c].attempts
            => \E p \in Procs :
                  pc[p] = "undoRow" /\ job[p].case = c /\ job[p].prior.attempts = 0]_vars
  <2> SUFFICES ASSUME IInv, [Next]_vars, NEW c \in Cases,
                      ledger'[c].attempts < ledger[c].attempts
               PROVE  \E p \in Procs :
                         pc[p] = "undoRow" /\ job[p].case = c /\ job[p].prior.attempts = 0
    OBVIOUS
  <2>1. ledger \in [Cases -> Row]
    BY DEF IInv, TypeInv, FilesOK
  <2>2. ledger[c] \in Row /\ ledger[c].attempts \in Nat
    BY <2>1 DEF Row
  <2>3. ledger' # ledger
    BY <2>2
  <2>4. PICK p \in Procs : job[p].case \in Cases /\ RowStep(p)
    BY <2>3, RowStepsOfNext
  <2>5. job[p].prior \in Row /\ job[p].prior.attempts \in Nat
    BY JobFields DEF IInv, TypeInv, Row
  <2>6. job[p].case = c
    BY <2>1, <2>2, <2>4 DEF RowStep
  <2>7. CASE ledger' = [ledger EXCEPT ![c] = DispatchedRow(ledger[c])]
    BY <2>1, <2>2, <2>7 DEF DispatchedRow, Row
  <2>8. CASE ledger' = [ledger EXCEPT ![c].attempts = @ + 1]
    BY <2>1, <2>2, <2>8 DEF Row
  <2>9. CASE ledger' = [ledger EXCEPT ![c] = [ledger[c] EXCEPT !.state = job[p].goal]]
    BY <2>1, <2>2, <2>9 DEF Row
  <2>10. CASE ledger' = [ledger EXCEPT ![c] = ClosedRow(ledger[c], job[p].tid)]
    BY <2>1, <2>2, <2>10 DEF ClosedRow
  <2>11. CASE /\ pc[p] = "undoRow"
              /\ ledger[c] = ClosedRow(job[p].prior, job[p].tid)
              /\ ledger' = [ledger EXCEPT ![c] = job[p].prior]
    BY <2>1, <2>5, <2>6, <2>11 DEF ClosedRow
  <2> QED
    BY <2>3, <2>4, <2>6, <2>7, <2>8, <2>9, <2>10, <2>11 DEF RowStep
<1>2. Init => IInv
  BY InitIInv
<1>3. IInv /\ [Next]_vars => IInv'
  BY StepIInv
<1> QED
  BY <1>1, <1>2, <1>3, PTL DEF Spec, AttemptsKept

-----------------------------------------------------------------------------
(* What can happen to a lease. *)

\* The leases that p takes from the registry are its own claimant's, but for
\* the one of a case it marks exhausted.
SparesLeases(p) ==
    \A t \in Ids :
        claims[t] # NoOne /\ claims'[t] # claims[t]
            => /\ claims'[t] = NoOne
               /\ pc[p] # pc'[p]
               /\ \/ job[p].who = claims[t]
                  \/ pc[p] = "mark" /\ job[p].goal = "exhausted"

LEMMA CommandsSpareLeases ==
    ASSUME IInv, NEW p \in Procs, Start(p) \/ Step(p) \/ Crash(p)
    PROVE  SparesLeases(p)
<1>0. Section(p) /\ claims \in [Ids -> Claimants \cup {NoOne}]
  BY DEF IInv, SectionInv, TypeInv, FilesOK, Registry
<1> USE MovesOwn, <1>0 DEF IInv, TypeInv
<1>1. CASE \/ Start(p) \/ Crash(p)
           \/ Pick(p) \/ Scan(p) \/ FindTicket(p) \/ Claim(p) \/ RunGate(p)
           \/ CreateTicket(p) \/ WriteSpec(p) \/ WriteRow(p) \/ DropTicket(p)
           \/ RollbackTicket(p) \/ RollbackSpec(p) \/ RollbackRow(p) \/ MarkRow(p)
           \/ Miss(p) \/ Close(p) \/ CloseRow(p) \/ CloseTicket(p)
           \/ UndoRow(p) \/ UndoTicket(p)
  <2>1. UNCHANGED claims
    BY <1>1 DEF files, Start, StartDispatch, StartObjective, StartVerify, Crash,
       Pick, Scan, FindTicket, Claim, RunGate, CreateTicket, WriteSpec, WriteRow, DropTicket,
       RollbackTicket, RollbackSpec, RollbackRow, MarkRow, Miss, Close, CloseRow,
       CloseTicket, UndoRow, UndoTicket
  <2> QED
    BY <2>1 DEF SparesLeases
<1>2. CASE Lease(p)
  <2>1. UNCHANGED claims \/ (/\ claims[job[p].tid] = NoOne
                             /\ claims' = [claims EXCEPT ![job[p].tid] = job[p].who])
    BY <1>2 DEF Lease
  <2> QED
    BY <2>1 DEF SparesLeases
<1>3. CASE Commit(p)
  <2>1. UNCHANGED claims \/ (claims' = Released(job[p].tid, job[p].who) /\ pc'[p] = "dropTicket")
    BY <1>3 DEF Commit
  <2>2. pc[p] = "commit"
    BY <1>3 DEF Commit
  <2> QED
    BY <2>1, <2>2 DEF SparesLeases, Released
<1>4. CASE RollbackClaim(p)
  BY <1>4 DEF RollbackClaim, SparesLeases, Released
<1>5. CASE GiveBack(p)
  <2>1. pc[p] = "giveBack" /\ pc'[p] = "dropTicket"
    BY <1>5 DEF GiveBack
  <2>2. UNCHANGED claims \/ claims' = Released(job[p].tid, job[p].who)
    BY <1>5 DEF GiveBack
  <2> QED
    BY <2>1, <2>2 DEF SparesLeases, Released
<1>6. CASE Mark(p)
  <2> DEFINE t == TicketFor(job[p].case)
  <2>1. pc[p] = "mark" /\ pc'[p] # "mark"
    BY <1>6 DEF Mark
  <2>2. UNCHANGED claims \/ (/\ job[p].goal = "exhausted"
                             /\ claims' = [claims EXCEPT ![t] = NoOne])
    BY <1>6 DEF Mark
  <2> QED
    BY <2>1, <2>2 DEF SparesLeases
<1>7. CASE CloseClaim(p)
  <2>1. pc[p] = "closeClaim" /\ pc'[p] # "closeClaim"
    BY <1>7 DEF CloseClaim
  <2>2. UNCHANGED claims \/ (/\ claims[job[p].tid] = job[p].who
                             /\ claims' = [claims EXCEPT ![job[p].tid] = NoOne])
    BY <1>7 DEF CloseClaim, Section
  <2> QED
    BY <2>1, <2>2 DEF SparesLeases
<1>8. CASE UndoClaims(p)
  BY <1>8 DEF UndoClaims, SparesLeases, Section
<1> QED
  BY <1>1, <1>2, <1>3, <1>4, <1>5, <1>6, <1>7, <1>8 DEF Step

\* A lease ends only through a command of its claimant or the exhaustion of
\* its case and is never passed to another, although verify writes back a
\* whole registry it read before.
THEOREM LeasesKept == Spec => LeaseKeptFromOthers
<1>1. IInv /\ [Next]_vars =>
        [\A t \in Ids :
            claims[t] # NoOne /\ claims'[t] # claims[t]
               => /\ claims'[t] = NoOne
                  /\ \E p \in Procs :
                        /\ pc[p] # pc'[p]
                        /\ \/ job[p].who = claims[t]
                           \/ pc[p] = "mark" /\ job[p].goal = "exhausted"]_vars
  <2> SUFFICES ASSUME IInv, [Next]_vars, NEW t \in Ids,
                      claims[t] # NoOne, claims'[t] # claims[t]
               PROVE  /\ claims'[t] = NoOne
                      /\ \E p \in Procs :
                            /\ pc[p] # pc'[p]
                            /\ \/ job[p].who = claims[t]
                               \/ pc[p] = "mark" /\ job[p].goal = "exhausted"
    OBVIOUS
  <2>1. ASSUME NEW c \in Cases, EditRun(c) PROVE FALSE
    BY <2>1 DEF EditRun
  <2>2. ~UNCHANGED vars
    BY DEF vars, files
  <2>3. PICK p \in Procs : Start(p) \/ Step(p) \/ Crash(p)
    BY <2>1, <2>2 DEF Next, Finished
  <2>4. SparesLeases(p)
    BY <2>3, CommandsSpareLeases
  <2> QED
    BY <2>4 DEF SparesLeases
<1>2. Init => IInv
  BY InitIInv
<1>3. IInv /\ [Next]_vars => IInv'
  BY StepIInv
<1> QED
  BY <1>1, <1>2, <1>3, PTL DEF Spec, LeaseKeptFromOthers

-----------------------------------------------------------------------------
(* Tickets and the cases they name. *)

\* A set of numbers that is not empty has a least one.
LEMMA LeastTicket ==
    ASSUME NEW S \in SUBSET Ids, S # {}
    PROVE  \E t \in S : \A u \in S : t <= u
<1> DEFINE R == OpToRel(<, Nat)
<1>1. S \subseteq Nat
  BY GapLoopAssumption DEF Ids
<1>2. IsWellFoundedOn(R, Nat)
  BY NatLessThanWellFounded
<1> HIDE DEF R
<1>3. PICK t \in S : \A u \in S : ~ (<<u, t>> \in R)
  BY <1>1, <1>2, WFMin, Zenon
<1> USE DEF R
<1>4. \A u \in S : <<u, t>> \notin {rs \in Nat \X Nat : rs[1] < rs[2]}
  BY <1>3 DEF OpToRel
<1>5. \A u \in S : ~(u < t)
  BY <1>1, <1>4
<1> QED
  BY <1>1, <1>5

\* ticket_for_case answers the first ticket of the case, and nothing only
\* when no ticket names it.
LEMMA TicketForFinds ==
    /\ \A c : TicketFor(c) \in Ids <=> TicketFor(c) # 0
    /\ \A c : TicketFor(c) # 0 => IsFirstFor(TicketFor(c), c)
    /\ \A c : TicketFor(c) = 0 => \A t \in Ids : tickets[t].case # c
    /\ \A c, t : t \in Ids /\ IsFirstFor(t, c) => TicketFor(c) = t
<1>0. \A t \in Ids : t \in Nat /\ t # 0
  BY GapLoopAssumption DEF Ids
<1>1. ASSUME NEW c, NEW t \in Ids, IsFirstFor(t, c) PROVE TicketFor(c) = t
  <2>1. IsFirstFor(TicketFor(c), c) /\ TicketFor(c) \in Ids
    BY <1>1 DEF TicketFor
  <2>2. t <= TicketFor(c) /\ TicketFor(c) <= t
    BY <1>1, <2>1 DEF IsFirstFor
  <2> QED
    BY <1>0, <2>1, <2>2
<1>2. ASSUME NEW c, NEW t \in Ids, tickets[t].case = c PROVE TicketFor(c) \in Ids
  <2> DEFINE S == {u \in Ids : tickets[u].case = c}
  <2>1. PICK u \in S : \A v \in S : u <= v
    BY <1>2, LeastTicket
  <2>2. u \in Ids /\ IsFirstFor(u, c)
    BY <2>1 DEF IsFirstFor
  <2> QED
    BY <1>1, <2>2
<1>3. \A c : TicketFor(c) \in Ids => IsFirstFor(TicketFor(c), c)
  BY <1>0 DEF TicketFor
<1>4. \A c : TicketFor(c) \in Ids \/ TicketFor(c) = 0
  BY DEF TicketFor
<1> QED
  BY <1>0, <1>1, <1>2, <1>3, <1>4

\* What a step of a command may do to the tickets: write one for a case that
\* has none, remove one, open or close one.
Creates(n, c) ==
    /\ tickets[n].case = 0
    /\ TicketFor(c) = 0
    /\ tickets' = [tickets EXCEPT ![n] = [NoTicketFile EXCEPT !.case = c]]
TicketStep(p) ==
    \/ UNCHANGED tickets
    \/ \E n \in Ids : job[p].case \in Cases /\ Creates(n, job[p].case)
    \/ /\ pc[p] \in {"rbTicket", "dropTicket"}
       /\ tickets' = [tickets EXCEPT ![job[p].tid] = NoTicketFile]
    \/ /\ pc[p] = "closeTicket"
       /\ Exists(job[p].tid)
       /\ tickets' = [tickets EXCEPT ![job[p].tid].closed = TRUE]
    \/ /\ pc[p] = "undoTicket"
       /\ tickets' = [tickets EXCEPT ![job[p].tid].closed = job[p].wasClosed]

LEMMA TicketSteps ==
    ASSUME TypeInv, NEW p \in Procs, Start(p) \/ Step(p) \/ Crash(p)
    PROVE  TicketStep(p)
<1>1. CASE \/ Start(p) \/ Crash(p)
           \/ Pick(p) \/ Scan(p) \/ FindTicket(p) \/ Claim(p) \/ RunGate(p)
           \/ Lease(p) \/ Commit(p) \/ GiveBack(p) \/ WriteSpec(p) \/ WriteRow(p)
           \/ RollbackClaim(p) \/ RollbackSpec(p) \/ RollbackRow(p) \/ Mark(p) \/ MarkRow(p)
           \/ Miss(p) \/ Close(p) \/ CloseRow(p) \/ CloseClaim(p) \/ UndoRow(p) \/ UndoClaims(p)
  BY <1>1 DEF TicketStep, files, Start, StartDispatch, StartObjective, StartVerify, Crash,
     Pick, Scan, FindTicket, Claim, RunGate, Lease, Commit, GiveBack, WriteSpec, WriteRow,
     RollbackClaim, RollbackSpec, RollbackRow, Mark, MarkRow, Miss, Close, CloseRow,
     CloseClaim, UndoRow, UndoClaims
<1>2. CASE CreateTicket(p)
  <2>1. job[p].case \in Cases
    BY <1>2 DEF CreateTicket, TypeInv, ControlOK
  <2>2. ASSUME NEW n \in Ids, IsNextNumber(n) PROVE tickets[n].case = 0
    <3>1. ~(n < n)
      BY GapLoopAssumption DEF Ids
    <3> QED
      BY <2>2, <3>1 DEF IsNextNumber, Exists
  <2> QED
    BY <1>2, <2>1, <2>2 DEF CreateTicket, TicketStep, Creates
<1>3. CASE RollbackTicket(p) \/ DropTicket(p)
  BY <1>3 DEF RollbackTicket, DropTicket, TicketStep
<1>4. CASE CloseTicket(p) \/ UndoTicket(p)
  BY <1>4 DEF CloseTicket, UndoTicket, TicketStep
<1> QED
  BY <1>1, <1>2, <1>3, <1>4 DEF Step

\* However many dispatches race, fail or die, and whatever rollbacks remove,
\* they never write a second ticket for a case, provided that nobody wrote two
\* by hand (loopcmd.rs:980).
THEOREM OneTicketPerCaseKept ==
    ASSUME \A t, u \in Ids :
              FirstTickets[t].case = FirstTickets[u].case /\ FirstTickets[t].case # 0 => t = u
    PROVE  Spec => []OneTicketPerCase
<1>1. Init => OneTicketPerCase
  BY DEF Init, OneTicketPerCase
<1>2. TypeInv /\ OneTicketPerCase /\ [Next]_vars => OneTicketPerCase'
  <2> SUFFICES ASSUME TypeInv, OneTicketPerCase, [Next]_vars PROVE OneTicketPerCase'
    OBVIOUS
  <2>1. tickets \in [Ids -> Ticket]
    BY DEF TypeInv, FilesOK
  <2>2. ASSUME NEW p \in Procs, Start(p) \/ Step(p) \/ Crash(p) PROVE OneTicketPerCase'
    <3>1. TicketStep(p)
      BY <2>2, TicketSteps
    <3>2. CASE UNCHANGED tickets
      BY <3>2 DEF OneTicketPerCase
    <3>3. CASE \E n \in Ids : job[p].case \in Cases /\ Creates(n, job[p].case)
      <4>1. PICK n \in Ids : Creates(n, job[p].case)
        BY <3>3
      <4>2. tickets'[n].case = job[p].case
        BY <2>1, <4>1 DEF Creates, NoTicketFile
      <4>3. \A u \in Ids \ {n} : tickets'[u] = tickets[u] /\ tickets[u].case # job[p].case
        BY <2>1, <4>1, TicketForFinds DEF Creates
      <4> QED
        BY <4>2, <4>3 DEF OneTicketPerCase
    <3>4. CASE tickets' = [tickets EXCEPT ![job[p].tid] = NoTicketFile]
      <4>1. \A u \in Ids : tickets'[u].case \in {tickets[u].case, 0}
        BY <2>1, <3>4 DEF NoTicketFile
      <4> QED
        BY <4>1 DEF OneTicketPerCase
    <3>5. ASSUME NEW b, tickets' = [tickets EXCEPT ![job[p].tid].closed = b]
          PROVE  OneTicketPerCase'
      <4>1. \A u \in Ids : tickets'[u].case = tickets[u].case
        BY <2>1, <3>5 DEF Ticket
      <4> QED
        BY <4>1 DEF OneTicketPerCase
    <3> QED
      BY <3>1, <3>2, <3>3, <3>4, <3>5 DEF TicketStep
  <2>3. ASSUME NEW c \in Cases, EditRun(c) PROVE OneTicketPerCase'
    BY <2>3 DEF EditRun, OneTicketPerCase
  <2>4. CASE UNCHANGED vars
    BY <2>4 DEF vars, files, OneTicketPerCase
  <2> QED
    BY <2>2, <2>3, <2>4 DEF Next, Finished
<1>3. Init => TypeInv
  BY InitTypeInv
<1>4. TypeInv /\ [Next]_vars => TypeInv'
  BY StepTypeInv
<1> QED
  BY <1>1, <1>2, <1>3, <1>4, PTL DEF Spec

-----------------------------------------------------------------------------
(* The life cycle of a gap, for everything but the marks of mark_state that *)
(* are decided on a row that has become final since.                       *)

\* Places of a close, and the part of them in which the row says closed and
\* the close may still be undone.
OfClose == {"closeRow"} \cup RowClosed

\* A close under way began on a live row.
ClosesLive == \A p \in Procs : pc[p] \in OfClose => ~Terminal(job[p].prior)

\* How a command gets into a close and through it.
LEMMA CloseControl ==
    ASSUME TypeInv, NEW p \in Procs, Start(p) \/ Step(p) \/ Crash(p)
    PROVE  pc'[p] \in OfClose =>
              /\ job'[p].case = job[p].case
              /\ \/ pc[p] \in OfClose /\ job'[p].prior = job[p].prior
                 \/ pc[p] = "close" /\ pc'[p] = "closeRow" /\ ~Terminal(job'[p].prior)
<1> USE DEF OfClose, RowClosed
<1>0. ControlOK /\ job[p] \in Job
  BY JobFields DEF TypeInv
<1>1. CASE \/ Start(p) \/ Crash(p)
           \/ Pick(p) \/ Scan(p) \/ FindTicket(p) \/ Claim(p) \/ RunGate(p)
           \/ CreateTicket(p) \/ Lease(p) \/ GiveBack(p) \/ DropTicket(p)
           \/ RollbackRow(p) \/ MarkRow(p) \/ Miss(p) \/ UndoTicket(p)
  BY <1>0, <1>1, RestEndsOutside DEF Locked
<1>2. CASE \/ Commit(p) \/ WriteSpec(p) \/ WriteRow(p) \/ RollbackClaim(p)
           \/ RollbackTicket(p) \/ RollbackSpec(p) \/ Mark(p) \/ UndoClaims(p)
  BY <1>0, <1>2, MovesOwn DEF Commit, WriteSpec, WriteRow, RollbackClaim, RollbackTicket,
     RollbackSpec, Mark, UndoClaims
<1>3. CASE Close(p)
  <2> DEFINE c == job[p].case
             j == [job[p] EXCEPT !.prior = ledger[c], !.snap = claims,
                                 !.tid = TicketFor(c), !.wasClosed = TicketClosed(c)]
  <2>1. j.prior = ledger[c] /\ j.case = c
    BY <1>0 DEF Job
  <2>2. CASE Finish(p)
    BY <1>0, <2>2, MovesOwn
  <2>3. CASE Set(p, j) /\ Goto(p, "closeRow") /\ ~Terminal(ledger[c])
    BY <1>0, <1>3, <2>1, <2>3, MovesOwn DEF Close
  <2> QED
    BY <1>3, <2>2, <2>3 DEF Close
<1>4. CASE CloseRow(p) \/ CloseClaim(p) \/ CloseTicket(p) \/ UndoRow(p)
  <2>1. Finish(p) \/ (UNCHANGED job /\ pc[p] \in OfClose)
    BY <1>4 DEF CloseRow, CloseClaim, CloseTicket, UndoRow
  <2> QED
    BY <1>0, <2>1, MovesOwn
<1> QED
  BY <1>1, <1>2, <1>3, <1>4 DEF Step

LEMMA ClosesLiveStep == IInv /\ ClosesLive /\ [Next]_vars => ClosesLive'
<1> SUFFICES ASSUME IInv, ClosesLive, [Next]_vars PROVE ClosesLive'
  OBVIOUS
<1>1. ASSUME NEW p \in Procs, Start(p) \/ Step(p) \/ Crash(p) PROVE ClosesLive'
  <2>1. \A q \in Procs \ {p} : pc'[q] = pc[q] /\ job'[q] = job[q]
    BY <1>1, MovesOnlyItself DEF IInv, TypeInv
  <2>2. pc'[p] \in OfClose => ~Terminal(job'[p].prior)
    BY <1>1, CloseControl DEF IInv, ClosesLive, Terminal
  <2> QED
    BY <2>1, <2>2 DEF ClosesLive, Terminal
<1>2. ASSUME NEW c \in Cases, EditRun(c) PROVE ClosesLive'
  BY <1>2 DEF EditRun, ClosesLive, Terminal
<1>3. CASE UNCHANGED vars
  BY <1>3 DEF vars, ClosesLive, Terminal
<1> QED
  BY <1>1, <1>2, <1>3 DEF Next, Finished

-----------------------------------------------------------------------------
(* The gap as the life cycle sees it. *)

\* The lock is held during a close, so one process at most is closing.
LEMMA GapOfClosing ==
    ASSUME SectionInv, NEW c, NEW p \in Procs, Closing(p, c)
    PROVE  GapOf(c) = job[p].prior.state
<1>1. \A q \in Procs : Closing(q, c) => q = p
  BY DEF Closing, SectionInv, Section, Locked
<1> QED
  BY <1>1 DEF GapOf

LEMMA GapOfRow ==
    ASSUME NEW c, \A p \in Procs : ~Closing(p, c)
    PROVE  GapOf(c) = ledger[c].state
BY DEF GapOf

\* The same of the state after a step.
LEMMA GapOfClosingNext ==
    ASSUME SectionInv', NEW c, NEW p \in Procs, Closing(p, c)'
    PROVE  GapOf(c)' = job'[p].prior.state
<1>1. \A q \in Procs : Closing(q, c)' => q = p
  BY DEF Closing, SectionInv, Section, Locked
<1> QED
  BY <1>1 DEF GapOf

LEMMA GapOfRowNext ==
    ASSUME NEW c, \A p \in Procs : ~Closing(p, c)'
    PROVE  GapOf(c)' = ledger'[c].state
BY DEF GapOf

LEMMA LiveStates == \A row \in Row : ~Terminal(row) <=> row.state \in Lifecycle!Live
BY DEF Row, RowState, Terminal, Lifecycle!Live

\* A case whose row keeps its state, or is being closed by another, keeps its
\* place in the life cycle.
LEMMA GapStays ==
    ASSUME IInv, SectionInv', NEW p \in Procs, Start(p) \/ Step(p) \/ Crash(p), NEW c,
           ledger'[c].state = ledger[c].state,
           ~Closing(p, c), ~Closing(p, c)'
    PROVE  GapOf(c)' = GapOf(c)
<1>1. \A q \in Procs \ {p} : pc'[q] = pc[q] /\ job'[q] = job[q]
  BY MovesOnlyItself DEF IInv, TypeInv
<1>2. \A q \in Procs : Closing(q, c)' <=> Closing(q, c)
  BY <1>1 DEF Closing
<1>3. CASE \E q \in Procs : Closing(q, c)
  <2>1. PICK q \in Procs : Closing(q, c) /\ q # p
    BY <1>3
  <2> QED
    BY <1>1, <1>2, <2>1, GapOfClosing, GapOfClosingNext DEF IInv
<1>4. CASE ~ \E q \in Procs : Closing(q, c)
  BY <1>2, <1>4, GapOfRow, GapOfRowNext
<1> QED
  BY <1>3, <1>4

\* What one case may do in a step of its life cycle.
GapMoves(c) ==
    \/ GapOf(c)' = GapOf(c)
    \/ /\ GapOf(c) \in Lifecycle!Live
       /\ GapOf(c)' \in {"dispatched"} \cup Lifecycle!Final

LEMMA OneGapMoves ==
    ASSUME NEW c \in Cases, GapMoves(c), \A d \in Cases \ {c} : GapOf(d)' = GapOf(d)
    PROVE  Lifecycle!Next \/ UNCHANGED [d \in Cases |-> GapOf(d)]
<1> DEFINE gap == [d \in Cases |-> GapOf(d)]
           new == [d \in Cases |-> GapOf(d)']
<1>1. CASE GapOf(c)' = GapOf(c)
  BY <1>1
<1>2. CASE GapOf(c)' # GapOf(c)
  <2>1. new = [gap EXCEPT ![c] = GapOf(c)']
    OBVIOUS
  <2>2. GapOf(c) \in Lifecycle!Live /\ GapOf(c)' \in {"dispatched"} \cup Lifecycle!Final
    BY <1>2 DEF GapMoves
  <2>3. gap[c] = GapOf(c)
    OBVIOUS
  <2> QED
    BY <2>1, <2>2, <2>3 DEF Lifecycle!Next, Lifecycle!Dispatch, Lifecycle!Settle
<1> QED
  BY <1>1, <1>2

\* mark_state leaves rows alone that are final by the time it writes.
MarkIsTimely(p) == pc[p] = "markRow" /\ ledger' # ledger => ~Terminal(job[p].prior)

\* Outside a close, the row is the gap.
LEMMA RowMovesGap ==
    ASSUME IInv, SectionInv', NEW p \in Procs, MarkIsTimely(p),
           NEW c \in Cases, job[p].case = c,
           \/ WriteRow(p) \/ RollbackRow(p) \/ MarkRow(p) \/ Miss(p)
    PROVE  GapMoves(c) /\ \A d \in Cases \ {c} : GapOf(d)' = GapOf(d)
<1>0. /\ Step(p)
      /\ ledger \in [Cases -> Row] /\ ledger[c] \in Row /\ job[p].prior \in Row
      /\ job[p].goal \in {"exhausted", "unverifiable"}
      /\ Section(p)
  BY JobFields DEF Step, IInv, TypeInv, FilesOK, SectionInv
<1>1. \A d : ~Closing(p, d) /\ ~Closing(p, d)'
  <2>1. pc[p] \notin RowClosed
    BY DEF WriteRow, RollbackRow, MarkRow, Miss, RowClosed
  <2>2. pc'[p] \notin RowClosed
    BY MovesOwn DEF WriteRow, RollbackRow, MarkRow, Miss, RowClosed, IInv, TypeInv
  <2> QED
    BY <2>1, <2>2 DEF Closing, RowClosed
<1>2. \A d \in Cases \ {c} : ledger'[d] = ledger[d]
  BY <1>0 DEF WriteRow, RollbackRow, MarkRow, Miss
<1>3. \A d \in Cases \ {c} : GapOf(d)' = GapOf(d)
  BY <1>0, <1>1, <1>2, GapStays
<1>4. CASE ledger'[c].state = ledger[c].state
  BY <1>0, <1>1, <1>3, <1>4, GapStays DEF GapMoves
<1>5. CASE ledger'[c].state # ledger[c].state
  <2>1. /\ ledger[c] = job[p].prior
        /\ ~Terminal(job[p].prior)
        /\ ledger'[c].state \in {"dispatched"} \cup Lifecycle!Final
        /\ lock = p
    <3>1. CASE WriteRow(p)
      <4>1. ledger' = [ledger EXCEPT ![c] = DispatchedRow(job[p].prior)]
        BY <1>5, <3>1 DEF WriteRow
      <4>2. DispatchedRow(job[p].prior).state = "dispatched"
        BY <1>0 DEF DispatchedRow, Row
      <4> QED
        BY <1>0, <3>1, <4>1, <4>2 DEF WriteRow, Section, Locked, RowUnwritten
    <3>2. CASE RollbackRow(p)
      BY <1>0, <1>5, <3>2 DEF RollbackRow, Section, RowUnwritten
    <3>3. CASE MarkRow(p)
      <4>1. ledger' = [ledger EXCEPT ![c] = [job[p].prior EXCEPT !.state = job[p].goal]]
        BY <1>5, <3>3 DEF MarkRow
      <4>2. [job[p].prior EXCEPT !.state = job[p].goal].state = job[p].goal
        BY <1>0 DEF Row
      <4> QED
        BY <1>0, <1>5, <3>3, <4>1, <4>2
           DEF MarkRow, MarkIsTimely, Section, Locked, RowUnwritten, Lifecycle!Final
    <3>4. CASE Miss(p)
      BY <1>0, <1>5, <3>4 DEF Miss, Row
    <3> QED
      BY <3>1, <3>2, <3>3, <3>4
  <2>2. \A q \in Procs : ~Closing(q, c)
    BY <1>1, <2>1 DEF Closing, IInv, SectionInv, Section, Locked
  <2>3. \A q \in Procs : ~Closing(q, c)'
    <3>1. \A q \in Procs \ {p} : pc'[q] = pc[q] /\ job'[q] = job[q]
      BY <1>0, MovesOnlyItself DEF IInv, TypeInv
    <3> QED
      BY <1>1, <2>2, <3>1 DEF Closing
  <2> QED
    BY <1>0, <1>3, <2>1, <2>2, <2>3, GapOfRow, GapOfRowNext, LiveStates DEF GapMoves
<1> QED
  BY <1>3, <1>4, <1>5

\* A close settles the gap at its end and not at its first write; an undone
\* one leaves it where it was.
LEMMA CloseMovesGap ==
    ASSUME IInv, SectionInv', ClosesLive, NEW p \in Procs,
           NEW c \in Cases, job[p].case = c,
           CloseRow(p) \/ CloseClaim(p) \/ CloseTicket(p) \/ UndoRow(p)
                \/ (Crash(p) /\ pc[p] \in RowClosed)
    PROVE  GapMoves(c) /\ \A d \in Cases \ {c} : GapOf(d)' = GapOf(d)
<1> DEFINE prior == job[p].prior
<1> USE DEF RowClosed
<1>0. /\ Step(p) \/ Crash(p)
      /\ ledger \in [Cases -> Row] /\ ledger[c] \in Row /\ prior \in Row
      /\ job[p].tid \in 0..MaxTicket
      /\ Section(p)
      /\ pc[p] \in OfClose
  BY JobFields DEF Step, IInv, TypeInv, FilesOK, SectionInv, OfClose,
     CloseRow, CloseClaim, CloseTicket, UndoRow
<1>1. lock = p /\ ~Terminal(prior)
  BY <1>0 DEF Section, Locked, OfClose, ClosesLive
<1>2. \A q \in Procs \ {p} : pc'[q] = pc[q] /\ job'[q] = job[q]
  BY <1>0, MovesOnlyItself DEF IInv, TypeInv
<1>3. \A q \in Procs \ {p} : \A d : ~Closing(q, d) /\ ~Closing(q, d)'
  BY <1>1, <1>2 DEF Closing, IInv, SectionInv, Section, Locked
<1>4. \A d : Closing(p, d) => d = c
  BY DEF Closing
<1>5. /\ pc'[p] \in RowClosed => job'[p] = job[p]
      /\ \A d : Closing(p, d)' => d = c
  <2>1. Finish(p) \/ UNCHANGED job
    BY <1>0 DEF CloseRow, CloseClaim, CloseTicket, UndoRow, Crash
  <2> QED
    BY <2>1, MovesOwn DEF IInv, TypeInv, Closing
<1>6. \A d \in Cases \ {c} : ledger'[d] = ledger[d]
  BY <1>0 DEF CloseRow, CloseClaim, CloseTicket, UndoRow, Crash, files
<1>7. \A d \in Cases \ {c} : GapOf(d)' = GapOf(d)
  BY <1>0, <1>4, <1>5, <1>6, GapStays
<1>8. GapOf(c) = prior.state
  <2>1. CASE pc[p] \in RowClosed
    BY <2>1, GapOfClosing DEF Closing, IInv
  <2>2. CASE pc[p] = "closeRow"
    <3>1. ~Closing(p, c)
      BY <2>2 DEF Closing
    <3>2. ledger[c] = prior
      BY <1>0, <2>2 DEF Section, RowUnwritten
    <3> QED
      BY <1>3, <3>1, <3>2, GapOfRow
  <2> QED
    BY <1>0, <2>1, <2>2 DEF OfClose
<1>9. GapOf(c)' \in {prior.state, "closed"}
  <2>1. CASE pc'[p] \in RowClosed
    BY <1>5, <2>1, GapOfClosingNext DEF Closing
  <2>2. CASE pc'[p] \notin RowClosed
    <3>1. GapOf(c)' = ledger'[c].state
      BY <1>3, <2>2, GapOfRowNext DEF Closing
    <3>2. ledger'[c] \in {ledger[c], prior, ClosedRow(prior, job[p].tid)}
      BY <1>0 DEF CloseRow, CloseClaim, CloseTicket, UndoRow, Crash, files
    <3>3. ledger[c] \in {prior, ClosedRow(prior, job[p].tid)}
      BY <1>0 DEF Section, OfClose, RowUnwritten
    <3> QED
      BY <3>1, <3>2, <3>3 DEF ClosedRow
  <2> QED
    BY <2>1, <2>2
<1> QED
  BY <1>0, <1>1, <1>7, <1>8, <1>9, LiveStates DEF GapMoves, Lifecycle!Final

\* Every other step of a command leaves the gaps alone.
LEMMA RestKeepsGaps ==
    ASSUME IInv, SectionInv', NEW p \in Procs,
           \/ Start(p) \/ (Crash(p) /\ pc[p] \notin RowClosed)
           \/ Pick(p) \/ Scan(p) \/ FindTicket(p) \/ Claim(p) \/ RunGate(p)
           \/ CreateTicket(p) \/ Lease(p) \/ Commit(p) \/ WriteSpec(p) \/ GiveBack(p)
           \/ DropTicket(p) \/ RollbackClaim(p) \/ RollbackTicket(p) \/ RollbackSpec(p)
           \/ Mark(p) \/ Close(p) \/ UndoClaims(p) \/ UndoTicket(p)
    PROVE  \A d \in Cases : GapOf(d)' = GapOf(d)
<1>1. Start(p) \/ Step(p) \/ Crash(p)
  BY DEF Step
<1>2. UNCHANGED ledger
  BY DEF files, Start, StartDispatch, StartObjective, StartVerify, Crash, Pick, Scan, FindTicket,
     Claim, RunGate, CreateTicket, Lease, Commit, WriteSpec, GiveBack, DropTicket,
     RollbackClaim, RollbackTicket, RollbackSpec, Mark, Close, UndoClaims, UndoTicket
<1>3. pc[p] \notin RowClosed
  BY DEF RowClosed, Start, StartDispatch, StartObjective, StartVerify, Pick, Scan, FindTicket,
     Claim, RunGate, CreateTicket, Lease, Commit, WriteSpec, GiveBack, DropTicket,
     RollbackClaim, RollbackTicket, RollbackSpec, Mark, Close, UndoClaims, UndoTicket
<1>4. pc'[p] \notin RowClosed
  <2>1. pc'[p] \in RowClosed => pc[p] \in OfClose
    BY <1>1, CloseControl DEF IInv, OfClose, RowClosed
  <2>0. CASE Crash(p)
    BY <2>0, RestEndsOutside DEF IInv, TypeInv, Locked, RowClosed
  <2>2. CASE ~Crash(p) /\ pc[p] = "closeRow"
    BY <2>2 DEF Start, StartDispatch, StartObjective, StartVerify, Pick, Scan, FindTicket,
       Claim, RunGate, CreateTicket, Lease, Commit, WriteSpec, GiveBack, DropTicket,
       RollbackClaim, RollbackTicket, RollbackSpec, Mark, Close, UndoClaims, UndoTicket
  <2> QED
    BY <1>3, <2>0, <2>1, <2>2 DEF OfClose
<1> QED
  BY <1>1, <1>2, <1>3, <1>4, GapStays DEF Closing, RowClosed

LEMMA StepMovesGaps ==
    ASSUME IInv, IInv', ClosesLive, [Next]_vars, \A p \in Procs : MarkIsTimely(p)
    PROVE  [Lifecycle!Next]_([c \in Cases |-> GapOf(c)])
<1>1. ASSUME NEW p \in Procs, Start(p) \/ Step(p) \/ Crash(p)
      PROVE  [Lifecycle!Next]_([c \in Cases |-> GapOf(c)])
  <2>1. CASE pc[p] # "idle" /\ (\/ WriteRow(p) \/ RollbackRow(p) \/ MarkRow(p) \/ Miss(p)
                                \/ CloseRow(p) \/ CloseClaim(p) \/ CloseTicket(p) \/ UndoRow(p)
                                \/ (Crash(p) /\ pc[p] \in RowClosed))
    <3>1. PICK c \in Cases : job[p].case = c
      BY <2>1 DEF IInv, TypeInv, ControlOK
    <3>2. GapMoves(c) /\ \A d \in Cases \ {c} : GapOf(d)' = GapOf(d)
      BY <2>1, <3>1, RowMovesGap, CloseMovesGap DEF IInv
    <3> QED
      BY <3>2, OneGapMoves
  <2>2. CASE \/ Start(p) \/ (Crash(p) /\ pc[p] \notin RowClosed)
             \/ Pick(p) \/ Scan(p) \/ FindTicket(p) \/ Claim(p) \/ RunGate(p)
             \/ CreateTicket(p) \/ Lease(p) \/ Commit(p) \/ WriteSpec(p) \/ GiveBack(p)
             \/ DropTicket(p) \/ RollbackClaim(p) \/ RollbackTicket(p) \/ RollbackSpec(p)
             \/ Mark(p) \/ Close(p) \/ UndoClaims(p) \/ UndoTicket(p)
    <3>1. \A d \in Cases : GapOf(d)' = GapOf(d)
      BY <2>2, RestKeepsGaps DEF IInv
    <3>2. [c \in Cases |-> GapOf(c)]' = [c \in Cases |-> GapOf(c)]
      BY <3>1
    <3> QED
      BY <3>2
  <2>3. (\/ WriteRow(p) \/ RollbackRow(p) \/ MarkRow(p) \/ Miss(p) \/ CloseRow(p)
         \/ CloseClaim(p) \/ CloseTicket(p) \/ UndoRow(p) \/ Crash(p)) => pc[p] # "idle"
    BY DEF WriteRow, RollbackRow, MarkRow, Miss, CloseRow, CloseClaim, CloseTicket, UndoRow, Crash
  <2> QED
    BY <1>1, <2>1, <2>2, <2>3 DEF Step
<1>2. ASSUME UNCHANGED <<ledger, pc, job>>
      PROVE  [Lifecycle!Next]_([c \in Cases |-> GapOf(c)])
  <2>1. \A c : GapOf(c)' = GapOf(c)
    <3> TAKE c
    <3>1. \A p \in Procs : Closing(p, c)' <=> Closing(p, c)
      BY <1>2 DEF Closing
    <3>2. CASE \E p \in Procs : Closing(p, c)
      BY <1>2, <3>1, <3>2, GapOfClosing, GapOfClosingNext DEF IInv
    <3>3. CASE ~ \E p \in Procs : Closing(p, c)
      BY <1>2, <3>1, <3>3, GapOfRow, GapOfRowNext
    <3> QED
      BY <3>2, <3>3
  <2> QED
    BY <2>1
<1> QED
  BY <1>1, <1>2 DEF Next, Finished, EditRun, vars, files

\* Steps in which mark_state does not overwrite a row that has become final.
MarksAreTimely == [][\A p \in Procs : MarkIsTimely(p)]_vars

LEMMA InitGaps == Init => Lifecycle!Init
<1> SUFFICES ASSUME Init PROVE Lifecycle!Init
  OBVIOUS
<1>1. \A c \in Cases : GapOf(c) = "absent"
  BY DEF Init, GapOf, Closing, NoRow
<1> QED
  BY <1>1 DEF Lifecycle!Init

LEMMA InitClosesLive == Init => ClosesLive
BY DEF Init, ClosesLive, OfClose, RowClosed

\* Whatever races, fails or dies, and however closes are undone, the rows
\* follow the life cycle of GapLifecycle as long as mark_state does not
\* overwrite a row that has become final since it was looked at
\* (loopcmd.rs:230), which is so the only way out of it.
THEOREM LifecycleButForLateMarks == Spec /\ MarksAreTimely => FollowsLifecycle
<1>1. Init => IInv /\ ClosesLive /\ Lifecycle!Init
  BY InitIInv, InitGaps, InitClosesLive
<1>2. IInv /\ [Next]_vars => IInv'
  BY StepIInv
<1>3. IInv /\ ClosesLive /\ [Next]_vars => ClosesLive'
  BY ClosesLiveStep
<1>4. IInv /\ IInv' /\ ClosesLive /\ [Next]_vars /\ [\A p \in Procs : MarkIsTimely(p)]_vars
         => [Lifecycle!Next]_([c \in Cases |-> GapOf(c)])
  <2> SUFFICES ASSUME IInv, IInv', ClosesLive, [Next]_vars,
                      [\A p \in Procs : MarkIsTimely(p)]_vars
               PROVE  [Lifecycle!Next]_([c \in Cases |-> GapOf(c)])
    OBVIOUS
  <2>1. \A p \in Procs : MarkIsTimely(p)
    BY DEF MarkIsTimely, vars, files
  <2> QED
    BY <2>1, StepMovesGaps
<1> QED
  BY <1>1, <1>2, <1>3, <1>4, PTL DEF Spec, MarksAreTimely, FollowsLifecycle, Lifecycle!Spec

\* No case is exhausted or unverifiable, so nothing is marked.
NothingToMark ==
    /\ left.edits = 0
    /\ runs = FirstRuns
    /\ \A p \in Procs : pc[p] \notin {"mark", "markRow"}

LEMMA NothingToMarkStep ==
    ASSUME MaxAttempts = Unbounded, \A c \in Cases : FirstRuns[c].gated
    PROVE  TypeInv /\ NothingToMark /\ [Next]_vars => NothingToMark'
<1> SUFFICES ASSUME TypeInv, NothingToMark, [Next]_vars PROVE NothingToMark'
  OBVIOUS
<1>1. ASSUME NEW p \in Procs, Start(p) \/ Step(p) \/ Crash(p) PROVE NothingToMark'
  <2>1. \A q \in Procs \ {p} : pc'[q] = pc[q]
    BY <1>1, MovesOnlyItself DEF TypeInv
  <2>2. runs' = runs
    BY <1>1 DEF files, Start, StartDispatch, StartObjective, StartVerify, Crash, Step, Pick,
       Scan, FindTicket, CreateTicket, Claim, Lease, Commit, WriteSpec, WriteRow, RollbackClaim,
       RollbackTicket, RollbackSpec, RollbackRow, GiveBack, DropTicket, Mark, MarkRow, RunGate,
       Miss, Close, CloseRow, CloseClaim, CloseTicket, UndoRow, UndoClaims, UndoTicket
  <2>3. left'.edits = left.edits
    <3>1. \A k \in {"ops", "faults", "timeouts", "crashes"} :
             Spend(k) => left'.edits = left.edits
      BY DEF Spend, TypeInv, Left
    <3>2. UNCHANGED left \/ \E k \in {"ops", "faults", "timeouts", "crashes"} : Spend(k)
      BY <1>1 DEF Fault, TimesOut, Start, StartDispatch, StartObjective, StartVerify, Crash,
         Step, Pick, Scan, FindTicket, CreateTicket, Claim, Lease, Commit, WriteSpec, WriteRow,
         RollbackClaim, RollbackTicket, RollbackSpec, RollbackRow, GiveBack, DropTicket, Mark,
         MarkRow, RunGate, Miss, Close, CloseRow, CloseClaim, CloseTicket, UndoRow, UndoClaims,
         UndoTicket
    <3> QED
      BY <3>1, <3>2
  <2>4. pc'[p] \notin {"mark", "markRow"}
    <3>1. CASE Pick(p) \/ Scan(p)
      <4>1. \A c : ~ExceedsBound(c)
        BY DEF ExceedsBound
      <4> QED
        BY <3>1, <4>1, MovesOwn DEF Pick, Scan, TypeInv
    <3>2. CASE FindTicket(p)
      <4>1. runs[job[p].case].gated
        BY <3>2 DEF FindTicket, NothingToMark, TypeInv, ControlOK
      <4> QED
        BY <3>2, <4>1, MovesOwn DEF FindTicket, TypeInv
    <3>3. CASE Mark(p) \/ MarkRow(p)
      BY <3>3 DEF Mark, MarkRow, NothingToMark
    <3>4. CASE Start(p)
      <4>1. \E l \in {"pick", "scan", "gate"} : Goto(p, l)
        BY <3>4 DEF Start, StartDispatch, StartObjective, StartVerify
      <4> QED
        BY <4>1, MovesOwn DEF TypeInv
    <3>5. CASE CreateTicket(p) \/ Claim(p) \/ Lease(p) \/ GiveBack(p) \/ DropTicket(p)
      <4>1. Finish(p) \/ \E l \in {"claim", "lease", "commit", "dropTicket"} : Goto(p, l)
        BY <3>5 DEF CreateTicket, Claim, Lease, GiveBack, DropTicket
      <4> QED
        BY <4>1, MovesOwn DEF TypeInv
    <3>8. CASE Crash(p) \/ Commit(p) \/ WriteSpec(p) \/ WriteRow(p)
      <4>1. \/ Finish(p) \/ \E j : NextDir(p, j)
            \/ \E l \in {"rbClaim", "spec", "dropTicket", "giveBack", "row"} : Goto(p, l)
        BY <3>8 DEF Crash, Commit, WriteSpec, WriteRow
      <4> QED
        BY <4>1, MovesOwn DEF TypeInv
    <3>6. CASE \/ RollbackClaim(p) \/ RollbackTicket(p) \/ RollbackSpec(p) \/ RollbackRow(p)
               \/ RunGate(p) \/ Miss(p) \/ Close(p) \/ CloseRow(p) \/ CloseClaim(p)
      BY <3>6, MovesOwn DEF RollbackClaim, RollbackTicket, RollbackSpec, RollbackRow,
         RunGate, Miss, Close, CloseRow, CloseClaim, TypeInv, NothingToMark
    <3>7. CASE CloseTicket(p) \/ UndoRow(p) \/ UndoClaims(p) \/ UndoTicket(p)
      BY <3>7, MovesOwn DEF CloseTicket, UndoRow, UndoClaims, UndoTicket, TypeInv
    <3> QED
      BY <1>1, <3>1, <3>2, <3>3, <3>4, <3>5, <3>6, <3>7, <3>8 DEF Step
  <2> QED
    BY <2>1, <2>2, <2>3, <2>4 DEF NothingToMark
<1>2. ASSUME NEW c \in Cases, EditRun(c) PROVE FALSE
  BY <1>2 DEF EditRun, Spend, NothingToMark, TypeInv, Left
<1>3. CASE UNCHANGED vars
  BY <1>3 DEF vars, files, NothingToMark
<1> QED
  BY <1>1, <1>2, <1>3 DEF Next, Finished

\* Where no case can be exhausted or lose its gate, that never happens, and
\* the gap loop implements the life cycle: for any number of processes,
\* cases, failures, timeouts and kills.
THEOREM ImplementsLifecycle ==
    ASSUME MaxAttempts = Unbounded, MaxEdits = 0, \A c \in Cases : FirstRuns[c].gated
    PROVE  Spec => FollowsLifecycle
<1>1. Init => TypeInv /\ NothingToMark
  BY InitTypeInv DEF Init, NothingToMark
<1>2. TypeInv /\ [Next]_vars => TypeInv'
  BY StepTypeInv
<1>3. TypeInv /\ NothingToMark /\ [Next]_vars => NothingToMark'
  BY NothingToMarkStep
<1>4. NothingToMark => [\A p \in Procs : MarkIsTimely(p)]_vars
  BY DEF NothingToMark, MarkIsTimely
<1>5. Spec => MarksAreTimely
  BY <1>1, <1>2, <1>3, <1>4, PTL DEF Spec, MarksAreTimely
<1> QED
  BY <1>5, LifecycleButForLateMarks

-----------------------------------------------------------------------------
(* What is true as long as nothing has failed. *)

\* No read, no write and no wait for the lock has failed so far; and no run
\* was rewritten and no process killed either.
Quiet == left.faults = MaxFaults /\ left.timeouts = MaxTimeouts
Calm == Quiet /\ left.edits = MaxEdits /\ left.crashes = MaxCrashes

BoundsHold ==
    /\ left.faults <= MaxFaults /\ left.timeouts <= MaxTimeouts
    /\ left.edits <= MaxEdits /\ left.crashes <= MaxCrashes

RollingBack == {"rbClaim", "rbTicket", "rbSpec", "rbRow"}
Dispatching == {"claim", "lease", "commit", "spec", "row"} \cup RollingBack
Undoing == {"giveBack", "dropTicket", "undoRow", "undoClaims", "undoTicket"}

\* What a command knows of its ticket and its spec.
SmoothOf(p) ==
    LET j == job[p] IN
    /\ pc[p] \notin Undoing
    /\ pc[p] \in Dispatching \cup {"closeClaim", "closeTicket"} =>
          j.tid \in Ids /\ TicketFor(j.case) = j.tid
    /\ pc[p] = "closeRow" => j.tid = TicketFor(j.case)
    /\ pc[p] \in RollingBack => Terminal(j.prior)
    /\ pc[p] = "row" => artifacts[j.tid] = j.case

Smooth == DispatchedHasSpec /\ \A p \in Procs : SmoothOf(p)
QuietInv == Quiet => Smooth

\* A mark is about to be written for the case.
Marking(c) == \E p \in Procs : pc[p] = "markRow" /\ job[p].case = c

\* What a command knows of the lease of its case.
LeaseOf(p) ==
    LET j == job[p] IN
    /\ pc[p] # "idle" => j.who \in Claimants
    /\ pc[p] \in {"mark", "markRow"} /\ j.goal = "unverifiable" => ~runs[j.case].gated
    /\ pc[p] \in {"create"} \cup Dispatching => runs[j.case].gated
    /\ pc[p] = "commit" =>
          claims[j.tid] = j.who \/ Terminal(ledger[j.case]) \/ Marking(j.case)
    /\ pc[p] \in {"spec", "row"} => claims[j.tid] = j.who
    /\ pc[p] = "markRow" => ~Leased(j.case)
    /\ pc[p] \in {"closeRow", "closeClaim"} =>
          \A t \in Ids : t = j.tid => j.snap[t] \in {j.who, NoOne}

\* Who answers for a lease: the row, or a command under way.
AnswersFor(p, t) ==
    /\ job[p].tid = t
    /\ \/ pc[p] = "closeClaim"
       \/ pc[p] \in {"commit", "spec", "row", "rbClaim"} /\ job[p].who = claims[t]

LeaseHasGate == \A t \in Ids : claims[t] # NoOne => \E c \in Cases : TicketFor(c) = t /\ runs[c].gated
DispatchedIsLeased == \A c \in Cases : ledger[c].state = "dispatched" => Leased(c) \/ Marking(c)
LeaseIsAnswered ==
    \A t \in Ids : claims[t] # NoOne =>
        \/ ledger[tickets[t].case].state = "dispatched"
        \/ \E p \in Procs : AnswersFor(p, t)
ClosedHasTicket ==
    \A c \in Cases : ledger[c].state = "closed" => \A t \in Ids : t = ledger[c].closedTicket =>
        /\ tickets[t].case = c
        /\ tickets[t].closed \/ \E p \in Procs : pc[p] \in {"closeClaim", "closeTicket"} /\ job[p].tid = t

LeasesTell ==
    /\ \A p \in Procs : LeaseOf(p)
    /\ LeaseHasGate /\ DispatchedIsLeased /\ LeaseIsAnswered /\ ClosedHasTicket
CalmInv == Calm => LeasesTell

\* A command that is not in the section of the lock leaves the tickets and the
\* specs alone too; only the early error path of a dispatch does not.
LEMMA LockExcludesFiles ==
    ASSUME NEW p \in Procs, NEW q \in Procs \ {p}, lock = q,
           pc[p] \notin Locked \cup {"dropTicket"}, Start(p) \/ Step(p) \/ Crash(p)
    PROVE  UNCHANGED <<tickets, artifacts>>
<1>0. ~LockIsUp
  BY GapLoopAssumption DEF LockIsUp
<1> USE <1>0 DEF files, Locked
<1>1. CASE Start(p) \/ Crash(p)
  BY <1>1 DEF Start, StartDispatch, StartObjective, StartVerify, Crash
<1>2. CASE Pick(p) \/ Scan(p) \/ FindTicket(p) \/ Claim(p) \/ RunGate(p)
  BY <1>2 DEF Pick, Scan, FindTicket, Claim, RunGate
<1>3. CASE CreateTicket(p) \/ Lease(p) \/ Commit(p) \/ GiveBack(p) \/ Mark(p) \/ Miss(p) \/ Close(p)
  BY <1>3 DEF CreateTicket, Lease, Commit, GiveBack, Mark, Miss, Close
<1>4. CASE \/ DropTicket(p) \/ WriteSpec(p) \/ WriteRow(p) \/ RollbackClaim(p) \/ RollbackTicket(p)
           \/ RollbackSpec(p) \/ RollbackRow(p) \/ MarkRow(p) \/ CloseRow(p) \/ CloseClaim(p)
           \/ CloseTicket(p) \/ UndoRow(p) \/ UndoClaims(p) \/ UndoTicket(p)
  BY <1>4 DEF DropTicket, WriteSpec, WriteRow, RollbackClaim, RollbackTicket, RollbackSpec,
     RollbackRow, MarkRow, CloseRow, CloseClaim, CloseTicket, UndoRow, UndoClaims, UndoTicket
<1> QED
  BY <1>1, <1>2, <1>3, <1>4 DEF Step

-----------------------------------------------------------------------------
(* The bounds only shrink, so what has not happened yet never had. *)

LEMMA LeftStep ==
    ASSUME [Next]_vars
    PROVE  \/ UNCHANGED left
           \/ \E k \in {"ops", "edits", "faults", "timeouts", "crashes"} : Spend(k)
<1>1. ASSUME NEW p \in Procs, Start(p) \/ Step(p) \/ Crash(p)
      PROVE  UNCHANGED left \/ \E k \in {"ops", "faults", "timeouts", "crashes"} : Spend(k)
  <2> USE DEF Fault, TimesOut
  <2>1. CASE \/ Start(p) \/ Crash(p) \/ Pick(p) \/ Scan(p) \/ FindTicket(p) \/ Claim(p)
             \/ RunGate(p) \/ CreateTicket(p) \/ Lease(p) \/ Commit(p)
    BY <2>1 DEF Start, StartDispatch, StartObjective, StartVerify, Crash, Pick, Scan, FindTicket,
       Claim, RunGate, CreateTicket, Lease, Commit
  <2>2. CASE \/ WriteSpec(p) \/ WriteRow(p) \/ RollbackClaim(p) \/ RollbackTicket(p)
             \/ RollbackSpec(p) \/ RollbackRow(p) \/ GiveBack(p) \/ DropTicket(p)
             \/ Mark(p) \/ MarkRow(p)
    BY <2>2 DEF WriteSpec, WriteRow, RollbackClaim, RollbackTicket, RollbackSpec, RollbackRow,
       GiveBack, DropTicket, Mark, MarkRow
  <2>3. CASE \/ Miss(p) \/ Close(p) \/ CloseRow(p) \/ CloseClaim(p) \/ CloseTicket(p)
             \/ UndoRow(p) \/ UndoClaims(p) \/ UndoTicket(p)
    BY <2>3 DEF Miss, Close, CloseRow, CloseClaim, CloseTicket, UndoRow, UndoClaims, UndoTicket
  <2> QED
    BY <1>1, <2>1, <2>2, <2>3 DEF Step
<1>2. ASSUME NEW c \in Cases, EditRun(c) PROVE Spend("edits")
  BY <1>2 DEF EditRun
<1> QED
  BY <1>1, <1>2 DEF Next, Finished, vars

LEMMA SpendLess ==
    ASSUME left \in Left, NEW k \in {"ops", "edits", "faults", "timeouts", "crashes"}, Spend(k)
    PROVE  /\ left[k] \in Nat /\ left'[k] < left[k]
           /\ \A m \in {"ops", "edits", "faults", "timeouts", "crashes"} : left'[m] <= left[m]
<1>1. \A m \in {"ops", "edits", "faults", "timeouts", "crashes"} : left[m] \in Nat
  BY DEF Left
<1>2. left' = [left EXCEPT ![k] = @ - 1] /\ left[k] > 0
  BY DEF Spend
<1>3. left'[k] = left[k] - 1 /\ \A m \in {"ops", "edits", "faults", "timeouts", "crashes"} \ {k} :
         left'[m] = left[m]
  BY <1>2 DEF Left
<1> QED
  BY <1>1, <1>2, <1>3

LEMMA BoundsStep == TypeInv /\ BoundsHold /\ [Next]_vars => BoundsHold'
<1> SUFFICES ASSUME TypeInv, BoundsHold, [Next]_vars PROVE BoundsHold'
  OBVIOUS
<1>1. left.faults \in Nat /\ left.timeouts \in Nat /\ left.edits \in Nat /\ left.crashes \in Nat
  BY DEF TypeInv, Left
<1>2. left'.faults \in Nat /\ left'.timeouts \in Nat /\ left'.edits \in Nat /\ left'.crashes \in Nat
  BY StepTypeInv DEF TypeInv, Left
<1>3. /\ left'.faults <= left.faults /\ left'.timeouts <= left.timeouts
      /\ left'.edits <= left.edits /\ left'.crashes <= left.crashes
  BY <1>1, LeftStep, SpendLess DEF TypeInv
<1> QED
  BY <1>1, <1>2, <1>3, GapLoopAssumption DEF BoundsHold

\* Nothing was spent in a step after which nothing is.
LEMMA NothingSpent ==
    ASSUME TypeInv, BoundsHold, [Next]_vars
    PROVE  /\ Quiet' => Quiet /\ ~Fault /\ ~TimesOut
           /\ Calm' => Calm /\ ~Spend("edits") /\ ~Spend("crashes")
<1>1. left.faults \in Nat /\ left.timeouts \in Nat /\ left.edits \in Nat /\ left.crashes \in Nat
  BY DEF TypeInv, Left
<1>2. /\ left'.faults \in Nat /\ left'.timeouts \in Nat /\ left'.edits \in Nat
      /\ left'.crashes \in Nat
  BY StepTypeInv DEF TypeInv, Left
<1>3. /\ left'.faults <= left.faults /\ left'.timeouts <= left.timeouts
      /\ left'.edits <= left.edits /\ left'.crashes <= left.crashes
  BY <1>1, LeftStep, SpendLess DEF TypeInv
<1>4. /\ Spend("faults") => left'.faults < left.faults
      /\ Spend("timeouts") => left'.timeouts < left.timeouts
      /\ Spend("edits") => left'.edits < left.edits
      /\ Spend("crashes") => left'.crashes < left.crashes
  BY SpendLess DEF TypeInv
<1> QED
  BY <1>1, <1>2, <1>3, <1>4, GapLoopAssumption
     DEF BoundsHold, Quiet, Calm, Fault, TimesOut

-----------------------------------------------------------------------------
(* How a step of a command changes the row of its case. *)

LEMMA RowChanges ==
    ASSUME IInv, NEW p \in Procs, Start(p) \/ Step(p) \/ Crash(p), pc[p] # "undoRow",
           NEW c \in Cases
    PROVE  \/ /\ ledger'[c].state = ledger[c].state
              /\ ledger'[c].closedTicket = ledger[c].closedTicket
           \/ /\ WriteRow(p) /\ job[p].case = c
              /\ ~Terminal(ledger[c]) /\ ledger'[c].state = "dispatched"
           \/ /\ MarkRow(p) /\ job[p].case = c
              /\ ledger'[c].state \in {"exhausted", "unverifiable"}
           \/ /\ CloseRow(p) /\ job[p].case = c
              /\ ledger'[c].state = "closed" /\ ledger'[c].closedTicket = job[p].tid
<1>0. /\ ledger \in [Cases -> Row] /\ ledger[c] \in Row /\ Section(p)
      /\ job[p].goal \in {"exhausted", "unverifiable"}
      /\ job[p].prior \in Row
      /\ pc[p] # "idle" => job[p].case \in Cases
  BY JobFields DEF IInv, TypeInv, FilesOK, SectionInv
<1>1. CASE WriteRow(p)
  <2>1. job[p].prior = ledger[job[p].case] /\ ~Terminal(job[p].prior)
    BY <1>0, <1>1 DEF WriteRow, Section, RowUnwritten
  <2>2. DispatchedRow(job[p].prior).state = "dispatched"
    BY <1>0 DEF DispatchedRow, Row
  <2>3. ledger'[c] = ledger[c] \/ (job[p].case = c /\ ledger'[c] = DispatchedRow(job[p].prior))
    BY <1>0, <1>1 DEF WriteRow
  <2> QED
    BY <1>1, <2>1, <2>2, <2>3
<1>2. CASE MarkRow(p)
  <2>1. [job[p].prior EXCEPT !.state = job[p].goal].state = job[p].goal
    BY <1>0 DEF Row
  <2>2. \/ ledger'[c] = ledger[c]
        \/ job[p].case = c /\ ledger'[c] = [job[p].prior EXCEPT !.state = job[p].goal]
    BY <1>0, <1>2 DEF MarkRow
  <2> QED
    BY <1>0, <1>2, <2>1, <2>2
<1>3. CASE CloseRow(p)
  <2>1. \/ ledger'[c] = ledger[c]
        \/ job[p].case = c /\ ledger'[c] = ClosedRow(job[p].prior, job[p].tid)
    BY <1>0, <1>3 DEF CloseRow
  <2> QED
    BY <1>3, <2>1 DEF ClosedRow
<1>4. CASE RollbackRow(p)
  <2>1. job[p].prior = ledger[job[p].case]
    BY <1>0, <1>4 DEF RollbackRow, Section, RowUnwritten
  <2> QED
    BY <1>0, <1>4, <2>1 DEF RollbackRow
<1>5. CASE Miss(p)
  <2>1. ledger'[c] = ledger[c] \/ ledger'[c] = [ledger[c] EXCEPT !.attempts = @ + 1]
    BY <1>0, <1>5 DEF Miss
  <2>2. /\ [ledger[c] EXCEPT !.attempts = @ + 1].state = ledger[c].state
        /\ [ledger[c] EXCEPT !.attempts = @ + 1].closedTicket = ledger[c].closedTicket
    BY <1>0 DEF Row
  <2> QED
    BY <2>1, <2>2
<1>6. CASE \/ Start(p) \/ Crash(p) \/ Pick(p) \/ Scan(p) \/ FindTicket(p) \/ Claim(p) \/ RunGate(p)
           \/ CreateTicket(p) \/ Lease(p) \/ Commit(p) \/ WriteSpec(p) \/ GiveBack(p)
           \/ DropTicket(p) \/ RollbackClaim(p) \/ RollbackTicket(p) \/ RollbackSpec(p)
           \/ Mark(p) \/ Close(p) \/ CloseClaim(p) \/ CloseTicket(p) \/ UndoClaims(p)
           \/ UndoTicket(p)
  BY <1>6 DEF files, Start, StartDispatch, StartObjective, StartVerify, Crash, Pick, Scan,
     FindTicket, Claim, RunGate, CreateTicket, Lease, Commit, WriteSpec, GiveBack, DropTicket,
     RollbackClaim, RollbackTicket, RollbackSpec, Mark, Close, CloseClaim, CloseTicket,
     UndoClaims, UndoTicket
<1>7. CASE UndoRow(p)
  BY <1>7 DEF UndoRow
<1> QED
  BY <1>1, <1>2, <1>3, <1>4, <1>5, <1>6, <1>7 DEF Step

-----------------------------------------------------------------------------
(* Quiet steps. *)

LEMMA TicketForFindsNext ==
    \A c, t : t \in Ids /\ IsFirstFor(t, c)' => TicketFor(c)' = t
<1>1. \A c, t : t \in Ids /\ IsFirstFor(t, c) => TicketFor(c) = t
  BY TicketForFinds
<1>2. (\A c, t : t \in Ids /\ IsFirstFor(t, c) => TicketFor(c) = t)'
  BY <1>1, PTL
<1> QED
  BY <1>2

\* Without failures no ticket is removed, and the ticket of a case stays it.
LEMMA QuietTickets ==
    ASSUME IInv, NEW p \in Procs, SmoothOf(p), ~Fault, Start(p) \/ Step(p) \/ Crash(p)
    PROVE  /\ \A c \in Cases : TicketFor(c) # 0 => TicketFor(c)' = TicketFor(c)
           /\ \A t \in Ids : tickets[t].case # 0 =>
                 /\ tickets'[t].case = tickets[t].case
                 /\ tickets[t].closed => tickets'[t].closed
<1>0. tickets \in [Ids -> Ticket] /\ Section(p)
  BY DEF IInv, TypeInv, FilesOK, SectionInv
<1>1. \/ UNCHANGED tickets
      \/ \E n \in Ids : job[p].case \in Cases /\ Creates(n, job[p].case)
      \/ tickets' = [tickets EXCEPT ![job[p].tid].closed = TRUE]
  <2>1. CASE pc[p] \notin {"rbTicket", "dropTicket", "undoTicket"}
    BY <2>1, TicketSteps DEF IInv, TicketStep
  <2>2. CASE pc[p] = "rbTicket"
    <3>1. Terminal(ledger[job[p].case])
      BY <1>0, <2>2 DEF SmoothOf, RollingBack, Section, RowUnwritten
    <3>2. CASE RollbackTicket(p)
      BY <3>1, <3>2 DEF RollbackTicket
    <3>3. CASE Crash(p)
      BY <3>3 DEF Crash, files
    <3>4. ~Start(p) /\ (Step(p) => RollbackTicket(p))
      BY <2>2 DEF Start, StartDispatch, StartObjective, StartVerify, Step, Pick, Scan,
         FindTicket, CreateTicket, Claim, Lease, Commit, WriteSpec, WriteRow, RollbackClaim,
         RollbackSpec, RollbackRow, GiveBack, DropTicket, Mark, MarkRow, RunGate, Miss, Close,
         CloseRow, CloseClaim, CloseTicket, UndoRow, UndoClaims, UndoTicket
    <3> QED
      BY <3>2, <3>3, <3>4
  <2> QED
    BY <2>1, <2>2 DEF SmoothOf, Undoing
<1>2. \A t \in Ids : tickets[t].case # 0 =>
         tickets'[t].case = tickets[t].case /\ (tickets[t].closed => tickets'[t].closed)
  BY <1>0, <1>1 DEF Creates, Ticket
<1>3. ASSUME NEW c \in Cases, NEW t \in Ids, IsFirstFor(t, c) PROVE IsFirstFor(t, c)'
  <2>0. c # 0
    BY GapLoopAssumption DEF Cases
  <2>1. tickets'[t].case = c
    BY <1>2, <1>3, <2>0 DEF IsFirstFor
  <2>2. \A u \in Ids : tickets'[u].case = c => tickets[u].case = c
    <3>1. CASE \E n \in Ids : job[p].case \in Cases /\ Creates(n, job[p].case)
      <4>1. PICK n \in Ids : Creates(n, job[p].case)
        BY <3>1
      <4>2. job[p].case # c
        BY <1>3, <4>1, TicketForFinds DEF Creates, IsFirstFor
      <4>3. tickets'[n].case = job[p].case /\ \A u \in Ids \ {n} : tickets'[u] = tickets[u]
        BY <1>0, <4>1 DEF Creates, NoTicketFile
      <4> QED
        BY <4>2, <4>3
    <3>2. CASE ~ \E n \in Ids : job[p].case \in Cases /\ Creates(n, job[p].case)
      BY <1>0, <1>1, <3>2 DEF Ticket
    <3> QED
      BY <3>1, <3>2
  <2> QED
    BY <1>3, <2>1, <2>2 DEF IsFirstFor
<1>4. \A c \in Cases : TicketFor(c) # 0 => TicketFor(c)' = TicketFor(c)
  BY <1>3, TicketForFinds, TicketForFindsNext
<1> QED
  BY <1>2, <1>4

\* What the places of SmoothOf ask, once the command is at a place of a group.
LEMMA SmoothElsewhere ==
    ASSUME NEW p \in Procs,
           pc'[p] \notin Undoing \cup Dispatching \cup {"closeRow", "closeClaim", "closeTicket"}
    PROVE  SmoothOf(p)'
BY DEF SmoothOf, Undoing, Dispatching, RollingBack

\* A command knows of its ticket and spec what it needs to, if nothing fails.
LEMMA SmoothOwn ==
    ASSUME IInv, NEW p \in Procs, SmoothOf(p), ~Fault, ~TimesOut, Start(p) \/ Step(p) \/ Crash(p)
    PROVE  SmoothOf(p)'
<1>c. PICK c : c = job[p].case
  OBVIOUS
<1>t. PICK t : t = job[p].tid
  OBVIOUS
<1> USE MovesOwn, <1>c, <1>t
<1>0. /\ ControlOK /\ job[p] \in Job /\ Section(p)
      /\ tickets \in [Ids -> Ticket] /\ artifacts \in [Ids -> 0..NumCases]
      /\ pc[p] # "idle" => c \in Cases
  BY JobFields DEF IInv, TypeInv, SectionInv, FilesOK
<1>1. \A d \in Cases : TicketFor(d) # 0 => TicketFor(d)' = TicketFor(d)
  BY QuietTickets
<1>2. /\ \A d \in Cases : d # 0
      /\ 0 \notin Ids
  BY GapLoopAssumption DEF Cases, Ids
\* The command keeps its ticket.
<1>3. ASSUME NEW j, NEW l, pc'[p] = l, job'[p] = j, j.case = c, c \in Cases, j.tid = t,
             t \in Ids, TicketFor(c) = t, l \notin Undoing,
             l \in RollingBack => Terminal(j.prior),
             l = "row" => artifacts'[t] = c
      PROVE  SmoothOf(p)'
  <2>1. TicketFor(c)' = t
    BY <1>1, <1>2, <1>3
  <2> QED
    BY <1>3, <2>1 DEF SmoothOf, Terminal
<1>4. CASE \/ Start(p) \/ Crash(p) \/ Pick(p) \/ Scan(p) \/ RunGate(p) \/ Mark(p) \/ MarkRow(p)
           \/ Miss(p) \/ WriteRow(p) \/ RollbackRow(p) \/ CloseTicket(p)
  <2>1. CASE Start(p)
    <3>1. \E l \in {"pick", "scan", "gate"} : Goto(p, l)
      BY <2>1 DEF Start, StartDispatch, StartObjective, StartVerify
    <3> QED
      BY <1>0, <3>1, SmoothElsewhere DEF Undoing, Dispatching, RollingBack
  <2>2. CASE Crash(p) \/ MarkRow(p) \/ Miss(p) \/ RollbackRow(p)
    BY <1>0, <2>2, SmoothElsewhere
       DEF Crash, MarkRow, Miss, RollbackRow, Undoing, Dispatching, RollingBack
  <2>3. CASE Pick(p) \/ Scan(p)
    <3>1. \/ \E l \in {"mark", "find", "pick"} : Goto(p, l)
          \/ Finish(p) \/ NextDir(p, job[p])
      BY <2>3 DEF Pick, Scan
    <3> QED
      BY <1>0, <3>1, SmoothElsewhere DEF Undoing, Dispatching, RollingBack
  <2>4. CASE RunGate(p) \/ Mark(p)
    <3>1. (\E l \in {"close", "miss", "markRow"} : Goto(p, l)) \/ Finish(p) \/ AfterMark(p)
      BY <2>4 DEF RunGate, Mark
    <3> QED
      BY <1>0, <3>1, SmoothElsewhere DEF Undoing, Dispatching, RollingBack
  <2>5. CASE WriteRow(p)
    <3>1. Finish(p) \/ \E j : NextDir(p, j)
      BY <2>5 DEF WriteRow
    <3> QED
      BY <1>0, <3>1, SmoothElsewhere DEF Undoing, Dispatching, RollingBack
  <2>6. CASE CloseTicket(p)
    <3>1. t \in Ids /\ IsFirstFor(t, c)
      BY <2>6, <1>2, TicketForFinds DEF CloseTicket, SmoothOf
    <3>2. Exists(t)
      BY <1>0, <1>2, <2>6, <3>1 DEF Exists, IsFirstFor, CloseTicket
    <3>3. Finish(p)
      BY <2>6, <3>2 DEF CloseTicket
    <3> QED
      BY <1>0, <3>3, SmoothElsewhere DEF Undoing, Dispatching, RollingBack
  <2> QED
    BY <1>4, <2>1, <2>2, <2>3, <2>4, <2>5, <2>6
<1>5. CASE FindTicket(p)
  <2>1. CASE Goto(p, "mark") \/ Goto(p, "create")
    BY <1>0, <2>1, SmoothElsewhere DEF Undoing, Dispatching, RollingBack
  <2>2. CASE Goto(p, "claim") /\ TicketFor(c) # 0 /\ Set(p, [job[p] EXCEPT !.tid = TicketFor(c)])
    <3>1. TicketFor(c) \in Ids /\ c \in Cases
      BY <1>0, <1>5, <2>2, TicketForFinds DEF FindTicket
    <3>2. job'[p].case = c /\ job'[p].tid = TicketFor(c) /\ pc'[p] = "claim"
      BY <1>0, <2>2 DEF Job
    <3>3. TicketFor(c)' = TicketFor(c)
      BY <1>1, <2>2, <3>1
    <3> QED
      BY <3>1, <3>2, <3>3 DEF SmoothOf, Undoing, Dispatching, RollingBack
  <2> QED
    BY <1>5, <2>1, <2>2 DEF FindTicket
<1>6. CASE CreateTicket(p)
  <2>0. c \in Cases
    BY <1>0, <1>6 DEF CreateTicket
  <2>5. \A x : /\ [job[p] EXCEPT !.tid = x, !.made = TRUE].case = job[p].case
               /\ [job[p] EXCEPT !.tid = x, !.made = TRUE].tid = x
    BY <1>0 DEF Job
  <2>1. CASE TicketFor(c) # 0 /\ Goto(p, "claim")
             /\ Set(p, [job[p] EXCEPT !.tid = TicketFor(c), !.made = TRUE])
    <3>1. TicketFor(c) \in Ids
      BY <2>1, TicketForFinds
    <3>2. job'[p].case = c /\ job'[p].tid = TicketFor(c) /\ pc'[p] = "claim"
      <4>1. job'[p] = [job[p] EXCEPT !.tid = TicketFor(c), !.made = TRUE] /\ pc'[p] = "claim"
        BY <1>0, <2>1
      <4> QED
        BY <4>1, <2>5
    <3>3. TicketFor(c)' = TicketFor(c)
      BY <1>1, <2>0, <2>1
    <3> QED
      BY <3>1, <3>2, <3>3 DEF SmoothOf, Undoing, Dispatching, RollingBack
  <2>2. ASSUME TicketFor(c) = 0, Goto(p, "claim"), NEW n \in Ids,
               tickets' = [tickets EXCEPT ![n] = [NoTicketFile EXCEPT !.case = c]],
               Set(p, [job[p] EXCEPT !.tid = n, !.made = TRUE])
        PROVE  SmoothOf(p)'
    <3>1. \A u \in Ids : tickets[u].case # c
      BY <2>2, TicketForFinds
    <3>2. tickets'[n].case = c /\ \A u \in Ids \ {n} : tickets'[u].case # c
      BY <1>0, <2>2, <3>1 DEF NoTicketFile
    <3>3. n <= n
      BY GapLoopAssumption DEF Ids
    <3>4. job'[p].case = c /\ job'[p].tid = n /\ pc'[p] = "claim"
      <4>1. job'[p] = [job[p] EXCEPT !.tid = n, !.made = TRUE] /\ pc'[p] = "claim"
        BY <1>0, <2>2
      <4> QED
        BY <4>1, <2>5
    <3>5. c' = c
      BY <3>4
    <3>6. \A d : d = c => IsFirstFor(n, d)'
      BY <3>2, <3>3 DEF IsFirstFor
    <3>7. \A d : d = c => TicketFor(d)' = n
      BY <3>6, TicketForFindsNext
    <3> QED
      BY <3>4, <3>7 DEF SmoothOf, Undoing, Dispatching, RollingBack
  <2> QED
    BY <1>6, <2>1, <2>2 DEF CreateTicket
<1>7. CASE \/ Claim(p) \/ Lease(p) \/ WriteSpec(p) \/ RollbackClaim(p) \/ RollbackTicket(p)
           \/ RollbackSpec(p) \/ CloseClaim(p)
  <2>1. pc[p] \in Dispatching \cup {"closeClaim"}
    BY <1>7 DEF Claim, Lease, WriteSpec, RollbackClaim, RollbackTicket, RollbackSpec, CloseClaim,
       Dispatching, RollingBack
  <2>2. t \in Ids /\ TicketFor(c) = t /\ c \in Cases
    BY <1>0, <2>1 DEF SmoothOf, Dispatching, RollingBack
  <2>3. CASE Finish(p)
    BY <1>0, <2>3, SmoothElsewhere DEF Undoing, Dispatching, RollingBack
  <2>4. ASSUME NEW l \in {"lease", "commit", "closeTicket"}, Goto(p, l), UNCHANGED job
        PROVE  SmoothOf(p)'
    BY <1>0, <2>2, <2>4, <1>3 DEF Undoing, RollingBack
  <2>5. CASE WriteSpec(p)
    <3>1. artifacts'[t] = c /\ Goto(p, "row") /\ UNCHANGED job
      BY <1>0, <2>2, <2>5 DEF WriteSpec
    <3> QED
      BY <1>0, <2>2, <3>1, <1>3 DEF Undoing, RollingBack
  <2>6. CASE RollbackClaim(p) \/ RollbackTicket(p) \/ RollbackSpec(p)
    <3>1. pc[p] \in RollingBack /\ UNCHANGED job
          /\ \E l \in {"rbTicket", "rbSpec", "rbRow"} : Goto(p, l)
      BY <2>6 DEF RollbackClaim, RollbackTicket, RollbackSpec, RollingBack
    <3> QED
      BY <1>0, <2>2, <3>1, <1>3 DEF Undoing, RollingBack, SmoothOf
  <2> QED
    BY <1>7, <2>3, <2>4, <2>5, <2>6 DEF Claim, Lease, CloseClaim
<1>8. CASE Commit(p)
  <2>1. /\ Set(p, [job[p] EXCEPT !.prior = ledger[c]])
        /\ Goto(p, IF Terminal(ledger[c]) THEN "rbClaim" ELSE "spec")
    BY <1>8 DEF Commit
  <2>2. t \in Ids /\ TicketFor(c) = t /\ c \in Cases
    BY <1>0, <1>8 DEF Commit, SmoothOf, Dispatching
  <2>3. job'[p].case = c /\ job'[p].tid = t /\ job'[p].prior = ledger[c]
    BY <1>0, <2>1 DEF Job
  <2>4. pc'[p] = IF Terminal(ledger[c]) THEN "rbClaim" ELSE "spec"
    BY <1>0, <2>1
  <2> QED
    BY <2>2, <2>3, <2>4, <1>3 DEF Undoing, RollingBack
<1>9. CASE Close(p)
  <2> DEFINE j == [job[p] EXCEPT !.prior = ledger[c], !.snap = claims,
                                 !.tid = TicketFor(c), !.wasClosed = TicketClosed(c)]
  <2>1. CASE Finish(p)
    BY <1>0, <2>1, SmoothElsewhere DEF Undoing, Dispatching, RollingBack
  <2>2. CASE Set(p, j) /\ Goto(p, "closeRow") /\ UNCHANGED files
    <3>1. j.case = c /\ j.tid = TicketFor(c)
      BY <1>0 DEF Job
    <3>2. job'[p] = j /\ pc'[p] = "closeRow"
      BY <1>0, <2>2
    <3>3. \A d : TicketFor(d)' = TicketFor(d)
      BY <2>2 DEF files, TicketFor, IsFirstFor
    <3> HIDE DEF j
    <3> QED
      BY <3>1, <3>2, <3>3 DEF SmoothOf, Undoing, Dispatching, RollingBack
  <2> QED
    BY <1>9, <2>1, <2>2 DEF Close
<1>10. CASE CloseRow(p)
  <2>1. CASE Finish(p)
    BY <1>0, <2>1, SmoothElsewhere DEF Undoing, Dispatching, RollingBack
  <2>2. CASE t # 0 /\ Goto(p, "closeClaim") /\ UNCHANGED job
    <3>1. TicketFor(c) = t /\ t \in Ids /\ c \in Cases
      BY <1>0, <1>10, <2>2, TicketForFinds DEF CloseRow, SmoothOf
    <3> QED
      BY <1>0, <2>2, <3>1, <1>3 DEF Undoing, RollingBack
  <2> QED
    BY <1>10, <2>1, <2>2 DEF CloseRow
<1>11. CASE GiveBack(p) \/ DropTicket(p) \/ UndoRow(p) \/ UndoClaims(p) \/ UndoTicket(p)
  BY <1>11 DEF SmoothOf, Undoing, GiveBack, DropTicket, UndoRow, UndoClaims, UndoTicket
<1> QED
  BY <1>4, <1>5, <1>6, <1>7, <1>8, <1>9, <1>10, <1>11 DEF Step

\* No other command takes that knowledge away.
LEMMA SmoothOthers ==
    ASSUME IInv, Smooth, NEW p \in Procs, NEW q \in Procs \ {p}, ~Fault,
           Start(p) \/ Step(p) \/ Crash(p)
    PROVE  SmoothOf(q)'
<1>0. SmoothOf(p) /\ SmoothOf(q) /\ Section(p) /\ Section(q)
  BY DEF Smooth, IInv, SectionInv
<1>1. pc'[q] = pc[q] /\ job'[q] = job[q]
  BY MovesOnlyItself DEF IInv, TypeInv
<1>2. \A d \in Cases : TicketFor(d) # 0 => TicketFor(d)' = TicketFor(d)
  BY <1>0, QuietTickets
<1>3. pc[q] # "idle" => job[q].case \in Cases
  BY DEF IInv, TypeInv, ControlOK
<1>4. 0 \notin Ids
  BY GapLoopAssumption DEF Ids
<1>5. ASSUME pc[q] \in {"closeRow", "row"} PROVE UNCHANGED <<tickets, artifacts>>
  <2>1. lock = q /\ pc[p] \notin Locked \cup {"dropTicket"}
    BY <1>0, <1>5 DEF Section, Locked, SmoothOf, Undoing
  <2> QED
    BY <2>1, LockExcludesFiles
<1>6. CASE pc[q] = "closeRow"
  <2>1. \A d : TicketFor(d)' = TicketFor(d)
    BY <1>5, <1>6 DEF TicketFor, IsFirstFor
  <2> QED
    BY <1>0, <1>1, <1>6, <2>1 DEF SmoothOf, Undoing, Dispatching, RollingBack
<1>7. CASE pc[q] \in Dispatching \cup {"closeClaim", "closeTicket"}
  <2>1. TicketFor(job[q].case)' = job[q].tid
    <3>1. PICK d \in Cases : d = job[q].case
      BY <1>3, <1>7 DEF Dispatching, RollingBack
    <3>2. TicketFor(d) = job[q].tid /\ job[q].tid \in Ids
      BY <1>0, <1>7, <3>1 DEF SmoothOf
    <3>3. TicketFor(d)' = job[q].tid
      BY <1>2, <1>4, <3>2
    <3> QED
      BY <1>1, <3>1, <3>3
  <2>2. pc[q] = "row" => artifacts' = artifacts
    BY <1>5
  <2> QED
    BY <1>0, <1>1, <1>7, <2>1, <2>2 DEF SmoothOf, Dispatching, RollingBack, Terminal
<1>8. CASE pc[q] \notin Dispatching \cup {"closeRow", "closeClaim", "closeTicket"}
  BY <1>0, <1>1, <1>8, SmoothElsewhere DEF SmoothOf
<1> QED
  BY <1>6, <1>7, <1>8

\* What a step does to the specs.
LEMMA SpecSteps ==
    ASSUME NEW p \in Procs, Start(p) \/ Step(p) \/ Crash(p)
    PROVE  \/ UNCHANGED artifacts
           \/ pc[p] = "spec" /\ artifacts' = [artifacts EXCEPT ![job[p].tid] = job[p].case]
           \/ pc[p] = "rbSpec" /\ artifacts' = [artifacts EXCEPT ![job[p].tid] = 0]
<1>1. CASE WriteSpec(p) \/ RollbackSpec(p)
  BY <1>1 DEF WriteSpec, RollbackSpec
<1>2. CASE \/ Start(p) \/ Crash(p) \/ Pick(p) \/ Scan(p) \/ FindTicket(p) \/ Claim(p) \/ RunGate(p)
           \/ CreateTicket(p) \/ Lease(p) \/ Commit(p) \/ WriteRow(p) \/ GiveBack(p)
           \/ DropTicket(p) \/ RollbackClaim(p) \/ RollbackTicket(p) \/ RollbackRow(p)
           \/ Mark(p) \/ MarkRow(p) \/ Miss(p) \/ Close(p) \/ CloseRow(p) \/ CloseClaim(p)
           \/ CloseTicket(p) \/ UndoRow(p) \/ UndoClaims(p) \/ UndoTicket(p)
  BY <1>2 DEF files, Start, StartDispatch, StartObjective, StartVerify, Crash, Pick, Scan,
     FindTicket, Claim, RunGate, CreateTicket, Lease, Commit, WriteRow, GiveBack, DropTicket,
     RollbackClaim, RollbackTicket, RollbackRow, Mark, MarkRow, Miss, Close, CloseRow, CloseClaim,
     CloseTicket, UndoRow, UndoClaims, UndoTicket
<1> QED
  BY <1>1, <1>2 DEF Step

\* The ticket a dispatch or a close works on is the ticket of its case.
LEMMA TicketAtHand ==
    ASSUME NEW p \in Procs, SmoothOf(p),
           pc[p] \in Dispatching \cup {"closeClaim", "closeTicket"}
    PROVE  /\ job[p].tid \in Ids /\ TicketFor(job[p].case) = job[p].tid
           /\ tickets[job[p].tid].case = job[p].case
<1>1. job[p].tid \in Ids /\ TicketFor(job[p].case) = job[p].tid
  BY DEF SmoothOf
<1>2. job[p].tid # 0
  BY <1>1, GapLoopAssumption DEF Ids
<1>3. IsFirstFor(TicketFor(job[p].case), job[p].case)
  BY <1>1, <1>2, TicketForFinds
<1> QED
  BY <1>1, <1>3 DEF IsFirstFor

\* A row that says dispatched keeps its spec and gets none without one.
LEMMA SpecKept ==
    ASSUME IInv, Smooth, NEW p \in Procs, ~Fault, Start(p) \/ Step(p) \/ Crash(p)
    PROVE  DispatchedHasSpec'
<1>0. /\ SmoothOf(p) /\ Section(p) /\ pc[p] # "undoRow" /\ DispatchedHasSpec
      /\ artifacts \in [Ids -> 0..NumCases]
  BY DEF Smooth, SmoothOf, Undoing, IInv, SectionInv, TypeInv, FilesOK
<1> SUFFICES ASSUME NEW c \in Cases, ledger'[c].state = "dispatched"
             PROVE  \E t \in Ids : tickets'[t].case = c /\ artifacts'[t] = c
  BY DEF DispatchedHasSpec
<1>1. c # 0
  BY GapLoopAssumption DEF Cases
<1>2. CASE WriteRow(p) /\ job[p].case = c
  <2>1. pc[p] = "row" /\ UNCHANGED <<tickets, artifacts>>
    BY <1>2 DEF WriteRow
  <2>2. job[p].tid \in Ids /\ tickets[job[p].tid].case = c /\ artifacts[job[p].tid] = c
    BY <1>0, <1>2, <2>1, TicketAtHand DEF SmoothOf, Dispatching
  <2> QED
    BY <2>1, <2>2
<1>3. CASE ~(WriteRow(p) /\ job[p].case = c)
  <2>1. ledger[c].state = "dispatched"
    BY <1>0, <1>3, RowChanges
  <2>2. PICK t \in Ids : tickets[t].case = c /\ artifacts[t] = c
    BY <1>0, <2>1 DEF DispatchedHasSpec
  <2>3. tickets'[t].case = c
    BY <1>0, <1>1, <2>2, QuietTickets
  <2>4. artifacts'[t] = c
    <3>1. CASE pc[p] = "spec" /\ artifacts' = [artifacts EXCEPT ![job[p].tid] = job[p].case]
      <4>1. t = job[p].tid => job[p].case = c
        BY <1>0, <2>2, <3>1, TicketAtHand DEF Dispatching
      <4> QED
        BY <1>0, <2>2, <3>1, <4>1
    <3>2. CASE pc[p] = "rbSpec" /\ artifacts' = [artifacts EXCEPT ![job[p].tid] = 0]
      <4>1. job[p].tid \in Ids /\ tickets[job[p].tid].case = job[p].case
        BY <1>0, <3>2, TicketAtHand DEF Dispatching, RollingBack
      <4>2. Terminal(ledger[job[p].case])
        BY <1>0, <3>2 DEF SmoothOf, RollingBack, Section, RowUnwritten
      <4>3. t # job[p].tid
        BY <2>1, <2>2, <4>1, <4>2 DEF Terminal
      <4> QED
        BY <1>0, <2>2, <3>2, <4>3
    <3> QED
      BY <2>2, <3>1, <3>2, SpecSteps
  <2> QED
    BY <2>3, <2>4
<1> QED
  BY <1>2, <1>3

LEMMA SmoothUnchanged ==
    ASSUME Smooth, UNCHANGED <<ledger, tickets, artifacts, pc, job>>
    PROVE  Smooth'
<1>1. DispatchedHasSpec'
  BY DEF Smooth, DispatchedHasSpec
<1>2. \A d : TicketFor(d)' = TicketFor(d)
  BY DEF TicketFor, IsFirstFor
<1>3. ASSUME NEW p \in Procs PROVE SmoothOf(p)'
  BY <1>2 DEF Smooth, SmoothOf, Terminal
<1> QED
  BY <1>1, <1>3 DEF Smooth

LEMMA QuietStep == IInv /\ BoundsHold /\ QuietInv /\ [Next]_vars => QuietInv'
<1> SUFFICES ASSUME IInv, BoundsHold, QuietInv, [Next]_vars, Quiet' PROVE Smooth'
  BY DEF QuietInv
<1>1. Quiet /\ ~Fault /\ ~TimesOut
  BY NothingSpent DEF IInv
<1>2. Smooth
  BY <1>1 DEF QuietInv
<1>3. ASSUME NEW p \in Procs, Start(p) \/ Step(p) \/ Crash(p) PROVE Smooth'
  <2>1. DispatchedHasSpec'
    BY <1>1, <1>2, <1>3, SpecKept
  <2>2. SmoothOf(p)'
    BY <1>1, <1>2, <1>3, SmoothOwn DEF Smooth
  <2>3. \A q \in Procs \ {p} : SmoothOf(q)'
    BY <1>1, <1>2, <1>3, SmoothOthers
  <2> QED
    BY <2>1, <2>2, <2>3 DEF Smooth
<1>4. ASSUME NEW c \in Cases, EditRun(c) PROVE Smooth'
  BY <1>2, <1>4, SmoothUnchanged DEF EditRun
<1>5. CASE UNCHANGED vars
  BY <1>2, <1>5, SmoothUnchanged DEF vars, files
<1> QED
  BY <1>3, <1>4, <1>5 DEF Next, Finished

LEMMA InitQuiet == Init => BoundsHold /\ QuietInv
<1> SUFFICES ASSUME Init PROVE BoundsHold /\ QuietInv
  OBVIOUS
<1>1. BoundsHold
  BY GapLoopAssumption DEF Init, BoundsHold
<1>2. DispatchedHasSpec
  BY DEF Init, DispatchedHasSpec, NoRow
<1>3. \A p \in Procs : SmoothOf(p)
  BY DEF Init, SmoothOf, Undoing, Dispatching, RollingBack
<1> QED
  BY <1>1, <1>2, <1>3 DEF QuietInv, Smooth

\* A dispatched row has its ticket and its spec in every interleaving, through
\* kills at any point, up to the first read, write or wait that fails.
THEOREM SpecUntilFailure == Spec => [](Quiet => DispatchedHasSpec)
<1>1. Init => IInv /\ BoundsHold /\ QuietInv
  BY InitIInv, InitQuiet
<1>2. IInv /\ BoundsHold /\ QuietInv /\ [Next]_vars => (IInv /\ BoundsHold /\ QuietInv)'
  BY StepIInv, BoundsStep, QuietStep DEF IInv
<1>3. QuietInv => (Quiet => DispatchedHasSpec)
  BY DEF QuietInv, Smooth
<1> QED
  BY <1>1, <1>2, <1>3, PTL DEF Spec

\* Hence always where no read, write or wait fails, however many processes
\* are killed.
THEOREM SpecBeforeRow ==
    ASSUME MaxFaults = 0, MaxTimeouts = 0 PROVE Spec => []DispatchedHasSpec
<1>1. TypeInv /\ BoundsHold /\ (Quiet => DispatchedHasSpec) => DispatchedHasSpec
  <2>1. left.faults \in Nat /\ left.timeouts \in Nat => left.faults >= 0 /\ left.timeouts >= 0
    OBVIOUS
  <2> QED
    BY <2>1 DEF TypeInv, Left, BoundsHold, Quiet
<1>2. Init => IInv /\ BoundsHold
  BY InitIInv, InitQuiet
<1>3. IInv /\ BoundsHold /\ [Next]_vars => (IInv /\ BoundsHold)'
  BY StepIInv, BoundsStep DEF IInv
<1>4. IInv => TypeInv
  BY DEF IInv
<1> QED
  BY <1>1, <1>2, <1>3, <1>4, SpecUntilFailure, PTL DEF Spec

-----------------------------------------------------------------------------
(* Leases, as long as nothing fails, dies or is rewritten. *)

\* The commands leave the runs alone.
LEMMA RunsStay ==
    ASSUME NEW p \in Procs, Start(p) \/ Step(p) \/ Crash(p)
    PROVE  UNCHANGED runs
<1> USE DEF files
<1>1. CASE \/ Start(p) \/ Crash(p) \/ Pick(p) \/ Scan(p) \/ FindTicket(p) \/ Claim(p) \/ RunGate(p)
           \/ CreateTicket(p) \/ Lease(p) \/ Commit(p) \/ WriteSpec(p) \/ WriteRow(p) \/ GiveBack(p)
           \/ DropTicket(p)
  BY <1>1 DEF Start, StartDispatch, StartObjective, StartVerify, Crash, Pick, Scan,
     FindTicket, Claim, RunGate, CreateTicket, Lease, Commit, WriteSpec, WriteRow, GiveBack,
     DropTicket
<1>2. CASE \/ RollbackClaim(p) \/ RollbackTicket(p) \/ RollbackSpec(p) \/ RollbackRow(p)
           \/ Mark(p) \/ MarkRow(p) \/ Miss(p) \/ Close(p) \/ CloseRow(p) \/ CloseClaim(p)
           \/ CloseTicket(p) \/ UndoRow(p) \/ UndoClaims(p) \/ UndoTicket(p)
  BY <1>2 DEF RollbackClaim, RollbackTicket, RollbackSpec, RollbackRow, Mark, MarkRow, Miss,
     Close, CloseRow, CloseClaim, CloseTicket, UndoRow, UndoClaims, UndoTicket
<1> QED
  BY <1>1, <1>2 DEF Step

\* The ways a registry entry changes, each with what the command knows then.
TakesLease(p) == pc[p] = "lease" /\ Goto(p, "commit") /\ UNCHANGED <<job, ledger, tickets>>
EndsLease(p, t) ==
    /\ UNCHANGED <<ledger, tickets>>
    /\ \/ pc[p] \in {"rbClaim", "closeClaim"} /\ t = job[p].tid /\ Terminal(ledger[job[p].case])
       \/ /\ pc[p] = "mark" /\ t = TicketFor(job[p].case)
          /\ pc'[p] = "markRow" /\ job'[p].case = job[p].case

LEMMA LeaseChanges ==
    ASSUME IInv, Smooth, NEW p \in Procs, ~Fault, ~TimesOut, Start(p) \/ Step(p),
           NEW t \in Ids
    PROVE  \/ claims'[t] = claims[t]
           \/ /\ claims[t] = NoOne /\ claims'[t] = job[p].who
              /\ t = job[p].tid /\ TakesLease(p)
           \/ /\ claims[t] # NoOne /\ claims'[t] = NoOne
              /\ EndsLease(p, t)
<1>0. /\ Section(p) /\ SmoothOf(p) /\ ControlOK /\ job[p] \in Job
      /\ claims \in [Ids -> Claimants \cup {NoOne}]
  BY JobFields DEF Smooth, IInv, SectionInv, TypeInv, FilesOK, Registry
<1> USE MovesOwn, <1>0
<1>1. CASE \/ Start(p)
           \/ Pick(p) \/ Scan(p) \/ FindTicket(p) \/ Claim(p) \/ RunGate(p)
           \/ CreateTicket(p) \/ WriteSpec(p) \/ WriteRow(p) \/ DropTicket(p)
           \/ RollbackTicket(p) \/ RollbackSpec(p) \/ RollbackRow(p) \/ MarkRow(p)
           \/ Miss(p) \/ Close(p) \/ CloseRow(p) \/ CloseTicket(p)
           \/ UndoRow(p) \/ UndoTicket(p)
  BY <1>1 DEF files, Start, StartDispatch, StartObjective, StartVerify,
     Pick, Scan, FindTicket, Claim, RunGate, CreateTicket, WriteSpec, WriteRow, DropTicket,
     RollbackTicket, RollbackSpec, RollbackRow, MarkRow, Miss, Close, CloseRow,
     CloseTicket, UndoRow, UndoTicket
<1>2. CASE Lease(p)
  <2>1. UNCHANGED claims \/ (/\ claims[job[p].tid] = NoOne /\ TakesLease(p)
                             /\ claims' = [claims EXCEPT ![job[p].tid] = job[p].who])
    BY <1>2 DEF Lease, TakesLease
  <2> QED
    BY <2>1
<1>3. CASE Commit(p)
  BY <1>3 DEF Commit
<1>4. CASE RollbackClaim(p)
  <2>1. pc[p] = "rbClaim" /\ claims' = Released(job[p].tid, job[p].who) /\ UNCHANGED <<ledger, tickets>>
    BY <1>4 DEF RollbackClaim
  <2>2. Terminal(ledger[job[p].case])
    BY <2>1 DEF SmoothOf, RollingBack, Section, RowUnwritten
  <2>3. claims'[t] = claims[t] \/ (t = job[p].tid /\ claims'[t] = NoOne)
    BY <2>1 DEF Released
  <2> QED
    BY <2>1, <2>2, <2>3 DEF EndsLease
<1>5. CASE Mark(p)
  <2>1. pc[p] = "mark" /\ UNCHANGED <<ledger, tickets>>
    BY <1>5 DEF Mark
  <2>2. \/ UNCHANGED claims
        \/ /\ claims' = [claims EXCEPT ![TicketFor(job[p].case)] = NoOne]
           /\ Goto(p, "markRow") /\ Set(p, [job[p] EXCEPT !.prior = ledger[job[p].case]])
    BY <1>5 DEF Mark
  <2>3. ASSUME Set(p, [job[p] EXCEPT !.prior = ledger[job[p].case]])
        PROVE  job'[p].case = job[p].case
    <3>1. job'[p] = [job[p] EXCEPT !.prior = ledger[job[p].case]]
      BY <2>3
    <3> QED
      BY <3>1 DEF Job
  <2>4. UNCHANGED claims
        \/ (/\ claims' = [claims EXCEPT ![TicketFor(job[p].case)] = NoOne]
            /\ pc'[p] = "markRow" /\ job'[p].case = job[p].case)
    BY <2>2, <2>3
  <2> QED
    BY <2>1, <2>4 DEF EndsLease
<1>6. CASE CloseClaim(p)
  <2>1. pc[p] = "closeClaim" /\ UNCHANGED <<ledger, tickets>>
    BY <1>6 DEF CloseClaim
  <2>2. UNCHANGED claims \/ claims' = [claims EXCEPT ![job[p].tid] = NoOne]
    BY <1>6 DEF CloseClaim, Section
  <2>3. ledger[job[p].case].state = "closed"
    BY <2>1 DEF Section, RowClosed, ClosedRow
  <2> QED
    BY <2>1, <2>2, <2>3 DEF EndsLease, Terminal
<1>7. CASE GiveBack(p) \/ UndoClaims(p)
  BY <1>7 DEF GiveBack, UndoClaims, SmoothOf, Undoing
<1> QED
  BY <1>1, <1>2, <1>3, <1>4, <1>5, <1>6, <1>7 DEF Step

\* A command under way has a claimant.
LEMMA ClaimantKnown ==
    ASSUME IInv, NEW p \in Procs, LeaseOf(p), pc[p] # "idle"
    PROVE  job[p].who \in Claimants /\ job[p].who # NoOne
BY GapLoopAssumption DEF LeaseOf

\* Every update of the local variables of a command keeps its claimant.
LEMMA ClaimantOfJob ==
    ASSUME ControlOK, NEW p \in Procs
    PROVE  /\ \A x : Set(p, [job[p] EXCEPT !.goal = x]) => job'[p].who = job[p].who
           /\ \A x : Set(p, [job[p] EXCEPT !.tid = x]) => job'[p].who = job[p].who
           /\ \A x : Set(p, [job[p] EXCEPT !.prior = x]) => job'[p].who = job[p].who
           /\ \A x, y : Set(p, [job[p] EXCEPT !.goal = x, !.mode = y]) => job'[p].who = job[p].who
           /\ \A x, y : Set(p, [job[p] EXCEPT !.tid = x, !.made = y]) => job'[p].who = job[p].who
           /\ \A x, y, z, w :
                 Set(p, [job[p] EXCEPT !.prior = x, !.snap = y, !.tid = z, !.wasClosed = w])
                    => job'[p].who = job[p].who
<1>1. job[p] \in Job
  BY JobFields
<1>2. \A j : Set(p, j) /\ j.who = job[p].who => job'[p].who = job[p].who
  BY MovesOwn
<1>3. /\ \A x : [job[p] EXCEPT !.goal = x].who = job[p].who
      /\ \A x : [job[p] EXCEPT !.tid = x].who = job[p].who
      /\ \A x : [job[p] EXCEPT !.prior = x].who = job[p].who
      /\ \A x, y : [job[p] EXCEPT !.goal = x, !.mode = y].who = job[p].who
      /\ \A x, y : [job[p] EXCEPT !.tid = x, !.made = y].who = job[p].who
      /\ \A x, y, z, w :
            [job[p] EXCEPT !.prior = x, !.snap = y, !.tid = z, !.wasClosed = w].who = job[p].who
  BY <1>1 DEF Job
<1>4. \A x : Set(p, [job[p] EXCEPT !.goal = x]) => job'[p].who = job[p].who
  BY <1>2, <1>3, Zenon
<1>5. \A x : Set(p, [job[p] EXCEPT !.tid = x]) => job'[p].who = job[p].who
  BY <1>2, <1>3, Zenon
<1>6. \A x : Set(p, [job[p] EXCEPT !.prior = x]) => job'[p].who = job[p].who
  BY <1>2, <1>3, Zenon
<1>7. ASSUME NEW x, NEW y, Set(p, [job[p] EXCEPT !.goal = x, !.mode = y])
      PROVE  job'[p].who = job[p].who
  <2>1. job'[p] = [job[p] EXCEPT !.goal = x, !.mode = y]
    BY <1>7, MovesOwn
  <2> QED
    BY <1>3, <2>1
<1>8. ASSUME NEW x, NEW y, Set(p, [job[p] EXCEPT !.tid = x, !.made = y])
      PROVE  job'[p].who = job[p].who
  <2>1. job'[p] = [job[p] EXCEPT !.tid = x, !.made = y]
    BY <1>8, MovesOwn
  <2> QED
    BY <1>3, <2>1
<1>9. ASSUME NEW x, NEW y, NEW z, NEW w,
             Set(p, [job[p] EXCEPT !.prior = x, !.snap = y, !.tid = z, !.wasClosed = w])
      PROVE  job'[p].who = job[p].who
  <2>1. job'[p] = [job[p] EXCEPT !.prior = x, !.snap = y, !.tid = z, !.wasClosed = w]
    BY <1>9, MovesOwn
  <2> QED
    BY <1>3, <2>1
<1> QED
  BY <1>4, <1>5, <1>6, <1>7, <1>8, <1>9, Zenon

\* And so does going on to the next directory, with whatever was counted.
LEMMA ClaimantOfNextDir ==
    ASSUME ControlOK, NEW p \in Procs, NEW j, j.who = job[p].who, NextDir(p, j), pc'[p] # "idle"
    PROVE  job'[p].who = job[p].who
<1>1. CASE j.case < NumCases
  <2>1. job'[p] = [NoJob EXCEPT !.who = j.who, !.mode = j.mode, !.case = j.case + 1,
                                !.spent = j.spent, !.planned = j.planned]
    BY <1>1, MovesOwn DEF NextDir
  <2>2. [NoJob EXCEPT !.who = j.who, !.mode = j.mode, !.case = j.case + 1,
                      !.spent = j.spent, !.planned = j.planned].who = j.who
    BY DEF NoJob
  <2> QED
    BY <2>1, <2>2
<1>2. CASE ~(j.case < NumCases)
  BY <1>2, MovesOwn DEF NextDir
<1> QED
  BY <1>1, <1>2

LEMMA ClaimantKept ==
    ASSUME IInv, NEW p \in Procs, LeaseOf(p), Start(p) \/ Step(p), pc'[p] # "idle"
    PROVE  job'[p].who \in Claimants
<1>0. ControlOK /\ job[p] \in Job
  BY JobFields DEF IInv, TypeInv
<1>f. ~Finish(p)
  BY <1>0, MovesOwn
<1>1. CASE Start(p)
  <2>1. ASSUME NEW k \in Claimants, NEW j, Set(p, j), j.who = k PROVE job'[p].who \in Claimants
    BY <1>0, <2>1, MovesOwn
  <2>2. CASE StartDispatch(p)
    <3>1. PICK k \in Claimants : \/ \E c \in Cases : Set(p, [NoJob EXCEPT !.who = k, !.case = c])
                                 \/ Set(p, [NoJob EXCEPT !.who = k, !.case = 1, !.mode = "auto"])
      BY <2>2 DEF StartDispatch
    <3>2. /\ \A c : [NoJob EXCEPT !.who = k, !.case = c].who = k
          /\ [NoJob EXCEPT !.who = k, !.case = 1, !.mode = "auto"].who = k
      BY DEF NoJob
    <3> QED
      BY <2>1, <3>1, <3>2, Zenon
  <2>3. CASE StartObjective(p)
    <3>1. PICK k \in Claimants : Set(p, [NoJob EXCEPT !.who = k, !.case = 1, !.mode = "plan"])
      BY <2>3 DEF StartObjective
    <3>2. [NoJob EXCEPT !.who = k, !.case = 1, !.mode = "plan"].who = k
      BY DEF NoJob
    <3> QED
      BY <2>1, <3>1, <3>2, Zenon
  <2>4. CASE StartVerify(p)
    <3>1. PICK k \in Claimants : \E c, d, g :
             Set(p, [NoJob EXCEPT !.who = k, !.case = c, !.dir = d, !.gate = g])
      BY <2>4, Zenon DEF StartVerify
    <3>2. \A c, d, g : [NoJob EXCEPT !.who = k, !.case = c, !.dir = d, !.gate = g].who = k
      BY DEF NoJob
    <3> QED
      BY <2>1, <3>1, <3>2, Zenon
  <2> QED
    BY <1>1, <2>2, <2>3, <2>4 DEF Start
<1>2. CASE pc[p] # "idle"
  <2>0. job[p].who \in Claimants
    BY <1>2 DEF LeaseOf
  <2>1. SUFFICES job'[p].who = job[p].who
    BY <2>0
  <2>2. NextDir(p, job[p]) => job'[p].who = job[p].who
    BY <1>0, ClaimantOfNextDir
  <2>3. AfterMark(p) => job'[p].who = job[p].who
    BY <1>f, <2>2 DEF AfterMark
  <2>4. UNCHANGED job => job'[p].who = job[p].who
    OBVIOUS
  <2>5. CASE Pick(p) \/ Scan(p) \/ FindTicket(p) \/ Claim(p) \/ RunGate(p)
    <3>1. \/ UNCHANGED job \/ NextDir(p, job[p])
          \/ \E x : \/ Set(p, [job[p] EXCEPT !.goal = x]) \/ Set(p, [job[p] EXCEPT !.tid = x])
                    \/ \E y : Set(p, [job[p] EXCEPT !.goal = x, !.mode = y])
      BY <1>f, <2>5, Zenon DEF Pick, Scan, FindTicket, Claim, RunGate
    <3> QED
      BY <1>0, <2>2, <2>4, <3>1, ClaimantOfJob, Zenon
  <2>6. CASE CreateTicket(p)
    <3>1. \E x, y : Set(p, [job[p] EXCEPT !.tid = x, !.made = y])
      BY <1>f, <2>6, Zenon DEF CreateTicket
    <3> QED
      BY <1>0, <3>1, ClaimantOfJob, Zenon
  <2>7. CASE \/ Lease(p) \/ WriteSpec(p) \/ RollbackClaim(p) \/ RollbackTicket(p)
             \/ RollbackSpec(p) \/ RollbackRow(p) \/ GiveBack(p) \/ DropTicket(p) \/ Miss(p)
             \/ CloseRow(p) \/ CloseClaim(p) \/ CloseTicket(p) \/ UndoRow(p) \/ UndoClaims(p)
             \/ UndoTicket(p)
    <3>1. UNCHANGED job
      BY <1>f, <2>7 DEF Lease, WriteSpec, RollbackClaim, RollbackTicket, RollbackSpec, RollbackRow,
         GiveBack, DropTicket, Miss, CloseRow, CloseClaim, CloseTicket, UndoRow, UndoClaims,
         UndoTicket
    <3> QED
      BY <2>4, <3>1
  <2>8. CASE Commit(p) \/ Mark(p) \/ MarkRow(p)
    <3>1. UNCHANGED job \/ AfterMark(p) \/ \E x : Set(p, [job[p] EXCEPT !.prior = x])
      BY <2>8, Zenon DEF Commit, Mark, MarkRow
    <3> QED
      BY <1>0, <2>3, <2>4, <3>1, ClaimantOfJob, Zenon
  <2>9. CASE WriteRow(p)
    <3>1. UNCHANGED job \/ \E x, y : NextDir(p, [job[p] EXCEPT !.spent = x, !.planned = y])
      BY <1>f, <2>9, Zenon DEF WriteRow
    <3>2. \A x, y : [job[p] EXCEPT !.spent = x, !.planned = y].who = job[p].who
      BY <1>0 DEF Job
    <3> QED
      BY <1>0, <2>4, <3>1, <3>2, ClaimantOfNextDir, Zenon
  <2>10. CASE Close(p)
    <3>1. \E x, y, z, w :
             Set(p, [job[p] EXCEPT !.prior = x, !.snap = y, !.tid = z, !.wasClosed = w])
      BY <1>f, <2>10, Zenon DEF Close
    <3> QED
      BY <1>0, <3>1, ClaimantOfJob, Zenon
  <2>11. ~Start(p)
    BY <1>2 DEF Start, StartDispatch, StartObjective, StartVerify
  <2> QED
    BY <2>5, <2>6, <2>7, <2>8, <2>9, <2>10, <2>11 DEF Step
<1>3. CASE Step(p) /\ pc[p] = "idle"
  BY <1>3 DEF Step, Pick, Scan, FindTicket, CreateTicket, Claim, Lease, Commit,
     WriteSpec, WriteRow, RollbackClaim, RollbackTicket, RollbackSpec, RollbackRow,
     GiveBack, DropTicket, Mark, MarkRow, RunGate, Miss, Close, CloseRow, CloseClaim,
     CloseTicket, UndoRow, UndoClaims, UndoTicket
<1> QED
  BY <1>1, <1>2, <1>3

LEMMA LeaseOwn ==
    ASSUME IInv, Smooth, LeasesTell, NEW p \in Procs, ~Fault, ~TimesOut, Start(p) \/ Step(p)
    PROVE  LeaseOf(p)'
<1>c. PICK c : c = job[p].case
  OBVIOUS
<1>t. PICK t : t = job[p].tid
  OBVIOUS
<1>k. PICK k : k = job[p].who
  OBVIOUS
<1> USE <1>c, <1>t, <1>k
<1>0. /\ ControlOK /\ job[p] \in Job /\ Section(p) /\ SmoothOf(p) /\ LeaseOf(p)
      /\ claims \in [Ids -> Claimants \cup {NoOne}]
      /\ pc[p] # "idle" => c \in Cases
  BY JobFields DEF IInv, TypeInv, SectionInv, FilesOK, Registry, Smooth, LeasesTell
<1>1. runs' = runs
  BY RunsStay
<1>w. pc'[p] # "idle" => job'[p].who \in Claimants
  BY <1>0, ClaimantKept
\* Most places ask nothing about the lease.
<1>2. ASSUME pc'[p] \notin {"mark", "markRow", "create", "closeRow", "closeClaim"} \cup Dispatching
      PROVE  LeaseOf(p)'
  BY <1>2, <1>w DEF LeaseOf, Dispatching
<1>3. CASE \/ Start(p) \/ (Claim(p) /\ pc'[p] # "lease") \/ MarkRow(p) \/ RunGate(p) \/ Miss(p)
           \/ WriteRow(p) \/ RollbackRow(p) \/ CloseClaim(p) \/ CloseTicket(p)
           \/ GiveBack(p) \/ DropTicket(p) \/ UndoRow(p) \/ UndoClaims(p) \/ UndoTicket(p)
  <2>1. CASE Start(p)
    <3>1. \E l \in {"pick", "scan", "gate"} : Goto(p, l)
      BY <2>1 DEF Start, StartDispatch, StartObjective, StartVerify
    <3> QED
      BY <1>0, <1>2, <3>1, MovesOwn DEF Dispatching, RollingBack
  <2>2. CASE (Claim(p) /\ pc'[p] # "lease") \/ MarkRow(p) \/ Miss(p) \/ RollbackRow(p)
    BY <1>0, <1>2, <2>2, MovesOwn DEF Claim, MarkRow, Miss, RollbackRow, Dispatching, RollingBack
  <2>3. CASE RunGate(p) \/ CloseClaim(p)
    <3>1. (\E l \in {"close", "miss", "closeTicket"} : Goto(p, l)) \/ Finish(p)
      BY <2>3 DEF RunGate, CloseClaim
    <3> QED
      BY <1>0, <1>2, <3>1, MovesOwn DEF Dispatching, RollingBack
  <2>4. CASE WriteRow(p)
    <3>1. Finish(p) \/ \E j : NextDir(p, j)
      BY <2>4 DEF WriteRow
    <3> QED
      BY <1>0, <1>2, <3>1, MovesOwn DEF Dispatching, RollingBack
  <2>5. CASE CloseTicket(p)
    <3>1. Finish(p) \/ Goto(p, "undoRow")
      BY <2>5 DEF CloseTicket
    <3> QED
      BY <1>0, <1>2, <3>1, MovesOwn DEF Dispatching, RollingBack
  <2>6. ~GiveBack(p) /\ ~DropTicket(p) /\ ~UndoRow(p) /\ ~UndoClaims(p) /\ ~UndoTicket(p)
    BY <1>0 DEF SmoothOf, Undoing, GiveBack, DropTicket, UndoRow, UndoClaims, UndoTicket
  <2> QED
    BY <1>3, <2>1, <2>2, <2>3, <2>4, <2>5, <2>6
<1>4. CASE Pick(p) \/ Scan(p)
  <2>1. \/ Goto(p, "find") \/ Goto(p, "pick") \/ Finish(p) \/ NextDir(p, job[p])
        \/ \E x : Goto(p, "mark") /\ Set(p, [job[p] EXCEPT !.goal = "exhausted", !.mode = x])
        \/ Goto(p, "mark") /\ Set(p, [job[p] EXCEPT !.goal = "exhausted"])
    BY <1>4 DEF Pick, Scan
  <2>2. ASSUME NEW j, Goto(p, "mark"), Set(p, j), j.goal = "exhausted" PROVE LeaseOf(p)'
    <3>1. pc'[p] = "mark" /\ job'[p].goal = "exhausted"
      BY <1>0, <2>2, MovesOwn
    <3> QED
      BY <1>w, <3>1 DEF LeaseOf, Dispatching, RollingBack
  <2>3. ASSUME NEW x, Goto(p, "mark"), Set(p, [job[p] EXCEPT !.goal = "exhausted", !.mode = x])
        PROVE  LeaseOf(p)'
    <3>1. [job[p] EXCEPT !.goal = "exhausted", !.mode = x].goal = "exhausted"
      BY <1>0 DEF Job
    <3> QED
      BY <2>2, <2>3, <3>1
  <2>4. ASSUME Goto(p, "mark"), Set(p, [job[p] EXCEPT !.goal = "exhausted"])
        PROVE  LeaseOf(p)'
    <3>1. [job[p] EXCEPT !.goal = "exhausted"].goal = "exhausted"
      BY <1>0 DEF Job
    <3> QED
      BY <2>2, <2>4, <3>1
  <2>5. CASE Goto(p, "find") \/ Goto(p, "pick") \/ Finish(p) \/ NextDir(p, job[p])
    BY <1>0, <1>2, <2>5, MovesOwn DEF Dispatching, RollingBack
  <2> QED
    BY <2>1, <2>3, <2>4, <2>5
<1>5. CASE FindTicket(p)
  <2>1. ASSUME NEW j, Set(p, j), j.case = c, NEW l, Goto(p, l),
               (l = "mark" /\ ~runs[c].gated) \/ (l \in {"claim", "create"} /\ runs[c].gated)
        PROVE  LeaseOf(p)'
    <3>1. pc'[p] = l /\ job'[p].case = c
      BY <1>0, <2>1, MovesOwn
    <3> QED
      BY <1>w, <1>1, <2>1, <3>1 DEF LeaseOf, Dispatching, RollingBack
  <2>2. CASE Goto(p, "mark") /\ ~runs[c].gated
             /\ Set(p, [job[p] EXCEPT !.goal = "unverifiable", !.mode = "one"])
    <3>1. [job[p] EXCEPT !.goal = "unverifiable", !.mode = "one"].case = c
      BY <1>0 DEF Job
    <3> QED
      BY <2>1, <2>2, <3>1
  <2>3. CASE runs[c].gated /\ Goto(p, "claim") /\ Set(p, [job[p] EXCEPT !.tid = TicketFor(c)])
    <3>1. [job[p] EXCEPT !.tid = TicketFor(c)].case = c
      BY <1>0 DEF Job
    <3> QED
      BY <2>1, <2>3, <3>1
  <2>4. CASE runs[c].gated /\ Goto(p, "create") /\ UNCHANGED job
    <3>1. pc'[p] = "create" /\ job'[p] = job[p]
      BY <1>0, <2>4, MovesOwn
    <3> QED
      BY <1>w, <1>1, <2>4, <3>1 DEF LeaseOf, Dispatching, RollingBack
  <2> QED
    BY <1>5, <2>2, <2>3, <2>4 DEF FindTicket
<1>6. CASE CreateTicket(p)
  <2>0. runs[c].gated
    BY <1>0, <1>6 DEF CreateTicket, LeaseOf
  <2>1. \E x : Goto(p, "claim") /\ Set(p, [job[p] EXCEPT !.tid = x, !.made = TRUE])
    BY <1>6 DEF CreateTicket
  <2>2. PICK x : Goto(p, "claim") /\ Set(p, [job[p] EXCEPT !.tid = x, !.made = TRUE])
    BY <2>1
  <2>3. job'[p] = [job[p] EXCEPT !.tid = x, !.made = TRUE] /\ pc'[p] = "claim"
    BY <1>0, <2>2, MovesOwn
  <2>4. [job[p] EXCEPT !.tid = x, !.made = TRUE].case = c
    BY <1>0 DEF Job
  <2>5. job'[p].case = c
    BY <2>3, <2>4
  <2> QED
    BY <1>w, <1>1, <2>0, <2>3, <2>5 DEF LeaseOf, Dispatching, RollingBack
<1>7. CASE Claim(p) /\ pc'[p] = "lease"
  <2>1. UNCHANGED job /\ runs[c].gated
    BY <1>0, <1>7, MovesOwn DEF Claim, LeaseOf, Dispatching
  <2> QED
    BY <1>w, <1>1, <1>7, <2>1 DEF LeaseOf, Dispatching, RollingBack
<1>8. CASE Lease(p)
  <2>1. CASE Finish(p)
    BY <1>0, <1>2, <2>1, MovesOwn DEF Dispatching, RollingBack
  <2>2. CASE Goto(p, "commit") /\ UNCHANGED job
             /\ ((claims[t] = k /\ UNCHANGED claims) \/ claims' = [claims EXCEPT ![t] = k])
    <3>1. runs[c].gated /\ t \in Ids
      BY <1>0, <1>8 DEF Lease, LeaseOf, SmoothOf, Dispatching
    <3>2. claims'[t] = k
      BY <1>0, <2>2, <3>1
    <3>3. pc'[p] = "commit"
      BY <1>0, <2>2, MovesOwn
    <3> QED
      BY <1>w, <1>1, <2>2, <3>1, <3>2, <3>3 DEF LeaseOf, Dispatching, RollingBack
  <2> QED
    BY <1>8, <2>1, <2>2 DEF Lease
<1>9. CASE Commit(p)
  <2>0. runs[c].gated /\ pc[p] = "commit"
    BY <1>0, <1>9 DEF Commit, LeaseOf, Dispatching
  <2>1. /\ Set(p, [job[p] EXCEPT !.prior = ledger[c]])
        /\ Goto(p, IF Terminal(ledger[c]) THEN "rbClaim" ELSE "spec")
        /\ LockIsUp /\ UNCHANGED claims
    BY <1>9 DEF Commit
  <2>2. ~Marking(c)
    <3>1. \A q \in Procs : pc[q] = "markRow" => lock = q
      BY DEF IInv, SectionInv, Section, Locked
    <3> QED
      BY <2>1, <3>1, GapLoopAssumption DEF LockIsUp, Marking
  <2>3. ~Terminal(ledger[c]) => claims[t] = k
    BY <1>0, <2>0, <2>2 DEF LeaseOf
  <2>4. [job[p] EXCEPT !.prior = ledger[c]].case = c /\ [job[p] EXCEPT !.prior = ledger[c]].tid = t
        /\ [job[p] EXCEPT !.prior = ledger[c]].who = k
    BY <1>0 DEF Job
  <2>5. job'[p] = [job[p] EXCEPT !.prior = ledger[c]]
        /\ pc'[p] = IF Terminal(ledger[c]) THEN "rbClaim" ELSE "spec"
    BY <1>0, <2>1, MovesOwn
  <2>6. job'[p].case = c /\ job'[p].tid = t /\ job'[p].who = k
    BY <2>4, <2>5
  <2> QED
    BY <1>w, <1>1, <2>0, <2>1, <2>3, <2>5, <2>6 DEF LeaseOf, Dispatching, RollingBack
<1>10. CASE WriteSpec(p)
  <2>1. UNCHANGED <<claims, job>> /\ Goto(p, "row") /\ pc[p] = "spec"
    BY <1>10 DEF WriteSpec
  <2>2. runs[c].gated /\ claims[t] = k /\ pc'[p] = "row"
    BY <1>0, <2>1, MovesOwn DEF LeaseOf, Dispatching
  <2> QED
    BY <1>w, <1>1, <2>1, <2>2 DEF LeaseOf, Dispatching, RollingBack
<1>11. CASE RollbackClaim(p) \/ RollbackTicket(p) \/ RollbackSpec(p)
  <2>1. UNCHANGED job /\ pc[p] \in RollingBack /\ \E l \in {"rbTicket", "rbSpec", "rbRow"} : Goto(p, l)
    BY <1>11 DEF RollbackClaim, RollbackTicket, RollbackSpec, RollingBack
  <2>2. runs[c].gated /\ pc'[p] \in {"rbTicket", "rbSpec", "rbRow"}
    BY <1>0, <2>1, MovesOwn DEF LeaseOf, Dispatching
  <2> QED
    BY <1>w, <1>1, <2>1, <2>2 DEF LeaseOf, Dispatching, RollingBack
<1>12. CASE Mark(p)
  <2>1. CASE AfterMark(p)
    BY <1>0, <1>2, <2>1, MovesOwn DEF Dispatching, RollingBack
  <2>2. CASE /\ Set(p, [job[p] EXCEPT !.prior = ledger[c]]) /\ Goto(p, "markRow")
             /\ claims' = IF job[p].goal = "exhausted" /\ TicketFor(c) # 0
                          THEN [claims EXCEPT ![TicketFor(c)] = NoOne] ELSE claims
    <3>1. pc[p] = "mark" /\ UNCHANGED tickets /\ c \in Cases
      BY <1>0, <1>12 DEF Mark
    <3>2. job'[p] = [job[p] EXCEPT !.prior = ledger[c]] /\ pc'[p] = "markRow"
      BY <1>0, <2>2, MovesOwn
    <3>3. job'[p].case = c /\ job'[p].goal = job[p].goal
      BY <1>0, <3>2 DEF Job
    <3>4. job[p].goal \in {"exhausted", "unverifiable"}
      BY JobFields, <1>0
    <3>5. \A d : TicketFor(d)' = TicketFor(d)
      BY <3>1 DEF TicketFor, IsFirstFor
    <3>6. \A u \in Ids : u = TicketFor(c) => claims'[u] = NoOne
      <4>1. CASE job[p].goal = "exhausted"
        BY <1>0, <2>2, <4>1, TicketForFinds
      <4>2. CASE job[p].goal = "unverifiable"
        <5> SUFFICES ASSUME NEW u \in Ids, u = TicketFor(c), claims[u] # NoOne PROVE FALSE
          BY <2>2, <4>2
        <5>1. PICK d \in Cases : TicketFor(d) = u /\ runs[d].gated
          BY DEF LeasesTell, LeaseHasGate
        <5>2. u # 0
          BY GapLoopAssumption DEF Ids
        <5>3. tickets[u].case = c /\ tickets[u].case = d
          BY <5>1, <5>2, TicketForFinds DEF IsFirstFor
        <5> QED
          BY <1>0, <3>1, <4>2, <5>1, <5>3 DEF LeaseOf
      <4> QED
        BY <3>4, <4>1, <4>2
    <3>7. \A d : d = c => ~Leased(d)'
      BY <3>5, <3>6 DEF Leased
    <3>8. job[p].goal = "unverifiable" => ~runs[c].gated
      BY <1>0, <3>1 DEF LeaseOf
    <3> QED
      BY <1>w, <1>1, <3>2, <3>3, <3>7, <3>8 DEF LeaseOf, Dispatching, RollingBack
  <2> QED
    BY <1>12, <2>1, <2>2 DEF Mark
<1>13. CASE Close(p)
  <2> DEFINE j == [job[p] EXCEPT !.prior = ledger[c], !.snap = claims,
                                 !.tid = TicketFor(c), !.wasClosed = TicketClosed(c)]
  <2>1. CASE Finish(p)
    BY <1>0, <1>2, <2>1, MovesOwn DEF Dispatching, RollingBack
  <2>2. CASE Set(p, j) /\ Goto(p, "closeRow")
             /\ ~(TicketFor(c) # 0 /\ claims[TicketFor(c)] \notin {k, NoOne})
    <3>1. j.case = c /\ j.tid = TicketFor(c) /\ j.snap = claims /\ j.who = k
      BY <1>0 DEF Job
    <3>2. job'[p] = j /\ pc'[p] = "closeRow"
      BY <1>0, <2>2, MovesOwn
    <3>3. \A u \in Ids : u = TicketFor(c) => claims[u] \in {k, NoOne}
      BY <2>2, TicketForFinds
    <3> HIDE DEF j
    <3>4. job'[p].case = c /\ job'[p].tid = TicketFor(c) /\ job'[p].snap = claims /\ job'[p].who = k
      BY <3>1, <3>2
    <3>5. \A u \in Ids : u = job'[p].tid => job'[p].snap[u] \in {job'[p].who, NoOne}
      BY <3>3, <3>4
    <3> QED
      BY <1>w, <3>2, <3>5 DEF LeaseOf, Dispatching, RollingBack
  <2> QED
    BY <1>13, <2>1, <2>2 DEF Close
<1>14. CASE CloseRow(p)
  <2>1. CASE Finish(p)
    BY <1>0, <1>2, <2>1, MovesOwn DEF Dispatching, RollingBack
  <2>2. CASE Goto(p, "closeClaim") /\ UNCHANGED job
    <3>1. pc'[p] = "closeClaim" /\ pc[p] = "closeRow"
      BY <1>0, <1>14, <2>2, MovesOwn DEF CloseRow
    <3>2. \A u \in Ids : u = job[p].tid => job[p].snap[u] \in {job[p].who, NoOne}
      BY <1>0, <3>1 DEF LeaseOf
    <3> QED
      BY <1>w, <2>2, <3>1, <3>2 DEF LeaseOf, Dispatching, RollingBack
  <2> QED
    BY <1>14, <2>1, <2>2 DEF CloseRow
<1> QED
  BY <1>3, <1>4, <1>5, <1>6, <1>7, <1>8, <1>9, <1>10, <1>11, <1>12, <1>13, <1>14 DEF Step

\* Only the undo of a close takes a row out of a final state.
LEMMA FinalStays ==
    ASSUME IInv, NEW p \in Procs, Start(p) \/ Step(p) \/ Crash(p), pc[p] # "undoRow",
           NEW c \in Cases, Terminal(ledger[c])
    PROVE  Terminal(ledger[c])'
BY RowChanges DEF Terminal

\* Where the next step of a command is known.
LEMMA StepAt ==
    ASSUME NEW p \in Procs, Start(p) \/ Step(p)
    PROVE  /\ pc[p] = "commit" => Commit(p)
           /\ pc[p] = "spec" => WriteSpec(p)
           /\ pc[p] = "row" => WriteRow(p)
           /\ pc[p] = "rbClaim" => RollbackClaim(p)
           /\ pc[p] = "markRow" => MarkRow(p)
           /\ pc[p] = "closeClaim" => CloseClaim(p)
           /\ pc[p] = "closeTicket" => CloseTicket(p)
BY DEF Start, StartDispatch, StartObjective, StartVerify, Step, Pick, Scan, FindTicket,
   CreateTicket, Claim, Lease, Commit, WriteSpec, WriteRow, RollbackClaim, RollbackTicket,
   RollbackSpec, RollbackRow, GiveBack, DropTicket, Mark, MarkRow, RunGate, Miss, Close,
   CloseRow, CloseClaim, CloseTicket, UndoRow, UndoClaims, UndoTicket

\* A mark ends with the row it was begun for.
LEMMA MarkingEnds ==
    ASSUME IInv, NEW p \in Procs, ~Fault, Start(p) \/ Step(p), NEW c \in Cases, Marking(c)
    PROVE  \/ Marking(c)'
           \/ /\ pc[p] = "markRow" /\ job[p].case = c
              /\ ledger'[c].state \in {"exhausted", "unverifiable"}
<1>1. PICK q \in Procs : pc[q] = "markRow" /\ job[q].case = c
  BY DEF Marking
<1>2. CASE q # p
  <2>1. pc'[q] = "markRow" /\ job'[q].case = c
    BY <1>1, <1>2, MovesOnlyItself DEF IInv, TypeInv
  <2> QED
    BY <2>1 DEF Marking
<1>3. CASE q = p
  <2>1. MarkRow(p)
    BY <1>1, <1>3, StepAt
  <2>2. ledger'[c] = [job[p].prior EXCEPT !.state = job[p].goal]
    BY <1>1, <1>3, <2>1 DEF MarkRow, IInv, TypeInv, FilesOK
  <2>3. job[p].prior \in Row /\ job[p].goal \in {"exhausted", "unverifiable"}
    BY JobFields DEF IInv, TypeInv
  <2>4. [job[p].prior EXCEPT !.state = job[p].goal].state = job[p].goal
    BY <2>3 DEF Row
  <2> QED
    BY <1>1, <1>3, <2>2, <2>3, <2>4
<1> QED
  BY <1>2, <1>3

\* The case a ticket is for.
LEMMA TicketOf ==
    ASSUME NEW t \in Ids, NEW c, TicketFor(c) = t
    PROVE  t # 0 /\ tickets[t].case = c
<1>1. t # 0
  BY GapLoopAssumption DEF Ids
<1> QED
  BY <1>1, TicketForFinds DEF IsFirstFor

\* Where a lease ends, its case is final or a mark of it is under way.
LEMMA LeaseEnds ==
    ASSUME IInv, Smooth, NEW p \in Procs, ~Fault, ~TimesOut, Start(p) \/ Step(p),
           NEW c \in Cases, NEW t \in Ids, TicketFor(c) = t,
           claims[t] # NoOne, claims'[t] # claims[t]
    PROVE  /\ claims'[t] = NoOne
           /\ UNCHANGED <<ledger, tickets>>
           /\ \/ Terminal(ledger[c]) /\ pc[p] \in {"rbClaim", "closeClaim"}
              \/ Marking(c)' /\ pc[p] = "mark"
<1>1. claims'[t] = NoOne /\ EndsLease(p, t)
  BY LeaseChanges
<1>2. CASE pc[p] \in {"rbClaim", "closeClaim"} /\ t = job[p].tid /\ Terminal(ledger[job[p].case])
  <2>1. tickets[t].case = c /\ tickets[t].case = job[p].case
    BY <1>2, TicketOf, TicketAtHand DEF Smooth, Dispatching, RollingBack
  <2> QED
    BY <1>1, <1>2, <2>1 DEF EndsLease
<1>3. CASE pc[p] = "mark" /\ t = TicketFor(job[p].case) /\ pc'[p] = "markRow"
           /\ job'[p].case = job[p].case
  <2>1. tickets[t].case = c /\ tickets[t].case = job[p].case
    BY <1>3, TicketOf
  <2>2. Marking(c)'
    BY <1>3, <2>1 DEF Marking
  <2> QED
    BY <1>1, <1>3, <2>2 DEF EndsLease
<1> QED
  BY <1>1, <1>2, <1>3 DEF EndsLease

LEMMA LeaseOthers ==
    ASSUME IInv, Smooth, LeasesTell, NEW p \in Procs, NEW q \in Procs \ {p},
           ~Fault, ~TimesOut, Start(p) \/ Step(p)
    PROVE  LeaseOf(q)'
<1>c. PICK c : c = job[q].case
  OBVIOUS
<1>t. PICK t : t = job[q].tid
  OBVIOUS
<1>k. PICK k : k = job[q].who
  OBVIOUS
<1> USE <1>c, <1>t, <1>k
<1>0. /\ LeaseOf(q) /\ Section(p) /\ Section(q) /\ SmoothOf(p) /\ SmoothOf(q)
      /\ pc[q] # "idle" => c \in Cases
  BY DEF Smooth, LeasesTell, IInv, SectionInv, TypeInv, ControlOK
<1>1. pc'[q] = pc[q] /\ job'[q] = job[q]
  BY MovesOnlyItself DEF IInv, TypeInv
<1>2. runs' = runs
  BY RunsStay
<1>3. pc[q] = "commit" => claims'[t] = k \/ Terminal(ledger'[c]) \/ Marking(c)'
  <2> SUFFICES ASSUME pc[q] = "commit"
               PROVE  claims'[t] = k \/ Terminal(ledger'[c]) \/ Marking(c)'
    OBVIOUS
  <2>0. c \in Cases /\ t \in Ids /\ TicketFor(c) = t /\ k # NoOne /\ pc[p] # "undoRow"
    BY <1>0, GapLoopAssumption DEF SmoothOf, Dispatching, Undoing, LeaseOf
  <2>1. CASE Terminal(ledger[c])
    BY <2>0, <2>1, FinalStays DEF Terminal
  <2>2. CASE Marking(c)
    BY <2>0, <2>2, MarkingEnds DEF Terminal
  <2>3. CASE claims[t] = k
    <3>1. CASE claims'[t] = claims[t]
      BY <2>3, <3>1
    <3>2. CASE claims'[t] # claims[t]
      BY <2>0, <2>3, <3>2, LeaseEnds
    <3> QED
      BY <3>1, <3>2
  <2> QED
    BY <1>0, <2>1, <2>2, <2>3 DEF LeaseOf
<1>4. ASSUME pc[q] \in Locked PROVE UNCHANGED <<ledger, claims, tickets>>
  <2>1. lock = q
    BY <1>0, <1>4 DEF Section
  <2>2. pc[p] \notin Locked \cup {"dropTicket"}
    BY <1>0, <2>1 DEF Section, SmoothOf, Undoing
  <2> QED
    BY <2>1, <2>2, LockExcludes, LockExcludesFiles
<1>5. pc[q] \in {"spec", "row"} => claims'[t] = k
  BY <1>0, <1>4 DEF Locked, LeaseOf
<1>6. pc[q] = "markRow" => ~Leased(job[q].case)'
  <2> SUFFICES ASSUME pc[q] = "markRow" PROVE ~Leased(job[q].case)'
    OBVIOUS
  <2>1. UNCHANGED <<claims, tickets>>
    BY <1>4 DEF Locked
  <2>2. \A d : TicketFor(d)' = TicketFor(d)
    BY <2>1 DEF TicketFor, IsFirstFor
  <2>3. ~Leased(job[q].case)
    BY <1>0 DEF LeaseOf
  <2> QED
    BY <1>1, <2>1, <2>2, <2>3 DEF Leased
<1>7. /\ pc[q] # "idle" => k \in Claimants
      /\ pc[q] \in {"mark", "markRow"} /\ job[q].goal = "unverifiable" => ~runs[c].gated
      /\ pc[q] \in {"create"} \cup Dispatching => runs[c].gated
      /\ pc[q] \in {"closeRow", "closeClaim"} =>
            \A u \in Ids : u = job[q].tid => job[q].snap[u] \in {k, NoOne}
  BY <1>0 DEF LeaseOf
<1>8. pc'[q] = "commit" => claims'[job'[q].tid] = job'[q].who \/ Terminal(ledger'[job'[q].case])
                           \/ Marking(job[q].case)'
  <2>1. \A d : d = c => (Marking(d)' => Marking(job[q].case)')
    BY <1>1 DEF Marking
  <2> QED
    BY <1>1, <1>3, <2>1
<1> QED
  BY <1>1, <1>2, <1>5, <1>6, <1>7, <1>8 DEF LeaseOf, Terminal

LEMMA TicketForStays ==
    ASSUME IInv, Smooth, NEW p \in Procs, ~Fault, Start(p) \/ Step(p), NEW c \in Cases,
           NEW t \in Ids, TicketFor(c) = t
    PROVE  /\ TicketFor(c)' = t /\ tickets'[t].case = c
           /\ tickets[t].closed => tickets'[t].closed
<1>1. t # 0 /\ tickets[t].case = c
  BY TicketOf
<1>2. c # 0
  BY GapLoopAssumption DEF Cases
<1> QED
  BY <1>1, <1>2, QuietTickets DEF Smooth

LEMMA GateKept ==
    ASSUME IInv, Smooth, LeasesTell, NEW p \in Procs, ~Fault, ~TimesOut, Start(p) \/ Step(p)
    PROVE  LeaseHasGate'
<1> SUFFICES ASSUME NEW t \in Ids, claims'[t] # NoOne
             PROVE  \E c \in Cases : TicketFor(c)' = t /\ runs'[c].gated
  BY DEF LeaseHasGate
<1>1. runs' = runs
  BY RunsStay
<1>2. CASE claims[t] # NoOne
  <2>1. PICK c \in Cases : TicketFor(c) = t /\ runs[c].gated
    BY <1>2 DEF LeasesTell, LeaseHasGate
  <2> QED
    BY <1>1, <2>1, TicketForStays
<1>3. CASE claims[t] = NoOne
  <2>1. t = job[p].tid /\ pc[p] = "lease"
    BY <1>3, LeaseChanges DEF TakesLease
  <2>2. PICK c \in Cases : c = job[p].case
    BY <2>1 DEF IInv, TypeInv, ControlOK
  <2>3. TicketFor(c) = t /\ runs[c].gated
    BY <2>1, <2>2 DEF Smooth, SmoothOf, LeasesTell, LeaseOf, Dispatching
  <2> QED
    BY <1>1, <2>3, TicketForStays
<1> QED
  BY <1>2, <1>3

LEMMA DispatchedKeepsLease ==
    ASSUME IInv, Smooth, LeasesTell, NEW p \in Procs, ~Fault, ~TimesOut, Start(p) \/ Step(p)
    PROVE  DispatchedIsLeased'
<1> SUFFICES ASSUME NEW c \in Cases, ledger'[c].state = "dispatched"
             PROVE  Leased(c)' \/ Marking(c)'
  BY DEF DispatchedIsLeased
<1>0. SmoothOf(p) /\ pc[p] # "undoRow" /\ LeaseOf(p)
  BY DEF Smooth, SmoothOf, Undoing, LeasesTell
<1>1. ASSUME NEW t \in Ids, TicketFor(c) = t, claims[t] # NoOne,
             claims'[t] = NoOne => Marking(c)'
      PROVE  Leased(c)' \/ Marking(c)'
  BY <1>1, TicketForStays DEF Leased
<1>2. CASE WriteRow(p) /\ job[p].case = c
  <2>1. pc[p] = "row" /\ UNCHANGED claims
    BY <1>2 DEF WriteRow
  <2>2. /\ job[p].tid \in Ids /\ TicketFor(c) = job[p].tid
        /\ claims[job[p].tid] = job[p].who /\ job[p].who # NoOne
    BY <1>0, <1>2, <2>1, GapLoopAssumption DEF SmoothOf, LeaseOf, Dispatching
  <2>3. PICK t \in Ids : t = job[p].tid
    BY <2>2
  <2> QED
    BY <1>1, <2>1, <2>2, <2>3
<1>3. CASE ~(WriteRow(p) /\ job[p].case = c)
  <2>1. ledger[c].state = "dispatched"
    BY <1>0, <1>3, RowChanges
  <2>2. CASE Marking(c)
    BY <2>2, MarkingEnds
  <2>3. CASE Leased(c)
    <3>1. PICK t \in Ids : t = TicketFor(c) /\ claims[t] # NoOne
      BY <2>3 DEF Leased
    <3>2. claims'[t] = NoOne => Marking(c)'
      BY <2>1, <3>1, LeaseEnds DEF Terminal
    <3> QED
      BY <1>1, <3>1, <3>2
  <2> QED
    BY <2>1, <2>2, <2>3 DEF LeasesTell, DispatchedIsLeased
<1> QED
  BY <1>2, <1>3

\* The command that answers for a lease hands it to the row.
LEMMA LeaseHandedOn ==
    ASSUME IInv, Smooth, LeasesTell, NEW p \in Procs, ~Fault, ~TimesOut, Start(p) \/ Step(p),
           NEW t \in Ids, AnswersFor(p, t), claims[t] # NoOne, claims'[t] = claims[t]
    PROVE  AnswersFor(p, t)' \/ ledger'[job[p].case].state = "dispatched"
<1>0. /\ ControlOK /\ job[p] \in Job /\ Section(p) /\ SmoothOf(p) /\ LeaseOf(p)
      /\ claims \in [Ids -> Claimants \cup {NoOne}]
      /\ pc[p] # "idle" => job[p].case \in Cases
      /\ ledger \in [Cases -> Row] /\ job[p].prior \in Row
  BY JobFields DEF IInv, TypeInv, SectionInv, FilesOK, Registry, Smooth, LeasesTell
<1>1. CASE pc[p] = "closeClaim"
  <2>1. CloseClaim(p)
    BY <1>1, StepAt
  <2>2. job[p].snap[t] = claims[t] /\ job[p].snap[t] = job[p].who
    BY <1>0, <1>1 DEF Section, LeaseOf, AnswersFor
  <2>3. claims' = [job[p].snap EXCEPT ![t] = NoOne]
    BY <2>1, <2>2 DEF CloseClaim, AnswersFor
  <2>4. claims'[t] = NoOne
    BY <2>3, <1>0, <1>1 DEF Section
  <2> QED
    BY <2>4
<1>2. CASE pc[p] = "rbClaim" /\ job[p].who = claims[t]
  <2>1. RollbackClaim(p)
    BY <1>2, StepAt
  <2>2. Exists(t)
    <3>1. tickets[t].case = job[p].case /\ job[p].case \in Cases
      BY <1>0, <1>2, TicketAtHand DEF AnswersFor, Dispatching, RollingBack
    <3> QED
      BY <3>1, GapLoopAssumption DEF Exists, Cases
  <2>3. claims' = [claims EXCEPT ![t] = NoOne]
    BY <1>2, <2>1, <2>2 DEF RollbackClaim, Released, AnswersFor
  <2> QED
    BY <1>0, <2>3
<1>3. CASE pc[p] = "commit" /\ job[p].who = claims[t]
  <2>1. Commit(p)
    BY <1>3, StepAt
  <2>2. /\ Set(p, [job[p] EXCEPT !.prior = ledger[job[p].case]])
        /\ Goto(p, IF Terminal(ledger[job[p].case]) THEN "rbClaim" ELSE "spec")
    BY <2>1 DEF Commit
  <2>3. job'[p] = [job[p] EXCEPT !.prior = ledger[job[p].case]] /\ pc'[p] \in {"rbClaim", "spec"}
    BY <1>0, <2>2, MovesOwn
  <2>4. job'[p].tid = job[p].tid /\ job'[p].who = job[p].who
    BY <1>0, <2>3 DEF Job
  <2> QED
    BY <1>3, <2>3, <2>4 DEF AnswersFor
<1>4. CASE pc[p] = "spec" /\ job[p].who = claims[t]
  <2>1. WriteSpec(p)
    BY <1>4, StepAt
  <2>2. Goto(p, "row") /\ UNCHANGED job
    BY <2>1 DEF WriteSpec
  <2>3. pc'[p] = "row"
    BY <1>0, <2>2, MovesOwn
  <2> QED
    BY <1>4, <2>2, <2>3 DEF AnswersFor
<1>5. CASE pc[p] = "row" /\ job[p].who = claims[t]
  <2>1. WriteRow(p)
    BY <1>5, StepAt
  <2>2. ledger'[job[p].case] = DispatchedRow(job[p].prior)
    BY <1>0, <1>5, <2>1 DEF WriteRow
  <2>3. DispatchedRow(job[p].prior).state = "dispatched"
    BY <1>0 DEF DispatchedRow, Row
  <2> QED
    BY <2>2, <2>3
<1> QED
  BY <1>1, <1>2, <1>3, <1>4, <1>5 DEF AnswersFor

LEMMA LeaseStaysAnswered ==
    ASSUME IInv, Smooth, LeasesTell, NEW p \in Procs, ~Fault, ~TimesOut, Start(p) \/ Step(p)
    PROVE  LeaseIsAnswered'
<1> SUFFICES ASSUME NEW t \in Ids, claims'[t] # NoOne
             PROVE  \/ ledger'[tickets'[t].case].state = "dispatched"
                    \/ \E q \in Procs : AnswersFor(q, t)'
  BY DEF LeaseIsAnswered
<1>0. ControlOK /\ SmoothOf(p) /\ LeaseOf(p) /\ pc[p] # "undoRow"
  BY DEF Smooth, SmoothOf, Undoing, LeasesTell, IInv, TypeInv
<1>1. CASE claims[t] = NoOne
  <2>1. t = job[p].tid /\ TakesLease(p) /\ claims'[t] = job[p].who
    BY <1>1, LeaseChanges
  <2>2. pc'[p] = "commit"
    BY <1>0, <2>1, MovesOwn DEF TakesLease
  <2> QED
    BY <2>1, <2>2 DEF AnswersFor, TakesLease
<1>2. CASE claims[t] # NoOne
  <2>1. claims'[t] = claims[t]
    BY <1>2, LeaseChanges
  <2>2. PICK c \in Cases : TicketFor(c) = t
    BY <1>2 DEF LeasesTell, LeaseHasGate
  <2>3. tickets[t].case = c /\ tickets'[t].case = c
    BY <2>2, TicketOf, TicketForStays
  <2>4. CASE ledger[c].state = "dispatched"
    <3>1. CASE MarkRow(p) /\ job[p].case = c
      <4>1. ~Leased(c)
        BY <1>0, <3>1 DEF MarkRow, LeaseOf
      <4> QED
        BY <1>2, <2>2, <4>1 DEF Leased
    <3>2. CASE CloseRow(p) /\ job[p].case = c /\ ledger'[c].state = "closed"
      <4>1. job[p].tid = t /\ t # 0 /\ pc[p] = "closeRow"
        BY <1>0, <2>2, <3>2, TicketOf DEF CloseRow, SmoothOf
      <4>2. Goto(p, "closeClaim") /\ UNCHANGED job
        BY <3>2, <4>1 DEF CloseRow
      <4>3. pc'[p] = "closeClaim"
        BY <1>0, <4>2, MovesOwn
      <4> QED
        BY <4>1, <4>2, <4>3 DEF AnswersFor
    <3>3. CASE ledger'[c].state = "dispatched"
      BY <2>3, <3>3
    <3> QED
      BY <1>0, <2>4, <3>1, <3>2, <3>3, RowChanges
  <2>5. ASSUME NEW q \in Procs, AnswersFor(q, t), q # p PROVE AnswersFor(q, t)'
    <3>1. pc'[q] = pc[q] /\ job'[q] = job[q]
      BY <1>0, <2>5, MovesOnlyItself
    <3> QED
      BY <2>1, <2>5, <3>1 DEF AnswersFor
  <2>6. ASSUME AnswersFor(p, t)
        PROVE  AnswersFor(p, t)' \/ ledger'[c].state = "dispatched"
    <3>1. tickets[t].case = job[p].case
      BY <1>0, <2>6, TicketAtHand DEF AnswersFor, Dispatching, RollingBack
    <3> QED
      BY <1>2, <2>1, <2>3, <2>6, <3>1, LeaseHandedOn
  <2> QED
    BY <1>2, <2>3, <2>4, <2>5, <2>6 DEF LeasesTell, LeaseIsAnswered
<1> QED
  BY <1>1, <1>2

LEMMA ClosedKeepsTicket ==
    ASSUME IInv, Smooth, LeasesTell, NEW p \in Procs, ~Fault, ~TimesOut, Start(p) \/ Step(p)
    PROVE  ClosedHasTicket'
<1> SUFFICES ASSUME NEW c \in Cases, ledger'[c].state = "closed",
                    NEW t \in Ids, t = ledger'[c].closedTicket
             PROVE  /\ tickets'[t].case = c
                    /\ tickets'[t].closed \/ \E q \in Procs :
                          pc'[q] \in {"closeClaim", "closeTicket"} /\ job'[q].tid = t
  BY DEF ClosedHasTicket
<1>0. /\ ControlOK /\ SmoothOf(p) /\ pc[p] # "undoRow"
      /\ tickets \in [Ids -> Ticket]
      /\ t # 0 /\ c # 0
  <2>1. t # 0 /\ c # 0
    BY GapLoopAssumption DEF Ids, Cases
  <2> QED
    BY <2>1 DEF Smooth, SmoothOf, Undoing, IInv, TypeInv, FilesOK
<1>1. CASE CloseRow(p) /\ job[p].case = c /\ ledger'[c].closedTicket = job[p].tid
  <2>1. job[p].tid = t /\ pc[p] = "closeRow" /\ TicketFor(c) = t
    BY <1>0, <1>1 DEF CloseRow, SmoothOf
  <2>2. Goto(p, "closeClaim") \/ Finish(p)
    BY <1>1 DEF CloseRow
  <2>3. Goto(p, "closeClaim") /\ UNCHANGED job
    BY <1>0, <1>1, <2>1 DEF CloseRow
  <2>4. pc'[p] = "closeClaim"
    BY <1>0, <2>3, MovesOwn
  <2> QED
    BY <2>1, <2>3, <2>4, TicketForStays
<1>2. CASE ledger[c].state = "closed" /\ ledger[c].closedTicket = ledger'[c].closedTicket
  <2>1. /\ tickets[t].case = c
        /\ tickets[t].closed \/ \E q \in Procs :
              pc[q] \in {"closeClaim", "closeTicket"} /\ job[q].tid = t
    BY <1>2 DEF LeasesTell, ClosedHasTicket
  <2>2. tickets'[t].case = c /\ (tickets[t].closed => tickets'[t].closed)
    BY <1>0, <2>1, QuietTickets
  <2>3. ASSUME NEW q \in Procs \ {p}, pc[q] \in {"closeClaim", "closeTicket"}, job[q].tid = t
        PROVE  pc'[q] \in {"closeClaim", "closeTicket"} /\ job'[q].tid = t
    BY <1>0, <2>3, MovesOnlyItself
  <2>4. ASSUME pc[p] = "closeClaim", job[p].tid = t
        PROVE  pc'[p] \in {"closeClaim", "closeTicket"} /\ job'[p].tid = t
    <3>1. CloseClaim(p)
      BY <2>4, StepAt
    <3>2. Goto(p, "closeTicket") /\ UNCHANGED job
      BY <3>1 DEF CloseClaim
    <3> QED
      BY <1>0, <2>4, <3>2, MovesOwn
  <2>5. ASSUME pc[p] = "closeTicket", job[p].tid = t PROVE tickets'[t].closed
    <3>1. CloseTicket(p)
      BY <2>5, StepAt
    <3>2. Exists(t)
      BY <1>0, <2>1 DEF Exists
    <3>3. tickets' = [tickets EXCEPT ![t].closed = TRUE]
      BY <2>5, <3>1, <3>2 DEF CloseTicket
    <3> QED
      BY <1>0, <3>3 DEF Ticket
  <2> QED
    BY <2>1, <2>2, <2>3, <2>4, <2>5
<1> QED
  BY <1>0, <1>1, <1>2, RowChanges

LEMMA CalmStep ==
    IInv /\ BoundsHold /\ QuietInv /\ CalmInv /\ [Next]_vars => CalmInv'
<1> SUFFICES ASSUME IInv, BoundsHold, QuietInv, CalmInv, [Next]_vars, Calm' PROVE LeasesTell'
  BY DEF CalmInv
<1>1. Calm /\ ~Spend("edits") /\ ~Spend("crashes")
  BY NothingSpent DEF IInv
<1>2. Quiet /\ ~Fault /\ ~TimesOut
  BY NothingSpent DEF IInv, Calm
<1>3. Smooth /\ LeasesTell
  BY <1>1, <1>2 DEF QuietInv, CalmInv
<1>4. ASSUME NEW p \in Procs, Start(p) \/ Step(p) PROVE LeasesTell'
  <2>1. LeaseOf(p)'
    BY <1>2, <1>3, <1>4, LeaseOwn
  <2>2. \A q \in Procs \ {p} : LeaseOf(q)'
    BY <1>2, <1>3, <1>4, LeaseOthers
  <2>3. LeaseHasGate' /\ DispatchedIsLeased' /\ LeaseIsAnswered' /\ ClosedHasTicket'
    BY <1>2, <1>3, <1>4, GateKept, DispatchedKeepsLease, LeaseStaysAnswered, ClosedKeepsTicket
  <2> QED
    BY <2>1, <2>2, <2>3 DEF LeasesTell
<1>5. ASSUME NEW p \in Procs, Crash(p) PROVE FALSE
  BY <1>1, <1>5 DEF Crash
<1>6. ASSUME NEW c \in Cases, EditRun(c) PROVE FALSE
  BY <1>1, <1>6 DEF EditRun
<1>7. CASE UNCHANGED vars
  <2>1. \A d : TicketFor(d)' = TicketFor(d)
    BY <1>7 DEF vars, files, TicketFor, IsFirstFor
  <2>2. \A d : (Leased(d)' <=> Leased(d)) /\ (Marking(d)' <=> Marking(d))
    BY <1>7, <2>1 DEF vars, files, Leased, Marking
  <2>3. \A p, t : AnswersFor(p, t) => AnswersFor(p, t)'
    BY <1>7 DEF vars, files, AnswersFor
  <2>4. ASSUME NEW p \in Procs PROVE LeaseOf(p)'
    BY <1>3, <1>7, <2>2 DEF vars, files, LeasesTell, LeaseOf, Terminal
  <2>5. LeaseHasGate' /\ DispatchedIsLeased' /\ LeaseIsAnswered' /\ ClosedHasTicket'
    BY <1>3, <1>7, <2>1, <2>2, <2>3
       DEF vars, files, LeasesTell, LeaseHasGate, DispatchedIsLeased, LeaseIsAnswered,
           ClosedHasTicket
  <2> QED
    BY <2>4, <2>5 DEF LeasesTell
<1> QED
  BY <1>4, <1>5, <1>6, <1>7 DEF Next, Finished

LEMMA InitCalm == Init => CalmInv
<1> SUFFICES ASSUME Init PROVE LeasesTell
  BY DEF CalmInv
<1>1. \A p \in Procs : LeaseOf(p)
  BY DEF Init, LeaseOf, Dispatching, RollingBack
<1>2. LeaseHasGate /\ DispatchedIsLeased /\ LeaseIsAnswered /\ ClosedHasTicket
  BY DEF Init, NoRow, LeaseHasGate, DispatchedIsLeased, LeaseIsAnswered, ClosedHasTicket
<1> QED
  BY <1>1, <1>2 DEF LeasesTell

LEMMA LeasesTellStory == Smooth /\ LeasesTell => LeaseMatchesRow
<1> SUFFICES ASSUME Smooth, LeasesTell, NEW c \in Cases, ~InFlight(c)
             PROVE  /\ Leased(c) <=> ledger[c].state = "dispatched"
                    /\ ledger[c].state = "closed" =>
                          \A t \in Ids : t = ledger[c].closedTicket =>
                             tickets[t].case = c /\ tickets[t].closed
  BY DEF LeaseMatchesRow
<1>0. \A p \in Procs : SmoothOf(p)
  BY DEF Smooth
<1>1. ~Marking(c)
  BY DEF Marking, InFlight, Locked
<1>2. ASSUME ledger[c].state = "dispatched" PROVE Leased(c)
  BY <1>1, <1>2 DEF LeasesTell, DispatchedIsLeased
<1>3. ASSUME Leased(c) PROVE ledger[c].state = "dispatched"
  <2>1. PICK t \in Ids : TicketFor(c) = t /\ claims[t] # NoOne
    BY <1>3 DEF Leased
  <2>2. tickets[t].case = c
    BY <2>1, TicketOf
  <2>3. ASSUME NEW p \in Procs, AnswersFor(p, t) PROVE FALSE
    <3>1. job[p].case = c
      BY <1>0, <2>2, <2>3, TicketAtHand DEF AnswersFor, Dispatching, RollingBack
    <3> QED
      BY <2>3, <3>1 DEF AnswersFor, InFlight, Locked
  <2> QED
    BY <2>1, <2>2, <2>3 DEF LeasesTell, LeaseIsAnswered
<1>4. ASSUME ledger[c].state = "closed", NEW t \in Ids, t = ledger[c].closedTicket
      PROVE  tickets[t].case = c /\ tickets[t].closed
  <2>1. /\ tickets[t].case = c
        /\ tickets[t].closed \/ \E p \in Procs :
              pc[p] \in {"closeClaim", "closeTicket"} /\ job[p].tid = t
    BY <1>4 DEF LeasesTell, ClosedHasTicket
  <2>2. ASSUME NEW p \in Procs, pc[p] \in {"closeClaim", "closeTicket"}, job[p].tid = t
        PROVE  FALSE
    <3>1. job[p].case = c
      BY <1>0, <2>1, <2>2, TicketAtHand
    <3> QED
      BY <2>2, <3>1 DEF InFlight, Locked
  <2> QED
    BY <2>1, <2>2
<1> QED
  BY <1>2, <1>3, <1>4

\* As long as nothing has failed, been killed or been rewritten, the lease of
\* a case that no command is in the middle of says what its row says, for any
\* number of processes and cases and in every interleaving.
THEOREM LeasesAgreeUntilFailure == Spec => [](Calm => LeaseMatchesRow)
<1>1. Init => IInv /\ BoundsHold /\ QuietInv /\ CalmInv
  BY InitIInv, InitQuiet, InitCalm
<1>2. /\ IInv /\ BoundsHold /\ QuietInv /\ CalmInv /\ [Next]_vars
            => (IInv /\ BoundsHold /\ QuietInv /\ CalmInv)'
  BY StepIInv, BoundsStep, QuietStep, CalmStep DEF IInv
<1>3. QuietInv /\ CalmInv => (Calm => LeaseMatchesRow)
  BY LeasesTellStory DEF QuietInv, CalmInv, Calm
<1> QED
  BY <1>1, <1>2, <1>3, PTL DEF Spec

\* Hence, where no read, write or wait fails and nobody rewrites a run, until
\* the first kill.
THEOREM LeasesAgree ==
    ASSUME MaxFaults = 0, MaxTimeouts = 0, MaxEdits = 0
    PROVE  Spec => []LeaseMatchesRow
<1>1. TypeInv /\ BoundsHold /\ (Calm => LeaseMatchesRow) => LeaseMatchesRow
  <2>1. /\ left.faults \in Nat /\ left.timeouts \in Nat /\ left.edits \in Nat
            => left.faults >= 0 /\ left.timeouts >= 0 /\ left.edits >= 0
    OBVIOUS
  <2> QED
    BY <2>1 DEF TypeInv, Left, BoundsHold, Calm, Quiet, LeaseMatchesRow
<1>2. Init => IInv /\ BoundsHold
  BY InitIInv, InitQuiet
<1>3. IInv /\ BoundsHold /\ [Next]_vars => (IInv /\ BoundsHold)'
  BY StepIInv, BoundsStep DEF IInv
<1>4. IInv => TypeInv
  BY DEF IInv
<1> QED
  BY <1>1, <1>2, <1>3, <1>4, LeasesAgreeUntilFailure, PTL DEF Spec
=============================================================================
