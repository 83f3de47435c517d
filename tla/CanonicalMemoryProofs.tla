------------------------ MODULE CanonicalMemoryProofs ------------------------
(***************************************************************************)
(* Theorems about CanonicalMemory for any number of commands, processes,   *)
(* facts, days, batches and failures.  First types, control, locks and     *)
(* files; then what becomes of the facts a command was asked to keep and   *)
(* of the receipts; then what holds while no two commands overlap.         *)
(***************************************************************************)
EXTENDS CanonicalMemory, SequenceTheorems, TLAPS

-----------------------------------------------------------------------------
(* The inductive invariant.  The types do not say which local variables a  *)
(* command has set when it comes to a place that uses them.                *)

FilesOK ==
    /\ entries \in [Days -> Seq(Entry)]
    /\ queue \in [Days -> Seq(Facts)]
    /\ staged \in [Batches -> [text : Versions, audited : Versions,
                               receipt : Versions \cup {0}]]

LocksOK == qlock \in [Days -> Procs \cup {Free, Abandoned}]

Left == [ops : Nat, edits : Nat, faults : Nat, timeouts : Nat, crashes : Nat]

ControlOK ==
    /\ pc \in [Procs -> Location]
    /\ job \in [Procs -> Job]

TypeInv == FilesOK /\ LocksOK /\ ControlOK /\ today \in Days /\ left \in Left

LEMMA TypeInvGivesTypeOK == TypeInv => TypeOK
BY DEF TypeInv, FilesOK, LocksOK, ControlOK, Left, TypeOK

\* Each edit of a staging file uses up one of the edits there are.
EditsBounded == \A b \in Batches : staged[b].text + left.edits <= MaxEdits + 1

\* There is an item where one is used, and a promotion knows its batch.
ItemOf(p) ==
    /\ pc[p] \in {"append", "publish"} => job[p].todo # <<>> /\ job[p].op # "signoff"
    /\ pc[p] = "lock" => job[p].op = "signoff" \/ job[p].todo # <<>>
    /\ job[p].lineage => /\ job[p].todo # <<>> /\ job[p].op # "signoff"
                         /\ pc[p] \in {"next", "create", "write"}
    /\ pc[p] = "receipt" => job[p].op = "promote"
    /\ job[p].op = "promote" => job[p].batch \in Batches

HasItem == \A p \in Procs : ItemOf(p)

\* signoff goes its own way, to a record that is there.
PathOf(p) ==
    /\ pc[p] = "check" => job[p].op = "signoff"
    /\ job[p].op = "signoff" => pc[p] \in {"lock", "check", "next", "create", "write", "done"}

SignoffPath ==
    \A p \in Procs :
        PathOf(p) /\ (job[p].op = "signoff" => job[p].index \in DOMAIN queue[job[p].day])

\* append_contested and signoff work under the lock of their queue, and what
\* append_contested read is what is there.
LockOf(p) ==
    /\ \/ pc[p] \in {"append", "publish", "check"}
       \/ pc[p] \in {"next", "create", "write"} /\ job[p].op = "signoff"
       => qlock[job[p].day] = p
    /\ pc[p] = "publish" => job[p].snap = queue[job[p].day]

UnderLock == \A p \in Procs : LockOf(p)

\* A writer has a number that was free, then a file that is its own.
FileOf(p) ==
    /\ pc[p] = "create" => job[p].slot \in 1..(Len(entries[job[p].date]) + 1)
    /\ pc[p] = "write" =>
          /\ job[p].slot \in DOMAIN entries[job[p].date]
          /\ entries[job[p].date][job[p].slot] = Unwritten

SameFile(p, q) ==
    /\ pc[p] = "write" /\ pc[q] = "write"
    /\ job[p].date = job[q].date /\ job[p].slot = job[q].slot

OwnFile ==
    /\ \A p \in Procs : FileOf(p)
    /\ \A p, q \in Procs : SameFile(p, q) => p = q

\* What a signoff is about to write, no signoff of that queue has written.
FreshOf(p) ==
    pc[p] \in {"next", "create", "write"} /\ job[p].op = "signoff" =>
        \A f \in Facts : job[p].new[f] > 0 =>
            \A d \in Days : \A n \in DOMAIN entries[d] :
                entries[d][n].source = job[p].day => ~Holds(entries[d][n], f)

NotSignedOff == \A p \in Procs : FreshOf(p)

IInv ==
    /\ TypeInv /\ EditsBounded /\ HasItem /\ SignoffPath
    /\ UnderLock /\ OwnFile /\ NotSignedOff /\ SignedOffOnce

-----------------------------------------------------------------------------
(* Type correctness. *)

LEMMA OnceTyped == ASSUME NEW S PROVE Once(S) \in Tally
BY DEF Once, Tally

LEMMA EntryTyped == Unwritten \in Entry
BY OnceTyped DEF Unwritten, Entry, Nothing, Kind

LEMMA NoJobTyped == NoJob \in Job
<1>1. 1 \in Days /\ 0 \in 0..(MaxTries - 1)
  BY MemoryAssumption DEF Days
<1>2. <<>> \in Seq(Item) /\ <<>> \in Seq(Facts)
  BY EmptySeq
<1> QED
  BY <1>1, <1>2, OnceTyped DEF NoJob, Job, Nothing

LEMMA SpendTyped ==
    ASSUME left \in Left,
           NEW k \in {"ops", "edits", "faults", "timeouts", "crashes"},
           Spend(k)
    PROVE  left' \in Left
<1>1. left[k] \in Nat
  BY DEF Left
<1>2. left[k] - 1 \in Nat
  BY <1>1 DEF Spend
<1> QED
  BY <1>2 DEF Spend, Left

LEMMA MoveTyped ==
    ASSUME ControlOK, NEW p \in Procs, NEW l \in Location, NEW j \in Job,
           Goto(p, l), Set(p, j)
    PROVE  ControlOK'
BY DEF ControlOK, Goto, Set

LEMMA GotoTyped ==
    ASSUME ControlOK, NEW p \in Procs, NEW l \in Location, Goto(p, l), UNCHANGED job
    PROVE  ControlOK'
BY DEF ControlOK, Goto

LEMMA SetTyped ==
    ASSUME ControlOK, NEW p \in Procs, NEW j \in Job, Set(p, j), UNCHANGED pc
    PROVE  ControlOK'
BY DEF ControlOK, Set

LEMMA FinishTyped ==
    ASSUME ControlOK, NEW p \in Procs, Finish(p)
    PROVE  ControlOK'
BY MoveTyped, NoJobTyped DEF Finish, Location

LEMMA ReleasedTyped ==
    ASSUME LocksOK, NEW p \in Procs
    PROVE  Released(p) \in [Days -> Procs \cup {Free, Abandoned}]
BY DEF LocksOK, Released

LEMMA ItemTyped ==
    ASSUME ControlOK, NEW p \in Procs, job[p].todo # <<>>
    PROVE  /\ This(p) \in Item
           /\ Passed(p) \in Job
<1>1. job[p] \in Job /\ job[p].todo \in Seq(Item)
  BY DEF ControlOK, Job
<1>2. Head(job[p].todo) \in Item /\ Tail(job[p].todo) \in Seq(Item)
  BY <1>1, HeadTailProperties
<1> QED
  BY <1>1, <1>2 DEF This, Passed, Job

LEMMA ItemsTyped ==
    ASSUME NEW s \in Seq(Facts), NEW v \in Verdict
    PROVE  Items(s, v) \in Seq(Item)
<1>1. Len(s) \in Nat /\ DOMAIN s = 1..Len(s) /\ \A i \in 1..Len(s) : s[i] \in Facts
  BY LenProperties, ElementOfSeq
<1>2. Items(s, v) \in [1..Len(s) -> Item]
  BY <1>1 DEF Items, Item
<1> QED
  BY <1>1, <1>2, SeqDef

LEMMA ContentTyped ==
    ASSUME ControlOK, HasItem, NEW p \in Procs
    PROVE  /\ Group(p) \in Tally
           /\ Remaining(p) \in Tally
           /\ Content(p) \in Entry
<1>1. job[p] \in Job /\ job[p].new \in Tally /\ job[p].day \in Days
  BY DEF ControlOK, Job
<1>2. job[p].lineage => This(p) \in Item
  BY ItemTyped DEF HasItem, ItemOf
<1>3. Group(p) \in Tally
  BY <1>1, OnceTyped DEF Group, Tally
<1>4. Remaining(p) \in Tally
  BY <1>1 DEF Remaining, Tally
<1>5. Content(p) \in Entry
  <2> DEFINE o == IF job[p].lineage THEN This(p).old ELSE NoFact
             k == IF job[p].op = "signoff" THEN "signoff"
                  ELSE IF job[p].lineage THEN "supersede"
                  ELSE IF job[p].op = "promote" THEN "dream" ELSE "consolidation"
             s == IF job[p].op = "signoff" THEN job[p].day ELSE 0
  <2>1. o \in Facts \cup {NoFact}
    BY <1>2 DEF Item
  <2>2. k \in Kind
    BY DEF Kind
  <2>3. s \in Days \cup {0}
    BY <1>1
  <2>4. Content(p) = [facts |-> Group(p), over |-> o, kind |-> k, source |-> s]
    BY DEF Content
  <2> HIDE DEF o, k, s
  <2> QED
    BY <1>3, <2>1, <2>2, <2>3, <2>4 DEF Entry
<1> QED
  BY <1>3, <1>4, <1>5

-----------------------------------------------------------------------------
(* Every action keeps the types. *)

LEMMA StartTyped ==
    ASSUME TypeInv, NEW p \in Procs, Start(p)
    PROVE  TypeInv'
<1>1. left' \in Left
  BY SpendTyped DEF Start, StartConsolidate, StartDream, StartPromote, StartSignoff, TypeInv
<1>2. ControlOK'
  <2>1. CASE StartConsolidate(p)
    <3>1. PICK b \in Buffers, strict \in BOOLEAN :
             Set(p, [NoJob EXCEPT !.op = "consolidate", !.strict = strict,
                     !.asked = {b[i] : i \in DOMAIN b}, !.todo = Items(b, "new")])
      BY <2>1 DEF StartConsolidate
    <3>2. b \in Seq(Facts)
      BY MemoryAssumption
    <3>3. Items(b, "new") \in Seq(Item)
      BY <3>2, ItemsTyped DEF Verdict
    <3>4. {b[i] : i \in DOMAIN b} \subseteq Facts
      BY <3>2, LenProperties, ElementOfSeq
    <3>5. [NoJob EXCEPT !.op = "consolidate", !.strict = strict,
           !.asked = {b[i] : i \in DOMAIN b}, !.todo = Items(b, "new")] \in Job
      BY <3>3, <3>4, NoJobTyped DEF Job, NoJob
    <3> QED
      BY <2>1, <3>1, <3>5, MoveTyped DEF StartConsolidate, Location, TypeInv
  <2>2. CASE StartDream(p)
    <3>1. PICK b \in Buffers, front \in Fronts :
             Set(p, [NoJob EXCEPT !.op = "dream", !.front = front,
                     !.asked = {b[i] : i \in DOMAIN b}, !.todo = Items(b, "distilled")])
      BY <2>2 DEF StartDream
    <3>2. b \in Seq(Facts) /\ front \in {"cli", "mcp"}
      BY MemoryAssumption
    <3>3. Items(b, "distilled") \in Seq(Item)
      BY <3>2, ItemsTyped DEF Verdict
    <3>4. {b[i] : i \in DOMAIN b} \subseteq Facts
      BY <3>2, LenProperties, ElementOfSeq
    <3>5. [NoJob EXCEPT !.op = "dream", !.front = front,
           !.asked = {b[i] : i \in DOMAIN b}, !.todo = Items(b, "distilled")] \in Job
      BY <3>2, <3>3, <3>4, NoJobTyped DEF Job, NoJob
    <3> QED
      BY <2>2, <3>1, <3>5, MoveTyped DEF StartDream, Location, TypeInv
  <2>3. CASE StartPromote(p)
    <3>1. CASE UNCHANGED <<pc, job>>
      BY <3>1 DEF ControlOK, TypeInv
    <3>2. CASE ~UNCHANGED <<pc, job>>
      <4>1. PICK b \in Batches :
               /\ Set(p, [NoJob EXCEPT !.op = "promote", !.batch = b,
                          !.asked = AskedOf(Audit[b][staged[b].text]),
                          !.todo = Audit[b][staged[b].text]])
               /\ Goto(p, "known")
        BY <2>3, <3>2 DEF StartPromote
      <4>2. staged[b].text \in Versions
        BY DEF TypeInv, FilesOK
      <4>3. Audit[b][staged[b].text] \in Seq(Item)
        BY <4>2, MemoryAssumption
      <4>4. AskedOf(Audit[b][staged[b].text]) \subseteq Facts
        <5> DEFINE s == Audit[b][staged[b].text]
        <5>1. \A i \in DOMAIN s : s[i] \in Item
          BY <4>3, LenProperties, ElementOfSeq
        <5> HIDE DEF s
        <5>2. AskedOf(s) \subseteq Facts
          BY <5>1 DEF AskedOf, Item
        <5> QED
          BY <5>2 DEF s
      <4>5. [NoJob EXCEPT !.op = "promote", !.batch = b,
             !.asked = AskedOf(Audit[b][staged[b].text]),
             !.todo = Audit[b][staged[b].text]] \in Job
        BY <4>3, <4>4, NoJobTyped DEF Job, NoJob
      <4> QED
        BY <4>1, <4>5, MoveTyped DEF Location, TypeInv
    <3> QED
      BY <3>1, <3>2
  <2>4. CASE StartSignoff(p)
    <3>1. PICK d \in Days : \E i \in DOMAIN queue[d] :
             Set(p, [NoJob EXCEPT !.op = "signoff", !.day = d, !.index = i])
      BY <2>4 DEF StartSignoff
    <3>2. PICK i \in DOMAIN queue[d] :
             Set(p, [NoJob EXCEPT !.op = "signoff", !.day = d, !.index = i])
      BY <3>1
    <3>3. i \in Nat
      BY LenProperties DEF TypeInv, FilesOK
    <3>4. [NoJob EXCEPT !.op = "signoff", !.day = d, !.index = i] \in Job
      BY <3>3, NoJobTyped DEF Job, NoJob
    <3> QED
      BY <2>4, <3>2, <3>4, MoveTyped DEF StartSignoff, Location, TypeInv
  <2> QED
    BY <2>1, <2>2, <2>3, <2>4 DEF Start
<1> QED
  BY <1>1, <1>2 DEF Start, StartConsolidate, StartDream, StartPromote, StartSignoff,
                    TypeInv, FilesOK, LocksOK

LEMMA BackTyped ==
    ASSUME ControlOK, NEW p \in Procs, NEW j \in Job, Set(p, j), Back(p)
    PROVE  ControlOK'
BY MoveTyped DEF Back, Location

LEMMA ItemStepTyped ==
    ASSUME TypeInv, NEW p \in Procs,
           \/ ReadKnown(p) \/ ReadBodies(p) \/ Skip(p) \/ Contest(p) \/ Collect(p)
           \/ Supersede(p) \/ SetAside(p) \/ BoundEnd(p) \/ RouteEnd(p)
    PROVE  TypeInv'
<1>1. job[p] \in Job /\ ControlOK
  BY DEF TypeInv, ControlOK
<1>2. AtItem(p) => This(p) \in Item /\ Passed(p) \in Job
  BY <1>1, ItemTyped DEF AtItem
<1>3. ControlOK'
  <2>1. CASE ReadKnown(p)
    <3>1. [job[p] EXCEPT !.known = Canonical] \in Job
      BY <1>1 DEF Job, Canonical
    <3> QED
      BY <1>1, <2>1, <3>1, MoveTyped DEF ReadKnown, Location
  <2>2. CASE ReadBodies(p)
    <3>1. [job[p] EXCEPT !.seen = Canonical] \in Job
      BY <1>1 DEF Job, Canonical
    <3> QED
      BY <1>1, <2>2, <3>1, MoveTyped DEF ReadBodies, Location
  <2>3. CASE Skip(p)
    BY <1>1, <1>2, <2>3, SetTyped DEF Skip
  <2>4. CASE Contest(p)
    <3>1. [job[p] EXCEPT !.day = today] \in Job
      BY <1>1 DEF Job, TypeInv
    <3> QED
      BY <1>1, <2>4, <3>1, MoveTyped DEF Contest, Location
  <2>5. CASE Collect(p)
    <3> DEFINE q == Passed(p)
               j == [q EXCEPT !.new[This(p).fact] = @ + 1, !.known = @ \cup {This(p).fact}]
    <3>1. This(p).fact \in Facts /\ q \in Job
      BY <1>2, <2>5 DEF Collect, Item
    <3>2. q.new \in Tally /\ q.known \subseteq Facts
      BY <3>1 DEF Job
    <3>3. [q.new EXCEPT ![This(p).fact] = @ + 1] \in Tally
      BY <3>1, <3>2 DEF Tally
    <3>4. j \in Job
      BY <3>1, <3>2, <3>3 DEF Job
    <3> QED
      BY <1>1, <2>5, <3>4, SetTyped DEF Collect
  <2>6. CASE Supersede(p)
    <3>1. [job[p] EXCEPT !.lineage = TRUE] \in Job
      BY <1>1 DEF Job
    <3> QED
      BY <1>1, <2>6, <3>1, MoveTyped DEF Supersede, Location
  <2>7. CASE SetAside(p)
    <3> DEFINE q == Passed(p)
               i == [This(p) EXCEPT !.verdict = "new"]
    <3>1. q \in Job /\ i \in Item
      BY <1>2, <2>7 DEF SetAside, Item, Verdict
    <3>2. Append(q.rest, i) \in Seq(Item)
      BY <3>1, AppendProperties DEF Job
    <3>3. [q EXCEPT !.rest = Append(@, i)] \in Job
      BY <3>1, <3>2 DEF Job
    <3> QED
      BY <1>1, <2>7, <3>3, SetTyped DEF SetAside
  <2>8. CASE BoundEnd(p)
    <3>1. [job[p] EXCEPT !.todo = job[p].rest, !.rest = <<>>] \in Job
      BY <1>1, EmptySeq DEF Job
    <3> QED
      BY <1>1, <2>8, <3>1, MoveTyped, FinishTyped DEF BoundEnd, Location
  <2>9. CASE RouteEnd(p)
    BY <1>1, <2>9, GotoTyped DEF RouteEnd, Location
  <2> QED
    BY <2>1, <2>2, <2>3, <2>4, <2>5, <2>6, <2>7, <2>8, <2>9
<1> QED
  BY <1>3 DEF ReadKnown, ReadBodies, Skip, Contest, Collect, Supersede, SetAside, BoundEnd,
              RouteEnd, TypeInv, FilesOK, LocksOK

LEMMA AppendFailsTyped ==
    ASSUME ControlOK, HasItem, NEW p \in Procs, AppendFails(p),
           pc[p] \in {"lock", "publish"}
    PROVE  ControlOK'
<1>1. CASE job[p].op = "dream" /\ This(p).verdict = "distilled" /\ job[p].front = "cli"
  <2>1. job[p].todo # <<>>
    BY <1>1 DEF HasItem, ItemOf
  <2> QED
    BY <1>1, <2>1, ItemTyped, BackTyped DEF AppendFails
<1>2. CASE ~(job[p].op = "dream" /\ This(p).verdict = "distilled" /\ job[p].front = "cli")
  BY <1>2, FinishTyped DEF AppendFails
<1> QED
  BY <1>1, <1>2

LEMMA QueueStepTyped ==
    ASSUME TypeInv, HasItem, SignoffPath, NEW p \in Procs,
           \/ TakeLock(p) \/ LockTimesOut(p) \/ ReadQueue(p) \/ Publish(p)
           \/ PublishFails(p) \/ Check(p)
    PROVE  TypeInv'
<1>1. job[p] \in Job /\ ControlOK /\ LocksOK
  BY DEF TypeInv, ControlOK
<1>2. job[p].day \in Days /\ queue[job[p].day] \in Seq(Facts)
  BY <1>1 DEF Job, TypeInv, FilesOK
<1>3. CASE TakeLock(p)
  <2>1. ControlOK'
    BY <1>1, <1>3, GotoTyped DEF TakeLock, Location
  <2>2. LocksOK'
    BY <1>1, <1>3 DEF TakeLock, LocksOK
  <2> QED
    BY <1>3, <2>1, <2>2 DEF TakeLock, TypeInv, FilesOK
<1>4. CASE LockTimesOut(p)
  <2>1. ControlOK' /\ left' \in Left
    BY <1>1, <1>4, AppendFailsTyped, SpendTyped DEF LockTimesOut, TypeInv
  <2> QED
    BY <1>4, <2>1 DEF LockTimesOut, TypeInv, FilesOK, LocksOK
<1>5. CASE ReadQueue(p)
  <2>1. [job[p] EXCEPT !.snap = queue[job[p].day]] \in Job
    BY <1>1, <1>2 DEF Job
  <2>2. ControlOK'
    BY <1>1, <1>5, <2>1, MoveTyped DEF ReadQueue, Location
  <2> QED
    BY <1>5, <2>2 DEF ReadQueue, TypeInv, FilesOK, LocksOK
<1>6. CASE Publish(p)
  <2>1. This(p) \in Item /\ Passed(p) \in Job
    BY <1>1, <1>6, ItemTyped DEF Publish, HasItem, ItemOf
  <2>2. [Passed(p) EXCEPT !.snap = <<>>] \in Job
    BY <2>1, EmptySeq DEF Job
  <2>3. ControlOK'
    BY <1>1, <1>6, <2>2, BackTyped DEF Publish
  <2>4. Append(job[p].snap, This(p).fact) \in Seq(Facts)
    BY <1>1, <2>1, AppendProperties DEF Job, Item
  <2>5. FilesOK'
    BY <1>6, <2>4 DEF Publish, TypeInv, FilesOK
  <2>6. LocksOK'
    BY <1>1, <1>6, ReleasedTyped DEF Publish, LocksOK
  <2> QED
    BY <1>6, <2>3, <2>5, <2>6 DEF Publish, TypeInv
<1>7. CASE PublishFails(p)
  <2>1. ControlOK' /\ left' \in Left
    BY <1>1, <1>7, AppendFailsTyped, SpendTyped DEF PublishFails, Fault, TypeInv
  <2>2. LocksOK'
    BY <1>1, <1>7, ReleasedTyped DEF PublishFails, LocksOK
  <2> QED
    BY <1>7, <2>1, <2>2 DEF PublishFails, TypeInv, FilesOK
<1>8. CASE Check(p)
  <2> DEFINE f == queue[job[p].day][job[p].index]
  <2>1. f \in Facts
    BY <1>2, <1>8, LenProperties, ElementOfSeq DEF SignoffPath, PathOf, Check
  <2>2. [job[p] EXCEPT !.asked = {f}, !.new = Once({f})] \in Job
    BY <1>1, <2>1, OnceTyped DEF Job
  <2>3. ControlOK'
    BY <1>1, <1>8, <2>2, MoveTyped, FinishTyped DEF Check, Location
  <2>4. LocksOK'
    BY <1>1, <1>8, ReleasedTyped DEF Check, LocksOK
  <2> QED
    BY <1>8, <2>3, <2>4 DEF Check, TypeInv, FilesOK
<1> QED
  BY <1>3, <1>4, <1>5, <1>6, <1>7, <1>8

LEMMA WriteStepTyped ==
    ASSUME TypeInv, HasItem, OwnFile, NEW p \in Procs,
           \/ NextEntry(p) \/ Create(p) \/ Write(p) \/ EntryFails(p)
           \/ WriteReceipt(p) \/ ReceiptFails(p) \/ Report(p)
    PROVE  TypeInv'
<1>1. job[p] \in Job /\ ControlOK /\ LocksOK
  BY DEF TypeInv, ControlOK
<1>2. job[p].date \in Days /\ entries[job[p].date] \in Seq(Entry)
  BY <1>1 DEF Job, TypeInv, FilesOK
<1>3. CASE NextEntry(p)
  <2>1. today \in Days /\ Len(entries[today]) + 1 \in Nat /\ 0 \in 0..(MaxTries - 1)
    BY LenProperties, MemoryAssumption DEF TypeInv, FilesOK
  <2>2. [job[p] EXCEPT !.date = today, !.slot = Len(entries[today]) + 1, !.tries = 0] \in Job
    BY <1>1, <2>1 DEF Job
  <2>3. ControlOK'
    BY <1>1, <1>3, <2>2, MoveTyped DEF NextEntry, Location
  <2> QED
    BY <1>3, <2>3 DEF NextEntry, TypeInv, FilesOK, LocksOK
<1>4. CASE Create(p)
  <2>1. ControlOK'
    <3> DEFINE j == [job[p] EXCEPT !.slot = Len(entries[job[p].date]) + 1, !.tries = @ + 1]
    <3>1. ASSUME job[p].tries + 1 < MaxTries
          PROVE  j \in Job
      <4>1. Len(entries[job[p].date]) + 1 \in Nat
        BY <1>2, LenProperties
      <4>2. job[p].tries + 1 \in 0..(MaxTries - 1)
        BY <1>1, <3>1, MemoryAssumption DEF Job
      <4> QED
        BY <1>1, <4>1, <4>2 DEF Job
    <3> HIDE DEF j
    <3>2. CASE Goto(p, "write") /\ UNCHANGED job
      BY <1>1, <3>2, GotoTyped DEF Location
    <3>3. CASE job[p].tries + 1 < MaxTries /\ Set(p, j) /\ UNCHANGED pc
      BY <1>1, <3>1, <3>3, SetTyped
    <3>4. CASE Finish(p)
      BY <1>1, <3>4, FinishTyped
    <3> QED
      BY <1>4, <3>2, <3>3, <3>4 DEF Create, j
  <2>2. Append(entries[job[p].date], Unwritten) \in Seq(Entry)
    BY <1>2, EntryTyped, AppendProperties
  <2>3. FilesOK'
    BY <1>4, <2>2 DEF Create, TypeInv, FilesOK
  <2>4. LocksOK'
    BY <1>1, <1>4, ReleasedTyped DEF Create, LocksOK
  <2> QED
    BY <1>4, <2>1, <2>3, <2>4 DEF Create, TypeInv
<1>5. CASE Write(p)
  <2>1. Content(p) \in Entry /\ Remaining(p) \in Tally
    BY <1>1, ContentTyped
  <2>2. ControlOK'
    <3>1. CASE job[p].lineage
      <4> DEFINE q == Passed(p)
                 j == [q EXCEPT !.lineage = FALSE, !.known = @ \cup {This(p).fact}]
      <4>1. This(p).fact \in Facts /\ q \in Job
        BY <1>1, <3>1, ItemTyped DEF HasItem, ItemOf, Item
      <4>2. j \in Job
        BY <4>1 DEF Job
      <4> QED
        BY <1>1, <1>5, <3>1, <4>2, MoveTyped DEF Write, AfterWrite, Location
    <3>2. CASE ~job[p].lineage
      <4>1. [job[p] EXCEPT !.new = Remaining(p)] \in Job
        BY <1>1, <2>1 DEF Job
      <4> QED
        BY <1>1, <1>5, <3>2, <4>1, MoveTyped DEF Write, AfterWrite, Location
    <3> QED
      BY <3>1, <3>2
  <2>3. [entries[job[p].date] EXCEPT ![job[p].slot] = Content(p)] \in Seq(Entry)
    BY <1>2, <1>5, <2>1, ExceptSeq, LenProperties DEF Write, OwnFile, FileOf
  <2>4. FilesOK'
    BY <1>5, <2>3 DEF Write, TypeInv, FilesOK
  <2>5. LocksOK'
    BY <1>1, <1>5, ReleasedTyped DEF Write, LocksOK
  <2> QED
    BY <1>5, <2>2, <2>4, <2>5 DEF Write, TypeInv
<1>6. CASE EntryFails(p)
  <2>1. ControlOK' /\ left' \in Left
    BY <1>1, <1>6, FinishTyped, SpendTyped DEF EntryFails, Fault, TypeInv
  <2>2. LocksOK'
    BY <1>1, <1>6, ReleasedTyped DEF EntryFails, LocksOK
  <2> QED
    BY <1>6, <2>1, <2>2 DEF EntryFails, TypeInv, FilesOK
<1>7. CASE WriteReceipt(p)
  <2>1. job[p].batch \in Batches
    BY <1>7 DEF WriteReceipt, HasItem, ItemOf
  <2>2. FilesOK'
    BY <1>7, <2>1 DEF WriteReceipt, TypeInv, FilesOK
  <2>3. ControlOK'
    BY <1>1, <1>7, GotoTyped DEF WriteReceipt, Location
  <2> QED
    BY <1>7, <2>2, <2>3 DEF WriteReceipt, TypeInv, LocksOK
<1>8. CASE ReceiptFails(p)
  <2>1. ControlOK' /\ left' \in Left
    BY <1>1, <1>8, FinishTyped, SpendTyped DEF ReceiptFails, Fault, TypeInv
  <2> QED
    BY <1>8, <2>1 DEF ReceiptFails, TypeInv, FilesOK, LocksOK
<1>9. CASE Report(p)
  <2>1. ControlOK'
    BY <1>1, <1>9, FinishTyped DEF Report
  <2> QED
    BY <1>9, <2>1 DEF Report, TypeInv, FilesOK, LocksOK
<1> QED
  BY <1>3, <1>4, <1>5, <1>6, <1>7, <1>8, <1>9

LEMMA CrashTyped ==
    ASSUME TypeInv, NEW p \in Procs, Crash(p)
    PROVE  TypeInv'
<1>1. ControlOK' /\ left' \in Left
  BY FinishTyped, SpendTyped DEF Crash, TypeInv
<1>2. LocksOK'
  BY DEF Crash, TypeInv, LocksOK
<1> QED
  BY <1>1, <1>2 DEF Crash, TypeInv, FilesOK

LEMMA WorldTyped ==
    ASSUME TypeInv, EditsBounded,
           Midnight \/ \E b \in Batches : EditStaged(b) \/ Reaudit(b)
    PROVE  TypeInv'
<1>1. CASE Midnight
  <2>1. today' \in Days
    BY <1>1, MemoryAssumption DEF Midnight, TypeInv, Days
  <2> QED
    BY <1>1, <2>1 DEF Midnight, TypeInv, FilesOK, LocksOK, ControlOK
<1>2. ASSUME NEW b \in Batches, EditStaged(b)
      PROVE  TypeInv'
  <2>1. left' \in Left
    BY <1>2, SpendTyped DEF EditStaged, TypeInv
  <2>2. staged[b].text + 1 \in Versions
    <3>1. staged[b].text \in Nat \ {0} /\ left.edits \in Nat \ {0}
      BY <1>2 DEF EditStaged, Spend, TypeInv, FilesOK, Versions, Left
    <3>2. staged[b].text + left.edits <= MaxEdits + 1 /\ MaxEdits \in Nat
      BY MemoryAssumption DEF EditsBounded
    <3> QED
      BY <3>1, <3>2 DEF Versions
  <2>3. FilesOK'
    BY <1>2, <2>2 DEF EditStaged, TypeInv, FilesOK
  <2> QED
    BY <1>2, <2>1, <2>3 DEF EditStaged, TypeInv, LocksOK, ControlOK
<1>3. ASSUME NEW b \in Batches, Reaudit(b)
      PROVE  TypeInv'
  BY <1>3 DEF Reaudit, TypeInv, FilesOK, LocksOK, ControlOK
<1> QED
  BY <1>1, <1>2, <1>3

LEMMA TypeStep ==
    ASSUME TypeInv, EditsBounded, HasItem, SignoffPath, OwnFile, [Next]_vars
    PROVE  TypeInv'
<1>1. ASSUME NEW p \in Procs, Step(p)
      PROVE  TypeInv'
  BY <1>1, ItemStepTyped, QueueStepTyped, WriteStepTyped DEF Step
<1>2. CASE UNCHANGED vars
  BY <1>2 DEF vars, TypeInv, FilesOK, LocksOK, ControlOK
<1> QED
  BY <1>1, <1>2, StartTyped, CrashTyped, WorldTyped DEF Next, Finished

-----------------------------------------------------------------------------
(* The control of a command. *)

LEMMA EditsStep ==
    ASSUME TypeInv, EditsBounded, [Next]_vars
    PROVE  EditsBounded'
<1> USE DEF EditsBounded
<1>1. \A b \in Batches : staged[b].text \in Nat
  BY DEF TypeInv, FilesOK, Versions
<1>2. left.edits \in Nat /\ MaxEdits \in Nat
  BY MemoryAssumption DEF TypeInv, Left
<1>3. ASSUME NEW b \in Batches, EditStaged(b)
      PROVE  EditsBounded'
  <2>1. left'.edits = left.edits - 1
    BY <1>3 DEF EditStaged, Spend, TypeInv, Left
  <2>2. \A c \in Batches : staged'[c].text <= staged[c].text + 1
    BY <1>1, <1>3 DEF EditStaged, TypeInv, FilesOK
  <2>3. \A c \in Batches : staged'[c].text \in Nat
    BY <1>1, <1>3 DEF EditStaged, TypeInv, FilesOK
  <2> QED
    BY <1>1, <1>2, <2>1, <2>2, <2>3
<1>4. ASSUME left'.edits = left.edits, \A b \in Batches : staged'[b].text = staged[b].text
      PROVE  EditsBounded'
  BY <1>4
<1>5. ASSUME NEW b \in Batches, Reaudit(b)
      PROVE  EditsBounded'
  <2>1. \A c \in Batches : staged'[c].text = staged[c].text
    BY <1>5 DEF Reaudit, TypeInv, FilesOK
  <2> QED
    BY <1>4, <1>5, <2>1 DEF Reaudit
<1>6. ASSUME NEW p \in Procs, Start(p) \/ Step(p) \/ Crash(p)
      PROVE  EditsBounded'
  <2>1. left'.edits = left.edits
    BY <1>6 DEF Start, StartConsolidate, StartDream, StartPromote, StartSignoff, Step,
         ReadKnown, ReadBodies, Skip, Contest, Collect, Supersede, SetAside, BoundEnd,
         RouteEnd, TakeLock, LockTimesOut, ReadQueue, Publish, PublishFails, Check,
         NextEntry, Create, Write, EntryFails, WriteReceipt, ReceiptFails, Report, Crash,
         Fault, Spend, TypeInv, Left
  <2>2. CASE WriteReceipt(p)
    <3>1. \A b \in Batches : staged'[b].text = staged[b].text
      BY <2>2 DEF WriteReceipt, TypeInv, FilesOK
    <3> QED
      BY <1>4, <2>1, <3>1
  <2>3. CASE ~WriteReceipt(p)
    <3>1. UNCHANGED staged
      BY <1>6, <2>3 DEF Start, StartConsolidate, StartDream, StartPromote, StartSignoff, Step,
         ReadKnown, ReadBodies, Skip, Contest, Collect, Supersede, SetAside, BoundEnd,
         RouteEnd, TakeLock, LockTimesOut, ReadQueue, Publish, PublishFails, Check,
         NextEntry, Create, Write, EntryFails, ReceiptFails, Report, Crash
    <3> QED
      BY <1>4, <2>1, <3>1
  <2> QED
    BY <2>2, <2>3
<1>7. CASE Midnight
  BY <1>7 DEF Midnight
<1>8. CASE UNCHANGED vars
  BY <1>8 DEF vars
<1> QED
  BY <1>3, <1>5, <1>6, <1>7, <1>8 DEF Next, Finished

\* A command changes nobody else's control.
LEMMA OthersStay ==
    ASSUME ControlOK, NEW p \in Procs, Start(p) \/ Step(p) \/ Crash(p)
    PROVE  \A q \in Procs : q # p => pc'[q] = pc[q] /\ job'[q] = job[q]
<1> USE DEF ControlOK, Goto, Set, Finish
<1>1. CASE Start(p)
  BY <1>1 DEF Start, StartConsolidate, StartDream, StartPromote, StartSignoff
<1>2. CASE Step(p)
  BY <1>2 DEF Step, Back, AppendFails, AfterWrite,
         ReadKnown, ReadBodies, Skip, Contest, Collect, Supersede, SetAside, BoundEnd,
         RouteEnd, TakeLock, LockTimesOut, ReadQueue, Publish, PublishFails, Check,
         NextEntry, Create, Write, EntryFails, WriteReceipt, ReceiptFails, Report
<1>3. CASE Crash(p)
  BY <1>3 DEF Crash
<1> QED
  BY <1>1, <1>2, <1>3

LEMMA Moved ==
    ASSUME ControlOK, NEW p \in Procs
    PROVE  /\ \A l : Goto(p, l) => pc'[p] = l
           /\ \A j : Set(p, j) => job'[p] = j
           /\ Finish(p) => pc'[p] = "idle" /\ job'[p] = NoJob
           /\ UNCHANGED pc => pc'[p] = pc[p]
           /\ UNCHANGED job => job'[p] = job[p]
BY DEF ControlOK, Goto, Set, Finish

\* The command of a process, and what it has still to look at.
SameCommand(p) ==
    /\ job'[p].op = job[p].op
    /\ job'[p].batch = job[p].batch
    /\ job'[p].lineage = job[p].lineage
    /\ job'[p].day = job[p].day
    /\ job'[p].index = job[p].index

SameItems(p) == SameCommand(p) /\ job'[p].todo = job[p].todo

\* What the steps of a command do to its control.
LEMMA ItemStepMoves ==
    ASSUME ControlOK, NEW p \in Procs
    PROVE  /\ ReadKnown(p) => pc'[p] = "seen" /\ SameItems(p)
           /\ ReadBodies(p) => pc'[p] = "route" /\ SameItems(p)
           /\ Skip(p) \/ Collect(p) \/ SetAside(p) => pc'[p] = pc[p] /\ SameCommand(p)
           /\ BoundEnd(p) => Finish(p) \/ (pc'[p] = "known" /\ SameCommand(p))
           /\ RouteEnd(p) => /\ pc'[p] \in {"next", "receipt", "done"} /\ SameItems(p)
                             /\ pc'[p] = "receipt" => job[p].op = "promote"
<1>1. job[p] \in Job
  BY DEF ControlOK
<1>2. ReadKnown(p) => pc'[p] = "seen" /\ job'[p] = [job[p] EXCEPT !.known = Canonical]
  BY Moved DEF ReadKnown
<1>3. ReadBodies(p) => pc'[p] = "route" /\ job'[p] = [job[p] EXCEPT !.seen = Canonical]
  BY Moved DEF ReadBodies
<1>4. /\ Skip(p) => job'[p] = Passed(p)
      /\ Collect(p) => job'[p] = [Passed(p) EXCEPT !.new[This(p).fact] = @ + 1,
                                                   !.known = @ \cup {This(p).fact}]
      /\ SetAside(p) =>
            job'[p] = [Passed(p) EXCEPT !.rest = Append(@, [This(p) EXCEPT !.verdict = "new"])]
      /\ Skip(p) \/ Collect(p) \/ SetAside(p) => pc'[p] = pc[p]
  BY Moved DEF Skip, Collect, SetAside
<1>5. BoundEnd(p) =>
         \/ Finish(p)
         \/ pc'[p] = "known" /\ job'[p] = [job[p] EXCEPT !.todo = job[p].rest, !.rest = <<>>]
  BY Moved DEF BoundEnd
<1>6. RouteEnd(p) => /\ pc'[p] \in {"next", "receipt", "done"} /\ job'[p] = job[p]
                     /\ pc'[p] = "receipt" => job[p].op = "promote"
  BY Moved DEF RouteEnd
<1>7. Skip(p) \/ Collect(p) \/ SetAside(p) => SameCommand(p)
  <2>1. CASE Skip(p)
    BY <1>1, <1>4, <2>1 DEF SameCommand, Passed, Job
  <2>2. CASE Collect(p)
    BY <1>1, <1>4, <2>2 DEF SameCommand, Passed, Job
  <2>3. CASE SetAside(p)
    BY <1>1, <1>4, <2>3 DEF SameCommand, Passed, Job
  <2> QED
    BY <2>1, <2>2, <2>3
<1>8. ReadKnown(p) => pc'[p] = "seen" /\ SameItems(p)
  BY <1>1, <1>2 DEF SameItems, SameCommand, Job
<1>9. ReadBodies(p) => pc'[p] = "route" /\ SameItems(p)
  BY <1>1, <1>3 DEF SameItems, SameCommand, Job
<1>10. BoundEnd(p) => Finish(p) \/ (pc'[p] = "known" /\ SameCommand(p))
  BY <1>1, <1>5 DEF SameCommand, Job
<1>11. RouteEnd(p) => /\ pc'[p] \in {"next", "receipt", "done"} /\ SameItems(p)
                      /\ pc'[p] = "receipt" => job[p].op = "promote"
  BY <1>6 DEF SameItems, SameCommand
<1> QED
  BY <1>4, <1>7, <1>8, <1>9, <1>10, <1>11

LEMMA QueueStepMoves ==
    ASSUME ControlOK, NEW p \in Procs
    PROVE  /\ Contest(p) =>
                 /\ pc'[p] = "lock"
                 /\ job'[p].op = job[p].op /\ job'[p].batch = job[p].batch
                 /\ job'[p].lineage = job[p].lineage /\ job'[p].todo = job[p].todo
           /\ TakeLock(p) => /\ pc'[p] = IF job[p].op = "signoff" THEN "check" ELSE "append"
                             /\ SameItems(p)
           /\ AppendFails(p) => \/ Finish(p)
                                \/ /\ pc'[p] \in {"bound", "route"} /\ SameCommand(p)
                                   /\ job[p].op = "dream"
           /\ ReadQueue(p) => /\ pc'[p] = "publish" /\ SameItems(p)
                              /\ job'[p].snap = queue[job[p].day]
           /\ Publish(p) => pc'[p] \in {"bound", "route"} /\ SameCommand(p)
           /\ Check(p) => Finish(p) \/ (pc'[p] = "next" /\ SameItems(p))
<1>1. job[p] \in Job
  BY DEF ControlOK
<1>2. Back(p) => pc'[p] \in {"bound", "route"}
  BY Moved DEF Back
<1>3. Contest(p) => /\ pc'[p] = "lock"
                    /\ job'[p].op = job[p].op /\ job'[p].batch = job[p].batch
                    /\ job'[p].lineage = job[p].lineage /\ job'[p].todo = job[p].todo
  <2>1. Contest(p) => pc'[p] = "lock" /\ job'[p] = [job[p] EXCEPT !.day = today]
    BY Moved DEF Contest
  <2> QED
    BY <1>1, <2>1 DEF Job
<1>4. TakeLock(p) => /\ pc'[p] = IF job[p].op = "signoff" THEN "check" ELSE "append"
                     /\ SameItems(p)
  BY Moved DEF TakeLock, SameItems, SameCommand
<1>5. AppendFails(p) => \/ Finish(p)
                        \/ /\ pc'[p] \in {"bound", "route"} /\ SameCommand(p)
                           /\ job[p].op = "dream"
  <2>1. AppendFails(p) =>
           Finish(p) \/ (job'[p] = Passed(p) /\ Back(p) /\ job[p].op = "dream")
    BY Moved DEF AppendFails
  <2>2. job'[p] = Passed(p) => SameCommand(p)
    BY <1>1 DEF Passed, SameCommand, Job
  <2> QED
    BY <1>2, <2>1, <2>2
<1>6. ReadQueue(p) => /\ pc'[p] = "publish" /\ SameItems(p)
                      /\ job'[p].snap = queue[job[p].day]
  <2>1. ReadQueue(p) =>
           pc'[p] = "publish" /\ job'[p] = [job[p] EXCEPT !.snap = queue[job[p].day]]
    BY Moved DEF ReadQueue
  <2> QED
    BY <1>1, <2>1 DEF SameItems, SameCommand, Job
<1>7. Publish(p) => pc'[p] \in {"bound", "route"} /\ SameCommand(p)
  <2>1. Publish(p) => Back(p) /\ job'[p] = [Passed(p) EXCEPT !.snap = <<>>]
    BY Moved DEF Publish
  <2>2. job'[p] = [Passed(p) EXCEPT !.snap = <<>>] => SameCommand(p)
    BY <1>1 DEF Passed, SameCommand, Job
  <2> QED
    BY <1>2, <2>1, <2>2
<1>8. Check(p) => Finish(p) \/ (pc'[p] = "next" /\ SameItems(p))
  <2> DEFINE f == queue[job[p].day][job[p].index]
  <2>1. Check(p) =>
           \/ Finish(p)
           \/ pc'[p] = "next" /\ job'[p] = [job[p] EXCEPT !.asked = {f}, !.new = Once({f})]
    BY Moved DEF Check
  <2>2. job'[p] = [job[p] EXCEPT !.asked = {f}, !.new = Once({f})] => SameItems(p)
    BY <1>1 DEF SameItems, SameCommand, Job
  <2> QED
    BY <2>1, <2>2
<1> QED
  BY <1>3, <1>4, <1>5, <1>6, <1>7, <1>8

LEMMA WriteStepMoves ==
    ASSUME ControlOK, NEW p \in Procs
    PROVE  /\ NextEntry(p) =>
                 /\ pc'[p] = "create" /\ SameItems(p) /\ job'[p].new = job[p].new
                 /\ job'[p].date = today /\ job'[p].slot = Len(entries[today]) + 1
           /\ Create(p) =>
                 \/ pc'[p] = "write" /\ job'[p] = job[p]
                 \/ /\ pc'[p] = "create" /\ SameItems(p) /\ job'[p].new = job[p].new
                    /\ job'[p].date = job[p].date
                    /\ job'[p].slot = Len(entries[job[p].date]) + 1
                    /\ UNCHANGED entries
                 \/ Finish(p)
           /\ Write(p) =>
                 \/ /\ job[p].lineage /\ ~job'[p].lineage /\ pc'[p] = "route"
                    /\ job'[p].op = job[p].op /\ job'[p].batch = job[p].batch
                 \/ /\ ~job[p].lineage /\ SameItems(p)
                    /\ pc'[p] = IF Remaining(p) # Nothing THEN "next"
                                ELSE IF job[p].op = "promote" THEN "receipt" ELSE "done"
           /\ WriteReceipt(p) => pc'[p] = "done" /\ job'[p] = job[p]
<1>1. job[p] \in Job
  BY DEF ControlOK
<1>2. NextEntry(p) =>
         /\ pc'[p] = "create" /\ SameItems(p) /\ job'[p].new = job[p].new
         /\ job'[p].date = today /\ job'[p].slot = Len(entries[today]) + 1
  <2>1. NextEntry(p) =>
           /\ pc'[p] = "create"
           /\ job'[p] = [job[p] EXCEPT !.date = today, !.slot = Len(entries[today]) + 1,
                                       !.tries = 0]
    BY Moved DEF NextEntry
  <2> QED
    BY <1>1, <2>1 DEF SameItems, SameCommand, Job
<1>3. Create(p) =>
         \/ pc'[p] = "write" /\ job'[p] = job[p]
         \/ /\ pc'[p] = "create" /\ SameItems(p) /\ job'[p].new = job[p].new
            /\ job'[p].date = job[p].date
            /\ job'[p].slot = Len(entries[job[p].date]) + 1
            /\ UNCHANGED entries
         \/ Finish(p)
  <2> DEFINE n == Len(entries[job[p].date]) + 1
  <2>1. Create(p) =>
           \/ pc'[p] = "write" /\ job'[p] = job[p]
           \/ /\ pc'[p] = "create" /\ UNCHANGED entries
              /\ job'[p] = [job[p] EXCEPT !.slot = n, !.tries = @ + 1]
           \/ Finish(p)
    BY Moved DEF Create
  <2>2. job'[p] = [job[p] EXCEPT !.slot = n, !.tries = @ + 1] =>
           /\ SameItems(p) /\ job'[p].new = job[p].new
           /\ job'[p].date = job[p].date /\ job'[p].slot = n
    BY <1>1 DEF SameItems, SameCommand, Job
  <2> QED
    BY <2>1, <2>2
<1>4. Write(p) /\ job[p].lineage =>
         /\ ~job'[p].lineage /\ pc'[p] = "route"
         /\ job'[p].op = job[p].op /\ job'[p].batch = job[p].batch
  <2>1. Write(p) /\ job[p].lineage =>
           /\ pc'[p] = "route"
           /\ job'[p] = [Passed(p) EXCEPT !.lineage = FALSE, !.known = @ \cup {This(p).fact}]
    BY Moved DEF Write, AfterWrite
  <2> QED
    BY <1>1, <2>1 DEF Passed, Job
<1>5. Write(p) /\ ~job[p].lineage =>
         /\ SameItems(p)
         /\ pc'[p] = IF Remaining(p) # Nothing THEN "next"
                     ELSE IF job[p].op = "promote" THEN "receipt" ELSE "done"
  <2>1. Write(p) /\ ~job[p].lineage =>
           /\ job'[p] = [job[p] EXCEPT !.new = Remaining(p)]
           /\ pc'[p] = IF Remaining(p) # Nothing THEN "next"
                       ELSE IF job[p].op = "promote" THEN "receipt" ELSE "done"
    BY Moved DEF Write, AfterWrite
  <2> QED
    BY <1>1, <2>1 DEF SameItems, SameCommand, Job
<1>6. WriteReceipt(p) => pc'[p] = "done" /\ job'[p] = job[p]
  BY Moved DEF WriteReceipt
<1> QED
  BY <1>2, <1>3, <1>4, <1>5, <1>6

LEMMA StartMoves ==
    ASSUME ControlOK, NEW p \in Procs, Start(p)
    PROVE  \/ UNCHANGED <<pc, job>>
           \/ /\ pc'[p] \in {"known", "bound"} /\ ~job'[p].lineage /\ job'[p].op # "signoff"
              /\ job'[p].op = "promote" => job'[p].batch \in Batches
           \/ /\ pc'[p] = "lock" /\ ~job'[p].lineage /\ job'[p].op = "signoff"
              /\ job'[p].day \in Days /\ job'[p].index \in DOMAIN queue[job'[p].day]
<1>1. CASE StartConsolidate(p)
  <2>1. PICK b \in Buffers, strict \in BOOLEAN :
           job'[p] = [NoJob EXCEPT !.op = "consolidate", !.strict = strict,
                      !.asked = {b[i] : i \in DOMAIN b}, !.todo = Items(b, "new")]
    BY <1>1, Moved DEF StartConsolidate
  <2>2. job'[p].op = "consolidate" /\ ~job'[p].lineage
    BY <2>1 DEF NoJob
  <2> QED
    BY <1>1, <2>2, Moved DEF StartConsolidate
<1>2. CASE StartDream(p)
  <2>1. PICK b \in Buffers, front \in Fronts :
           job'[p] = [NoJob EXCEPT !.op = "dream", !.front = front,
                      !.asked = {b[i] : i \in DOMAIN b}, !.todo = Items(b, "distilled")]
    BY <1>2, Moved DEF StartDream
  <2>2. job'[p].op = "dream" /\ ~job'[p].lineage
    BY <2>1 DEF NoJob
  <2> QED
    BY <1>2, <2>2, Moved DEF StartDream
<1>3. CASE StartPromote(p) /\ ~UNCHANGED <<pc, job>>
  <2>1. PICK b \in Batches :
           /\ pc'[p] = "known"
           /\ job'[p] = [NoJob EXCEPT !.op = "promote", !.batch = b,
                         !.asked = AskedOf(Audit[b][staged[b].text]),
                         !.todo = Audit[b][staged[b].text]]
    BY <1>3, Moved DEF StartPromote
  <2>2. job'[p].op = "promote" /\ job'[p].batch = b /\ ~job'[p].lineage
    BY <2>1 DEF NoJob
  <2> QED
    BY <2>1, <2>2
<1>4. CASE StartSignoff(p)
  <2>1. PICK d \in Days : \E i \in DOMAIN queue[d] :
           job'[p] = [NoJob EXCEPT !.op = "signoff", !.day = d, !.index = i]
    BY <1>4, Moved DEF StartSignoff
  <2>2. PICK i \in DOMAIN queue[d] :
           job'[p] = [NoJob EXCEPT !.op = "signoff", !.day = d, !.index = i]
    BY <2>1
  <2>3. job'[p].op = "signoff" /\ job'[p].day = d /\ job'[p].index = i /\ ~job'[p].lineage
    BY <2>2 DEF NoJob
  <2> QED
    BY <1>4, <2>3, Moved DEF StartSignoff
<1> QED
  BY <1>1, <1>2, <1>3, <1>4 DEF Start

LEMMA ControlStep ==
    ASSUME ControlOK, NEW p \in Procs, ItemOf(p), PathOf(p), Start(p) \/ Step(p) \/ Crash(p)
    PROVE  ItemOf(p)' /\ PathOf(p)'
<1> USE DEF ItemOf, PathOf
<1>1. CASE Finish(p)
  <2>1. pc'[p] = "idle" /\ job'[p] = NoJob
    BY <1>1, Moved
  <2> QED
    BY <2>1 DEF NoJob
<1>2. CASE Start(p)
  <2>1. UNCHANGED <<pc, job>> => ItemOf(p)' /\ PathOf(p)'
    OBVIOUS
  <2> QED
    BY <1>2, <2>1, StartMoves
<1>3. CASE ReadKnown(p) \/ ReadBodies(p) \/ Skip(p) \/ Collect(p) \/ SetAside(p)
  BY <1>3, ItemStepMoves
     DEF ReadKnown, ReadBodies, Skip, Collect, SetAside, AtItem, SameItems, SameCommand
<1>4. CASE BoundEnd(p) \/ RouteEnd(p)
  BY <1>1, <1>4, ItemStepMoves DEF BoundEnd, RouteEnd, SameItems, SameCommand
<1>5. CASE Contest(p)
  BY <1>5, QueueStepMoves DEF Contest, AtItem
<1>6. CASE Supersede(p)
  <2>1. pc'[p] = "next" /\ job'[p] = [job[p] EXCEPT !.lineage = TRUE]
    BY <1>6, Moved DEF Supersede
  <2>2. /\ job'[p].op = job[p].op /\ job'[p].batch = job[p].batch
        /\ job'[p].todo = job[p].todo
    BY <2>1 DEF ControlOK, Job
  <2> QED
    BY <1>6, <2>1, <2>2 DEF Supersede, AtItem
<1>7. CASE TakeLock(p) \/ ReadQueue(p)
  BY <1>7, QueueStepMoves DEF TakeLock, ReadQueue, SameItems, SameCommand
<1>8. CASE LockTimesOut(p) \/ PublishFails(p)
  BY <1>1, <1>8, QueueStepMoves DEF LockTimesOut, PublishFails, SameCommand
<1>9. CASE Publish(p)
  BY <1>9, QueueStepMoves DEF Publish, SameCommand
<1>10. CASE Check(p)
  BY <1>1, <1>10, QueueStepMoves DEF Check, SameItems, SameCommand
<1>11. CASE NextEntry(p) \/ Create(p)
  BY <1>1, <1>11, WriteStepMoves DEF NextEntry, Create, SameItems, SameCommand
<1>12. CASE Write(p)
  BY <1>12, WriteStepMoves DEF Write, SameItems, SameCommand
<1>13. CASE WriteReceipt(p)
  BY <1>13, WriteStepMoves DEF WriteReceipt
<1>14. CASE EntryFails(p) \/ ReceiptFails(p) \/ Report(p) \/ Crash(p)
  BY <1>1, <1>14 DEF EntryFails, ReceiptFails, Report, Crash
<1> QED
  BY <1>2, <1>3, <1>4, <1>5, <1>6, <1>7, <1>8, <1>9, <1>10, <1>11, <1>12, <1>13, <1>14
     DEF Step

\* What the world does is no matter to the control of the commands.
LEMMA WorldStays ==
    ASSUME UNCHANGED vars \/ Midnight \/ \E b \in Batches : EditStaged(b) \/ Reaudit(b)
    PROVE  UNCHANGED <<entries, queue, qlock, pc, job>>
BY DEF vars, Midnight, EditStaged, Reaudit

LEMMA HasItemStep ==
    ASSUME TypeInv, HasItem, SignoffPath, [Next]_vars
    PROVE  HasItem' /\ \A p \in Procs : PathOf(p)'
<1>1. ASSUME NEW p \in Procs, Start(p) \/ Step(p) \/ Crash(p)
      PROVE  HasItem' /\ \A q \in Procs : PathOf(q)'
  <2>1. ItemOf(p)' /\ PathOf(p)'
    BY <1>1, ControlStep DEF TypeInv, HasItem, SignoffPath
  <2>2. ASSUME NEW q \in Procs, q # p
        PROVE  ItemOf(q)' /\ PathOf(q)'
    <3>1. pc'[q] = pc[q] /\ job'[q] = job[q]
      BY <1>1, <2>2, OthersStay DEF TypeInv
    <3> QED
      BY <3>1 DEF HasItem, SignoffPath, ItemOf, PathOf
  <2> QED
    BY <2>1, <2>2 DEF HasItem
<1>2. CASE UNCHANGED <<pc, job>>
  BY <1>2 DEF HasItem, SignoffPath, ItemOf, PathOf
<1> QED
  BY <1>1, <1>2, WorldStays DEF Next, Finished

-----------------------------------------------------------------------------
(* The review queues and their locks. *)

LEMMA OthersKeepLocks ==
    ASSUME LocksOK, NEW p \in Procs, Start(p) \/ Step(p) \/ Crash(p)
    PROVE  \A q \in Procs, d \in Days : q # p /\ qlock[d] = q => qlock'[d] = q
<1>1. CASE UNCHANGED qlock
  BY <1>1
<1>2. CASE qlock' = Released(p)
  BY <1>2 DEF Released
<1>3. CASE TakeLock(p)
  BY <1>3, MemoryAssumption DEF TakeLock, LocksOK
<1>4. CASE Crash(p)
  BY <1>4 DEF Crash
<1> QED
  BY <1>1, <1>2, <1>3, <1>4
     DEF Start, StartConsolidate, StartDream, StartPromote, StartSignoff, Step, ReadKnown,
         ReadBodies, Skip, Contest, Collect, Supersede, SetAside, BoundEnd, RouteEnd,
         LockTimesOut, ReadQueue, Publish, PublishFails, Check, NextEntry, Create, Write,
         EntryFails, WriteReceipt, ReceiptFails, Report

LEMMA OnlyPublishQueues ==
    ASSUME NEW p \in Procs, Start(p) \/ Step(p) \/ Crash(p), ~Publish(p)
    PROVE  UNCHANGED queue
BY DEF Start, StartConsolidate, StartDream, StartPromote, StartSignoff, Step, ReadKnown,
       ReadBodies, Skip, Contest, Collect, Supersede, SetAside, BoundEnd, RouteEnd,
       TakeLock, LockTimesOut, ReadQueue, PublishFails, Check, NextEntry, Create, Write,
       EntryFails, WriteReceipt, ReceiptFails, Report, Crash

\* What a queue holds stays where it is.
QueueKept ==
    \A d \in Days : \A i \in DOMAIN queue[d] :
        i \in DOMAIN queue'[d] /\ queue'[d][i] = queue[d][i]

LEMMA QueueStep ==
    ASSUME TypeInv, HasItem, UnderLock, [Next]_vars
    PROVE  QueueKept
<1>1. ASSUME NEW p \in Procs, Publish(p)
      PROVE  QueueKept
  <2> DEFINE d == job[p].day
             f == This(p).fact
  <2>1. d \in Days /\ queue[d] \in Seq(Facts)
    BY DEF TypeInv, FilesOK, ControlOK, Job
  <2>2. f \in Facts
    BY <1>1, ItemTyped DEF Publish, HasItem, ItemOf, TypeInv, Item
  <2>3. queue' = [queue EXCEPT ![d] = Append(queue[d], f)]
    BY <1>1 DEF Publish, UnderLock, LockOf
  <2>4. \A i \in DOMAIN queue[d] :
           i \in DOMAIN Append(queue[d], f) /\ Append(queue[d], f)[i] = queue[d][i]
    <3>1. /\ Append(queue[d], f) \in Seq(Facts)
          /\ Len(Append(queue[d], f)) = Len(queue[d]) + 1
          /\ \A i \in 1..Len(queue[d]) : Append(queue[d], f)[i] = queue[d][i]
      BY <2>1, <2>2, AppendProperties
    <3>2. Len(queue[d]) \in Nat /\ DOMAIN queue[d] = 1..Len(queue[d])
      BY <2>1, LenProperties
    <3>3. DOMAIN Append(queue[d], f) = 1..(Len(queue[d]) + 1)
      BY <3>1, LenProperties
    <3> QED
      BY <3>1, <3>2, <3>3
  <2> HIDE DEF d, f
  <2> QED
    BY <2>3, <2>4 DEF QueueKept, TypeInv, FilesOK
<1>2. CASE UNCHANGED queue
  BY <1>2 DEF QueueKept
<1> QED
  BY <1>1, <1>2, WorldStays, OnlyPublishQueues DEF Next, Finished

LEMMA SignoffWritesAll ==
    ASSUME ControlOK, NEW p \in Procs, job[p].op = "signoff", ~job[p].lineage
    PROVE  Group(p) = job[p].new /\ Remaining(p) = Nothing
<1>1. job[p].new \in [Facts -> Nat]
  BY DEF ControlOK, Job, Tally
<1>2. Group(p) = job[p].new
  BY DEF Group
<1>3. \A f \in Facts : job[p].new[f] > 0 \/ job[p].new[f] = 0
  BY <1>1
<1> QED
  BY <1>1, <1>2, <1>3 DEF Remaining, Nothing, Once

LEMMA LockStep ==
    ASSUME TypeInv, HasItem, SignoffPath, UnderLock, [Next]_vars
    PROVE  UnderLock'
<1>1. ASSUME NEW p \in Procs, Start(p) \/ Step(p) \/ Crash(p)
      PROVE  UnderLock'
  <2>1. ControlOK /\ LocksOK /\ LockOf(p) /\ ItemOf(p) /\ PathOf(p) /\ job[p].day \in Days
    BY DEF TypeInv, ControlOK, UnderLock, HasItem, SignoffPath, Job
  <2>2. LockOf(p)'
    <3> USE DEF LockOf
    <3>1. CASE Start(p)
      <4>1. UNCHANGED <<queue, qlock>>
        BY <3>1 DEF Start, StartConsolidate, StartDream, StartPromote, StartSignoff
      <4> QED
        BY <2>1, <3>1, <4>1, StartMoves
    <3>2. CASE Finish(p)
      BY <2>1, <3>2, Moved
    <3>3. CASE ReadKnown(p) \/ ReadBodies(p) \/ Skip(p) \/ Collect(p) \/ SetAside(p)
      BY <2>1, <3>3, ItemStepMoves
         DEF ReadKnown, ReadBodies, Skip, Collect, SetAside, AtItem
    <3>4. CASE Contest(p)
      BY <2>1, <3>4, QueueStepMoves DEF Contest, AtItem
    <3>5. CASE Supersede(p)
      <4>1. pc'[p] = "next" /\ job'[p] = [job[p] EXCEPT !.lineage = TRUE]
        BY <2>1, <3>5, Moved DEF Supersede
      <4>2. job'[p].op = job[p].op /\ job[p].op # "signoff"
        BY <2>1, <3>5, <4>1 DEF ControlOK, Job, Supersede, AtItem, PathOf
      <4> QED
        BY <4>1, <4>2
    <3>6. CASE BoundEnd(p) \/ RouteEnd(p)
      BY <2>1, <3>2, <3>6, ItemStepMoves
         DEF BoundEnd, RouteEnd, SameItems, SameCommand, PathOf
    <3>7. CASE TakeLock(p)
      BY <2>1, <3>7, QueueStepMoves DEF TakeLock, SameItems, SameCommand, LocksOK
    <3>8. CASE ReadQueue(p)
      BY <2>1, <3>8, QueueStepMoves DEF ReadQueue, SameItems, SameCommand
    <3>9. CASE Publish(p) \/ LockTimesOut(p) \/ PublishFails(p)
      BY <2>1, <3>2, <3>9, QueueStepMoves DEF LockTimesOut, PublishFails
    <3>10. CASE Check(p)
      <4>1. pc'[p] = "next" => UNCHANGED <<queue, qlock>>
        BY <2>1, <3>10, Moved DEF Check
      <4> QED
        BY <2>1, <3>2, <3>10, <4>1, QueueStepMoves DEF Check, SameItems, SameCommand
    <3>11. CASE NextEntry(p)
      BY <2>1, <3>11, WriteStepMoves DEF NextEntry, SameItems, SameCommand
    <3>12. CASE Create(p)
      <4>1. pc'[p] # "idle" => UNCHANGED <<queue, qlock>>
        BY <2>1, <3>12, Moved DEF Create
      <4> QED
        BY <2>1, <3>2, <3>12, <4>1, WriteStepMoves, Moved DEF Create, SameItems, SameCommand
    <3>13. CASE Write(p)
      BY <2>1, <3>13, WriteStepMoves, SignoffWritesAll DEF SameItems, SameCommand, ItemOf
    <3>14. CASE WriteReceipt(p)
      BY <2>1, <3>14, WriteStepMoves
    <3>15. CASE EntryFails(p) \/ ReceiptFails(p) \/ Report(p) \/ Crash(p)
      BY <3>2, <3>15 DEF EntryFails, ReceiptFails, Report, Crash
    <3> QED
      BY <1>1, <3>1, <3>3, <3>4, <3>5, <3>6, <3>7, <3>8, <3>9, <3>10, <3>11, <3>12, <3>13,
         <3>14, <3>15 DEF Step
  <2>3. ASSUME NEW q \in Procs, q # p
        PROVE  LockOf(q)'
    <3>1. pc'[q] = pc[q] /\ job'[q] = job[q]
      BY <1>1, <2>1, <2>3, OthersStay
    <3>2. LockOf(q) /\ job[q].day \in Days
      BY DEF UnderLock, TypeInv, ControlOK, Job
    <3>3. qlock[job[q].day] = q => qlock'[job[q].day] = q
      BY <1>1, <2>1, <2>3, <3>2, OthersKeepLocks
    <3>4. CASE Publish(p)
      <4>1. qlock[job[p].day] = p
        BY <2>1, <3>4 DEF LockOf, Publish
      <4>2. pc[q] = "publish" => job[q].day # job[p].day
        BY <2>3, <3>2, <4>1 DEF LockOf
      <4>3. pc[q] = "publish" => queue'[job[q].day] = queue[job[q].day]
        BY <3>2, <3>4, <4>2 DEF Publish, TypeInv, FilesOK
      <4> QED
        BY <3>1, <3>2, <3>3, <4>3 DEF LockOf
    <3>5. CASE ~Publish(p)
      BY <1>1, <3>1, <3>2, <3>3, <3>5, OnlyPublishQueues DEF LockOf
    <3> QED
      BY <3>4, <3>5
  <2> QED
    BY <2>2, <2>3 DEF UnderLock
<1>2. CASE UNCHANGED <<queue, qlock, pc, job>>
  BY <1>2 DEF UnderLock, LockOf
<1> QED
  BY <1>1, <1>2, WorldStays DEF Next, Finished

LEMMA SignoffStays ==
    ASSUME ControlOK, NEW p \in Procs, ItemOf(p), PathOf(p), Step(p) \/ Crash(p),
           job'[p].op = "signoff"
    PROVE  job[p].op = "signoff" /\ SameCommand(p)
<1>1. ~Finish(p)
  <2>1. Finish(p) => job'[p] = NoJob
    BY Moved
  <2> QED
    BY <2>1 DEF NoJob
<1>2. ~Supersede(p) /\ ~Contest(p)
  <2>1. CASE Supersede(p)
    <3>1. job'[p] = [job[p] EXCEPT !.lineage = TRUE]
      BY <2>1, Moved DEF Supersede
    <3>2. job'[p].op = job[p].op
      BY <3>1 DEF ControlOK, Job
    <3> QED
      BY <2>1, <3>2 DEF Supersede, AtItem, PathOf
  <2>2. CASE Contest(p)
    BY <2>2, QueueStepMoves DEF Contest, AtItem, PathOf
  <2> QED
    BY <2>1, <2>2
<1>3. CASE ReadKnown(p) \/ ReadBodies(p) \/ Skip(p) \/ Collect(p) \/ SetAside(p)
           \/ BoundEnd(p) \/ RouteEnd(p)
  BY <1>1, <1>3, ItemStepMoves DEF SameItems, SameCommand
<1>4. CASE TakeLock(p) \/ ReadQueue(p) \/ Publish(p) \/ Check(p) \/ LockTimesOut(p)
           \/ PublishFails(p)
  BY <1>1, <1>4, QueueStepMoves DEF LockTimesOut, PublishFails, SameItems, SameCommand
<1>5. CASE NextEntry(p) \/ Create(p) \/ Write(p) \/ WriteReceipt(p)
  BY <1>1, <1>5, WriteStepMoves DEF SameItems, SameCommand, ItemOf
<1>6. CASE EntryFails(p) \/ ReceiptFails(p) \/ Report(p) \/ Crash(p)
  BY <1>1, <1>6 DEF EntryFails, ReceiptFails, Report, Crash
<1> QED
  BY <1>2, <1>3, <1>4, <1>5, <1>6 DEF Step

LEMMA SignoffPathStep ==
    ASSUME TypeInv, HasItem, SignoffPath, UnderLock, [Next]_vars
    PROVE  SignoffPath'
<1>1. QueueKept /\ \A p \in Procs : PathOf(p)'
  BY QueueStep, HasItemStep
<1>2. \A q \in Procs : job[q].op = "signoff" =>
         job[q].day \in Days /\ job[q].index \in DOMAIN queue[job[q].day]
  BY DEF SignoffPath, TypeInv, ControlOK, Job
<1>3. ASSUME NEW p \in Procs, Start(p) \/ Step(p) \/ Crash(p),
             NEW q \in Procs, job'[q].op = "signoff"
      PROVE  job'[q].index \in DOMAIN queue'[job'[q].day]
  <2>1. CASE q # p
    <3>1. job'[q] = job[q]
      BY <1>3, <2>1, OthersStay DEF TypeInv
    <3> QED
      BY <1>1, <1>2, <1>3, <3>1 DEF QueueKept
  <2>2. CASE q = p /\ Start(p)
    <3>1. UNCHANGED queue
      BY <2>2 DEF Start, StartConsolidate, StartDream, StartPromote, StartSignoff
    <3> QED
      BY <1>2, <1>3, <2>2, <3>1, StartMoves DEF TypeInv
  <2>3. CASE q = p /\ (Step(p) \/ Crash(p))
    <3>1. job[p].op = "signoff" /\ SameCommand(p)
      BY <1>3, <2>3, SignoffStays DEF TypeInv, HasItem, SignoffPath
    <3> QED
      BY <1>1, <1>2, <2>3, <3>1 DEF QueueKept, SameCommand
  <2> QED
    BY <1>3, <2>1, <2>2, <2>3
<1>4. CASE UNCHANGED <<queue, pc, job>>
  BY <1>4 DEF SignoffPath, PathOf
<1> QED
  BY <1>1, <1>3, <1>4, WorldStays DEF Next, Finished, SignoffPath

-----------------------------------------------------------------------------
(* The entries. *)

LEMMA OnlyWritersWrite ==
    ASSUME NEW p \in Procs, Start(p) \/ Step(p) \/ Crash(p), ~Create(p), ~Write(p)
    PROVE  UNCHANGED entries
BY DEF Start, StartConsolidate, StartDream, StartPromote, StartSignoff, Step, ReadKnown,
       ReadBodies, Skip, Contest, Collect, Supersede, SetAside, BoundEnd, RouteEnd,
       TakeLock, LockTimesOut, ReadQueue, Publish, PublishFails, Check, NextEntry,
       EntryFails, WriteReceipt, ReceiptFails, Report, Crash

\* A new file takes the number after the last; every other one stays.
LEMMA NewFile ==
    ASSUME TypeInv, NEW p \in Procs, FileOf(p), Create(p), pc'[p] = "write"
    PROVE  /\ job[p].slot = Len(entries[job[p].date]) + 1
           /\ entries'[job[p].date] \in Seq(Entry)
           /\ Len(entries'[job[p].date]) = Len(entries[job[p].date]) + 1
           /\ entries'[job[p].date][job[p].slot] = Unwritten
           /\ \A d \in Days : \A n \in DOMAIN entries[d] :
                 n \in DOMAIN entries'[d] /\ entries'[d][n] = entries[d][n]
           /\ \A d \in Days : d # job[p].date => entries'[d] = entries[d]
<1> DEFINE e == job[p].date
           s == entries[e]
<1>1. e \in Days /\ s \in Seq(Entry) /\ job[p].slot \in Nat
  BY DEF TypeInv, FilesOK, ControlOK, Job
<1>2. job[p].slot > Len(s) /\ entries' = [entries EXCEPT ![e] = Append(s, Unwritten)]
  <2>1. Finish(p) => pc'[p] = "idle"
    BY Moved DEF TypeInv
  <2>2. UNCHANGED pc /\ pc[p] = "create" => pc'[p] = "create"
    OBVIOUS
  <2> QED
    BY <2>1, <2>2 DEF Create
<1>3. Len(s) \in Nat /\ DOMAIN s = 1..Len(s)
  BY <1>1, LenProperties
<1>4. job[p].slot = Len(s) + 1
  BY <1>1, <1>2, <1>3 DEF FileOf, Create
<1>5. /\ Append(s, Unwritten) \in Seq(Entry)
      /\ Len(Append(s, Unwritten)) = Len(s) + 1
      /\ \A n \in 1..Len(s) : Append(s, Unwritten)[n] = s[n]
      /\ Append(s, Unwritten)[Len(s) + 1] = Unwritten
  BY <1>1, EntryTyped, AppendProperties
<1>6. DOMAIN Append(s, Unwritten) = 1..(Len(s) + 1)
  BY <1>5, LenProperties
<1>7. entries'[e] = Append(s, Unwritten) /\ \A d \in Days : d # e => entries'[d] = entries[d]
  BY <1>1, <1>2 DEF TypeInv, FilesOK
<1> HIDE DEF e, s
<1>8. \A d \in Days : \A n \in DOMAIN entries[d] :
         n \in DOMAIN entries'[d] /\ entries'[d][n] = entries[d][n]
  <2>1. \A n \in DOMAIN s : n \in DOMAIN entries'[e] /\ entries'[e][n] = s[n]
    BY <1>3, <1>5, <1>6, <1>7
  <2>2. s = entries[e]
    BY DEF s
  <2> QED
    BY <1>7, <2>1, <2>2
<1> QED
  BY <1>4, <1>5, <1>7, <1>8 DEF e, s

\* Writing changes the writer's own file only.
LEMMA OwnFileWritten ==
    ASSUME TypeInv, NEW p \in Procs, FileOf(p), Write(p)
    PROVE  /\ \A d \in Days : DOMAIN entries'[d] = DOMAIN entries[d]
           /\ \A d \in Days : Len(entries'[d]) = Len(entries[d])
           /\ entries'[job[p].date][job[p].slot] = Content(p)
           /\ \A d \in Days : \A n \in DOMAIN entries[d] :
                 ~(d = job[p].date /\ n = job[p].slot) => entries'[d][n] = entries[d][n]
<1> DEFINE e == job[p].date
           s == entries[e]
           t == [s EXCEPT ![job[p].slot] = Content(p)]
<1>1. e \in Days /\ s \in Seq(Entry) /\ job[p].slot \in DOMAIN s
  BY DEF TypeInv, FilesOK, ControlOK, Job, FileOf, Write
<1>2. entries' = [entries EXCEPT ![e] = t]
  BY DEF Write
<1>3. entries'[e] = t /\ \A d \in Days : d # e => entries'[d] = entries[d]
  BY <1>1, <1>2 DEF TypeInv, FilesOK
<1>4. DOMAIN t = DOMAIN s /\ t[job[p].slot] = Content(p)
      /\ \A n \in DOMAIN s : n # job[p].slot => t[n] = s[n]
  BY <1>1
<1>5. Len(t) = Len(s)
  <2>1. Len(s) \in Nat /\ DOMAIN s = 1..Len(s)
    BY <1>1, LenProperties
  <2>2. DOMAIN t = 1..Len(s)
    BY <1>4, <2>1
  <2> QED
    BY <2>1, <2>2
<1>6. s = entries[e]
  OBVIOUS
<1> HIDE DEF e, s, t
<1>7. /\ \A d \in Days : DOMAIN entries'[d] = DOMAIN entries[d]
      /\ \A d \in Days : Len(entries'[d]) = Len(entries[d])
      /\ \A d \in Days : \A n \in DOMAIN entries[d] :
            ~(d = e /\ n = job[p].slot) => entries'[d][n] = entries[d][n]
  BY <1>3, <1>4, <1>5, <1>6
<1> QED
  BY <1>3, <1>4, <1>7 DEF e

\* No entry that is written changes, and none disappears.
EntriesStay ==
    \A d \in Days : \A n \in DOMAIN entries[d] :
        entries[d][n] # Unwritten => n \in DOMAIN entries'[d] /\ entries'[d][n] = entries[d][n]

LEMMA RetryKeepsEntries ==
    ASSUME ControlOK, NEW p \in Procs, Create(p), pc'[p] # "write"
    PROVE  UNCHANGED entries
BY Moved DEF Create

LEMMA EntriesChange ==
    ASSUME ControlOK, [Next]_vars
    PROVE  \/ UNCHANGED entries
           \/ \E p \in Procs : Create(p) /\ pc'[p] = "write"
           \/ \E p \in Procs : Write(p)
BY WorldStays, OnlyWritersWrite, RetryKeepsEntries DEF Next, Finished

LEMMA EntriesStep ==
    ASSUME TypeInv, OwnFile, [Next]_vars
    PROVE  EntriesStay
<1>1. ASSUME NEW p \in Procs, Create(p), pc'[p] = "write"
      PROVE  EntriesStay
  BY <1>1, NewFile DEF OwnFile, EntriesStay
<1>2. ASSUME NEW p \in Procs, Write(p)
      PROVE  EntriesStay
  <2>1. FileOf(p) /\ entries[job[p].date][job[p].slot] = Unwritten
    BY <1>2 DEF OwnFile, FileOf, Write
  <2> QED
    BY <1>2, <2>1, OwnFileWritten DEF EntriesStay
<1>3. CASE UNCHANGED entries
  BY <1>3 DEF EntriesStay
<1> QED
  BY <1>1, <1>2, <1>3, EntriesChange DEF TypeInv

\* A command that is about to write a file has just made it.
LEMMA WriterComesFromCreate ==
    ASSUME ControlOK, NEW p \in Procs, Start(p) \/ Step(p) \/ Crash(p), pc'[p] = "write"
    PROVE  Create(p) /\ job'[p] = job[p]
<1>1. ~Finish(p)
  BY Moved
<1>2. ~(Start(p) \/ Crash(p))
  <2>1. UNCHANGED pc /\ pc[p] = "idle" => pc'[p] = "idle"
    OBVIOUS
  <2>2. Start(p) => pc[p] = "idle"
    BY DEF Start, StartConsolidate, StartDream, StartPromote, StartSignoff
  <2> QED
    BY <1>1, <2>1, <2>2, StartMoves DEF Crash
<1>3. ~(ReadKnown(p) \/ ReadBodies(p) \/ Skip(p) \/ Collect(p) \/ SetAside(p) \/ BoundEnd(p)
        \/ RouteEnd(p) \/ Supersede(p))
  BY <1>1, ItemStepMoves, Moved DEF Skip, Collect, SetAside, AtItem, Supersede
<1>4. ~(Contest(p) \/ TakeLock(p) \/ ReadQueue(p) \/ Publish(p) \/ Check(p)
        \/ LockTimesOut(p) \/ PublishFails(p))
  BY <1>1, QueueStepMoves DEF LockTimesOut, PublishFails
<1>5. ~(NextEntry(p) \/ Write(p) \/ WriteReceipt(p))
  BY WriteStepMoves
<1>6. ~(EntryFails(p) \/ ReceiptFails(p) \/ Report(p))
  BY <1>1 DEF EntryFails, ReceiptFails, Report
<1>7. Create(p)
  BY <1>2, <1>3, <1>4, <1>5, <1>6 DEF Step
<1> QED
  BY <1>1, <1>7, WriteStepMoves

\* A command that is about to make a file has just looked for its number.
LEMMA CreatorHasLooked ==
    ASSUME ControlOK, NEW p \in Procs, Start(p) \/ Step(p) \/ Crash(p), pc'[p] = "create"
    PROVE  /\ UNCHANGED entries
           /\ job'[p].slot = Len(entries[job'[p].date]) + 1
<1>1. ~Finish(p)
  BY Moved
<1>2. ~(Start(p) \/ Crash(p))
  <2>1. UNCHANGED pc /\ pc[p] = "idle" => pc'[p] = "idle"
    OBVIOUS
  <2>2. Start(p) => pc[p] = "idle"
    BY DEF Start, StartConsolidate, StartDream, StartPromote, StartSignoff
  <2> QED
    BY <1>1, <2>1, <2>2, StartMoves DEF Crash
<1>3. ~(ReadKnown(p) \/ ReadBodies(p) \/ Skip(p) \/ Collect(p) \/ SetAside(p) \/ BoundEnd(p)
        \/ RouteEnd(p) \/ Supersede(p))
  BY <1>1, ItemStepMoves, Moved DEF Skip, Collect, SetAside, AtItem, Supersede
<1>4. ~(Contest(p) \/ TakeLock(p) \/ ReadQueue(p) \/ Publish(p) \/ Check(p)
        \/ LockTimesOut(p) \/ PublishFails(p))
  BY <1>1, QueueStepMoves DEF LockTimesOut, PublishFails
<1>5. ~(Write(p) \/ WriteReceipt(p))
  BY WriteStepMoves
<1>6. ~(EntryFails(p) \/ ReceiptFails(p) \/ Report(p))
  BY <1>1 DEF EntryFails, ReceiptFails, Report
<1>7. Create(p) \/ NextEntry(p)
  BY <1>2, <1>3, <1>4, <1>5, <1>6 DEF Step
<1> QED
  BY <1>1, <1>7, WriteStepMoves DEF NextEntry

LEMMA FileStep ==
    ASSUME TypeInv, OwnFile, [Next]_vars, TypeInv'
    PROVE  OwnFile'
<1>1. ASSUME NEW p \in Procs, Start(p) \/ Step(p) \/ Crash(p)
      PROVE  OwnFile'
  <2>1. ControlOK /\ FileOf(p)
    BY DEF TypeInv, OwnFile
  <2>2. \A q \in Procs : job[q].date \in Days /\ job[q].slot \in Nat
    BY DEF TypeInv, ControlOK, Job
  <2>3. \A d \in Days : /\ Len(entries[d]) \in Nat /\ DOMAIN entries[d] = 1..Len(entries[d])
                        /\ Len(entries'[d]) \in Nat /\ DOMAIN entries'[d] = 1..Len(entries'[d])
    BY LenProperties DEF TypeInv, FilesOK
  <2>4. \A d \in Days : Len(entries[d]) <= Len(entries'[d])
    <3>1. CASE Create(p) /\ pc'[p] = "write"
      BY <2>1, <2>2, <2>3, <3>1, NewFile
    <3>2. CASE Write(p)
      BY <2>1, <2>3, <3>2, OwnFileWritten
    <3>3. CASE UNCHANGED entries
      BY <2>3, <3>3
    <3> QED
      BY <1>1, <2>1, <3>1, <3>2, <3>3, OnlyWritersWrite, RetryKeepsEntries
  <2>5. FileOf(p)'
    <3>1. CASE pc'[p] = "write"
      <4>1. Create(p) /\ job'[p] = job[p]
        BY <1>1, <2>1, <3>1, WriterComesFromCreate
      <4> QED
        BY <2>1, <2>2, <2>3, <3>1, <4>1, NewFile DEF FileOf
    <3>2. CASE pc'[p] = "create"
      <4>1. UNCHANGED entries /\ job'[p].slot = Len(entries[job'[p].date]) + 1
        BY <1>1, <2>1, <3>2, CreatorHasLooked
      <4>2. job'[p].date \in Days
        BY DEF TypeInv, ControlOK, Job
      <4> QED
        BY <2>3, <3>2, <4>1, <4>2 DEF FileOf
    <3> QED
      BY <3>1, <3>2 DEF FileOf
  <2>6. ASSUME NEW q \in Procs, q # p
        PROVE  FileOf(q)'
    <3>1. pc'[q] = pc[q] /\ job'[q] = job[q] /\ FileOf(q)
      BY <1>1, <2>1, <2>6, OthersStay DEF OwnFile
    <3>2. CASE pc[q] = "create"
      BY <2>2, <2>3, <2>4, <3>1, <3>2 DEF FileOf
    <3>3. CASE pc[q] = "write"
      <4>1. /\ job[q].slot \in DOMAIN entries[job[q].date]
            /\ entries[job[q].date][job[q].slot] = Unwritten
        BY <3>1, <3>3 DEF FileOf
      <4>2. CASE Create(p) /\ pc'[p] = "write"
        BY <2>1, <2>2, <3>1, <4>1, <4>2, NewFile DEF FileOf
      <4>3. CASE Write(p)
        <5>1. ~(job[q].date = job[p].date /\ job[q].slot = job[p].slot)
          BY <2>6, <3>3, <4>3 DEF OwnFile, SameFile, Write
        <5> QED
          BY <2>1, <2>2, <3>1, <4>1, <4>3, <5>1, OwnFileWritten DEF FileOf
      <4>4. CASE UNCHANGED entries
        BY <3>1, <4>4 DEF FileOf
      <4> QED
        BY <1>1, <2>1, <4>2, <4>3, <4>4, OnlyWritersWrite, RetryKeepsEntries
    <3> QED
      BY <3>1, <3>2, <3>3 DEF FileOf
  <2>7. ASSUME NEW q \in Procs, q # p, SameFile(p, q)'
        PROVE  FALSE
    <3>1. pc'[q] = pc[q] /\ job'[q] = job[q] /\ FileOf(q) /\ pc[q] = "write"
      BY <1>1, <2>1, <2>7, OthersStay DEF OwnFile, SameFile
    <3>2. Create(p) /\ job'[p] = job[p] /\ pc'[p] = "write"
      BY <1>1, <2>1, <2>7, WriterComesFromCreate DEF SameFile
    <3>3. job[p].slot = Len(entries[job[p].date]) + 1
      BY <2>1, <3>2, NewFile
    <3>4. job[q].slot \in 1..Len(entries[job[q].date])
      BY <2>2, <2>3, <3>1 DEF FileOf
    <3>5. job[q].date = job[p].date /\ job[q].slot = job[p].slot
      BY <2>7, <3>1, <3>2 DEF SameFile
    <3> QED
      BY <2>2, <2>3, <3>3, <3>4, <3>5
  <2>8. ASSUME NEW q \in Procs, NEW r \in Procs, q # p, r # p, SameFile(q, r)'
        PROVE  q = r
    <3>1. pc'[q] = pc[q] /\ job'[q] = job[q] /\ pc'[r] = pc[r] /\ job'[r] = job[r]
      BY <1>1, <2>1, <2>8, OthersStay
    <3> QED
      BY <2>8, <3>1 DEF SameFile, OwnFile
  <2>9. \A q, r \in Procs : SameFile(q, r)' => SameFile(r, q)'
    BY DEF SameFile
  <2> QED
    BY <2>5, <2>6, <2>7, <2>8, <2>9 DEF OwnFile
<1>2. CASE UNCHANGED <<entries, pc, job>>
  BY <1>2 DEF OwnFile, FileOf, SameFile
<1> QED
  BY <1>1, <1>2, WorldStays DEF Next, Finished

-----------------------------------------------------------------------------
(* Signing off. *)

SignsOff(p) == Write(p) /\ job[p].op = "signoff"

\* An entry with a source is an old one, or the one that a signoff writes now.
LEMMA NewSource ==
    ASSUME TypeInv, OwnFile, [Next]_vars,
           NEW d \in Days, NEW n \in DOMAIN entries'[d], entries'[d][n].source # 0
    PROVE  \/ n \in DOMAIN entries[d] /\ entries'[d][n] = entries[d][n]
           \/ \E p \in Procs :
                 /\ SignsOff(p) /\ d = job[p].date /\ n = job[p].slot
                 /\ entries'[d][n] = Content(p)
<1> DEFINE Old == n \in DOMAIN entries[d] /\ entries'[d][n] = entries[d][n]
<1>1. ASSUME NEW p \in Procs, Create(p), pc'[p] = "write"
      PROVE  Old
  <2> DEFINE e == job[p].date
  <2>1. e \in Days /\ Len(entries[e]) \in Nat /\ DOMAIN entries[e] = 1..Len(entries[e])
    BY LenProperties DEF TypeInv, FilesOK, ControlOK, Job
  <2>2. FileOf(p)
    BY DEF OwnFile
  <2>3. CASE d = e
    <3>1. DOMAIN entries'[e] = 1..(Len(entries[e]) + 1)
      BY <1>1, <2>2, NewFile, LenProperties
    <3>2. n # job[p].slot
      BY <1>1, <2>2, <2>3, NewFile DEF Unwritten
    <3>3. n \in DOMAIN entries[d]
      BY <1>1, <2>1, <2>2, <2>3, <3>1, <3>2, NewFile
    <3> QED
      BY <1>1, <2>2, <3>3, NewFile
  <2>4. CASE d # e
    BY <1>1, <2>2, <2>4, NewFile
  <2> QED
    BY <2>3, <2>4
<1>2. ASSUME NEW p \in Procs, Write(p), ~Old
      PROVE  /\ SignsOff(p) /\ d = job[p].date /\ n = job[p].slot
             /\ entries'[d][n] = Content(p)
  <2>1. FileOf(p)
    BY DEF OwnFile
  <2>2. d = job[p].date /\ n = job[p].slot
    BY <1>2, <2>1, OwnFileWritten
  <2>3. entries'[d][n] = Content(p)
    BY <1>2, <2>1, <2>2, OwnFileWritten
  <2>4. job[p].op = "signoff"
    BY <2>3 DEF Content
  <2> QED
    BY <1>2, <2>2, <2>3, <2>4 DEF SignsOff
<1>3. ASSUME UNCHANGED entries
      PROVE  Old
  BY <1>3
<1> HIDE DEF Old
<1>4. Old \/ \E p \in Procs :
                 /\ SignsOff(p) /\ d = job[p].date /\ n = job[p].slot
                 /\ entries'[d][n] = Content(p)
  <2>1. \/ UNCHANGED entries
        \/ \E p \in Procs : Create(p) /\ pc'[p] = "write"
        \/ \E p \in Procs : Write(p)
    BY EntriesChange DEF TypeInv
  <2>2. CASE UNCHANGED entries
    BY <1>3, <2>2
  <2>3. CASE \E p \in Procs : Create(p) /\ pc'[p] = "write"
    BY <1>1, <2>3
  <2>4. CASE \E p \in Procs : Write(p)
    BY <1>2, <2>4
  <2> QED
    BY <2>1, <2>2, <2>3, <2>4
<1> QED
  BY <1>4 DEF Old

\* How a signoff comes to its entry: from the check, with nothing else to write.
LEMMA SignoffComesFromCheck ==
    ASSUME ControlOK, NEW p \in Procs, ItemOf(p), PathOf(p), Start(p) \/ Step(p) \/ Crash(p),
           pc'[p] \in {"next", "create", "write"}, job'[p].op = "signoff"
    PROVE  /\ UNCHANGED entries \/ Create(p)
           /\ job'[p].day = job[p].day
           /\ \/ /\ pc[p] \in {"next", "create"} /\ job[p].op = "signoff"
                 /\ job'[p].new = job[p].new
              \/ /\ queue[job[p].day][job[p].index] \notin Canonical
                 /\ job'[p].new = Once({queue[job[p].day][job[p].index]})
<1>1. ~Finish(p)
  BY Moved
<1>2. ~(Start(p) \/ Crash(p))
  <2>1. UNCHANGED pc /\ pc[p] = "idle" => pc'[p] = "idle"
    OBVIOUS
  <2>2. Start(p) => pc[p] = "idle"
    BY DEF Start, StartConsolidate, StartDream, StartPromote, StartSignoff
  <2> QED
    BY <1>1, <2>1, <2>2, StartMoves DEF Crash
<1>3. job[p].op = "signoff" /\ SameCommand(p)
  BY <1>2, SignoffStays
<1>4. ~(ReadKnown(p) \/ ReadBodies(p) \/ Skip(p) \/ Collect(p) \/ SetAside(p) \/ BoundEnd(p)
        \/ RouteEnd(p) \/ Supersede(p) \/ Contest(p))
  BY <1>3 DEF ReadKnown, ReadBodies, Skip, Collect, SetAside, BoundEnd, RouteEnd, Supersede,
              Contest, AtItem, PathOf
<1>5. ~(TakeLock(p) \/ ReadQueue(p) \/ Publish(p) \/ LockTimesOut(p) \/ PublishFails(p))
  BY <1>1, QueueStepMoves DEF LockTimesOut, PublishFails
<1>6. ~(Write(p) \/ WriteReceipt(p) \/ EntryFails(p) \/ ReceiptFails(p) \/ Report(p))
  BY <1>1, <1>3, WriteStepMoves, SignoffWritesAll
     DEF EntryFails, ReceiptFails, Report, ItemOf
<1>7. CASE Check(p)
  <2> DEFINE f == queue[job[p].day][job[p].index]
  <2>1. f \notin Canonical /\ job'[p] = [job[p] EXCEPT !.asked = {f}, !.new = Once({f})]
    BY <1>1, <1>7, Moved DEF Check
  <2>2. job'[p].new = Once({f})
    BY <2>1 DEF ControlOK, Job
  <2> QED
    BY <1>3, <1>7, <2>1, <2>2 DEF Check, SameCommand
<1>8. CASE NextEntry(p) \/ Create(p)
  BY <1>1, <1>3, <1>8, WriteStepMoves DEF NextEntry, Create, SameCommand
<1> QED
  BY <1>2, <1>4, <1>5, <1>6, <1>7, <1>8 DEF Step

LEMMA FreshStep ==
    ASSUME IInv, [Next]_vars
    PROVE  NotSignedOff'
<1>1. TypeInv /\ OwnFile
  BY DEF IInv
<1>2. \A q \in Procs : job[q].day \in Days /\ 0 \notin Days
  BY DEF IInv, TypeInv, ControlOK, Job, Days
<1>3. ASSUME NEW p \in Procs, Start(p) \/ Step(p) \/ Crash(p)
      PROVE  NotSignedOff'
  <2>1. ControlOK /\ ItemOf(p) /\ PathOf(p) /\ FreshOf(p) /\ LockOf(p)
    BY DEF IInv, TypeInv, HasItem, SignoffPath, NotSignedOff, UnderLock
  <2>2. FreshOf(p)'
    <3> SUFFICES ASSUME pc'[p] \in {"next", "create", "write"}, job'[p].op = "signoff",
                        NEW f \in Facts, job'[p].new[f] > 0,
                        NEW d \in Days, NEW n \in DOMAIN entries'[d],
                        entries'[d][n].source = job'[p].day
                 PROVE  ~Holds(entries'[d][n], f)
      BY DEF FreshOf
    <3>1. job'[p].day = job[p].day /\ (UNCHANGED entries \/ Create(p))
      BY <1>3, <2>1, SignoffComesFromCheck
    <3>2. ~Write(p)
      BY <3>1, <1>3, <2>1, SignoffWritesAll, WriteStepMoves DEF ItemOf, SameItems, SameCommand
    <3>3. n \in DOMAIN entries[d] /\ entries'[d][n] = entries[d][n]
      <4>1. entries'[d][n].source # 0
        BY <1>2, <3>1
      <4>2. CASE UNCHANGED entries
        BY <4>2
      <4>3. CASE Create(p)
        <5>1. ASSUME NEW q \in Procs, Write(q)
              PROVE  FALSE
          <6>1. q # p
            BY <3>2, <5>1
          <6>2. pc'[q] = pc[q] /\ job'[q] = job[q]
            BY <1>3, <2>1, <6>1, OthersStay
          <6>3. pc[q] = "write"
            BY <5>1 DEF Write
          <6> QED
            BY <2>1, <5>1, <6>2, <6>3, WriteStepMoves, Moved DEF ControlOK
        <5> QED
          BY <1>1, <4>1, <5>1, NewSource DEF SignsOff
      <4> QED
        BY <3>1, <4>2, <4>3
    <3>4. CASE /\ pc[p] \in {"next", "create"} /\ job[p].op = "signoff"
               /\ job'[p].new = job[p].new
      BY <2>1, <3>1, <3>3, <3>4 DEF FreshOf
    <3>5. CASE /\ queue[job[p].day][job[p].index] \notin Canonical
               /\ job'[p].new = Once({queue[job[p].day][job[p].index]})
      <4>1. f = queue[job[p].day][job[p].index]
        BY <3>5 DEF Once
      <4> QED
        BY <3>3, <3>5, <4>1 DEF Canonical
    <3> QED
      BY <1>3, <2>1, <3>4, <3>5, SignoffComesFromCheck
  <2>3. ASSUME NEW q \in Procs, q # p
        PROVE  FreshOf(q)'
    <3>1. pc'[q] = pc[q] /\ job'[q] = job[q]
      BY <1>3, <2>1, <2>3, OthersStay
    <3> SUFFICES ASSUME pc[q] \in {"next", "create", "write"}, job[q].op = "signoff",
                        NEW f \in Facts, job[q].new[f] > 0,
                        NEW d \in Days, NEW n \in DOMAIN entries'[d],
                        entries'[d][n].source = job[q].day
                 PROVE  ~Holds(entries'[d][n], f)
      BY <3>1 DEF FreshOf
    <3>2. LockOf(q) /\ FreshOf(q)
      BY DEF IInv, NotSignedOff, UnderLock
    <3>3. ASSUME NEW r \in Procs, SignsOff(r), entries'[d][n] = Content(r)
          PROVE  r = q
      <4>1. entries'[d][n].source = job[r].day
        BY <3>3 DEF Content, SignsOff
      <4>2. qlock[job[r].day] = r
        BY <3>3 DEF SignsOff, Write, IInv, UnderLock, LockOf
      <4> QED
        BY <3>2, <4>1, <4>2 DEF LockOf
    <3>4. ~Write(q)
      <4>1. Write(q) => pc'[q] # "write"
        BY <2>1, WriteStepMoves
      <4> QED
        BY <3>1, <4>1 DEF Write
    <3>5. n \in DOMAIN entries[d] /\ entries'[d][n] = entries[d][n]
      BY <1>1, <1>2, <3>3, <3>4, NewSource DEF SignsOff
    <3> QED
      BY <3>2, <3>5 DEF FreshOf
  <2> QED
    BY <2>2, <2>3 DEF NotSignedOff
<1>4. CASE UNCHANGED <<entries, pc, job>>
  BY <1>4 DEF IInv, NotSignedOff, FreshOf
<1> QED
  BY <1>3, <1>4, WorldStays DEF Next, Finished

LEMMA SignedOffStep ==
    ASSUME IInv, [Next]_vars, ControlOK'
    PROVE  SignedOffOnce'
<1>1. TypeInv /\ OwnFile /\ ControlOK /\ 0 \notin Days
  BY DEF IInv, TypeInv, Days
<1> DEFINE Clash(d, m, e, n) ==
               /\ entries[d][m].source # 0 /\ entries[d][m].source = entries[e][n].source
               /\ \E f \in Facts : Holds(entries[d][m], f) /\ Holds(entries[e][n], f)
<1>2. \A d, e \in Days : \A m \in DOMAIN entries[d], n \in DOMAIN entries[e] :
         Clash(d, m, e, n) => d = e /\ m = n
  BY DEF IInv, SignedOffOnce
\* The entry a signoff writes now shares no fact with an older one of its queue.
<1>3. ASSUME NEW p \in Procs, SignsOff(p),
             NEW e \in Days, NEW n \in DOMAIN entries[e], NEW f \in Facts,
             entries[e][n].source = Content(p).source, Holds(Content(p), f)
      PROVE  ~Holds(entries[e][n], f)
  <2>1. Content(p).source = job[p].day /\ Content(p).facts = Group(p)
    BY <1>3 DEF Content, SignsOff
  <2>2. Group(p) = job[p].new
    BY <1>1, <1>3, SignoffWritesAll DEF SignsOff, IInv, HasItem, ItemOf
  <2>3. job[p].new[f] > 0
    BY <1>3, <2>1, <2>2 DEF Holds
  <2> QED
    BY <1>3, <2>1, <2>3 DEF IInv, NotSignedOff, FreshOf, SignsOff, Write
<1>4. ASSUME NEW p \in Procs, NEW q \in Procs, SignsOff(p), SignsOff(q)
      PROVE  p = q
  <2>1. CASE p # q
    <3>1. Step(p) /\ Step(q)
      BY <1>4 DEF SignsOff, Step
    <3>2. pc'[q] = pc[q] /\ pc[q] = "write"
      BY <1>1, <1>4, <2>1, <3>1, OthersStay DEF SignsOff, Write
    <3> QED
      BY <1>1, <1>4, <3>2, WriteStepMoves DEF SignsOff
  <2> QED
    BY <2>1
<1> SUFFICES ASSUME NEW d \in Days, NEW e \in Days,
                    NEW m \in DOMAIN entries'[d], NEW n \in DOMAIN entries'[e],
                    entries'[d][m].source # 0, entries'[d][m].source = entries'[e][n].source,
                    NEW f \in Facts, Holds(entries'[d][m], f), Holds(entries'[e][n], f)
             PROVE  d = e /\ m = n
  BY DEF SignedOffOnce, Holds
<1> DEFINE OldM == m \in DOMAIN entries[d] /\ entries'[d][m] = entries[d][m]
           OldN == n \in DOMAIN entries[e] /\ entries'[e][n] = entries[e][n]
<1>5. OldM \/ \E p \in Procs :
                 /\ SignsOff(p) /\ d = job[p].date /\ m = job[p].slot
                 /\ entries'[d][m] = Content(p)
  BY <1>1, NewSource
<1>6. OldN \/ \E p \in Procs :
                 /\ SignsOff(p) /\ e = job[p].date /\ n = job[p].slot
                 /\ entries'[e][n] = Content(p)
  BY <1>1, NewSource
<1>7. CASE OldM /\ OldN
  <2>1. Clash(d, m, e, n)
    BY <1>7
  <2> QED
    BY <1>2, <1>7, <2>1
<1>8. CASE OldM /\ ~OldN
  BY <1>3, <1>6, <1>8
<1>9. CASE ~OldM /\ OldN
  BY <1>3, <1>5, <1>9
<1>10. CASE ~OldM /\ ~OldN
  BY <1>4, <1>5, <1>6, <1>10
<1> QED
  BY <1>7, <1>8, <1>9, <1>10

-----------------------------------------------------------------------------
(* The theorems. *)

LEMMA InitIInv == Init => IInv
<1> SUFFICES ASSUME Init PROVE IInv
  OBVIOUS
<1>1. 1 \in Days /\ 0 \notin Days
  BY MemoryAssumption DEF Days
<1> DEFINE first == [Unwritten EXCEPT !.facts = Once(FirstEntry), !.kind = "consolidation"]
<1>2. first \in Entry /\ first.source = 0
  BY EntryTyped, OnceTyped DEF Entry, Kind, Unwritten
<1> HIDE DEF first
<1>3. <<first>> \in Seq(Entry) /\ <<>> \in Seq(Entry) /\ <<>> \in Seq(Facts)
  BY <1>2
<1>4. FilesOK
  <2>1. entries = [d \in Days |-> IF d = 1 THEN <<first>> ELSE <<>>]
    BY DEF Init, first
  <2>2. staged \in [Batches -> [text : Versions, audited : Versions,
                                receipt : Versions \cup {0}]]
    BY MemoryAssumption DEF Init, Versions
  <2> QED
    BY <1>3, <2>1, <2>2 DEF Init, FilesOK
<1>5. LocksOK
  BY DEF Init, LocksOK
<1>6. ControlOK
  BY NoJobTyped DEF Init, ControlOK, Location
<1>7. left \in Left /\ today \in Days
  BY <1>1, MemoryAssumption DEF Init, Left
<1>8. EditsBounded
  BY MemoryAssumption DEF Init, EditsBounded
<1>9. \A p \in Procs : pc[p] = "idle" /\ job[p] = NoJob
  BY DEF Init
<1>10. HasItem /\ SignoffPath /\ UnderLock /\ OwnFile /\ NotSignedOff
  BY <1>9 DEF HasItem, ItemOf, SignoffPath, PathOf, UnderLock, LockOf, OwnFile, FileOf,
              SameFile, NotSignedOff, FreshOf, NoJob
<1>11. \A d \in Days : \A n \in DOMAIN entries[d] : entries[d][n].source = 0
  <2>1. entries = [d \in Days |-> IF d = 1 THEN <<first>> ELSE <<>>]
    BY DEF Init, first
  <2> QED
    BY <1>2, <2>1
<1>12. SignedOffOnce
  BY <1>11 DEF SignedOffOnce
<1> QED
  BY <1>4, <1>5, <1>6, <1>7, <1>8, <1>10, <1>12 DEF IInv, TypeInv

LEMMA NextIInv == IInv /\ [Next]_vars => IInv'
<1> SUFFICES ASSUME IInv, [Next]_vars PROVE IInv'
  OBVIOUS
<1> USE DEF IInv
<1>1. TypeInv'
  BY TypeStep
<1>2. EditsBounded'
  BY EditsStep
<1>3. HasItem' /\ SignoffPath' /\ UnderLock'
  BY HasItemStep, SignoffPathStep, LockStep
<1>4. OwnFile'
  BY <1>1, FileStep
<1>5. NotSignedOff'
  BY FreshStep
<1>6. SignedOffOnce'
  BY <1>1, SignedOffStep DEF TypeInv
<1> QED
  BY <1>1, <1>2, <1>3, <1>4, <1>5, <1>6

LEMMA InvariantHolds == Spec => []IInv
BY InitIInv, NextIInv, PTL DEF Spec

\* Every file and every local variable of the memory commands keeps its type.
THEOREM TypeCorrect == Spec => []TypeOK
<1>1. IInv => TypeOK
  BY TypeInvGivesTypeOK DEF IInv
<1> QED
  BY <1>1, InvariantHolds, PTL

\* For any number of writers, failures and kills, no two signoffs of one queue
\* write the same fact (memory.rs:1092).
THEOREM NoFactSignedOffTwice == Spec => []SignedOffOnce
<1>1. IInv => SignedOffOnce
  BY DEF IInv
<1> QED
  BY <1>1, InvariantHolds, PTL

\* For all the same, a written entry is never changed (store.rs:8).
THEOREM EntriesNeverChange == Spec => EntriesKept
<1>1. IInv /\ [Next]_vars => [EntriesStay]_vars
  BY EntriesStep DEF IInv
<1>2. [][EntriesStay]_vars => EntriesKept
  BY PTL DEF EntriesKept, EntriesStay
<1> QED
  BY <1>1, <1>2, InvariantHolds, PTL DEF Spec

\* For all the same, the review queues only grow.
THEOREM QueuesOnlyGrow == Spec => QueueOnlyGrows
<1>1. IInv /\ [Next]_vars => [QueueKept]_vars
  BY QueueStep DEF IInv
<1>2. [][QueueKept]_vars => QueueOnlyGrows
  BY PTL DEF QueueOnlyGrows, QueueKept
<1> QED
  BY <1>1, <1>2, InvariantHolds, PTL DEF Spec

-----------------------------------------------------------------------------
(* Lists of items. *)

Verdicts(s) == {s[i].verdict : i \in DOMAIN s}

\* The facts of a list that must not be lost.
Wanted(s) ==
    {s[i].fact :
        i \in {k \in DOMAIN s : s[k].verdict \in {"new", "distilled", "promote", "conflict"}}}

LEMMA NoItems == Verdicts(<<>>) = {} /\ Wanted(<<>>) = {}
<1>1. DOMAIN <<>> = {}
  OBVIOUS
<1> QED
  BY <1>1 DEF Verdicts, Wanted

LEMMA TailOfItems ==
    ASSUME NEW s \in Seq(Item), s # <<>>
    PROVE  /\ Head(s).verdict \in Verdicts(s)
           /\ Verdicts(Tail(s)) \subseteq Verdicts(s)
           /\ Wanted(s) \subseteq Wanted(Tail(s)) \cup {Head(s).fact}
           /\ Head(s).verdict \in {"duplicate", "reject"} => Wanted(s) \subseteq Wanted(Tail(s))
<1>1. /\ Len(s) \in Nat \ {0} /\ DOMAIN s = 1..Len(s)
      /\ Head(s) = s[1]
  BY HeadTailProperties, LenProperties, EmptySeq
<1>2. /\ Tail(s) \in Seq(Item) /\ Len(Tail(s)) = Len(s) - 1
      /\ \A i \in 1..Len(Tail(s)) : Tail(s)[i] = s[i + 1]
  BY HeadTailProperties
<1>3. DOMAIN Tail(s) = 1..(Len(s) - 1)
  BY <1>2, LenProperties
<1>4. \A i \in DOMAIN Tail(s) : i + 1 \in DOMAIN s /\ Tail(s)[i] = s[i + 1]
  BY <1>1, <1>2, <1>3
<1>5. ASSUME NEW k \in DOMAIN s
      PROVE  k = 1 \/ \E i \in DOMAIN Tail(s) : Tail(s)[i] = s[k]
  <2>1. CASE k # 1
    <3>1. k - 1 \in DOMAIN Tail(s) /\ (k - 1) + 1 = k
      BY <1>1, <1>3, <2>1
    <3> QED
      BY <1>4, <3>1
  <2> QED
    BY <2>1
<1> QED
  BY <1>1, <1>4, <1>5 DEF Verdicts, Wanted

LEMMA ItemAppended ==
    ASSUME NEW s \in Seq(Item), NEW i \in Item
    PROVE  /\ Verdicts(Append(s, i)) \subseteq Verdicts(s) \cup {i.verdict}
           /\ Wanted(s) \subseteq Wanted(Append(s, i))
           /\ i.verdict = "new" => i.fact \in Wanted(Append(s, i))
<1> DEFINE t == Append(s, i)
<1>1. /\ t \in Seq(Item) /\ Len(t) = Len(s) + 1
      /\ \A k \in 1..Len(s) : t[k] = s[k]
      /\ t[Len(s) + 1] = i
  BY AppendProperties
<1>2. Len(s) \in Nat /\ DOMAIN s = 1..Len(s) /\ DOMAIN t = 1..(Len(s) + 1)
  BY <1>1, LenProperties
<1>3. \A k \in DOMAIN s : k \in DOMAIN t /\ t[k] = s[k]
  BY <1>1, <1>2
<1>4. \A k \in DOMAIN t : t[k] = i \/ (k \in DOMAIN s /\ t[k] = s[k])
  BY <1>1, <1>2
<1>5. \E k \in DOMAIN t : t[k] = i
  BY <1>1, <1>2
<1> HIDE DEF t
<1>6. /\ Verdicts(t) \subseteq Verdicts(s) \cup {i.verdict}
      /\ Wanted(s) \subseteq Wanted(t)
      /\ i.verdict = "new" => i.fact \in Wanted(t)
  BY <1>3, <1>4, <1>5 DEF Verdicts, Wanted
<1> QED
  BY <1>6 DEF t

LEMMA ItemsOfBuffer ==
    ASSUME NEW b \in Seq(Facts), NEW v \in {"new", "distilled"}
    PROVE  /\ Verdicts(Items(b, v)) \subseteq {v}
           /\ {b[i] : i \in DOMAIN b} \subseteq Wanted(Items(b, v))
BY DEF Items, Verdicts, Wanted

LEMMA ItemsOfAudit ==
    ASSUME NEW b \in Batches, NEW v \in Versions
    PROVE  /\ "distilled" \notin Verdicts(Audit[b][v])
           /\ AskedOf(Audit[b][v]) \subseteq Wanted(Audit[b][v])
BY MemoryAssumption DEF Verdicts, Wanted, AskedOf, Audited

LEMMA ListsTyped ==
    ASSUME ControlOK, NEW p \in Procs
    PROVE  /\ job[p].todo \in Seq(Item) /\ job[p].rest \in Seq(Item)
           /\ job[p].new \in Tally /\ job[p].known \subseteq Facts /\ job[p].asked \subseteq Facts
           /\ job[p].lineage \in BOOLEAN /\ job[p].seen \subseteq Facts
           /\ job[p].todo # <<>> => /\ This(p) \in Item /\ This(p).fact \in Facts
                                    /\ This(p).verdict \in Verdict
<1>1. /\ job[p].todo \in Seq(Item) /\ job[p].rest \in Seq(Item)
      /\ job[p].new \in Tally /\ job[p].known \subseteq Facts /\ job[p].asked \subseteq Facts
      /\ job[p].lineage \in BOOLEAN /\ job[p].seen \subseteq Facts
  BY DEF ControlOK, Job
<1>2. job[p].todo # <<>> => This(p) \in Item
  BY ItemTyped
<1>3. This(p) \in Item => This(p).fact \in Facts /\ This(p).verdict \in Verdict
  BY DEF Item
<1> QED
  BY <1>1, <1>2, <1>3

-----------------------------------------------------------------------------
(* What the steps of a command do to the facts it has in hand. *)

SameGoal(p) ==
    /\ job'[p].op = job[p].op /\ job'[p].front = job[p].front
    /\ job'[p].batch = job[p].batch

SameLists(p) == job'[p].todo = job[p].todo /\ job'[p].rest = job[p].rest

SameSets(p) ==
    /\ job'[p].known = job[p].known /\ job'[p].new = job[p].new
    /\ job'[p].asked = job[p].asked

SameLineage(p) == job'[p].lineage = job[p].lineage /\ job'[p].seen = job[p].seen

SameData(p) == SameGoal(p) /\ SameLists(p) /\ SameSets(p) /\ SameLineage(p)

\* The item is dealt with.
OneLess(p) ==
    /\ job[p].todo # <<>>
    /\ job'[p].todo = Tail(job[p].todo) /\ job'[p].rest = job[p].rest

LEMMA ReadEffects ==
    ASSUME ControlOK, NEW p \in Procs
    PROVE  /\ ReadKnown(p) =>
                 /\ pc[p] = "known" /\ pc'[p] = "seen"
                 /\ SameGoal(p) /\ SameLists(p) /\ SameLineage(p)
                 /\ job'[p].known = Canonical /\ job'[p].new = job[p].new
                 /\ job'[p].asked = job[p].asked
           /\ ReadBodies(p) =>
                 /\ pc[p] = "seen" /\ pc'[p] = "route"
                 /\ SameGoal(p) /\ SameLists(p) /\ SameSets(p)
                 /\ job'[p].seen = Canonical /\ job'[p].lineage = job[p].lineage
<1> USE DEF SameGoal, SameLists, SameLineage, SameSets
<1>1. ReadKnown(p) => pc[p] = "known" /\ pc'[p] = "seen"
                      /\ job'[p] = [job[p] EXCEPT !.known = Canonical]
  BY Moved DEF ReadKnown
<1>2. ReadBodies(p) => pc[p] = "seen" /\ pc'[p] = "route"
                       /\ job'[p] = [job[p] EXCEPT !.seen = Canonical]
  BY Moved DEF ReadBodies
<1>3. ASSUME ReadKnown(p)
      PROVE  /\ SameGoal(p) /\ SameLists(p) /\ SameLineage(p)
             /\ job'[p].known = Canonical /\ job'[p].new = job[p].new
             /\ job'[p].asked = job[p].asked
  BY <1>1, <1>3 DEF ControlOK, Job
<1>4. ASSUME ReadBodies(p)
      PROVE  /\ SameGoal(p) /\ SameLists(p) /\ SameSets(p)
             /\ job'[p].seen = Canonical /\ job'[p].lineage = job[p].lineage
  BY <1>2, <1>4 DEF ControlOK, Job
<1> QED
  BY <1>1, <1>2, <1>3, <1>4

LEMMA SkipEffect ==
    ASSUME ControlOK, NEW p \in Procs, Skip(p)
    PROVE  /\ OneLess(p) /\ SameGoal(p) /\ SameSets(p) /\ SameLineage(p) /\ pc'[p] = pc[p]
<1>1. job[p].todo # <<>> /\ job'[p] = [job[p] EXCEPT !.todo = Tail(@)] /\ pc'[p] = pc[p]
  BY Moved DEF Skip, AtItem, Passed
<1> QED
  BY <1>1 DEF ControlOK, Job, OneLess, SameGoal, SameSets, SameLineage

LEMMA CollectEffect ==
    ASSUME ControlOK, NEW p \in Procs, Collect(p)
    PROVE  /\ OneLess(p) /\ SameGoal(p) /\ SameLineage(p) /\ pc'[p] = pc[p]
           /\ job'[p].asked = job[p].asked
           /\ job'[p].known = job[p].known \cup {This(p).fact}
           /\ job'[p].new = [job[p].new EXCEPT ![This(p).fact] = @ + 1]
<1>1. job[p].todo # <<>> /\ pc'[p] = pc[p]
  BY DEF Collect, AtItem
<1>2. job'[p] = [Passed(p) EXCEPT !.new[This(p).fact] = @ + 1,
                                  !.known = @ \cup {This(p).fact}]
  BY Moved DEF Collect
<1>3. job'[p] = [job[p] EXCEPT !.todo = Tail(@), !.new[This(p).fact] = @ + 1,
                               !.known = @ \cup {This(p).fact}]
  BY <1>2 DEF Passed
<1>4. OneLess(p) /\ SameGoal(p) /\ SameLineage(p) /\ job'[p].asked = job[p].asked
  BY <1>1, <1>3 DEF ControlOK, Job, OneLess, SameGoal, SameLineage
<1>5. job'[p].known = job[p].known \cup {This(p).fact}
  BY <1>3 DEF ControlOK, Job
<1>6. job'[p].new = [job[p].new EXCEPT ![This(p).fact] = @ + 1]
  BY <1>3 DEF ControlOK, Job
<1> QED
  BY <1>1, <1>4, <1>5, <1>6

LEMMA ContestEffect ==
    ASSUME ControlOK, NEW p \in Procs, Contest(p)
    PROVE  SameData(p) /\ pc'[p] = "lock" /\ job[p].todo # <<>>
<1>1. pc'[p] = "lock" /\ job[p].todo # <<>> /\ job'[p] = [job[p] EXCEPT !.day = today]
  BY Moved DEF Contest, AtItem
<1> QED
  BY <1>1 DEF ControlOK, Job, SameData, SameGoal, SameLists, SameSets, SameLineage

LEMMA SupersedeEffect ==
    ASSUME ControlOK, NEW p \in Procs, Supersede(p)
    PROVE  /\ SameGoal(p) /\ SameLists(p) /\ SameSets(p) /\ job'[p].seen = job[p].seen
           /\ job'[p].lineage /\ pc'[p] = "next" /\ job[p].todo # <<>>
<1>1. pc'[p] = "next" /\ job[p].todo # <<>> /\ job'[p] = [job[p] EXCEPT !.lineage = TRUE]
  BY Moved DEF Supersede, AtItem
<1> QED
  BY <1>1 DEF ControlOK, Job, SameGoal, SameLists, SameSets

LEMMA SetAsideEffect ==
    ASSUME ControlOK, NEW p \in Procs, SetAside(p)
    PROVE  /\ SameGoal(p) /\ SameSets(p) /\ SameLineage(p) /\ pc'[p] = pc[p]
           /\ job[p].todo # <<>> /\ job'[p].todo = Tail(job[p].todo)
           /\ job'[p].rest = Append(job[p].rest, [This(p) EXCEPT !.verdict = "new"])
<1>1. /\ pc'[p] = pc[p] /\ job[p].todo # <<>>
      /\ job'[p] = [job[p] EXCEPT !.todo = Tail(@),
                                  !.rest = Append(@, [This(p) EXCEPT !.verdict = "new"])]
  BY Moved DEF SetAside, AtItem, Passed
<1> QED
  BY <1>1 DEF ControlOK, Job, SameGoal, SameSets, SameLineage

LEMMA BoundEndEffect ==
    ASSUME ControlOK, NEW p \in Procs, BoundEnd(p)
    PROVE  \/ Finish(p)
           \/ /\ SameGoal(p) /\ SameSets(p) /\ SameLineage(p)
              /\ pc[p] = "bound" /\ pc'[p] = "known" /\ job[p].todo = <<>>
              /\ job'[p].todo = job[p].rest /\ job'[p].rest = <<>>
<1>1. \/ Finish(p)
      \/ /\ pc[p] = "bound" /\ pc'[p] = "known" /\ job[p].todo = <<>>
         /\ job'[p] = [job[p] EXCEPT !.todo = job[p].rest, !.rest = <<>>]
  BY Moved DEF BoundEnd
<1>2. job'[p] = [job[p] EXCEPT !.todo = job[p].rest, !.rest = <<>>] =>
         /\ SameGoal(p) /\ SameSets(p) /\ SameLineage(p)
         /\ job'[p].todo = job[p].rest /\ job'[p].rest = <<>>
  BY DEF ControlOK, Job, SameGoal, SameSets, SameLineage
<1> QED
  BY <1>1, <1>2

LEMMA SameJob ==
    ASSUME NEW p \in Procs, job'[p] = job[p]
    PROVE  SameData(p)
BY DEF SameData, SameGoal, SameLists, SameSets, SameLineage

LEMMA ReadQueueEffect ==
    ASSUME ControlOK, NEW p \in Procs, ReadQueue(p)
    PROVE  SameData(p) /\ pc'[p] = "publish"
<1>1. pc'[p] = "publish" /\ job'[p] = [job[p] EXCEPT !.snap = queue[job[p].day]]
  BY Moved DEF ReadQueue
<1> QED
  BY <1>1 DEF ControlOK, Job, SameData, SameGoal, SameLists, SameSets, SameLineage

LEMMA PublishEffect ==
    ASSUME ControlOK, NEW p \in Procs, ItemOf(p), Publish(p)
    PROVE  /\ OneLess(p) /\ SameGoal(p) /\ SameSets(p) /\ SameLineage(p)
           /\ pc'[p] = IF This(p).verdict = "distilled" THEN "bound" ELSE "route"
<1>1. job[p].todo # <<>> /\ pc'[p] = IF This(p).verdict = "distilled" THEN "bound" ELSE "route"
  BY Moved DEF Publish, Back, ItemOf
<1>2. job'[p] = [job[p] EXCEPT !.todo = Tail(@), !.snap = <<>>]
  BY Moved DEF Publish, Passed
<1>3. OneLess(p) /\ SameGoal(p) /\ SameSets(p) /\ SameLineage(p)
  BY <1>1, <1>2 DEF ControlOK, Job, OneLess, SameGoal, SameSets, SameLineage
<1> QED
  BY <1>1, <1>3

LEMMA AppendFailsEffect ==
    ASSUME ControlOK, NEW p \in Procs, ItemOf(p), AppendFails(p), pc[p] \in {"lock", "publish"}
    PROVE  \/ Finish(p)
           \/ /\ OneLess(p) /\ SameGoal(p) /\ SameSets(p) /\ SameLineage(p)
              /\ pc'[p] = "bound" /\ This(p).verdict = "distilled"
              /\ job[p].op = "dream" /\ job[p].front = "cli"
<1>1. CASE Finish(p)
  BY <1>1
<1>2. CASE ~Finish(p)
  <2>1. /\ job[p].op = "dream" /\ job[p].front = "cli" /\ This(p).verdict = "distilled"
        /\ job'[p] = [job[p] EXCEPT !.todo = Tail(@)] /\ pc'[p] = "bound"
    BY <1>2, Moved DEF AppendFails, Back, Passed
  <2>2. job[p].todo # <<>>
    BY <2>1 DEF ItemOf
  <2>3. OneLess(p) /\ SameGoal(p) /\ SameSets(p) /\ SameLineage(p)
    BY <2>1, <2>2 DEF ControlOK, Job, OneLess, SameGoal, SameSets, SameLineage
  <2> QED
    BY <2>1, <2>3
<1> QED
  BY <1>1, <1>2

LEMMA CheckEffect ==
    ASSUME ControlOK, NEW p \in Procs, Check(p)
    PROVE  \/ Finish(p)
           \/ /\ SameGoal(p) /\ SameLists(p) /\ SameLineage(p) /\ pc'[p] = "next"
              /\ job'[p].known = job[p].known
              /\ queue[job[p].day][job[p].index] \notin Canonical
              /\ job'[p].asked = {queue[job[p].day][job[p].index]}
              /\ job'[p].new = Once({queue[job[p].day][job[p].index]})
<1>1. PICK f : f = queue[job[p].day][job[p].index]
  OBVIOUS
<1>2. \/ Finish(p)
      \/ /\ pc'[p] = "next" /\ f \notin Canonical
         /\ job'[p] = [job[p] EXCEPT !.asked = {f}, !.new = Once({f})]
  BY <1>1, Moved DEF Check
<1>3. job'[p] = [job[p] EXCEPT !.asked = {f}, !.new = Once({f})] =>
         /\ SameGoal(p) /\ SameLists(p) /\ SameLineage(p) /\ job'[p].known = job[p].known
         /\ job'[p].asked = {f} /\ job'[p].new = Once({f})
  BY DEF ControlOK, Job, SameGoal, SameLists, SameLineage
<1> QED
  BY <1>1, <1>2, <1>3

LEMMA NextEntryEffect ==
    ASSUME ControlOK, NEW p \in Procs, NextEntry(p)
    PROVE  SameData(p) /\ pc[p] = "next" /\ pc'[p] = "create"
<1>1. /\ pc[p] = "next" /\ pc'[p] = "create"
      /\ job'[p] = [job[p] EXCEPT !.date = today, !.slot = Len(entries[today]) + 1, !.tries = 0]
  BY Moved DEF NextEntry
<1> QED
  BY <1>1 DEF ControlOK, Job, SameData, SameGoal, SameLists, SameSets, SameLineage

LEMMA CreateEffect ==
    ASSUME ControlOK, NEW p \in Procs, Create(p)
    PROVE  \/ Finish(p)
           \/ SameData(p) /\ pc[p] = "create" /\ pc'[p] \in {"create", "write"}
<1>1. PICK n : n = Len(entries[job[p].date]) + 1
  OBVIOUS
<1>2. \/ Finish(p)
      \/ pc[p] = "create" /\ pc'[p] = "write" /\ job'[p] = job[p]
      \/ /\ pc[p] = "create" /\ pc'[p] = "create"
         /\ job'[p] = [job[p] EXCEPT !.slot = n, !.tries = @ + 1]
  BY <1>1, Moved DEF Create
<1>3. job'[p] = [job[p] EXCEPT !.slot = n, !.tries = @ + 1] => SameData(p)
  BY DEF ControlOK, Job, SameData, SameGoal, SameLists, SameSets, SameLineage
<1> QED
  BY <1>2, <1>3, SameJob

LEMMA WriteEffect ==
    ASSUME ControlOK, NEW p \in Procs, ItemOf(p), Write(p)
    PROVE  \/ /\ job[p].lineage /\ ~job'[p].lineage /\ pc'[p] = "route"
              /\ OneLess(p) /\ SameGoal(p) /\ job'[p].asked = job[p].asked
              /\ job'[p].new = job[p].new /\ job'[p].seen = job[p].seen
              /\ job'[p].known = job[p].known \cup {This(p).fact}
           \/ /\ ~job[p].lineage /\ SameGoal(p) /\ SameLists(p) /\ SameLineage(p)
              /\ job'[p].asked = job[p].asked /\ job'[p].known = job[p].known
              /\ job'[p].new = Remaining(p)
              /\ pc'[p] = IF Remaining(p) # Nothing THEN "next"
                          ELSE IF job[p].op = "promote" THEN "receipt" ELSE "done"
<1>1. CASE job[p].lineage
  <2>1. /\ pc'[p] = "route" /\ job[p].todo # <<>>
        /\ job'[p] = [Passed(p) EXCEPT !.lineage = FALSE, !.known = @ \cup {This(p).fact}]
    BY <1>1, Moved DEF Write, AfterWrite, ItemOf
  <2>2. job'[p] = [job[p] EXCEPT !.todo = Tail(@), !.lineage = FALSE,
                                 !.known = @ \cup {This(p).fact}]
    BY <2>1 DEF Passed
  <2>3. /\ SameGoal(p) /\ job'[p].asked = job[p].asked
        /\ job'[p].new = job[p].new /\ job'[p].seen = job[p].seen /\ ~job'[p].lineage
        /\ job'[p].todo = Tail(job[p].todo) /\ job'[p].rest = job[p].rest
    <3>1. /\ SameGoal(p) /\ job'[p].asked = job[p].asked
          /\ job'[p].new = job[p].new /\ job'[p].seen = job[p].seen
      BY <2>2 DEF ControlOK, Job, SameGoal
    <3>2. ~job'[p].lineage /\ job'[p].rest = job[p].rest
      BY <2>2 DEF ControlOK, Job
    <3>3. job'[p].todo = Tail(job[p].todo)
      BY <2>2 DEF ControlOK, Job
    <3> QED
      BY <3>1, <3>2, <3>3
  <2>4. job'[p].known = job[p].known \cup {This(p).fact}
    BY <2>2 DEF ControlOK, Job
  <2> QED
    BY <1>1, <2>1, <2>3, <2>4 DEF OneLess
<1>2. CASE ~job[p].lineage
  <2>1. /\ job'[p] = [job[p] EXCEPT !.new = Remaining(p)]
        /\ pc'[p] = IF Remaining(p) # Nothing THEN "next"
                    ELSE IF job[p].op = "promote" THEN "receipt" ELSE "done"
    BY <1>2, Moved DEF Write, AfterWrite
  <2>2. /\ SameGoal(p) /\ SameLists(p) /\ SameLineage(p)
        /\ job'[p].asked = job[p].asked /\ job'[p].known = job[p].known
        /\ job'[p].new = Remaining(p)
    BY <2>1 DEF ControlOK, Job, SameGoal, SameLists, SameLineage
  <2> QED
    BY <1>2, <2>1, <2>2
<1> QED
  BY <1>1, <1>2

LEMMA QuietEffects ==
    ASSUME ControlOK, NEW p \in Procs
    PROVE  /\ RouteEnd(p) =>
                 /\ SameData(p) /\ pc[p] = "route" /\ job[p].todo = <<>>
                 /\ pc'[p] = IF job[p].new # Nothing THEN "next"
                             ELSE IF job[p].op = "promote" THEN "receipt" ELSE "done"
           /\ TakeLock(p) =>
                 /\ SameData(p) /\ pc[p] = "lock"
                 /\ pc'[p] = IF job[p].op = "signoff" THEN "check" ELSE "append"
           /\ WriteReceipt(p) => SameData(p) /\ pc[p] = "receipt" /\ pc'[p] = "done"
<1>1. ASSUME RouteEnd(p)
      PROVE  /\ SameData(p) /\ pc[p] = "route" /\ job[p].todo = <<>>
             /\ pc'[p] = IF job[p].new # Nothing THEN "next"
                         ELSE IF job[p].op = "promote" THEN "receipt" ELSE "done"
  BY <1>1, Moved, SameJob DEF RouteEnd
<1>2. ASSUME TakeLock(p)
      PROVE  /\ SameData(p) /\ pc[p] = "lock"
             /\ pc'[p] = IF job[p].op = "signoff" THEN "check" ELSE "append"
  BY <1>2, Moved, SameJob DEF TakeLock
<1>3. ASSUME WriteReceipt(p)
      PROVE  SameData(p) /\ pc[p] = "receipt" /\ pc'[p] = "done"
  BY <1>3, Moved, SameJob DEF WriteReceipt
<1> QED
  BY <1>1, <1>2, <1>3

-----------------------------------------------------------------------------
(* What is stored stays stored. *)

LEMMA HeldIsWritten ==
    ASSUME NEW e, NEW f \in Facts, Holds(e, f)
    PROVE  e # Unwritten
BY DEF Holds, Unwritten, Nothing, Once

LEMMA CanonicalGrows ==
    ASSUME TypeInv, OwnFile, [Next]_vars
    PROVE  Canonical \subseteq Canonical'
<1>1. EntriesStay
  BY EntriesStep
<1> SUFFICES ASSUME NEW f \in Facts, NEW d \in Days, NEW n \in DOMAIN entries[d],
                    Holds(entries[d][n], f)
             PROVE  f \in Canonical'
  BY DEF Canonical
<1>2. n \in DOMAIN entries'[d] /\ entries'[d][n] = entries[d][n]
  BY <1>1, HeldIsWritten DEF EntriesStay
<1> QED
  BY <1>2 DEF Canonical, Holds

LEMMA StoredStays ==
    ASSUME TypeInv, HasItem, UnderLock, OwnFile, [Next]_vars, NEW f, Stored(f)
    PROVE  Stored(f)'
<1>1. CASE f \in Canonical
  BY <1>1, CanonicalGrows DEF Stored
<1>2. CASE \E d \in Days : Queued(f, d)
  <2>1. QueueKept
    BY QueueStep
  <2>2. PICK d \in Days : Queued(f, d)
    BY <1>2
  <2>3. Queued(f, d)'
    BY <2>1, <2>2 DEF QueueKept, Queued
  <2> QED
    BY <2>3 DEF Stored
<1> QED
  BY <1>1, <1>2 DEF Stored

\* What a command writes is in the store.
LEMMA WrittenIsCanonical ==
    ASSUME TypeInv, OwnFile, NEW p \in Procs, Write(p), NEW f \in Facts, Group(p)[f] > 0
    PROVE  f \in Canonical'
<1>1. FileOf(p) /\ job[p].date \in Days /\ job[p].slot \in DOMAIN entries[job[p].date]
  BY DEF OwnFile, FileOf, Write, TypeInv, ControlOK, Job
<1>2. PICK d, n : d = job[p].date /\ n = job[p].slot
  OBVIOUS
<1>3. /\ d \in Days /\ n \in DOMAIN entries'[d]
      /\ entries'[d][n] = Content(p)
  BY <1>1, <1>2, OwnFileWritten
<1>4. entries'[d][n].facts = Group(p)
  BY <1>3 DEF Content
<1> QED
  BY <1>3, <1>4 DEF Canonical, Holds

\* What a command queues is before a human.
LEMMA PublishedIsStored ==
    ASSUME TypeInv, NEW p \in Procs, Publish(p), NEW f \in Facts, f = This(p).fact
    PROVE  Stored(f)'
<1>1. PICK d, s : d = job[p].day /\ s = job[p].snap
  OBVIOUS
<1>2. d \in Days /\ s \in Seq(Facts) /\ f \in Facts
  BY <1>1 DEF TypeInv, ControlOK, Job
<1>3. queue'[d] = Append(s, f)
  BY <1>1, <1>2 DEF Publish, TypeInv, FilesOK
<1>4. Len(s) + 1 \in DOMAIN Append(s, f) /\ Append(s, f)[Len(s) + 1] = f
  BY <1>2, AppendProperties, LenProperties
<1>5. Queued(f, d)'
  BY <1>3, <1>4 DEF Queued
<1> QED
  BY <1>2, <1>5 DEF Stored

\* A command starts with nothing in hand, and with all it is asked to keep in
\* its list.
Started(p) ==
    /\ job'[p].new = Nothing /\ job'[p].known = {} /\ job'[p].seen = {}
    /\ job'[p].rest = <<>> /\ ~job'[p].lineage

LEMMA StartEffect ==
    ASSUME FilesOK, ControlOK, NEW p \in Procs, Start(p)
    PROVE  /\ pc[p] = "idle"
           /\ \/ UNCHANGED <<pc, job>>
              \/ /\ Started(p) /\ job'[p].op = "consolidate" /\ pc'[p] = "known"
                 /\ Verdicts(job'[p].todo) \subseteq {"new"}
                 /\ job'[p].asked \subseteq Wanted(job'[p].todo)
              \/ /\ Started(p) /\ job'[p].op = "dream" /\ pc'[p] = "bound"
                 /\ job'[p].front \in Fronts
                 /\ Verdicts(job'[p].todo) \subseteq {"distilled"}
                 /\ job'[p].asked \subseteq Wanted(job'[p].todo)
              \/ /\ Started(p) /\ job'[p].op = "promote" /\ pc'[p] = "known"
                 /\ "distilled" \notin Verdicts(job'[p].todo)
                 /\ job'[p].asked \subseteq Wanted(job'[p].todo)
                 /\ \E b \in Batches : /\ job'[p].batch = b
                                       /\ job'[p].asked = AskedOf(Audit[b][staged[b].text])
              \/ /\ Started(p) /\ job'[p].op = "signoff" /\ pc'[p] = "lock"
                 /\ job'[p].todo = <<>> /\ job'[p].asked = {}
<1>0. pc[p] = "idle"
  BY DEF Start, StartConsolidate, StartDream, StartPromote, StartSignoff
<1>1. CASE StartConsolidate(p)
  <2>1. PICK b \in Buffers, strict \in BOOLEAN :
           job'[p] = [NoJob EXCEPT !.op = "consolidate", !.strict = strict,
                      !.asked = {b[i] : i \in DOMAIN b}, !.todo = Items(b, "new")]
    BY <1>1, Moved DEF StartConsolidate
  <2>2. /\ Started(p) /\ job'[p].op = "consolidate"
        /\ job'[p].todo = Items(b, "new") /\ job'[p].asked = {b[i] : i \in DOMAIN b}
    BY <2>1 DEF NoJob, Started
  <2>3. b \in Seq(Facts)
    BY MemoryAssumption
  <2> QED
    BY <1>0, <1>1, <2>2, <2>3, ItemsOfBuffer, Moved DEF StartConsolidate
<1>2. CASE StartDream(p)
  <2>1. PICK b \in Buffers, front \in Fronts :
           job'[p] = [NoJob EXCEPT !.op = "dream", !.front = front,
                      !.asked = {b[i] : i \in DOMAIN b}, !.todo = Items(b, "distilled")]
    BY <1>2, Moved DEF StartDream
  <2>2. /\ Started(p) /\ job'[p].op = "dream" /\ job'[p].front = front
        /\ job'[p].todo = Items(b, "distilled") /\ job'[p].asked = {b[i] : i \in DOMAIN b}
    BY <2>1 DEF NoJob, Started
  <2>3. b \in Seq(Facts)
    BY MemoryAssumption
  <2> QED
    BY <1>0, <1>2, <2>2, <2>3, ItemsOfBuffer, Moved DEF StartDream
<1>3. CASE StartPromote(p) /\ ~UNCHANGED <<pc, job>>
  <2>1. PICK b \in Batches :
           /\ pc'[p] = "known"
           /\ job'[p] = [NoJob EXCEPT !.op = "promote", !.batch = b,
                         !.asked = AskedOf(Audit[b][staged[b].text]),
                         !.todo = Audit[b][staged[b].text]]
    BY <1>3, Moved DEF StartPromote
  <2>2. PICK t : t = Audit[b][staged[b].text]
    OBVIOUS
  <2>3. /\ Started(p) /\ job'[p].op = "promote" /\ job'[p].batch = b
        /\ job'[p].todo = t /\ job'[p].asked = AskedOf(t)
    BY <2>1, <2>2 DEF NoJob, Started
  <2>4. staged[b].text \in Versions
    BY DEF FilesOK
  <2> QED
    BY <1>0, <2>1, <2>2, <2>3, <2>4, ItemsOfAudit
<1>4. CASE StartSignoff(p)
  <2>1. PICK d \in Days : \E i \in DOMAIN queue[d] :
           job'[p] = [NoJob EXCEPT !.op = "signoff", !.day = d, !.index = i]
    BY <1>4, Moved DEF StartSignoff
  <2>2. PICK i \in DOMAIN queue[d] :
           job'[p] = [NoJob EXCEPT !.op = "signoff", !.day = d, !.index = i]
    BY <2>1
  <2>3. Started(p) /\ job'[p].op = "signoff" /\ job'[p].todo = <<>> /\ job'[p].asked = {}
    BY <2>2 DEF NoJob, Started
  <2> QED
    BY <1>0, <1>4, <2>3, Moved DEF StartSignoff
<1> QED
  BY <1>0, <1>1, <1>2, <1>3, <1>4 DEF Start

LEMMA FinishEffect ==
    ASSUME ControlOK, NEW p \in Procs, Finish(p)
    PROVE  /\ pc'[p] = "idle"
           /\ job'[p].op = "none" /\ job'[p].asked = {} /\ job'[p].new = Nothing
           /\ job'[p].known = {} /\ job'[p].seen = {} /\ ~job'[p].lineage
           /\ job'[p].todo = <<>> /\ job'[p].rest = <<>>
<1>1. pc'[p] = "idle" /\ job'[p] = NoJob
  BY Moved
<1> QED
  BY <1>1 DEF NoJob

-----------------------------------------------------------------------------
(* The two stages of dream --source, and the end of a command. *)

\* Bound facts go to the queue of the day, the others are set aside.
BoundStage(p) ==
    /\ job[p].op = "dream" /\ pc[p] \in {"bound", "lock", "append", "publish"}
    /\ Verdicts(job[p].todo) \subseteq {"distilled"}
    /\ Verdicts(job[p].rest) \subseteq {"new"}

MainStage(p) ==
    /\ pc[p] # "bound" /\ "distilled" \notin Verdicts(job[p].todo) /\ job[p].rest = <<>>

StageOf(p) == BoundStage(p) \/ MainStage(p)

\* Entries are written when no item is left, except those with lineage; a
\* command reports success when it has written all it had collected.
EndOf(p) ==
    /\ pc[p] \in {"next", "create", "write", "receipt", "done"} /\ ~job[p].lineage =>
          job[p].todo = <<>>
    /\ pc[p] \in {"receipt", "done"} => job[p].new = Nothing
    /\ job[p].op = "signoff" => job[p].todo = <<>> /\ job[p].known = {}

LEMMA StageStep ==
    ASSUME TypeInv, NEW p \in Procs, ItemOf(p), PathOf(p), StageOf(p), EndOf(p),
           Start(p) \/ Step(p) \/ Crash(p)
    PROVE  StageOf(p)' /\ EndOf(p)'
<1> USE DEF StageOf, BoundStage, MainStage, EndOf
<1>1. FilesOK /\ ControlOK
  BY DEF TypeInv
<1>2. /\ job[p].todo \in Seq(Item) /\ job[p].rest \in Seq(Item) /\ job[p].lineage \in BOOLEAN
      /\ job[p].todo # <<>> => This(p) \in Item
  BY <1>1, ListsTyped
<1>3. job[p].todo # <<>> =>
         /\ This(p).verdict \in Verdicts(job[p].todo)
         /\ Verdicts(Tail(job[p].todo)) \subseteq Verdicts(job[p].todo)
  BY <1>2, TailOfItems DEF This
<1>4. CASE Finish(p)
  BY <1>1, <1>4, FinishEffect, NoItems
<1>5. CASE Start(p)
  <2>1. UNCHANGED <<pc, job>> => StageOf(p)' /\ EndOf(p)'
    OBVIOUS
  <2> QED
    BY <1>1, <1>5, <2>1, StartEffect, NoItems DEF Started
<1>6. CASE ReadKnown(p) \/ ReadBodies(p)
  BY <1>1, <1>6, ReadEffects DEF SameGoal, SameLists, SameSets, PathOf
<1>7. CASE Skip(p)
  BY <1>1, <1>3, <1>7, SkipEffect DEF Skip, AtItem, OneLess, SameGoal, SameSets, SameLineage
<1>8. CASE Contest(p)
  BY <1>1, <1>8, ContestEffect
     DEF Contest, AtItem, SameData, SameGoal, SameLists, SameSets, SameLineage
<1>9. CASE Collect(p)
  BY <1>1, <1>3, <1>9, CollectEffect DEF Collect, AtItem, OneLess, SameGoal, SameLineage, PathOf
<1>10. CASE Supersede(p)
  BY <1>1, <1>3, <1>10, SupersedeEffect DEF Supersede, AtItem, SameGoal, SameLists, SameSets
<1>11. CASE SetAside(p)
  <2>1. /\ [This(p) EXCEPT !.verdict = "new"] \in Item
        /\ [This(p) EXCEPT !.verdict = "new"].verdict = "new"
    BY <1>2, <1>11 DEF SetAside, AtItem, Item, Verdict
  <2>2. Verdicts(job'[p].rest) \subseteq Verdicts(job[p].rest) \cup {"new"}
    BY <1>1, <1>2, <1>11, <2>1, SetAsideEffect, ItemAppended
  <2> QED
    BY <1>1, <1>3, <1>11, <2>2, SetAsideEffect
       DEF SetAside, AtItem, SameGoal, SameSets, SameLineage
<1>12. CASE BoundEnd(p)
  BY <1>1, <1>4, <1>12, BoundEndEffect DEF SameGoal, SameSets, SameLineage
<1>13. CASE RouteEnd(p) \/ TakeLock(p) \/ WriteReceipt(p)
  BY <1>1, <1>13, QuietEffects
     DEF SameData, SameGoal, SameLists, SameSets, SameLineage, PathOf, ItemOf
<1>14. CASE LockTimesOut(p) \/ PublishFails(p)
  BY <1>1, <1>3, <1>4, <1>14, AppendFailsEffect
     DEF LockTimesOut, PublishFails, OneLess, SameGoal, SameSets, SameLineage
<1>15. CASE ReadQueue(p)
  BY <1>1, <1>15, ReadQueueEffect
     DEF ReadQueue, SameData, SameGoal, SameLists, SameSets, SameLineage
<1>16. CASE Publish(p)
  BY <1>1, <1>3, <1>16, PublishEffect DEF Publish, OneLess, SameGoal, SameSets, SameLineage
<1>17. CASE Check(p)
  BY <1>1, <1>4, <1>17, CheckEffect DEF Check, PathOf, SameGoal, SameLists, SameLineage
<1>18. CASE NextEntry(p)
  BY <1>1, <1>18, NextEntryEffect DEF SameData, SameGoal, SameLists, SameSets, SameLineage
<1>19. CASE Create(p)
  BY <1>1, <1>4, <1>19, CreateEffect DEF SameData, SameGoal, SameLists, SameSets, SameLineage
<1>20. CASE Write(p)
  BY <1>1, <1>3, <1>20, WriteEffect DEF Write, ItemOf, OneLess, SameGoal, SameLists, SameLineage
<1>21. CASE EntryFails(p) \/ ReceiptFails(p) \/ Report(p) \/ Crash(p)
  BY <1>4, <1>21 DEF EntryFails, ReceiptFails, Report, Crash
<1> QED
  BY <1>5, <1>6, <1>7, <1>8, <1>9, <1>10, <1>11, <1>12, <1>13, <1>14, <1>15, <1>16, <1>17,
     <1>18, <1>19, <1>20, <1>21 DEF Step

-----------------------------------------------------------------------------
(* Every fact a command was asked to keep is accounted for. *)

\* What a command takes for known is in the store or about to be written.
KnownOf(p) == \A f \in job[p].known : f \in Canonical \/ job[p].new[f] > 0

Accounted(p, f) ==
    \/ Stored(f) \/ job[p].new[f] > 0
    \/ f \in Wanted(job[p].todo) \/ f \in Wanted(job[p].rest)

\* The CLI's dream --source drops what it cannot queue.
MayDrop(p) == job[p].op = "dream" /\ job[p].front = "cli"

KeptOf(p) == MayDrop(p) \/ \A f \in job[p].asked : Accounted(p, f)

\* When an item is passed over, its fact has gone somewhere.
LEMMA PassedIsAccounted ==
    ASSUME ControlOK, NEW p \in Procs, OneLess(p), KeptOf(p),
           \A f \in Facts : Stored(f) => Stored(f)',
           job'[p].asked = job[p].asked, SameGoal(p),
           \A f \in Facts : job[p].new[f] > 0 => job'[p].new[f] > 0 \/ Stored(f)',
           \/ \A f \in Facts : f = This(p).fact => Stored(f)' \/ job'[p].new[f] > 0
           \/ This(p).verdict \in {"duplicate", "reject"}
    PROVE  KeptOf(p)'
<1>1. job[p].todo \in Seq(Item) /\ job[p].asked \subseteq Facts
  BY ListsTyped
<1>2. /\ Wanted(job[p].todo) \subseteq Wanted(job'[p].todo) \cup {This(p).fact}
      /\ This(p).verdict \in {"duplicate", "reject"} =>
            Wanted(job[p].todo) \subseteq Wanted(job'[p].todo)
  BY <1>1, TailOfItems DEF OneLess, This
<1>3. MayDrop(p) => MayDrop(p)'
  BY DEF MayDrop, SameGoal
<1>4. ASSUME NEW f \in job[p].asked, Accounted(p, f)
      PROVE  Accounted(p, f)'
  BY <1>1, <1>2, <1>4 DEF Accounted, OneLess
<1> QED
  BY <1>3, <1>4 DEF KeptOf

LEMMA SameIsAccounted ==
    ASSUME ControlOK, NEW p \in Procs, KeptOf(p), SameLists(p), SameGoal(p),
           \A f \in Facts : Stored(f) => Stored(f)',
           job'[p].asked = job[p].asked,
           \A f \in Facts : job[p].new[f] > 0 => job'[p].new[f] > 0 \/ Stored(f)'
    PROVE  KeptOf(p)'
<1>1. job[p].asked \subseteq Facts
  BY ListsTyped
<1>2. MayDrop(p) => MayDrop(p)'
  BY DEF MayDrop, SameGoal
<1>3. ASSUME NEW f \in job[p].asked, Accounted(p, f)
      PROVE  Accounted(p, f)'
  BY <1>1, <1>3 DEF Accounted, SameLists
<1> QED
  BY <1>2, <1>3 DEF KeptOf

LEMMA KeptStep ==
    ASSUME IInv, [Next]_vars, NEW p \in Procs, StageOf(p), EndOf(p), KnownOf(p), KeptOf(p),
           Start(p) \/ Step(p) \/ Crash(p)
    PROVE  KnownOf(p)' /\ KeptOf(p)'
<1>1. /\ TypeInv /\ FilesOK /\ ControlOK /\ OwnFile /\ HasItem /\ UnderLock
      /\ ItemOf(p) /\ PathOf(p)
  BY DEF IInv, TypeInv, HasItem, SignoffPath
<1>2. /\ job[p].todo \in Seq(Item) /\ job[p].rest \in Seq(Item) /\ job[p].new \in Tally
      /\ job[p].known \subseteq Facts /\ job[p].asked \subseteq Facts
      /\ job[p].todo # <<>> => /\ This(p) \in Item /\ This(p).fact \in Facts
                               /\ This(p).verdict \in Verdict
  BY <1>1, ListsTyped
<1>3. job[p].todo # <<>> => This(p).verdict \in Verdicts(job[p].todo)
  BY <1>2, TailOfItems DEF This
<1>4. \A f \in Facts : f \in Canonical => f \in Canonical'
  BY <1>1, CanonicalGrows
<1>5. \A f \in Facts : Stored(f) => Stored(f)'
  BY <1>1, StoredStays
<1>6. \A f : (f \in Canonical)' => Stored(f)'
  BY DEF Stored
<1>7. ASSUME SameSets(p) PROVE KnownOf(p)'
  BY <1>2, <1>4, <1>7 DEF SameSets, KnownOf
<1>8. CASE Finish(p)
  BY <1>1, <1>8, FinishEffect DEF KnownOf, KeptOf
<1>9. CASE Start(p)
  <2>1. CASE UNCHANGED <<pc, job>>
    <3>1. SameData(p)
      BY <2>1, SameJob
    <3> QED
      BY <1>1, <1>5, <1>7, <3>1, SameIsAccounted DEF SameData, SameSets
  <2>2. CASE ~UNCHANGED <<pc, job>>
    BY <1>1, <1>9, <2>2, StartEffect DEF Started, KnownOf, KeptOf, Accounted
  <2> QED
    BY <2>1, <2>2
<1>10. CASE ReadKnown(p)
  <2>1. KnownOf(p)'
    BY <1>1, <1>4, <1>10, ReadEffects DEF KnownOf, Canonical
  <2>2. KeptOf(p)'
    BY <1>1, <1>5, <1>10, ReadEffects, SameIsAccounted
  <2> QED
    BY <2>1, <2>2
<1>11. CASE ReadBodies(p)
  BY <1>1, <1>5, <1>7, <1>11, ReadEffects, SameIsAccounted DEF SameSets
<1>12. CASE Skip(p)
  <2>1. OneLess(p) /\ SameGoal(p) /\ SameSets(p)
    BY <1>1, <1>12, SkipEffect
  <2>2. \/ This(p).fact \in job[p].known
        \/ Queued(This(p).fact, today)
        \/ This(p).verdict \in {"duplicate", "reject"}
    BY <1>12 DEF Skip, Skips
  <2>3. ASSUME NEW f \in Facts, f = This(p).fact,
               This(p).verdict \notin {"duplicate", "reject"}
        PROVE  Stored(f)' \/ job'[p].new[f] > 0
    <3>1. CASE f \in job[p].known
      BY <1>4, <1>6, <2>1, <3>1 DEF KnownOf, SameSets
    <3>2. CASE Queued(f, today)
      <4>1. Stored(f)
        BY <1>1, <3>2 DEF Stored, TypeInv
      <4> QED
        BY <1>5, <4>1
    <3> QED
      BY <2>2, <2>3, <3>1, <3>2
  <2>4. KeptOf(p)'
    BY <1>1, <1>5, <2>1, <2>3, PassedIsAccounted DEF SameSets
  <2> QED
    BY <1>7, <2>1, <2>4
<1>13. CASE Contest(p) \/ ReadQueue(p) \/ RouteEnd(p) \/ TakeLock(p) \/ WriteReceipt(p)
            \/ NextEntry(p)
  <2>1. SameData(p)
    BY <1>1, <1>13, ContestEffect, ReadQueueEffect, QuietEffects, NextEntryEffect
  <2> QED
    BY <1>1, <1>5, <1>7, <2>1, SameIsAccounted DEF SameData, SameSets
<1>14. CASE Create(p)
  <2>1. Finish(p) \/ SameData(p)
    BY <1>1, <1>14, CreateEffect
  <2> QED
    BY <1>1, <1>5, <1>7, <1>8, <2>1, SameIsAccounted DEF SameData, SameSets
<1>15. CASE Collect(p)
  <2>1. PICK g \in Facts : g = This(p).fact
    BY <1>2, <1>15 DEF Collect, AtItem
  <2>2. /\ OneLess(p) /\ SameGoal(p) /\ job'[p].asked = job[p].asked
        /\ job'[p].known = job[p].known \cup {g}
        /\ job'[p].new = [job[p].new EXCEPT ![g] = @ + 1]
    BY <1>1, <1>15, <2>1, CollectEffect
  <2>3. \A f \in Facts : job[p].new[f] > 0 \/ f = g => job'[p].new[f] > 0
    BY <1>2, <2>1, <2>2 DEF Tally
  <2>4. KnownOf(p)'
    BY <1>2, <1>4, <2>1, <2>2, <2>3 DEF KnownOf
  <2>5. KeptOf(p)'
    BY <1>1, <1>5, <2>1, <2>2, <2>3, PassedIsAccounted
  <2> QED
    BY <2>4, <2>5
<1>16. CASE Supersede(p)
  BY <1>1, <1>5, <1>7, <1>16, SupersedeEffect, SameIsAccounted DEF SameSets
<1>17. CASE SetAside(p)
  <2>1. PICK g \in Facts : g = This(p).fact
    BY <1>2, <1>17 DEF SetAside, AtItem
  <2>2. PICK i \in Item : /\ i = [This(p) EXCEPT !.verdict = "new"]
                         /\ i.verdict = "new" /\ i.fact = g
    <3>1. This(p) \in Item
      BY <1>2, <1>17 DEF SetAside, AtItem
    <3>2. /\ [This(p) EXCEPT !.verdict = "new"] \in Item
          /\ [This(p) EXCEPT !.verdict = "new"].verdict = "new"
          /\ [This(p) EXCEPT !.verdict = "new"].fact = This(p).fact
      BY <3>1 DEF Item, Verdict
    <3> QED
      BY <2>1, <3>2
  <2>3. /\ SameGoal(p) /\ SameSets(p) /\ job[p].todo # <<>>
        /\ job'[p].todo = Tail(job[p].todo) /\ job'[p].rest = Append(job[p].rest, i)
    BY <1>1, <1>17, <2>2, SetAsideEffect
  <2>4. Wanted(job[p].todo) \subseteq Wanted(job'[p].todo) \cup {g}
    BY <1>2, <2>1, <2>3, TailOfItems DEF This
  <2>5. Wanted(job[p].rest) \cup {g} \subseteq Wanted(job'[p].rest)
    BY <1>2, <2>2, <2>3, ItemAppended
  <2>6. \A f \in job[p].asked : Accounted(p, f) => Accounted(p, f)'
    BY <1>2, <1>5, <2>3, <2>4, <2>5 DEF Accounted, SameSets
  <2>7. KeptOf(p)'
    BY <2>3, <2>6 DEF KeptOf, MayDrop, SameGoal, SameSets
  <2> QED
    BY <1>7, <2>3, <2>7
<1>18. CASE BoundEnd(p) /\ ~Finish(p)
  <2>1. /\ SameGoal(p) /\ SameSets(p) /\ job[p].todo = <<>>
        /\ job'[p].todo = job[p].rest /\ job'[p].rest = <<>>
    BY <1>1, <1>18, BoundEndEffect
  <2>2. \A f \in job[p].asked : Accounted(p, f) => Accounted(p, f)'
    BY <1>2, <1>5, <2>1, NoItems DEF Accounted, SameSets
  <2>3. KeptOf(p)'
    BY <2>1, <2>2 DEF KeptOf, MayDrop, SameGoal, SameSets
  <2> QED
    BY <1>7, <2>1, <2>3
<1>19. CASE (LockTimesOut(p) \/ PublishFails(p)) /\ ~Finish(p)
  <2>1. /\ SameGoal(p) /\ SameSets(p) /\ job[p].op = "dream" /\ job[p].front = "cli"
    BY <1>1, <1>19, AppendFailsEffect DEF LockTimesOut, PublishFails
  <2>2. KeptOf(p)'
    BY <2>1 DEF KeptOf, MayDrop, SameGoal
  <2> QED
    BY <1>7, <2>1, <2>2
<1>20. CASE Publish(p)
  <2>1. OneLess(p) /\ SameGoal(p) /\ SameSets(p)
    BY <1>1, <1>20, PublishEffect
  <2>2. \A f \in Facts : f = This(p).fact => Stored(f)'
    BY <1>1, <1>20, PublishedIsStored
  <2>3. KeptOf(p)'
    BY <1>1, <1>5, <2>1, <2>2, PassedIsAccounted DEF SameSets
  <2> QED
    BY <1>7, <2>1, <2>3
<1>21. CASE Check(p) /\ ~Finish(p)
  <2>1. PICK g : g = queue[job[p].day][job[p].index]
    OBVIOUS
  <2>2. g \in Facts
    <3>1. job[p].day \in Days /\ job[p].index \in DOMAIN queue[job[p].day]
      BY <1>21 DEF Check, IInv, SignoffPath, PathOf, TypeInv, ControlOK, Job
    <3>2. queue[job[p].day] \in Seq(Facts)
      BY <1>1, <3>1 DEF FilesOK
    <3> QED
      BY <2>1, <3>1, <3>2, LenProperties, ElementOfSeq
  <2>3. /\ job'[p].known = job[p].known /\ g \notin Canonical
        /\ job'[p].asked = {g} /\ job'[p].new = Once({g})
    BY <1>1, <1>21, <2>1, CheckEffect
  <2>4. job'[p].new[g] > 0
    BY <2>2, <2>3 DEF Once
  <2>5. job[p].known = {}
    BY <1>1, <1>21 DEF Check, PathOf, EndOf
  <2>6. KeptOf(p)'
    BY <2>3, <2>4 DEF KeptOf, Accounted
  <2> QED
    BY <2>3, <2>5, <2>6 DEF KnownOf
<1>22. CASE Write(p)
  <2>1. \A f \in Facts : Group(p)[f] > 0 => (f \in Canonical)'
    BY <1>1, <1>22, WrittenIsCanonical
  <2>2. CASE job[p].lineage
    <3>1. PICK g \in Facts : g = This(p).fact
      BY <1>1, <1>2, <2>2 DEF ItemOf
    <3>2. /\ OneLess(p) /\ SameGoal(p) /\ job'[p].asked = job[p].asked
          /\ job'[p].new = job[p].new /\ job'[p].known = job[p].known \cup {g}
      BY <1>1, <1>22, <2>2, <3>1, WriteEffect
    <3>3. (g \in Canonical)'
      BY <2>1, <2>2, <3>1 DEF Group, Once
    <3>4. KnownOf(p)'
      BY <1>2, <1>4, <3>2, <3>3 DEF KnownOf
    <3>5. KeptOf(p)'
      BY <1>1, <1>5, <1>6, <3>1, <3>2, <3>3, PassedIsAccounted
    <3> QED
      BY <3>4, <3>5
  <2>3. CASE ~job[p].lineage
    <3>1. /\ SameGoal(p) /\ SameLists(p) /\ job'[p].asked = job[p].asked
          /\ job'[p].known = job[p].known /\ job'[p].new = Remaining(p)
      BY <1>1, <1>22, <2>3, WriteEffect
    <3>2. \A f \in Facts : job[p].new[f] > 0 => job'[p].new[f] > 0 \/ (f \in Canonical)'
      BY <2>1, <3>1 DEF Remaining
    <3>3. KnownOf(p)'
      BY <1>2, <1>4, <3>1, <3>2 DEF KnownOf
    <3>4. KeptOf(p)'
      BY <1>1, <1>5, <1>6, <3>1, <3>2, SameIsAccounted
    <3> QED
      BY <3>3, <3>4
  <2> QED
    BY <2>2, <2>3
<1>23. CASE EntryFails(p) \/ ReceiptFails(p) \/ Report(p) \/ Crash(p)
  BY <1>8, <1>23 DEF EntryFails, ReceiptFails, Report, Crash
<1> QED
  BY <1>8, <1>9, <1>10, <1>11, <1>12, <1>13, <1>14, <1>15, <1>16, <1>17, <1>18, <1>19, <1>20,
     <1>21, <1>22, <1>23 DEF Step

\* A command keeps its goal to its end; signoff learns at its check which fact
\* it is to write.
LEMMA GoalStep ==
    ASSUME TypeInv, NEW p \in Procs, ItemOf(p), PathOf(p), Step(p) \/ Crash(p)
    PROVE  \/ Finish(p)
           \/ SameGoal(p) /\ (job'[p].asked = job[p].asked \/ job[p].op = "signoff")
<1>1. ControlOK
  BY DEF TypeInv
<1>2. CASE ReadKnown(p) \/ ReadBodies(p) \/ Skip(p) \/ Collect(p) \/ Supersede(p) \/ SetAside(p)
           \/ BoundEnd(p)
  BY <1>1, <1>2, ReadEffects, SkipEffect, CollectEffect, SupersedeEffect, SetAsideEffect,
     BoundEndEffect DEF SameSets
<1>3. CASE Contest(p) \/ ReadQueue(p) \/ RouteEnd(p) \/ TakeLock(p) \/ WriteReceipt(p)
           \/ NextEntry(p) \/ Create(p)
  BY <1>1, <1>3, ContestEffect, ReadQueueEffect, QuietEffects, NextEntryEffect, CreateEffect
     DEF SameData, SameSets
<1>4. CASE LockTimesOut(p) \/ PublishFails(p) \/ Publish(p)
  BY <1>1, <1>4, AppendFailsEffect, PublishEffect DEF LockTimesOut, PublishFails, SameSets
<1>5. CASE Check(p) \/ Write(p)
  BY <1>1, <1>5, CheckEffect, WriteEffect DEF Check, PathOf
<1>6. CASE EntryFails(p) \/ ReceiptFails(p) \/ Report(p) \/ Crash(p)
  BY <1>6 DEF EntryFails, ReceiptFails, Report, Crash
<1> QED
  BY <1>2, <1>3, <1>4, <1>5, <1>6 DEF Step

FrontOf(p) == job[p].op = "dream" => job[p].front \in Fronts

AccountOf(p) == StageOf(p) /\ EndOf(p) /\ KnownOf(p) /\ KeptOf(p) /\ FrontOf(p)

Accounts == \A p \in Procs : AccountOf(p)

LEMMA FrontStep ==
    ASSUME TypeInv, NEW p \in Procs, ItemOf(p), PathOf(p), FrontOf(p),
           Start(p) \/ Step(p) \/ Crash(p)
    PROVE  FrontOf(p)'
<1>1. ControlOK /\ FilesOK
  BY DEF TypeInv
<1>2. CASE Start(p)
  <2>1. UNCHANGED <<pc, job>> => FrontOf(p)'
    BY DEF FrontOf
  <2> QED
    BY <1>1, <1>2, <2>1, StartEffect DEF FrontOf
<1>3. CASE Finish(p)
  BY <1>1, <1>3, FinishEffect DEF FrontOf
<1>4. CASE SameGoal(p)
  BY <1>4 DEF SameGoal, FrontOf
<1> QED
  BY <1>2, <1>3, <1>4, GoalStep

LEMMA AccountsStep ==
    ASSUME IInv, Accounts, [Next]_vars
    PROVE  Accounts'
<1>1. TypeInv /\ OwnFile /\ HasItem /\ SignoffPath /\ UnderLock /\ ControlOK
  BY DEF IInv, TypeInv
<1>2. \A f \in Facts : f \in Canonical => f \in Canonical'
  BY <1>1, CanonicalGrows
<1>3. \A f \in Facts : Stored(f) => Stored(f)'
  BY <1>1, StoredStays
<1>4. ASSUME NEW q \in Procs, pc'[q] = pc[q], job'[q] = job[q]
      PROVE  AccountOf(q)'
  <2>1. AccountOf(q) /\ job[q].known \subseteq Facts /\ job[q].asked \subseteq Facts
    BY <1>1, ListsTyped DEF Accounts
  <2>2. StageOf(q)' /\ EndOf(q)' /\ FrontOf(q)'
    BY <1>4, <2>1 DEF AccountOf, StageOf, BoundStage, MainStage, EndOf, FrontOf
  <2>3. KnownOf(q)'
    BY <1>2, <1>4, <2>1 DEF AccountOf, KnownOf
  <2>4. KeptOf(q)'
    BY <1>3, <1>4, <2>1 DEF AccountOf, KeptOf, MayDrop, Accounted
  <2> QED
    BY <2>2, <2>3, <2>4 DEF AccountOf
<1>5. ASSUME NEW p \in Procs, Start(p) \/ Step(p) \/ Crash(p)
      PROVE  Accounts'
  <2>1. AccountOf(p) /\ ItemOf(p) /\ PathOf(p)
    BY <1>1 DEF Accounts, HasItem, SignoffPath
  <2>2. AccountOf(p)'
    BY <1>1, <1>5, <2>1, StageStep, KeptStep, FrontStep DEF AccountOf
  <2>3. \A q \in Procs : q # p => AccountOf(q)'
    BY <1>1, <1>4, <1>5, OthersStay
  <2> QED
    BY <2>2, <2>3 DEF Accounts
<1>6. CASE UNCHANGED <<pc, job>>
  BY <1>4, <1>6 DEF Accounts
<1> QED
  BY <1>5, <1>6, WorldStays DEF Next, Finished

LEMMA AccountsHold == Spec => []Accounts
<1>1. Init => Accounts
  <2> SUFFICES ASSUME Init, NEW p \in Procs PROVE AccountOf(p)
    BY DEF Accounts
  <2>1. pc[p] = "idle" /\ job[p] = NoJob
    BY DEF Init
  <2> QED
    BY <2>1, NoItems
       DEF NoJob, AccountOf, StageOf, MainStage, EndOf, KnownOf, KeptOf, FrontOf
<1>2. IInv /\ Accounts /\ [Next]_vars => Accounts'
  BY AccountsStep
<1> QED
  BY <1>1, <1>2, InvariantHolds, PTL DEF Spec

LEMMA AllIsStoredAtTheEnd ==
    ASSUME TypeInv, HasItem, Accounts, NEW p \in Procs, pc[p] \in {"receipt", "done"}, ~MayDrop(p)
    PROVE  \A f \in job[p].asked : Stored(f)
<1>1. AccountOf(p) /\ ItemOf(p) /\ job[p].asked \subseteq Facts
  BY ListsTyped DEF Accounts, HasItem, TypeInv
<1>2. job[p].todo = <<>> /\ job[p].rest = <<>> /\ job[p].new = Nothing
  BY <1>1 DEF AccountOf, EndOf, ItemOf, StageOf, BoundStage, MainStage
<1>3. \A f \in Facts : job[p].new[f] = 0
  BY <1>2 DEF Nothing, Once
<1> QED
  BY <1>1, <1>2, <1>3, NoItems DEF AccountOf, KeptOf, Accounted

\* Of the commands that report success, only the CLI's dream --source can have
\* lost a fact.
ReportedUnlessDropped ==
    \A p \in Procs : pc[p] = "done" /\ ~MayDrop(p) => \A f \in job[p].asked : Stored(f)

\* For any number of commands, failures and kills: a command that reports
\* success has stored all it was asked to keep, unless it is the CLI's dream
\* --source, which throws the error of the queue away (main.rs).
THEOREM OnlyCliDreamDrops == Spec => []ReportedUnlessDropped
<1>1. IInv /\ Accounts => ReportedUnlessDropped
  BY AllIsStoredAtTheEnd DEF IInv, ReportedUnlessDropped
<1> QED
  BY <1>1, InvariantHolds, AccountsHold, PTL

\* So when dream --source is called through the MCP server only, every command
\* that reports success has stored all it was asked to keep.
THEOREM ReportsAreStored ==
    ASSUME "cli" \notin Fronts
    PROVE  Spec => []ReportedIsStored
<1>1. IInv /\ Accounts => ReportedIsStored
  <2> SUFFICES ASSUME IInv, Accounts, NEW p \in Procs, pc[p] = "done"
               PROVE  \A f \in job[p].asked : Stored(f)
    BY DEF ReportedIsStored
  <2>1. ~MayDrop(p)
    BY DEF Accounts, AccountOf, FrontOf, MayDrop
  <2> QED
    BY <2>1, AllIsStoredAtTheEnd DEF IInv
<1> QED
  BY <1>1, InvariantHolds, AccountsHold, PTL

-----------------------------------------------------------------------------
(* The receipt of a promotion. *)

\* The text a promotion works from is the one in the staging file.
PromotesText(p) ==
    job[p].op = "promote" =>
        \E b \in Batches :
            job[p].batch = b /\ job[p].asked = AskedOf(Audit[b][staged[b].text])

Receipts == (\A p \in Procs : PromotesText(p)) /\ ReceiptMeansApplied

LEMMA TextStays ==
    ASSUME EditsRace = FALSE, TypeInv, [Next]_vars,
           NEW p \in Procs, NEW b \in Batches, job[p].batch = b
    PROVE  staged'[b].text = staged[b].text
<1>1. staged \in [Batches -> [text : Versions, audited : Versions, receipt : Versions \cup {0}]]
  BY DEF TypeInv, FilesOK
<1>2. ASSUME NEW c \in Batches, EditStaged(c)
      PROVE  staged'[b].text = staged[b].text
  BY <1>1, <1>2 DEF EditStaged
<1>3. ASSUME NEW c \in Batches, Reaudit(c)
      PROVE  staged'[b].text = staged[b].text
  BY <1>1, <1>3 DEF Reaudit
<1>4. ASSUME NEW q \in Procs, WriteReceipt(q)
      PROVE  staged'[b].text = staged[b].text
  BY <1>1, <1>4 DEF WriteReceipt
<1>5. ASSUME NEW q \in Procs, Start(q) \/ Step(q) \/ Crash(q), ~WriteReceipt(q)
      PROVE  UNCHANGED staged
  BY <1>5 DEF Start, StartConsolidate, StartDream, StartPromote, StartSignoff, Step,
     ReadKnown, ReadBodies, Skip, Contest, Collect, Supersede, SetAside, BoundEnd,
     RouteEnd, TakeLock, LockTimesOut, ReadQueue, Publish, PublishFails, Check,
     NextEntry, Create, Write, EntryFails, ReceiptFails, Report, Crash
<1>6. Midnight \/ UNCHANGED vars => UNCHANGED staged
  BY DEF Midnight, vars
<1> QED
  BY <1>2, <1>3, <1>4, <1>5, <1>6 DEF Next, Finished

LEMMA ReceiptsChange ==
    ASSUME TypeInv, HasItem, [Next]_vars, NEW b \in Batches
    PROVE  \/ staged'[b].receipt = staged[b].receipt
           \/ \E p \in Procs : /\ pc[p] = "receipt" /\ job[p].op = "promote" /\ job[p].batch = b
                               /\ staged'[b].receipt = staged[b].text
<1>1. staged \in [Batches -> [text : Versions, audited : Versions, receipt : Versions \cup {0}]]
  BY DEF TypeInv, FilesOK
<1>2. ASSUME NEW c \in Batches, EditStaged(c) \/ Reaudit(c)
      PROVE  staged'[b].receipt = staged[b].receipt
  BY <1>1, <1>2 DEF EditStaged, Reaudit
<1>3. ASSUME NEW p \in Procs, WriteReceipt(p)
      PROVE  \/ staged'[b].receipt = staged[b].receipt
             \/ /\ pc[p] = "receipt" /\ job[p].op = "promote" /\ job[p].batch = b
                /\ staged'[b].receipt = staged[b].text
  BY <1>1, <1>3 DEF WriteReceipt, HasItem, ItemOf
<1>4. ASSUME NEW q \in Procs, Start(q) \/ Step(q) \/ Crash(q), ~WriteReceipt(q)
      PROVE  UNCHANGED staged
  BY <1>4 DEF Start, StartConsolidate, StartDream, StartPromote, StartSignoff, Step,
     ReadKnown, ReadBodies, Skip, Contest, Collect, Supersede, SetAside, BoundEnd,
     RouteEnd, TakeLock, LockTimesOut, ReadQueue, Publish, PublishFails, Check,
     NextEntry, Create, Write, EntryFails, ReceiptFails, Report, Crash
<1>5. Midnight \/ UNCHANGED vars => UNCHANGED staged
  BY DEF Midnight, vars
<1> QED
  BY <1>2, <1>3, <1>4, <1>5 DEF Next, Finished

LEMMA ReceiptsStep ==
    ASSUME EditsRace = FALSE, IInv, Accounts, Receipts, [Next]_vars
    PROVE  Receipts'
<1>1. TypeInv /\ OwnFile /\ HasItem /\ SignoffPath /\ UnderLock /\ ControlOK /\ FilesOK
  BY DEF IInv, TypeInv
<1>2. \A f \in Facts : Stored(f) => Stored(f)'
  BY <1>1, StoredStays
<1>3. ASSUME NEW q \in Procs, SameGoal(q), job'[q].asked = job[q].asked
      PROVE  PromotesText(q)'
  <2> SUFFICES ASSUME job'[q].op = "promote"
               PROVE  \E b \in Batches : job'[q].batch = b
                                         /\ job'[q].asked = AskedOf(Audit[b][staged'[b].text])
    BY DEF PromotesText
  <2>1. PICK b \in Batches : job[q].batch = b /\ job[q].asked = AskedOf(Audit[b][staged[b].text])
    BY <1>3 DEF Receipts, PromotesText, SameGoal
  <2>2. staged'[b].text = staged[b].text
    BY <1>1, <2>1, TextStays
  <2> QED
    BY <1>3, <2>1, <2>2 DEF SameGoal
<1>4. ASSUME NEW q \in Procs, job'[q] = job[q]
      PROVE  PromotesText(q)'
  BY <1>3, <1>4, SameJob DEF SameData, SameSets
<1>5. ASSUME NEW p \in Procs, Start(p) \/ Step(p) \/ Crash(p)
      PROVE  PromotesText(p)'
  <2>1. CASE Start(p)
    <3>1. UNCHANGED staged
      BY <2>1 DEF Start, StartConsolidate, StartDream, StartPromote, StartSignoff
    <3>2. CASE UNCHANGED <<pc, job>>
      BY <1>4, <3>2
    <3>3. CASE ~UNCHANGED <<pc, job>>
      BY <1>1, <2>1, <3>1, <3>3, StartEffect DEF PromotesText
    <3> QED
      BY <3>2, <3>3
  <2>2. CASE Finish(p)
    BY <1>1, <2>2, FinishEffect DEF PromotesText
  <2>3. CASE SameGoal(p) /\ job[p].op = "signoff"
    BY <2>3 DEF PromotesText, SameGoal
  <2> QED
    BY <1>1, <1>3, <1>5, <2>1, <2>2, <2>3, GoalStep DEF HasItem, SignoffPath
<1>6. \A p \in Procs : PromotesText(p)'
  <2>1. ASSUME NEW p \in Procs, Start(p) \/ Step(p) \/ Crash(p), NEW q \in Procs
        PROVE  PromotesText(q)'
    BY <1>1, <1>4, <1>5, <2>1, OthersStay
  <2>2. CASE UNCHANGED job
    BY <1>4, <2>2
  <2> QED
    BY <2>1, <2>2, WorldStays DEF Next, Finished
<1>7. ReceiptMeansApplied'
  <2> SUFFICES ASSUME NEW b \in Batches, staged'[b].receipt # 0,
                      NEW f \in AskedOf(Audit[b][staged'[b].receipt])
               PROVE  Stored(f)'
    BY DEF ReceiptMeansApplied
  <2>1. f \in Facts
    <3>1. staged'[b].receipt \in Versions
      <4>1. staged' \in [Batches -> [text : Versions, audited : Versions,
                                     receipt : Versions \cup {0}]]
        BY NextIInv DEF IInv, TypeInv, FilesOK
      <4> QED
        BY <4>1
    <3>2. Audit[b][staged'[b].receipt] \in Seq(Item)
      BY <3>1, MemoryAssumption
    <3>3. PICK s : s = Audit[b][staged'[b].receipt]
      OBVIOUS
    <3>4. PICK i \in DOMAIN s : f = s[i].fact
      BY <3>3 DEF AskedOf
    <3>5. s[i] \in Item
      BY <3>2, <3>3, <3>4, LenProperties, ElementOfSeq
    <3> QED
      BY <3>4, <3>5 DEF Item
  <2>2. CASE staged'[b].receipt = staged[b].receipt
    BY <1>2, <2>1, <2>2 DEF Receipts, ReceiptMeansApplied
  <2>3. ASSUME NEW p \in Procs, pc[p] = "receipt", job[p].op = "promote", job[p].batch = b,
               staged'[b].receipt = staged[b].text
        PROVE  Stored(f)'
    <3>1. job[p].asked = AskedOf(Audit[b][staged[b].text])
      BY <2>3 DEF Receipts, PromotesText
    <3>2. Stored(f)
      BY <1>1, <2>3, <3>1, AllIsStoredAtTheEnd DEF MayDrop
    <3> QED
      BY <1>2, <2>1, <3>2
  <2> QED
    BY <1>1, <2>2, <2>3, ReceiptsChange
<1> QED
  BY <1>6, <1>7 DEF Receipts

\* When nobody edits a staging file while it is promoted, a receipt means that
\* everything its audit promoted or disputed is stored (dream.rs:561), for any
\* number of promotions at a time, cut short or repeated.
THEOREM ReceiptIsWrittenLast ==
    ASSUME EditsRace = FALSE
    PROVE  Spec => []ReceiptMeansApplied
<1>1. Init => Receipts
  <2> SUFFICES ASSUME Init PROVE Receipts
    OBVIOUS
  <2>1. \A p \in Procs : job[p].op = "none"
    BY DEF Init, NoJob
  <2>2. \A b \in Batches : staged[b].receipt = 0
    BY DEF Init
  <2> QED
    BY <2>1, <2>2 DEF Receipts, PromotesText, ReceiptMeansApplied
<1>2. IInv /\ Accounts /\ Receipts /\ [Next]_vars => Receipts'
  BY ReceiptsStep
<1>3. Receipts => ReceiptMeansApplied
  BY DEF Receipts
<1> QED
  BY <1>1, <1>2, <1>3, InvariantHolds, AccountsHold, PTL DEF Spec

-----------------------------------------------------------------------------
(* One command at a time. *)

Alone == \A p, q \in Procs : pc[p] # "idle" /\ pc[q] # "idle" => p = q

\* What there is of entries after a step of a command.
LEMMA NewEntry ==
    ASSUME TypeInv, OwnFile, NEW p \in Procs, Start(p) \/ Step(p) \/ Crash(p),
           NEW d \in Days, NEW n \in DOMAIN entries'[d]
    PROVE  \/ n \in DOMAIN entries[d] /\ entries'[d][n] = entries[d][n]
           \/ entries'[d][n] = Unwritten
           \/ /\ Write(p) /\ entries'[d][n] = Content(p)
              /\ d = job[p].date /\ n = job[p].slot
<1>1. FileOf(p) /\ ControlOK
  BY DEF OwnFile, TypeInv
<1>2. CASE Create(p) /\ pc'[p] = "write"
  <2>1. PICK e, s : e = job[p].date /\ s = job[p].slot
    OBVIOUS
  <2>2. e \in Days /\ Len(entries[e]) \in Nat /\ DOMAIN entries[e] = 1..Len(entries[e])
    BY <2>1, LenProperties DEF TypeInv, FilesOK, ControlOK, Job
  <2>3. /\ s = Len(entries[e]) + 1 /\ entries'[e][s] = Unwritten
        /\ entries'[e] \in Seq(Entry) /\ Len(entries'[e]) = Len(entries[e]) + 1
        /\ \A c \in Days : \A m \in DOMAIN entries[c] : entries'[c][m] = entries[c][m]
        /\ \A c \in Days : c # e => entries'[c] = entries[c]
    BY <1>1, <1>2, <2>1, NewFile
  <2>4. DOMAIN entries'[e] = 1..(Len(entries[e]) + 1)
    BY <2>3, LenProperties
  <2>5. d # e => n \in DOMAIN entries[d]
    BY <2>3
  <2>6. d = e /\ n # s => n \in DOMAIN entries[d]
    BY <2>2, <2>3, <2>4
  <2> QED
    BY <2>3, <2>5, <2>6
<1>3. CASE Write(p)
  BY <1>1, <1>3, OwnFileWritten
<1>4. CASE UNCHANGED entries
  BY <1>4
<1> QED
  BY <1>1, <1>2, <1>3, <1>4, OnlyWritersWrite, RetryKeepsEntries

\* What its own steps add to the store is what a command writes.
LEMMA CanonicalChange ==
    ASSUME TypeInv, OwnFile, NEW p \in Procs, Start(p) \/ Step(p) \/ Crash(p), NEW f,
           (f \in Canonical)'
    PROVE  f \in Canonical \/ (Write(p) /\ f \in Facts /\ Group(p)[f] > 0)
<1>1. PICK d \in Days : \E n \in DOMAIN entries'[d] : f \in Facts /\ entries'[d][n].facts[f] > 0
  BY DEF Canonical, Holds
<1>2. PICK n \in DOMAIN entries'[d] : f \in Facts /\ entries'[d][n].facts[f] > 0
  BY <1>1
<1>3. entries'[d][n] # Unwritten
  BY <1>2, HeldIsWritten DEF Holds
<1>4. entries'[d][n] = Content(p) => entries'[d][n].facts = Group(p)
  BY DEF Content
<1> QED
  BY <1>2, <1>3, <1>4, NewEntry DEF Canonical, Holds

\* No fact in hand is in the store, and none is in hand twice: past its read of
\* the store a command knows all that is there.
UniqueOf(p) ==
    /\ \A f \in Facts : job[p].new[f] <= 1 /\ (job[p].new[f] > 0 => f \notin Canonical)
    /\ job[p].op # "signoff" => \A f \in Facts : job[p].new[f] > 0 => f \in job[p].known
    /\ pc[p] = "known" \/ BoundStage(p) => job[p].new = Nothing
    /\ /\ job[p].op # "signoff" /\ ~BoundStage(p)
       /\ pc[p] \in {"seen", "route", "lock", "append", "publish", "next", "create", "write"}
       => Canonical \subseteq job[p].known
    /\ job[p].lineage => This(p).fact \notin job[p].known

\* What the two stages of a dream do not share.
LEMMA Stages ==
    ASSUME ControlOK, NEW p \in Procs, StageOf(p)
    PROVE  /\ pc[p] = "bound" => BoundStage(p)
           /\ pc[p] \in {"idle", "known", "seen", "route", "check", "next", "create", "write"}
                 => ~BoundStage(p)
           /\ job[p].todo # <<>> /\ BoundStage(p) => This(p).verdict = "distilled"
           /\ job[p].todo # <<>> /\ ~BoundStage(p) => This(p).verdict # "distilled"
<1>1. job[p].todo \in Seq(Item)
  BY ListsTyped
<1>2. job[p].todo # <<>> => This(p).verdict \in Verdicts(job[p].todo)
  BY <1>1, TailOfItems DEF This
<1> QED
  BY <1>2 DEF StageOf, BoundStage, MainStage

LEMMA UniqueStep ==
    ASSUME IInv, Accounts, NEW p \in Procs, Start(p) \/ Step(p) \/ Crash(p),
           pc[p] # "idle" => UniqueOf(p), pc'[p] # "idle"
    PROVE  UniqueOf(p)'
<1>1. /\ TypeInv /\ FilesOK /\ ControlOK /\ OwnFile /\ ItemOf(p) /\ PathOf(p)
      /\ StageOf(p) /\ EndOf(p)
  BY DEF IInv, TypeInv, HasItem, SignoffPath, Accounts, AccountOf
<1>2. StageOf(p)' /\ ControlOK' /\ TypeInv'
  <2>1. [Next]_vars
    BY DEF Next
  <2> QED
    BY <1>1, <2>1, StageStep, NextIInv DEF IInv, TypeInv
<1>3. /\ job[p].todo \in Seq(Item) /\ job[p].new \in Tally /\ job[p].known \subseteq Facts
      /\ job[p].lineage \in BOOLEAN
      /\ job[p].todo # <<>> => /\ This(p) \in Item /\ This(p).fact \in Facts
                               /\ This(p).verdict \in Verdict
  BY <1>1, ListsTyped
<1>4. \A f \in Facts : Nothing[f] = 0
  BY DEF Nothing, Once
<1>5. ~Finish(p)
  BY <1>1, FinishEffect
<1>6. ASSUME ~Write(p) PROVE Canonical' \subseteq Canonical
  BY <1>1, <1>6, CanonicalChange
<1>7. /\ pc[p] = "bound" => BoundStage(p)
      /\ pc[p] \in {"known", "seen", "route", "check", "next", "create", "write"}
            => ~BoundStage(p)
      /\ job[p].todo # <<>> /\ BoundStage(p) => This(p).verdict = "distilled"
      /\ job[p].todo # <<>> /\ ~BoundStage(p) => This(p).verdict # "distilled"
  BY <1>1, Stages
<1>8. /\ pc'[p] = "bound" => BoundStage(p)'
      /\ pc'[p] \in {"known", "seen", "route", "check", "next", "create", "write"}
            => ~BoundStage(p)'
  BY <1>2 DEF StageOf, BoundStage, MainStage
\* As long as nothing is written, the facts in hand do not change, and the
\* stage does not, there is nothing to show.
<1>9. ASSUME pc[p] # "idle", ~Write(p), SameGoal(p), SameSets(p), ~job'[p].lineage,
             pc'[p] = "known" \/ BoundStage(p)' => BoundStage(p),
             /\ job'[p].op # "signoff" /\ ~BoundStage(p)'
             /\ pc'[p] \in {"seen", "route", "lock", "append", "publish", "next", "create",
                            "write"}
             => /\ job[p].op # "signoff" /\ ~BoundStage(p)
                /\ pc[p] \in {"seen", "route", "lock", "append", "publish", "next", "create",
                              "write"}
      PROVE  UniqueOf(p)'
  BY <1>3, <1>6, <1>9 DEF UniqueOf, SameGoal, SameSets
<1>10. CASE Start(p)
  BY <1>1, <1>4, <1>10, StartEffect DEF Started, UniqueOf, BoundStage
<1>11. CASE ReadKnown(p)
  <2>1. /\ pc[p] = "known" /\ pc'[p] = "seen" /\ SameGoal(p) /\ SameLineage(p)
        /\ job'[p].known = Canonical /\ job'[p].new = job[p].new
    BY <1>1, <1>11, ReadEffects
  <2>2. UniqueOf(p) /\ ~job[p].lineage /\ job[p].new = Nothing
    BY <1>1, <2>1 DEF UniqueOf, ItemOf
  <2>3. Canonical' \subseteq job'[p].known
    BY <1>6, <1>11, <2>1 DEF ReadKnown, Write
  <2> QED
    BY <1>4, <1>8, <2>1, <2>2, <2>3 DEF UniqueOf, SameGoal, SameLineage
<1>12. CASE ReadBodies(p)
  <2>1. /\ pc[p] = "seen" /\ pc'[p] = "route" /\ SameGoal(p) /\ SameSets(p)
        /\ job'[p].lineage = job[p].lineage
    BY <1>1, <1>12, ReadEffects
  <2>2. ~job[p].lineage /\ ~Write(p)
    BY <1>1, <2>1 DEF ItemOf, Write
  <2> QED
    BY <1>7, <1>8, <1>9, <2>1, <2>2 DEF SameGoal
<1>13. CASE Skip(p) \/ SetAside(p)
  <2>1. /\ pc'[p] = pc[p] /\ pc[p] \in {"bound", "route"} /\ SameGoal(p) /\ SameSets(p)
        /\ SameLineage(p)
    BY <1>1, <1>13, SkipEffect, SetAsideEffect DEF Skip, SetAside, AtItem
  <2>2. ~job[p].lineage /\ ~Write(p)
    BY <1>1, <2>1 DEF ItemOf, Write
  <2> QED
    BY <1>7, <1>8, <1>9, <2>1, <2>2 DEF SameGoal, SameLineage
<1>14. CASE Collect(p)
  <2>1. PICK g \in Facts : g = This(p).fact
    BY <1>3, <1>14 DEF Collect, AtItem
  <2>2. /\ pc[p] = "route" /\ pc'[p] = "route"
        /\ job[p].op # "signoff" /\ ~job[p].lineage /\ ~Write(p)
    BY <1>1, <1>7, <1>14, CollectEffect DEF Collect, AtItem, PathOf, ItemOf, Write
  <2>3. g \notin job[p].known
    BY <1>14, <2>1 DEF Collect, Skips
  <2>4. /\ SameGoal(p) /\ SameLineage(p) /\ job'[p].known = job[p].known \cup {g}
        /\ job'[p].new = [job[p].new EXCEPT ![g] = @ + 1]
    BY <1>1, <1>14, <2>1, CollectEffect
  <2>5. UniqueOf(p) /\ Canonical \subseteq job[p].known
    BY <1>7, <2>2 DEF UniqueOf
  <2>6. job[p].new[g] = 0
    BY <1>3, <2>1, <2>2, <2>3, <2>5 DEF UniqueOf, Tally
  <2>7. job'[p].new[g] = 1 /\ \A f \in Facts : f # g => job'[p].new[f] = job[p].new[f]
    BY <1>3, <2>1, <2>4, <2>6 DEF Tally
  <2>8. Canonical' \subseteq Canonical
    BY <1>6, <2>2
  <2>9. \A f \in Facts : /\ job'[p].new[f] <= 1
                         /\ job'[p].new[f] > 0 => f \notin Canonical' /\ f \in job'[p].known
    BY <2>2, <2>3, <2>4, <2>5, <2>7, <2>8 DEF UniqueOf
  <2> QED
    BY <1>8, <2>2, <2>4, <2>5, <2>8, <2>9 DEF UniqueOf, SameLineage
<1>15. CASE Supersede(p)
  <2>1. /\ SameGoal(p) /\ SameLists(p) /\ SameSets(p) /\ pc'[p] = "next"
    BY <1>1, <1>15, SupersedeEffect
  <2>2. pc[p] = "route" /\ ~Write(p) /\ job[p].todo # <<>>
    BY <1>7, <1>15 DEF Supersede, AtItem, Write
  <2>3. This(p).fact \notin job[p].known
    BY <1>15 DEF Supersede, Skips
  <2>4. This(p)' = This(p)
    BY <2>1 DEF This, SameLists
  <2>5. Canonical' \subseteq Canonical
    BY <1>6, <2>2
  <2>6. UniqueOf(p) /\ ~BoundStage(p) /\ ~BoundStage(p)'
    BY <1>7, <1>8, <2>1, <2>2
  <2> QED
    BY <2>1, <2>2, <2>3, <2>4, <2>5, <2>6 DEF UniqueOf, SameGoal, SameSets
<1>16. CASE BoundEnd(p)
  <2>1. /\ SameGoal(p) /\ SameSets(p) /\ SameLineage(p) /\ pc[p] = "bound" /\ pc'[p] = "known"
    BY <1>1, <1>5, <1>16, BoundEndEffect
  <2>2. ~job[p].lineage /\ ~Write(p)
    BY <1>1, <2>1 DEF ItemOf, Write
  <2> QED
    BY <1>7, <1>8, <1>9, <2>1, <2>2 DEF SameLineage
<1>17. CASE RouteEnd(p) \/ WriteReceipt(p)
  <2>1. /\ SameData(p) /\ pc[p] \in {"route", "receipt"} /\ pc'[p] \in {"next", "receipt", "done"}
        /\ pc'[p] = "next" => pc[p] = "route"
    BY <1>1, <1>17, QuietEffects
  <2>2. ~job[p].lineage /\ ~Write(p)
    BY <1>1, <2>1 DEF ItemOf, Write
  <2>3. ~BoundStage(p)'
    BY <2>1 DEF BoundStage
  <2> QED
    BY <1>7, <1>9, <2>1, <2>2, <2>3 DEF SameData, SameGoal, SameLineage
<1>18. CASE Contest(p) \/ TakeLock(p) \/ ReadQueue(p)
  <2>1. /\ SameData(p) /\ pc'[p] \in {"lock", "append", "publish", "check"}
        /\ pc[p] \in {"bound", "route", "lock", "append"}
        /\ pc'[p] = "check" => job[p].op = "signoff"
    BY <1>1, <1>18, ContestEffect, QuietEffects, ReadQueueEffect
       DEF Contest, AtItem, TakeLock, ReadQueue
  <2>2. ~job[p].lineage /\ ~Write(p)
    BY <1>1, <2>1 DEF ItemOf, Write
  <2>3. job[p].op = "dream" => job[p].todo # <<>>
    BY <1>1, <1>18 DEF ItemOf, Contest, AtItem, TakeLock, ReadQueue
  <2>4. BoundStage(p) => BoundStage(p)'
    BY <2>1 DEF BoundStage, SameData, SameGoal, SameLists
  <2>5. BoundStage(p)' => BoundStage(p)
    <3> SUFFICES ASSUME BoundStage(p)' PROVE BoundStage(p)
      OBVIOUS
    <3>1. job[p].op = "dream" /\ Verdicts(job[p].todo) \subseteq {"distilled"}
      BY <2>1 DEF BoundStage, SameData, SameGoal, SameLists
    <3>2. This(p).verdict \in Verdicts(job[p].todo)
      BY <1>3, <2>3, <3>1, TailOfItems DEF This
    <3> QED
      BY <1>7, <2>3, <3>1, <3>2
  <2> QED
    BY <1>7, <1>9, <2>1, <2>2, <2>4, <2>5 DEF SameData, SameGoal, SameLineage
<1>19. CASE LockTimesOut(p) \/ PublishFails(p)
  <2>1. /\ SameGoal(p) /\ SameSets(p) /\ SameLineage(p) /\ pc'[p] = "bound"
        /\ This(p).verdict = "distilled" /\ job[p].todo # <<>>
        /\ pc[p] \in {"lock", "publish"}
    BY <1>1, <1>5, <1>19, AppendFailsEffect DEF LockTimesOut, PublishFails, OneLess
  <2>2. ~job[p].lineage /\ ~Write(p)
    BY <1>1, <2>1 DEF ItemOf, Write
  <2> QED
    BY <1>7, <1>9, <2>1, <2>2 DEF SameLineage
<1>20. CASE Publish(p)
  <2>1. /\ OneLess(p) /\ SameGoal(p) /\ SameSets(p) /\ SameLineage(p) /\ pc[p] = "publish"
        /\ pc'[p] = IF This(p).verdict = "distilled" THEN "bound" ELSE "route"
    BY <1>1, <1>20, PublishEffect DEF Publish
  <2>2. ~job[p].lineage /\ ~Write(p)
    BY <1>1, <2>1 DEF ItemOf, Write
  <2> QED
    BY <1>7, <1>8, <1>9, <2>1, <2>2 DEF SameGoal, SameLineage, OneLess
<1>21. CASE Check(p)
  <2>1. PICK g : g = queue[job[p].day][job[p].index]
    OBVIOUS
  <2>2. /\ SameGoal(p) /\ SameLineage(p) /\ pc'[p] = "next"
        /\ g \notin Canonical /\ job'[p].new = Once({g})
    BY <1>1, <1>5, <1>21, <2>1, CheckEffect
  <2>3. job[p].op = "signoff" /\ ~job[p].lineage /\ ~Write(p)
    BY <1>1, <1>21 DEF Check, PathOf, ItemOf, Write
  <2>4. Canonical' \subseteq Canonical
    BY <1>6, <2>3
  <2>5. \A f \in Facts : job'[p].new[f] <= 1 /\ (job'[p].new[f] > 0 => f = g)
    BY <2>2 DEF Once
  <2> QED
    BY <1>8, <2>2, <2>3, <2>4, <2>5 DEF UniqueOf, SameGoal, SameLineage
<1>22. CASE NextEntry(p) \/ Create(p)
  <2>1. /\ SameData(p) /\ pc[p] \in {"next", "create"} /\ pc'[p] \in {"create", "write"}
    BY <1>1, <1>5, <1>22, NextEntryEffect, CreateEffect
  <2>2. Canonical' \subseteq Canonical
    BY <1>6, <2>1 DEF Write
  <2>3. This(p)' = This(p)
    BY <2>1 DEF This, SameData, SameLists
  <2>4. UniqueOf(p) /\ ~BoundStage(p) /\ ~BoundStage(p)'
    BY <1>7, <1>8, <2>1
  <2> QED
    BY <2>1, <2>2, <2>3, <2>4 DEF UniqueOf, SameData, SameGoal, SameSets, SameLineage
<1>23. CASE Write(p)
  <2>1. pc[p] = "write" /\ ~BoundStage(p) /\ UniqueOf(p)
    BY <1>7, <1>23 DEF Write
  <2>2. \A f \in Canonical' : f \in Canonical \/ (f \in Facts /\ Group(p)[f] > 0)
    BY <1>1, CanonicalChange
  <2>3. CASE job[p].lineage
    <3>1. PICK g \in Facts : g = This(p).fact
      BY <1>1, <1>3, <2>3 DEF ItemOf
    <3>2. /\ ~job'[p].lineage /\ pc'[p] = "route" /\ SameGoal(p) /\ job'[p].new = job[p].new
          /\ job'[p].known = job[p].known \cup {g}
      BY <1>1, <1>23, <2>3, <3>1, WriteEffect
    <3>3. \A f \in Canonical' : f \in Canonical \/ f = g
      <4>1. Group(p) = Once({g})
        BY <2>3, <3>1 DEF Group
      <4>2. \A f \in Facts : Group(p)[f] > 0 => f = g
        BY <4>1 DEF Once
      <4> QED
        BY <2>2, <4>2
    <3>4. g \notin job[p].known /\ job[p].op # "signoff" /\ Canonical \subseteq job[p].known
      BY <1>1, <2>1, <2>3, <3>1 DEF UniqueOf, ItemOf
    <3>5. \A f \in Facts : job'[p].new[f] > 0 => f \notin Canonical'
      BY <2>1, <3>2, <3>3, <3>4 DEF UniqueOf
    <3> QED
      BY <1>8, <2>1, <3>2, <3>3, <3>4, <3>5 DEF UniqueOf, SameGoal
  <2>4. CASE ~job[p].lineage
    <3>1. /\ SameGoal(p) /\ SameLineage(p) /\ job'[p].known = job[p].known
          /\ job'[p].new = Remaining(p) /\ pc'[p] \in {"next", "receipt", "done"}
      BY <1>1, <1>23, <2>4, WriteEffect
    <3>2. \A f \in Facts :
             /\ job'[p].new[f] > 0 => job'[p].new[f] = job[p].new[f] /\ ~(Group(p)[f] > 0)
             /\ job'[p].new[f] <= 1
      BY <1>3, <2>1, <3>1 DEF Remaining, UniqueOf
    <3>3. \A f \in Facts : Group(p)[f] > 0 => job[p].new[f] > 0
      BY <2>4 DEF Group
    <3>4. \A f \in Facts : job'[p].new[f] > 0 => f \notin Canonical'
      BY <2>1, <2>2, <3>2 DEF UniqueOf
    <3>5. job[p].op # "signoff" => Canonical' \subseteq job'[p].known
      BY <2>1, <2>2, <3>1, <3>3 DEF UniqueOf
    <3>6. ~BoundStage(p)'
      BY <3>1 DEF BoundStage
    <3> QED
      BY <2>1, <2>4, <3>1, <3>2, <3>4, <3>5, <3>6 DEF UniqueOf, SameGoal, SameLineage
  <2> QED
    BY <2>3, <2>4
<1>24. CASE EntryFails(p) \/ ReceiptFails(p) \/ Report(p) \/ Crash(p)
  BY <1>5, <1>24 DEF EntryFails, ReceiptFails, Report, Crash
<1> QED
  BY <1>10, <1>11, <1>12, <1>13, <1>14, <1>15, <1>16, <1>17, <1>18, <1>19, <1>20, <1>21, <1>22,
     <1>23, <1>24 DEF Step

-----------------------------------------------------------------------------
(* Lineage. *)

\* What a command calls a better wording of something, it calls so of another
\* fact that is in the store.
LiveOf(p) ==
    /\ job[p].seen \subseteq Canonical
    /\ job[p].lineage => This(p).old \in job[p].seen /\ This(p).old # This(p).fact

\* Only what is in the store is superseded.
Lineages == (\A p \in Procs : LiveOf(p)) /\ Superseded \subseteq Canonical

LEMMA LiveStep ==
    ASSUME IInv, NEW p \in Procs, Start(p) \/ Step(p) \/ Crash(p), LiveOf(p)
    PROVE  LiveOf(p)'
<1>1. TypeInv /\ FilesOK /\ ControlOK /\ OwnFile /\ ItemOf(p) /\ PathOf(p) /\ [Next]_vars
  BY DEF IInv, TypeInv, HasItem, SignoffPath, Next
<1>2. Canonical \subseteq Canonical'
  BY <1>1, CanonicalGrows
<1>3. ASSUME job'[p].seen = job[p].seen, ~job'[p].lineage PROVE LiveOf(p)'
  BY <1>2, <1>3 DEF LiveOf
<1>4. ASSUME SameLists(p), SameLineage(p) PROVE LiveOf(p)'
  BY <1>2, <1>4 DEF LiveOf, SameLists, SameLineage, This
<1>5. CASE Finish(p)
  BY <1>1, <1>5, FinishEffect DEF LiveOf
<1>6. CASE Start(p)
  <2>1. UNCHANGED <<pc, job>> => LiveOf(p)'
    BY <1>4, SameJob DEF SameData
  <2> QED
    BY <1>1, <1>6, <2>1, StartEffect DEF Started, LiveOf
<1>7. CASE ReadKnown(p) \/ Contest(p) \/ ReadQueue(p) \/ RouteEnd(p) \/ TakeLock(p)
           \/ WriteReceipt(p) \/ NextEntry(p)
  BY <1>1, <1>4, <1>7, ReadEffects, ContestEffect, ReadQueueEffect, QuietEffects, NextEntryEffect
     DEF SameData
<1>8. CASE Create(p) \/ Check(p)
  BY <1>1, <1>4, <1>5, <1>8, CreateEffect, CheckEffect DEF SameData
<1>9. CASE ReadBodies(p)
  <2>1. job'[p].seen = Canonical /\ job'[p].lineage = job[p].lineage /\ pc[p] = "seen"
    BY <1>1, <1>9, ReadEffects
  <2> QED
    BY <1>1, <1>2, <2>1 DEF LiveOf, ItemOf
<1>10. CASE Skip(p) \/ Collect(p) \/ SetAside(p) \/ BoundEnd(p) \/ Publish(p)
            \/ LockTimesOut(p) \/ PublishFails(p)
  <2>1. pc[p] \in {"bound", "route", "lock", "publish"}
    BY <1>10 DEF Skip, Collect, SetAside, AtItem, BoundEnd, Publish, LockTimesOut, PublishFails
  <2>2. ~job[p].lineage
    BY <1>1, <2>1 DEF ItemOf
  <2>3. Finish(p) \/ SameLineage(p)
    BY <1>1, <1>10, SkipEffect, CollectEffect, SetAsideEffect, BoundEndEffect, PublishEffect,
       AppendFailsEffect DEF LockTimesOut, PublishFails
  <2> QED
    BY <1>3, <1>5, <2>2, <2>3 DEF SameLineage
<1>11. CASE Supersede(p)
  <2>1. /\ SameLists(p) /\ job'[p].seen = job[p].seen
        /\ This(p).verdict = "duplicate" /\ ~Skips(p)
    BY <1>1, <1>11, SupersedeEffect DEF Supersede
  <2>2. This(p).old \in job[p].seen /\ This(p).old # This(p).fact
    BY <2>1 DEF Skips
  <2> QED
    BY <1>2, <2>1, <2>2 DEF LiveOf, SameLists, This
<1>12. CASE Write(p)
  BY <1>1, <1>3, <1>4, <1>12, WriteEffect
<1>13. CASE EntryFails(p) \/ ReceiptFails(p) \/ Report(p) \/ Crash(p)
  BY <1>5, <1>13 DEF EntryFails, ReceiptFails, Report, Crash
<1> QED
  BY <1>6, <1>7, <1>8, <1>9, <1>10, <1>11, <1>12, <1>13 DEF Step

\* What its own steps supersede is what a command writes a better wording of.
LEMMA SupersededChange ==
    ASSUME TypeInv, OwnFile, NEW p \in Procs, Start(p) \/ Step(p) \/ Crash(p), NEW f,
           (f \in Superseded)'
    PROVE  f \in Superseded \/ (Write(p) /\ job[p].lineage /\ f = This(p).old)
<1>1. PICK d \in Days : \E n \in DOMAIN entries'[d] : f \in Facts /\ entries'[d][n].over = f
  BY DEF Superseded
<1>2. PICK n \in DOMAIN entries'[d] : f \in Facts /\ entries'[d][n].over = f
  BY <1>1
<1>3. entries'[d][n] # Unwritten
  BY <1>2, MemoryAssumption DEF Unwritten
<1>4. ASSUME entries'[d][n] = Content(p)
      PROVE  job[p].lineage /\ f = This(p).old
  <2>1. Content(p).over = IF job[p].lineage THEN This(p).old ELSE NoFact
    BY DEF Content
  <2> QED
    BY <1>2, <1>4, <2>1, MemoryAssumption
<1> QED
  BY <1>2, <1>3, <1>4, NewEntry DEF Superseded

LEMMA LineagesStep ==
    ASSUME IInv, Lineages, [Next]_vars
    PROVE  Lineages'
<1>1. TypeInv /\ ControlOK /\ OwnFile
  BY DEF IInv, TypeInv
<1>2. Canonical \subseteq Canonical'
  BY <1>1, CanonicalGrows
<1>3. ASSUME NEW q \in Procs, job'[q] = job[q]
      PROVE  LiveOf(q)'
  BY <1>2, <1>3 DEF Lineages, LiveOf, This
<1>4. ASSUME NEW p \in Procs, Start(p) \/ Step(p) \/ Crash(p)
      PROVE  Lineages'
  <2>1. \A q \in Procs : LiveOf(q)'
    BY <1>1, <1>3, <1>4, LiveStep, OthersStay DEF Lineages
  <2>2. \A f \in Superseded' : f \in Canonical
    BY <1>1, <1>4, SupersededChange DEF Lineages, LiveOf
  <2> QED
    BY <1>2, <2>1, <2>2 DEF Lineages
<1>5. CASE UNCHANGED <<entries, job>>
  BY <1>5 DEF Lineages, LiveOf, This, Superseded, Canonical
<1> QED
  BY <1>4, <1>5, WorldStays DEF Next, Finished

LEMMA ReplacesStays ==
    ASSUME TypeInv, OwnFile, [Next]_vars, NEW f \in Facts, NEW g, Replaces(f, g)
    PROVE  Replaces(f, g)'
<1>1. PICK d \in Days :
         \E n \in DOMAIN entries[d] : Holds(entries[d][n], f) /\ entries[d][n].over = g
  BY DEF Replaces
<1>2. PICK n \in DOMAIN entries[d] : Holds(entries[d][n], f) /\ entries[d][n].over = g
  BY <1>1
<1>3. n \in DOMAIN entries'[d] /\ entries'[d][n] = entries[d][n]
  BY <1>2, EntriesStep, HeldIsWritten DEF EntriesStay
<1> QED
  BY <1>2, <1>3 DEF Replaces, Holds

-----------------------------------------------------------------------------
(* What one command at a time keeps. *)

LEMMA WritesWhatIsNew ==
    ASSUME IInv, Accounts, NEW p \in Procs, Write(p), UniqueOf(p)
    PROVE  /\ \A f \in Facts : Group(p)[f] <= 1 /\ (Group(p)[f] > 0 => f \notin Canonical)
           /\ job[p].lineage => This(p).fact \in Facts /\ This(p).fact \notin Canonical
<1>1. /\ ControlOK /\ ItemOf(p) /\ StageOf(p)
  BY DEF IInv, TypeInv, HasItem, Accounts, AccountOf
<1>2. pc[p] = "write" /\ ~BoundStage(p)
  BY <1>1, Stages DEF Write
<1>3. CASE job[p].lineage
  <2>1. PICK g \in Facts : g = This(p).fact
    BY <1>1, <1>3, ListsTyped DEF ItemOf
  <2>2. Group(p) = Once({g})
    BY <1>3, <2>1 DEF Group
  <2>3. g \notin Canonical
    BY <1>1, <1>2, <1>3, <2>1 DEF UniqueOf, ItemOf
  <2>4. \A f \in Facts : Group(p)[f] <= 1 /\ (Group(p)[f] > 0 => f = g)
    BY <2>2 DEF Once
  <2> QED
    BY <2>1, <2>3, <2>4
<1>4. CASE ~job[p].lineage
  <2>1. \A f \in Facts : Group(p)[f] = job[p].new[f] \/ Group(p)[f] = 0
    BY <1>4 DEF Group
  <2> QED
    BY <1>4, <2>1 DEF UniqueOf
<1> QED
  BY <1>3, <1>4

LEMMA NoDuplicateStep ==
    ASSUME IInv, Accounts, NEW p \in Procs, Start(p) \/ Step(p) \/ Crash(p),
           pc[p] # "idle" => UniqueOf(p), NoDuplicateIds
    PROVE  NoDuplicateIds'
<1>1. TypeInv /\ OwnFile
  BY DEF IInv
<1> DEFINE Old(d, m) == m \in DOMAIN entries[d] /\ entries'[d][m] = entries[d][m]
           Own(d, m) == /\ Write(p) /\ entries'[d][m] = Content(p)
                        /\ d = job[p].date /\ m = job[p].slot
<1>2. \A f \in Facts : Unwritten.facts[f] = 0
  BY DEF Unwritten, Nothing, Once
<1>3. \A d \in Days : \A m \in DOMAIN entries'[d] :
         Old(d, m) \/ entries'[d][m] = Unwritten \/ Own(d, m)
  BY <1>1, NewEntry
<1>4. ASSUME Write(p)
      PROVE  /\ \A f \in Facts : Group(p)[f] <= 1 /\ (Group(p)[f] > 0 => f \notin Canonical)
             /\ Content(p).facts = Group(p)
  BY <1>4, WritesWhatIsNew DEF Write, Content
<1> SUFFICES ASSUME NEW d \in Days, NEW e \in Days,
                    NEW m \in DOMAIN entries'[d], NEW n \in DOMAIN entries'[e], NEW f \in Facts
             PROVE  /\ entries'[d][m].facts[f] <= 1
                    /\ entries'[d][m].facts[f] > 0 /\ entries'[e][n].facts[f] > 0
                          => d = e /\ m = n
  BY DEF NoDuplicateIds, Holds
<1>5. entries'[d][m].facts[f] <= 1
  BY <1>2, <1>3, <1>4 DEF NoDuplicateIds
<1>6. ASSUME entries'[d][m].facts[f] > 0, entries'[e][n].facts[f] > 0
      PROVE  d = e /\ m = n
  <2>1. (Old(d, m) \/ Own(d, m)) /\ (Old(e, n) \/ Own(e, n))
    BY <1>2, <1>3, <1>6
  <2>2. CASE Old(d, m) /\ Old(e, n)
    BY <1>6, <2>2 DEF NoDuplicateIds, Holds
  <2>3. CASE Old(d, m) /\ Own(e, n)
    BY <1>4, <1>6, <2>3 DEF Canonical, Holds
  <2>4. CASE Own(d, m) /\ Old(e, n)
    BY <1>4, <1>6, <2>4 DEF Canonical, Holds
  <2>5. CASE Own(d, m) /\ Own(e, n)
    BY <2>5
  <2> QED
    BY <2>1, <2>2, <2>3, <2>4, <2>5
<1> QED
  BY <1>5, <1>6

LEMMA LineageStep ==
    ASSUME IInv, Accounts, Lineages, NEW p \in Procs, Start(p) \/ Step(p) \/ Crash(p),
           pc[p] # "idle" => UniqueOf(p), LineageIsLive
    PROVE  LineageIsLive'
<1>1. TypeInv /\ OwnFile /\ [Next]_vars
  BY DEF IInv, Next
<1>2. \A f, g \in Facts : Replaces(f, g) => Replaces(f, g)'
  BY <1>1, ReplacesStays
<1> SUFFICES ASSUME NEW F \in (SUBSET Facts) \ {{}}
             PROVE  \E g \in F : g \notin Superseded' \/ \E f \in Facts \ F : Replaces(f, g)'
  BY DEF LineageIsLive
<1>3. PICK g \in F : g \notin Superseded \/ \E f \in Facts \ F : Replaces(f, g)
  BY DEF LineageIsLive
<1>4. CASE \E f \in Facts \ F : Replaces(f, g)
  BY <1>2, <1>4
<1>5. CASE g \notin Superseded /\ ~(Write(p) /\ job[p].lineage)
  BY <1>1, <1>5, SupersededChange
<1>6. CASE g \notin Superseded /\ Write(p) /\ job[p].lineage
  <2>1. UniqueOf(p) /\ LiveOf(p)
    BY <1>6 DEF Write, Lineages
  <2>2. PICK h \in Facts : h = This(p).fact /\ h \notin Canonical
    BY <1>6, <2>1, WritesWhatIsNew
  <2>3. PICK o \in Facts : o = This(p).old /\ o # h
    BY <1>6, <2>1, <2>2 DEF LiveOf, Canonical
  <2>4. h \notin Superseded'
    BY <1>1, <2>2, <2>3, SupersededChange DEF Lineages
  <2>5. Replaces(h, o)'
    <3>1. PICK d, n : d = job[p].date /\ n = job[p].slot
      OBVIOUS
    <3>2. FileOf(p) /\ d \in Days /\ n \in DOMAIN entries[d]
      BY <1>1, <1>6, <3>1 DEF OwnFile, FileOf, Write, TypeInv, ControlOK, Job
    <3>3. n \in DOMAIN entries'[d] /\ entries'[d][n] = Content(p)
      BY <1>1, <1>6, <3>1, <3>2, OwnFileWritten
    <3>4. Content(p).facts = Once({h}) /\ Content(p).over = o
      BY <1>6, <2>2, <2>3 DEF Content, Group
    <3>5. Once({h})[h] > 0
      BY DEF Once
    <3> QED
      BY <3>2, <3>3, <3>4, <3>5 DEF Replaces, Holds
  <2>6. g # o => g \notin Superseded'
    BY <1>1, <1>6, <2>3, SupersededChange
  <2> QED
    BY <2>4, <2>5, <2>6
<1> QED
  BY <1>3, <1>4, <1>5, <1>6

Solo ==
    /\ \A p \in Procs : pc[p] # "idle" => UniqueOf(p)
    /\ NoDuplicateIds /\ LineageIsLive

LEMMA SoloStep ==
    ASSUME IInv, Accounts, Lineages, Solo, Alone, [Next]_vars
    PROVE  Solo'
<1>1. TypeInv /\ ControlOK /\ OwnFile
  BY DEF IInv, TypeInv
<1>2. ASSUME UNCHANGED entries, NEW q \in Procs, pc'[q] = pc[q], job'[q] = job[q], pc'[q] # "idle"
      PROVE  UniqueOf(q)'
  <2>1. UniqueOf(q)
    BY <1>2 DEF Solo
  <2>2. Canonical' = Canonical
    BY <1>2 DEF Canonical
  <2>3. This(q)' = This(q) /\ (BoundStage(q)' <=> BoundStage(q))
    BY <1>2 DEF This, BoundStage
  <2> QED
    BY <1>2, <2>1, <2>2, <2>3 DEF UniqueOf
<1>3. ASSUME NEW p \in Procs, Start(p) \/ Step(p) \/ Crash(p)
      PROVE  Solo'
  <2>1. pc[p] # "idle" => UniqueOf(p)
    BY DEF Solo
  <2>2. NoDuplicateIds' /\ LineageIsLive'
    BY <1>3, <2>1, NoDuplicateStep, LineageStep DEF Solo
  <2>3. pc'[p] # "idle" => UniqueOf(p)'
    BY <1>3, <2>1, UniqueStep
  <2>4. ASSUME NEW q \in Procs, q # p, pc'[q] # "idle"
        PROVE  UniqueOf(q)'
    <3>1. pc'[q] = pc[q] /\ job'[q] = job[q]
      BY <1>1, <1>3, <2>4, OthersStay
    <3>2. pc[p] = "idle"
      BY <2>4, <3>1 DEF Alone
    <3>3. UNCHANGED entries
      BY <1>3, <3>2, OnlyWritersWrite DEF Create, Write
    <3> QED
      BY <1>2, <2>4, <3>1, <3>3
  <2> QED
    BY <2>2, <2>3, <2>4 DEF Solo
<1>4. CASE UNCHANGED <<entries, pc, job>>
  <2>1. \A q \in Procs : pc'[q] # "idle" => UniqueOf(q)'
    BY <1>2, <1>4
  <2>2. NoDuplicateIds' /\ LineageIsLive'
    <3>1. NoDuplicateIds'
      BY <1>4 DEF Solo, NoDuplicateIds, Holds
    <3>2. Superseded' = Superseded /\ \A f, g : Replaces(f, g)' <=> Replaces(f, g)
      BY <1>4 DEF Superseded, Replaces, Holds
    <3>3. LineageIsLive'
      BY <3>2 DEF Solo, LineageIsLive
    <3> QED
      BY <3>1, <3>3
  <2> QED
    BY <2>1, <2>2 DEF Solo
<1> QED
  BY <1>3, <1>4, WorldStays DEF Next, Finished

LEMMA InitSolo == Init => Lineages /\ Solo
<1> SUFFICES ASSUME Init PROVE Lineages /\ Solo
  OBVIOUS
<1>1. PICK first : first = [Unwritten EXCEPT !.facts = Once(FirstEntry), !.kind = "consolidation"]
  OBVIOUS
<1>2. first.facts = Once(FirstEntry) /\ first.over = NoFact
  BY <1>1 DEF Unwritten
<1>3. entries = [d \in Days |-> IF d = 1 THEN <<first>> ELSE <<>>]
  BY <1>1 DEF Init
<1>4. \A d \in Days : \A n \in DOMAIN entries[d] : d = 1 /\ n = 1 /\ entries[d][n] = first
  BY <1>3
<1>5. Superseded = {}
  BY <1>2, <1>4, MemoryAssumption DEF Superseded
<1>6. NoDuplicateIds
  <2>1. \A f \in Facts : first.facts[f] <= 1
    BY <1>2 DEF Once
  <2> QED
    BY <1>4, <2>1 DEF NoDuplicateIds
<1>7. LineageIsLive
  BY <1>5 DEF LineageIsLive
<1>8. \A p \in Procs : pc[p] = "idle" /\ job[p].seen = {} /\ ~job[p].lineage
  BY DEF Init, NoJob
<1> QED
  BY <1>5, <1>6, <1>7, <1>8 DEF Lineages, LiveOf, Solo

LEMMA SoloHolds == Spec /\ []Alone => []Solo
<1>1. IInv /\ Lineages /\ [Next]_vars => Lineages'
  BY LineagesStep
<1>2. IInv /\ Accounts /\ Lineages /\ Solo /\ Alone /\ [Next]_vars => Solo'
  BY SoloStep
<1> QED
  BY <1>1, <1>2, InitSolo, InvariantHolds, AccountsHold, PTL DEF Spec

\* When no two commands overlap, no id comes into the store twice, whatever is
\* cut short, repeated or signed off in between.
THEOREM NoIdTwice == Spec /\ []Alone => []NoDuplicateIds
<1>1. Solo => NoDuplicateIds
  BY DEF Solo
<1> QED
  BY <1>1, SoloHolds, PTL

\* Under the same condition, every fact that is superseded has a successor that
\* is not (memory.rs:320).
THEOREM SuccessorsRemain == Spec /\ []Alone => []LineageIsLive
<1>1. Solo => LineageIsLive
  BY DEF Solo
<1> QED
  BY <1>1, SoloHolds, PTL
=============================================================================
