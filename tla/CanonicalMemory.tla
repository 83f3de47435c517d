--------------------------- MODULE CanonicalMemory ---------------------------
(***************************************************************************)
(* The canonical memory of memory.rs and store.rs, and the commands that   *)
(* write it: mem consolidate, mem signoff, dream --source and dream        *)
(* --promote.  Entries are files created once in the directory of a day;   *)
(* doubtful facts go to the review queue of the day, under that queue's    *)
(* lock.  One action is one stretch of reads up to one durable write.      *)
(*                                                                         *)
(* A fact is a single-line body; its id is a hash of the body, so the body *)
(* stands for both.  Days and the sequence numbers of entries start at 1.  *)
(* Of the text of an entry the model keeps how often each fact is in it.   *)
(***************************************************************************)
EXTENDS Naturals, Sequences

CONSTANTS
    Procs,
    Facts,
    NoFact,
    Near,          \* pairs of facts that share their first 40 characters
    Preserved,     \* memory/canonical/preserved.md
    Enforced,      \* facts with an enforced_by check in their body
    DomainOf,      \* the domain of a staged fact, numbered in the order of its name
    Commands,      \* the commands that are run
    Buffers,       \* the buffers consolidate and dream --source are given
    Fronts,        \* the callers of dream --source: "cli", "mcp"
    Batches,       \* staging files
    Audit,         \* the verdicts on each version of a staging file
    FirstEntry,    \* the facts of the entry that is there at the start
    NumDays,
    MaxTries,      \* attempts at create_new; 10 in the code
    EditsRace,     \* a staging file may be edited while it is promoted
    MaxOps, MaxEdits, MaxFaults, MaxTimeouts, MaxCrashes,
    Free, Abandoned

Days == 1..NumDays
Versions == 1..(MaxEdits + 1)
Verdict == {"new", "distilled", "promote", "conflict", "duplicate", "reject"}
Item == [fact : Facts, verdict : Verdict, old : Facts \cup {NoFact}]

\* What an audit may say; any other verdict is dropped as it is read.
Audited == {"promote", "conflict", "duplicate", "reject"}

Kind == {"none", "consolidation", "signoff", "dream", "supersede"}
Tally == [Facts -> Nat]
Entry == [facts : Tally, over : Facts \cup {NoFact}, kind : Kind, source : Days \cup {0}]

Once(S) == [f \in Facts |-> IF f \in S THEN 1 ELSE 0]
Nothing == Once({})

\* A file that create_new made and nobody has written to yet.
Unwritten == [facts |-> Nothing, over |-> NoFact, kind |-> "none", source |-> 0]

ASSUME MemoryAssumption ==
    /\ NoFact \notin Facts
    /\ Near \subseteq Facts \X Facts
    /\ Preserved \subseteq Facts /\ Enforced \subseteq Facts
    /\ DomainOf \in [Facts -> Nat]
    /\ Commands \subseteq {"consolidate", "dream", "promote", "signoff"}
    /\ Buffers \subseteq Seq(Facts)
    /\ Fronts \subseteq {"cli", "mcp"}
    /\ Audit \in [Batches -> [Versions -> Seq(Item)]]
    /\ \A b \in Batches, v \in Versions :
          \A i \in DOMAIN Audit[b][v] : Audit[b][v][i].verdict \in Audited
    /\ FirstEntry \subseteq Facts
    /\ NumDays \in Nat \ {0} /\ MaxTries \in Nat \ {0}
    /\ EditsRace \in BOOLEAN
    /\ {MaxOps, MaxEdits, MaxFaults, MaxTimeouts, MaxCrashes} \subseteq Nat
    /\ Free \notin Procs /\ Abandoned \notin Procs /\ Free # Abandoned

VARIABLES
    entries,   \* memory/canonical/entries/<day>/: the files, by sequence number
    queue,     \* memory/review/contested-<day>.md: the records, in order
    qlock,     \* contested-<day>.lock: its holder, Free, or Abandoned by a dead one
    today,
    staged,    \* a staging file: its version, the one audited, the one on the receipt
    pc,        \* where a process is in its command
    job,       \* the local variables of that command
    left       \* what remains of each bound

vars == <<entries, queue, qlock, today, staged, pc, job, left>>

Location ==
    {"idle", "bound", "known", "seen", "route", "lock", "append", "publish",
     "check", "next", "create", "write", "receipt", "done"}

Job == [op : {"none", "consolidate", "dream", "promote", "signoff"},
        asked : SUBSET Facts, todo : Seq(Item), rest : Seq(Item),
        strict : BOOLEAN, front : {"cli", "mcp"}, batch : Batches \cup {NoFact},
        known : SUBSET Facts, seen : SUBSET Facts, new : Tally, lineage : BOOLEAN,
        day : Days, index : Nat, snap : Seq(Facts),
        date : Days, slot : Nat, tries : 0..(MaxTries - 1)]

NoJob ==
    [op |-> "none", asked |-> {}, todo |-> <<>>, rest |-> <<>>, strict |-> FALSE,
     front |-> "cli", batch |-> NoFact, known |-> {}, seen |-> {}, new |-> Nothing,
     lineage |-> FALSE, day |-> 1, index |-> 0, snap |-> <<>>, date |-> 1, slot |-> 0,
     tries |-> 0]

Init ==
    /\ entries = [d \in Days |->
          IF d = 1 THEN <<[Unwritten EXCEPT !.facts = Once(FirstEntry), !.kind = "consolidation"]>>
          ELSE <<>>]
    /\ queue = [d \in Days |-> <<>>]
    /\ qlock = [d \in Days |-> Free]
    /\ today = 1
    /\ staged = [b \in Batches |-> [text |-> 1, audited |-> 1, receipt |-> 0]]
    /\ pc = [p \in Procs |-> "idle"]
    /\ job = [p \in Procs |-> NoJob]
    /\ left = [ops |-> MaxOps, edits |-> MaxEdits, faults |-> MaxFaults,
               timeouts |-> MaxTimeouts, crashes |-> MaxCrashes]

-----------------------------------------------------------------------------
(* Reads *)

Holds(e, f) == e.facts[f] > 0

\* existing_fact_ids, canonical_facts
Canonical == {f \in Facts : \E d \in Days : \E n \in DOMAIN entries[d] : Holds(entries[d][n], f)}

\* superseded_ids
Superseded == {f \in Facts : \E d \in Days : \E n \in DOMAIN entries[d] : entries[d][n].over = f}

\* queued_facts of one day's queue has the fact.
Queued(f, d) == \E i \in DOMAIN queue[d] : queue[d][i] = f

Stored(f) == f \in Canonical \/ \E d \in Days : Queued(f, d)

SamePrefix(f, g) == f = g \/ <<f, g>> \in Near \/ <<g, f>> \in Near

-----------------------------------------------------------------------------
(* Control *)

Goto(p, l) == pc' = [pc EXCEPT ![p] = l]
Set(p, j) == job' = [job EXCEPT ![p] = j]
Finish(p) == Goto(p, "idle") /\ Set(p, NoJob)
Spend(k) == left[k] > 0 /\ left' = [left EXCEPT ![k] = @ - 1]
Fault == Spend("faults")

\* The guard of the lock file goes out of scope.
Released(p) == [d \in Days |-> IF qlock[d] = p THEN Free ELSE qlock[d]]

This(p) == Head(job[p].todo)
Passed(p) == [job[p] EXCEPT !.todo = Tail(@)]
Back(p) == Goto(p, IF This(p).verdict = "distilled" THEN "bound" ELSE "route")

Items(s, v) == [i \in DOMAIN s |-> [fact |-> s[i], verdict |-> v, old |-> NoFact]]

-----------------------------------------------------------------------------
(* Commands *)

\* mem consolidate: every candidate of the buffer, in order.
StartConsolidate(p) ==
    /\ "consolidate" \in Commands
    /\ pc[p] = "idle"
    /\ Spend("ops")
    /\ \E b \in Buffers, strict \in BOOLEAN :
          Set(p, [NoJob EXCEPT !.op = "consolidate", !.strict = strict,
                               !.asked = {b[i] : i \in DOMAIN b}, !.todo = Items(b, "new")])
    /\ Goto(p, "known")
    /\ UNCHANGED <<entries, queue, qlock, today, staged>>

\* dream --source: every fact of the buffer, in order.
StartDream(p) ==
    /\ "dream" \in Commands
    /\ pc[p] = "idle"
    /\ Spend("ops")
    /\ \E b \in Buffers, front \in Fronts :
          Set(p, [NoJob EXCEPT !.op = "dream", !.front = front,
                               !.asked = {b[i] : i \in DOMAIN b},
                               !.todo = Items(b, "distilled")])
    /\ Goto(p, "bound")
    /\ UNCHANGED <<entries, queue, qlock, today, staged>>

\* What a promotion must not lose: the facts the audit promotes or disputes.
AskedOf(items) ==
    {items[i].fact : i \in {k \in DOMAIN items : items[k].verdict \in {"promote", "conflict"}}}

\* dream --promote: refused, before anything is written, when the receipt is
\* for this text or the audit for another.
StartPromote(p) ==
    /\ "promote" \in Commands
    /\ pc[p] = "idle"
    /\ Spend("ops")
    /\ \E b \in Batches :
          LET s == staged[b] IN
          \/ /\ s.receipt = s.text \/ s.audited # s.text
             /\ UNCHANGED <<pc, job>>
          \/ /\ s.receipt # s.text /\ s.audited = s.text
             /\ Set(p, [NoJob EXCEPT !.op = "promote", !.batch = b,
                                     !.asked = AskedOf(Audit[b][s.text]),
                                     !.todo = Audit[b][s.text]])
             /\ Goto(p, "known")
    /\ UNCHANGED <<entries, queue, qlock, today, staged>>

\* mem signoff of one record of one queue.
StartSignoff(p) ==
    /\ "signoff" \in Commands
    /\ pc[p] = "idle"
    /\ Spend("ops")
    /\ \E d \in Days : \E i \in DOMAIN queue[d] :
          Set(p, [NoJob EXCEPT !.op = "signoff", !.day = d, !.index = i])
    /\ Goto(p, "lock")
    /\ UNCHANGED <<entries, queue, qlock, today, staged>>

-----------------------------------------------------------------------------
(* consolidate and apply_verdicts: what becomes of each item *)

\* The reads of the store at the head of both functions: of the ids, then of the
\* bodies (apply_verdicts reads these twice).
ReadKnown(p) ==
    /\ pc[p] = "known"
    /\ Set(p, [job[p] EXCEPT !.known = Canonical])
    /\ Goto(p, "seen")
    /\ UNCHANGED <<entries, queue, qlock, today, staged, left>>

ReadBodies(p) ==
    /\ pc[p] = "seen"
    /\ Set(p, [job[p] EXCEPT !.seen = Canonical])
    /\ Goto(p, "route")
    /\ UNCHANGED <<entries, queue, qlock, today, staged, left>>

Collides(p, f) == \E g \in job[p].seen \cap Preserved : SamePrefix(f, g)
Contested(p, f) == job[p].strict /\ \E g \in job[p].seen \ {f} : SamePrefix(f, g)

\* A dispute, or a fact that names the check that enforces it.
ForHuman(i) ==
    \/ i.verdict = "conflict"
    \/ i.verdict \in {"distilled", "promote"} /\ i.fact \in Enforced

\* (mutant of Skips) A second verdict on a fact is not compared with the store.
SkipsByBodyOnly(p) ==
    LET i == This(p) IN
    \/ i.verdict \in {"new", "promote"} /\ i.fact \in job[p].known
    \/ ForHuman(i) /\ Queued(i.fact, today)
    \/ i.verdict = "duplicate" /\ (i.old \notin job[p].seen \/ i.old = i.fact)
    \/ i.verdict = "reject"

\* Known already, queued already today, or nothing to do.
Skips(p) ==
    LET i == This(p) IN
    \/ i.verdict \in {"new", "promote", "duplicate"} /\ i.fact \in job[p].known
    \/ ForHuman(i) /\ Queued(i.fact, today)
    \/ i.verdict = "duplicate" /\ (i.old \notin job[p].seen \/ i.old = i.fact)
    \/ i.verdict = "reject"

\* For a human to decide.
Queues(p) ==
    LET i == This(p) IN
    \/ ForHuman(i)
    \/ i.verdict = "new" /\ (Collides(p, i.fact) \/ Contested(p, i.fact))
    \/ i.verdict = "promote" /\ Collides(p, i.fact)
    \/ i.verdict = "duplicate" /\ i.old \in Preserved

AtItem(p) == pc[p] \in {"bound", "route"} /\ job[p].todo # <<>>

Skip(p) ==
    /\ AtItem(p)
    /\ Skips(p)
    /\ Set(p, Passed(p))
    /\ UNCHANGED <<entries, queue, qlock, today, staged, pc, left>>

Contest(p) ==
    /\ AtItem(p)
    /\ ~Skips(p) /\ Queues(p)
    /\ Set(p, [job[p] EXCEPT !.day = today])
    /\ Goto(p, "lock")
    /\ UNCHANGED <<entries, queue, qlock, today, staged, left>>

\* (mutant of Collect) A collected fact is not known to the rest of the batch.
CollectForgets(p) ==
    /\ AtItem(p)
    /\ ~Skips(p) /\ ~Queues(p) /\ This(p).verdict \in {"new", "promote"}
    /\ Set(p, [Passed(p) EXCEPT !.new[This(p).fact] = @ + 1])
    /\ UNCHANGED <<entries, queue, qlock, today, staged, pc, left>>

\* To be written when the last item has been seen.
Collect(p) ==
    /\ AtItem(p)
    /\ ~Skips(p) /\ ~Queues(p) /\ This(p).verdict \in {"new", "promote"}
    /\ Set(p, [Passed(p) EXCEPT !.new[This(p).fact] = @ + 1,
                                !.known = @ \cup {This(p).fact}])
    /\ UNCHANGED <<entries, queue, qlock, today, staged, pc, left>>

\* A better wording of a fact that is there is written at once, with lineage.
Supersede(p) ==
    /\ AtItem(p)
    /\ ~Skips(p) /\ ~Queues(p) /\ This(p).verdict = "duplicate"
    /\ Set(p, [job[p] EXCEPT !.lineage = TRUE])
    /\ Goto(p, "next")
    /\ UNCHANGED <<entries, queue, qlock, today, staged, left>>

\* dream --source leaves what no check is bound to for consolidate.
SetAside(p) ==
    /\ AtItem(p)
    /\ This(p).verdict = "distilled" /\ This(p).fact \notin Enforced
    /\ Set(p, [Passed(p) EXCEPT !.rest = Append(@, [This(p) EXCEPT !.verdict = "new"])])
    /\ UNCHANGED <<entries, queue, qlock, today, staged, pc, left>>

\* The bound facts are through: consolidate the others, if there are any.
BoundEnd(p) ==
    /\ pc[p] = "bound"
    /\ job[p].todo = <<>>
    /\ \/ job[p].rest = <<>> /\ Finish(p)
       \/ /\ job[p].rest # <<>>
          /\ Set(p, [job[p] EXCEPT !.todo = job[p].rest, !.rest = <<>>])
          /\ Goto(p, "known")
    /\ UNCHANGED <<entries, queue, qlock, today, staged, left>>

\* (mutant of RouteEnd) The receipt is written before the entries.
RouteEndReceiptFirst(p) ==
    /\ pc[p] = "route"
    /\ job[p].todo = <<>>
    /\ Goto(p, IF job[p].new # Nothing THEN "next" ELSE "done")
    /\ staged' = IF job[p].op = "promote"
                 THEN [staged EXCEPT ![job[p].batch].receipt = staged[job[p].batch].text]
                 ELSE staged
    /\ UNCHANGED <<entries, queue, qlock, today, job, left>>

RouteEnd(p) ==
    /\ pc[p] = "route"
    /\ job[p].todo = <<>>
    /\ Goto(p, IF job[p].new # Nothing THEN "next"
               ELSE IF job[p].op = "promote" THEN "receipt" ELSE "done")
    /\ UNCHANGED <<entries, queue, qlock, today, staged, job, left>>

-----------------------------------------------------------------------------
(* append_contested, and the lock it shares with signoff *)

\* (mutant of TakeLock) The names of the two lock files differ.
TakeLockOfItsOwn(p) ==
    LET d == job[p].day IN
    /\ pc[p] = "lock"
    /\ qlock' = [qlock EXCEPT ![d] = p]
    /\ Goto(p, IF job[p].op = "signoff" THEN "check" ELSE "append")
    /\ UNCHANGED <<entries, queue, today, staged, job, left>>

\* lock_file: a lock whose holder died is stolen once it is stale.
TakeLock(p) ==
    LET d == job[p].day IN
    /\ pc[p] = "lock"
    /\ qlock[d] \in {Free, Abandoned}
    /\ qlock' = [qlock EXCEPT ![d] = p]
    /\ Goto(p, IF job[p].op = "signoff" THEN "check" ELSE "append")
    /\ UNCHANGED <<entries, queue, today, staged, job, left>>

\* (mutant of AppendFails) A fact that could not be queued is passed over.
AppendFailsQuietly(p) ==
    IF job[p].op = "signoff" THEN Finish(p) ELSE Set(p, Passed(p)) /\ Back(p)

\* The error ends the command, except in the CLI's dream --source, which
\* throws it away and counts the fact as queued.
AppendFails(p) ==
    IF job[p].op = "dream" /\ This(p).verdict = "distilled" /\ job[p].front = "cli"
    THEN Set(p, Passed(p)) /\ Back(p)
    ELSE Finish(p)

LockTimesOut(p) ==
    /\ pc[p] = "lock"
    /\ qlock[job[p].day] # Free
    /\ Spend("timeouts")
    /\ AppendFails(p)
    /\ UNCHANGED <<entries, queue, qlock, today, staged>>

ReadQueue(p) ==
    /\ pc[p] = "append"
    /\ Set(p, [job[p] EXCEPT !.snap = queue[job[p].day]])
    /\ Goto(p, "publish")
    /\ UNCHANGED <<entries, queue, qlock, today, staged, left>>

\* The old records and the new one replace the file in one rename.
Publish(p) ==
    /\ pc[p] = "publish"
    /\ queue' = [queue EXCEPT ![job[p].day] = Append(job[p].snap, This(p).fact)]
    /\ qlock' = Released(p)
    /\ Set(p, [Passed(p) EXCEPT !.snap = <<>>])
    /\ Back(p)
    /\ UNCHANGED <<entries, today, staged, left>>

PublishFails(p) ==
    /\ pc[p] = "publish"
    /\ Fault
    /\ qlock' = Released(p)
    /\ AppendFails(p)
    /\ UNCHANGED <<entries, queue, today, staged>>

\* signoff under the lock: the record at the index, unless its fact is known.
Check(p) ==
    LET f == queue[job[p].day][job[p].index] IN
    /\ pc[p] = "check"
    /\ \/ /\ f \in Canonical
          /\ qlock' = Released(p)
          /\ Finish(p)
       \/ /\ f \notin Canonical
          /\ Set(p, [job[p] EXCEPT !.asked = {f}, !.new = Once({f})])
          /\ Goto(p, "next")
          /\ UNCHANGED qlock
    /\ UNCHANGED <<entries, queue, today, staged, left>>

-----------------------------------------------------------------------------
(* write_canonical_entry and write_supersede_entry *)

\* What the entry holds: a superseding fact alone; the facts of the first
\* domain of a promotion; everything otherwise.
Group(p) ==
    LET new == job[p].new
        InFirst(f) == \A g \in Facts : new[g] > 0 => DomainOf[f] <= DomainOf[g] IN
    IF job[p].lineage THEN Once({This(p).fact})
    ELSE IF job[p].op = "promote" THEN [f \in Facts |-> IF InFirst(f) THEN new[f] ELSE 0]
    ELSE new

Remaining(p) == [f \in Facts |-> IF Group(p)[f] > 0 THEN 0 ELSE job[p].new[f]]

Content(p) ==
    [facts |-> Group(p),
     over |-> IF job[p].lineage THEN This(p).old ELSE NoFact,
     kind |-> IF job[p].op = "signoff" THEN "signoff"
              ELSE IF job[p].lineage THEN "supersede"
              ELSE IF job[p].op = "promote" THEN "dream" ELSE "consolidation",
     source |-> IF job[p].op = "signoff" THEN job[p].day ELSE 0]

\* next_entry: the number after the highest of the day.
NextEntry(p) ==
    /\ pc[p] = "next"
    /\ Set(p, [job[p] EXCEPT !.date = today, !.slot = Len(entries[today]) + 1, !.tries = 0])
    /\ Goto(p, "create")
    /\ UNCHANGED <<entries, queue, qlock, today, staged, left>>

\* (mutant of Create) The file is opened without create_new.
CreateOrTruncate(p) ==
    LET d == job[p].date IN
    /\ pc[p] = "create"
    /\ entries' = [entries EXCEPT ![d] =
          IF job[p].slot > Len(@) THEN Append(@, Unwritten)
          ELSE [@ EXCEPT ![job[p].slot] = Unwritten]]
    /\ Goto(p, "write")
    /\ UNCHANGED <<queue, qlock, today, staged, job, left>>

\* create_new: another writer may have taken the number.
Create(p) ==
    LET d == job[p].date IN
    /\ pc[p] = "create"
    /\ \/ /\ job[p].slot > Len(entries[d])
          /\ entries' = [entries EXCEPT ![d] = Append(@, Unwritten)]
          /\ Goto(p, "write")
          /\ UNCHANGED <<qlock, job>>
       \/ /\ job[p].slot <= Len(entries[d])
          /\ job[p].tries + 1 < MaxTries
          /\ Set(p, [job[p] EXCEPT !.slot = Len(entries[d]) + 1, !.tries = @ + 1])
          /\ UNCHANGED <<entries, qlock, pc>>
       \/ /\ job[p].slot <= Len(entries[d])
          /\ job[p].tries + 1 >= MaxTries
          /\ qlock' = Released(p)
          /\ Finish(p)
          /\ UNCHANGED entries
    /\ UNCHANGED <<queue, today, staged, left>>

\* Where the command is once its entry is written.
AfterWrite(p) ==
    IF job[p].lineage
    THEN /\ Set(p, [Passed(p) EXCEPT !.lineage = FALSE, !.known = @ \cup {This(p).fact}])
         /\ Goto(p, "route")
    ELSE /\ Set(p, [job[p] EXCEPT !.new = Remaining(p)])
         /\ Goto(p, IF Remaining(p) # Nothing THEN "next"
                    ELSE IF job[p].op = "promote" THEN "receipt" ELSE "done")

\* (mutant of Write) signoff keeps its lock.
WriteKeepsLock(p) ==
    /\ pc[p] = "write"
    /\ entries' = [entries EXCEPT ![job[p].date][job[p].slot] = Content(p)]
    /\ AfterWrite(p)
    /\ UNCHANGED <<queue, qlock, today, staged, left>>

Write(p) ==
    /\ pc[p] = "write"
    /\ entries' = [entries EXCEPT ![job[p].date][job[p].slot] = Content(p)]
    /\ qlock' = Released(p)
    /\ AfterWrite(p)
    /\ UNCHANGED <<queue, today, staged, left>>

\* The file cannot be made, or stays empty.
EntryFails(p) ==
    /\ pc[p] \in {"create", "write"}
    /\ Fault
    /\ qlock' = Released(p)
    /\ Finish(p)
    /\ UNCHANGED <<entries, queue, today, staged>>

\* write_promotion_receipt reads the staging file again.
WriteReceipt(p) ==
    /\ pc[p] = "receipt"
    /\ staged' = [staged EXCEPT ![job[p].batch].receipt = staged[job[p].batch].text]
    /\ Goto(p, "done")
    /\ UNCHANGED <<entries, queue, qlock, today, job, left>>

ReceiptFails(p) ==
    /\ pc[p] = "receipt"
    /\ Fault
    /\ Finish(p)
    /\ UNCHANGED <<entries, queue, qlock, today, staged>>

\* The command says that it succeeded.
Report(p) ==
    /\ pc[p] = "done"
    /\ Finish(p)
    /\ UNCHANGED <<entries, queue, qlock, today, staged, left>>

-----------------------------------------------------------------------------
(* The world around the commands *)

Midnight ==
    /\ today < NumDays
    /\ today' = today + 1
    /\ UNCHANGED <<entries, queue, qlock, staged, pc, job, left>>

\* Somebody merges or repairs a staging file.
EditStaged(b) ==
    /\ staged[b].text = staged[b].audited
    /\ EditsRace \/ \A p \in Procs : job[p].batch # b
    /\ Spend("edits")
    /\ staged' = [staged EXCEPT ![b].text = @ + 1]
    /\ UNCHANGED <<entries, queue, qlock, today, pc, job>>

\* write_verdicts: the audit of the new text.
Reaudit(b) ==
    /\ staged[b].audited # staged[b].text
    /\ staged' = [staged EXCEPT ![b].audited = staged[b].text]
    /\ UNCHANGED <<entries, queue, qlock, today, pc, job, left>>

\* The process is killed; the files and its lock file stay.
Crash(p) ==
    /\ pc[p] # "idle"
    /\ Spend("crashes")
    /\ qlock' = [d \in Days |-> IF qlock[d] = p THEN Abandoned ELSE qlock[d]]
    /\ Finish(p)
    /\ UNCHANGED <<entries, queue, today, staged>>

Start(p) == StartConsolidate(p) \/ StartDream(p) \/ StartPromote(p) \/ StartSignoff(p)

Step(p) ==
    \/ ReadKnown(p) \/ ReadBodies(p) \/ Skip(p) \/ Contest(p) \/ Collect(p) \/ Supersede(p)
    \/ SetAside(p) \/ BoundEnd(p) \/ RouteEnd(p) \/ TakeLock(p) \/ LockTimesOut(p) \/ ReadQueue(p)
    \/ Publish(p) \/ PublishFails(p) \/ Check(p) \/ NextEntry(p) \/ Create(p) \/ Write(p)
    \/ EntryFails(p) \/ WriteReceipt(p) \/ ReceiptFails(p) \/ Report(p)

\* The bound on commands is used up and every one has returned.
Finished ==
    /\ left.ops = 0
    /\ \A p \in Procs : pc[p] = "idle"
    /\ UNCHANGED vars

Next ==
    \/ \E p \in Procs : Start(p) \/ Step(p) \/ Crash(p)
    \/ \E b \in Batches : EditStaged(b) \/ Reaudit(b)
    \/ Midnight
    \/ Finished

Spec == Init /\ [][Next]_vars

\* Commands run to their end, unless killed.
FairSpec == Spec /\ \A p \in Procs : WF_vars(Step(p))

-----------------------------------------------------------------------------
(* Properties *)

TypeOK ==
    /\ entries \in [Days -> Seq(Entry)]
    /\ queue \in [Days -> Seq(Facts)]
    /\ qlock \in [Days -> Procs \cup {Free, Abandoned}]
    /\ today \in Days
    /\ staged \in [Batches -> [text : Versions, audited : Versions,
                               receipt : Versions \cup {0}]]
    /\ pc \in [Procs -> Location]
    /\ job \in [Procs -> Job]
    /\ left \in [ops : Nat, edits : Nat, faults : Nat, timeouts : Nat, crashes : Nat]

\* A written entry is never changed, whoever races for its number and whoever
\* dies after making the file ("append-only contract, ADR-0002", store.rs:8).
EntriesKept ==
    [][\A d \in Days : \A n \in DOMAIN entries[d] :
          entries[d][n] # Unwritten =>
              n \in DOMAIN entries'[d] /\ entries'[d][n] = entries[d][n]]_vars

\* A record of a review queue is never lost and never changes its place, by
\* which signoff names it: append_contested rewrites the whole file.
QueueOnlyGrows ==
    [][\A d \in Days : \A i \in DOMAIN queue[d] :
          i \in DOMAIN queue'[d] /\ queue'[d][i] = queue[d][i]]_vars

\* A command that reports success has left every fact it was asked to keep in
\* the canonical memory or before a human, in spite of the other writers.
ReportedIsStored ==
    \A p \in Procs : pc[p] = "done" => \A f \in job[p].asked : Stored(f)

\* Two signoffs that race for the records of one queue do not write a fact
\* twice (memory.rs:1092).
SignedOffOnce ==
    \A d, e \in Days : \A m \in DOMAIN entries[d], n \in DOMAIN entries[e] :
        /\ entries[d][m].source # 0 /\ entries[d][m].source = entries[e][n].source
        /\ \E f \in Facts : Holds(entries[d][m], f) /\ Holds(entries[e][n], f)
        => d = e /\ m = n

\* No id is in the store twice: a promotion that was cut short, and is run
\* again, does not write again what it wrote, nor what was signed off since.
NoDuplicateIds ==
    \A d, e \in Days : \A m \in DOMAIN entries[d], n \in DOMAIN entries[e] : \A f \in Facts :
        /\ entries[d][m].facts[f] <= 1
        /\ Holds(entries[d][m], f) /\ Holds(entries[e][n], f) => d = e /\ m = n

\* A receipt, which forbids a second promotion, exists only when every fact
\* the audit of that text promoted or disputed is stored (dream.rs:561: the
\* receipt is written last).
ReceiptMeansApplied ==
    \A b \in Batches : staged[b].receipt # 0 =>
        \A f \in AskedOf(Audit[b][staged[b].receipt]) : Stored(f)

\* One fact replaces another.
Replaces(f, g) ==
    \E d \in Days : \E n \in DOMAIN entries[d] :
        Holds(entries[d][n], f) /\ entries[d][n].over = g

\* No set of facts is superseded by facts of that same set: a fact that left
\* the derived view has a successor in it (memory.rs:320).
LineageIsLive ==
    \A F \in (SUBSET Facts) \ {{}} :
        \E g \in F : g \notin Superseded \/ \E f \in Facts \ F : Replaces(f, g)

\* Every command returns, although each waits for locks the others hold or
\* have died with.
CommandsReturn == \A p \in Procs : pc[p] # "idle" ~> pc[p] = "idle"

-----------------------------------------------------------------------------
(* Promises of comments that the code does not keep. *)

\* A fact bound to a check enters the canonical memory only through signoff
\* (main.rs:684: "enforcement-bound facts ALWAYS route to the human queue").
EnforcedNeedsHuman ==
    \A d \in Days : \A n \in DOMAIN entries[d] :
        entries[d][n].kind \in {"dream", "supersede"} =>
            \A f \in Enforced : ~Holds(entries[d][n], f)

\* A fact that a promotion has queued is not queued again when the promotion
\* is repeated (main.rs:638: "stays in-practice idempotent").
QueuedOnce ==
    \A d \in Days : \A i, k \in DOMAIN queue[d] : queue[d][i] = queue[d][k] => i = k
=============================================================================
