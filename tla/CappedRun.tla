------------------------------ MODULE CappedRun ------------------------------
(***************************************************************************)
(* run_capped_idle of the core crate's worker.rs: a command is run in a    *)
(* process group of its own, its output goes to two files, and a polling   *)
(* loop kills the group when it has run for too long or written nothing    *)
(* for too long.                                                           *)
(*                                                                         *)
(* A kernel process makes its calls one after another in one directory,    *)
(* and background processes of earlier calls may still be there.  The      *)
(* kernel may be killed: its successor counts its calls from zero, may     *)
(* have the same pid, and finds what the dead kernel left.  What has been  *)
(* written to the two files stands for their modified time.                *)
(***************************************************************************)
EXTENDS Naturals, FiniteSets

CONSTANTS
    Calls,       \* each is made at most once
    Pids,
    Caps,        \* the caps a call may have: [wall, idle], NoCap for none
    NoCap,
    NoFile,
    Horizon,     \* the last instant; no call begins that could not reach its deadline
    MaxWrites,   \* writes by the processes of one call
    MaxForks,    \* processes left in the background
    MaxFaults,   \* failing calls of the operating system
    MaxCrashes

ASSUME CappedRunAssumption ==
    /\ IsFiniteSet(Calls)
    /\ {Horizon, MaxWrites, MaxForks, MaxFaults, MaxCrashes} \subseteq Nat
    /\ NoCap \notin Nat
    /\ NoFile \notin Calls
    /\ Caps # {}
    /\ Caps \subseteq [wall : Nat \cup {NoCap}, idle : Nat \cup {NoCap}]

Names == Pids \X (0..Cardinality(Calls))
Processes == {"child", "group", "escaped"}
Writes == [call : Calls, n : 1..MaxWrites, time : 0..Horizon,
           stream : {"out", "err"}, by : Processes]

VARIABLES
    kernel,   \* the pid of the running kernel and its next token
    clock,
    pc,
    call,     \* the locals of each call, and its result
    procs,    \* the processes of each call: its child, its group, escaped ones
    files,    \* the output files at each name, identified by the call that made them
    text,     \* what was written to the files a call made
    wrote,    \* the number of writes of each call
    left      \* what remains of each bound

vars == <<kernel, clock, pc, call, procs, files, text, wrote, left>>

Location == {"new", "open", "try", "poll", "wait", "ok", "error", "lost"}

Resting == {"new", "ok", "error", "lost"}

Call == [name : Names, opened : Calls, caps : Caps, start : Nat, activity : Nat,
         seen : SUBSET Writes, aborted : {"no", "wall", "idle"}, until : Nat,
         output : SUBSET Writes]

Init ==
    /\ kernel \in [pid : Pids, token : {0}]
    /\ clock = 0
    /\ pc = [c \in Calls |-> "new"]
    /\ call = [c \in Calls |->
                 [name |-> <<kernel.pid, 0>>, opened |-> c, caps |-> CHOOSE k \in Caps : TRUE,
                  start |-> 0, activity |-> 0, seen |-> {}, aborted |-> "no",
                  until |-> 0, output |-> {}]]
    /\ procs = [c \in Calls |-> {}]
    /\ files = [n \in Names |-> NoFile]
    /\ text = [c \in Calls |-> {}]
    /\ wrote = [c \in Calls |-> 0]
    /\ left = [forks |-> MaxForks, faults |-> MaxFaults, crashes |-> MaxCrashes]

Goto(c, l) == pc' = [pc EXCEPT ![c] = l]
Set(c, k) == call' = [call EXCEPT ![c] = k]
Spend(k) == left[k] > 0 /\ left' = [left EXCEPT ![k] = @ - 1]
Name(c) == call[c].name

-----------------------------------------------------------------------------
(* The kernel *)

\* The call begins: its start is sampled and its token is drawn.
Begin(c) ==
    /\ pc[c] = "new"
    /\ \A d \in Calls : pc[d] \in Resting
    /\ \E k \in Caps :
          /\ k.wall # NoCap => clock + k.wall <= Horizon
          /\ Set(c, [call[c] EXCEPT !.name = <<kernel.pid, kernel.token>>,
                                    !.caps = k, !.start = clock, !.activity = clock])
    /\ kernel' = [kernel EXCEPT !.token = @ + 1]
    /\ Goto(c, "open")
    /\ UNCHANGED <<clock, procs, files, text, wrote, left>>

Remove(c) == files' = [files EXCEPT ![Name(c)] = NoFile]

\* (mutant of Launch) File::create: what is at the name is emptied and used.
LaunchOver(c) ==
    LET f == IF files[Name(c)] = NoFile THEN c ELSE files[Name(c)] IN
    /\ pc[c] = "open"
    /\ files' = [files EXCEPT ![Name(c)] = f]
    /\ text' = [text EXCEPT ![f] = {}]
    /\ procs' = [procs EXCEPT ![c] = {"child"}]
    /\ Set(c, [call[c] EXCEPT !.opened = f])
    /\ Goto(c, "try")
    /\ UNCHANGED <<kernel, clock, wrote, left>>

\* create_new refuses files that exist.  The child leads its group, and the
\* first look at the files follows at once.
Launch(c) ==
    /\ pc[c] = "open"
    /\ \/ /\ files[Name(c)] = NoFile
          /\ files' = [files EXCEPT ![Name(c)] = c]
          /\ procs' = [procs EXCEPT ![c] = {"child"}]
          /\ Goto(c, IF call[c].caps = [wall |-> NoCap, idle |-> NoCap]
                       THEN "wait" ELSE "try")
          /\ UNCHANGED left
       \/ /\ files[Name(c)] # NoFile
          /\ Goto(c, "error")
          /\ UNCHANGED <<procs, files, left>>
       \/ files[Name(c)] = NoFile /\ Spend("faults") /\ Goto(c, "error") /\ UNCHANGED <<procs, files>>
    /\ UNCHANGED <<kernel, clock, call, text, wrote>>

\* (mutant of KillTree) Only the child is killed.
KillChild(c) == procs' = [procs EXCEPT ![c] = @ \ {"child"}]

\* (mutant of KillTree) Nothing is killed.
KillNothing(c) == UNCHANGED procs

\* The child and all that is still in its group.
KillTree(c) == procs' = [procs EXCEPT ![c] = @ \ {"child", "group"}]

TryWait(c) ==
    /\ pc[c] = "try"
    /\ \/ /\ Goto(c, IF "child" \in procs[c] THEN "poll" ELSE "wait")
          /\ UNCHANGED <<procs, files, left>>
       \/ /\ Spend("faults")
          /\ KillTree(c)
          /\ Remove(c)
          /\ Goto(c, "error")
    /\ UNCHANGED <<kernel, clock, call, text, wrote>>

Reached(t, cap) == cap # NoCap /\ t >= cap

Overdue(c) == Reached(clock - call[c].start, call[c].caps.wall)

\* What is found under the name of a call.
Found(c) == IF files[Name(c)] = NoFile THEN {} ELSE text[files[Name(c)]]

\* (mutant of Watched) Only the first stream is looked at.
WatchedOut(c) == {w \in Found(c) : w.stream = "out"}

\* Both streams are looked at.
Watched(c) == Found(c)

\* The deadline first; then the files, if they can be seen; then the idle time.
Poll(c) ==
    LET k == call[c]
        moved == k.caps.idle # NoCap /\ files[Name(c)] # NoFile /\ Watched(c) # k.seen
        activity == IF moved THEN clock ELSE k.activity
        idle == Reached(clock - activity, k.caps.idle)
    IN
    /\ pc[c] = "poll"
    /\ \/ /\ Overdue(c) \/ idle
          /\ Set(c, [k EXCEPT !.aborted = IF Overdue(c) THEN "wall" ELSE "idle",
                              !.until = clock])
          /\ KillTree(c)
          /\ Goto(c, "wait")
       \/ /\ ~Overdue(c) /\ ~idle
          /\ Set(c, [k EXCEPT !.activity = activity,
                              !.seen = IF moved THEN Watched(c) ELSE @])
          /\ Goto(c, "try")
          /\ UNCHANGED procs
    /\ UNCHANGED <<kernel, clock, files, text, wrote, left>>

\* The child is waited for, by a call without a cap from the start.  A transcript
\* that cannot be read is empty.
Collect(c) ==
    /\ pc[c] = "wait"
    /\ "child" \notin procs[c]
    /\ Set(c, [call[c] EXCEPT !.output = Found(c)])
    /\ Remove(c)
    /\ Goto(c, "ok")
    /\ UNCHANGED <<kernel, clock, procs, text, wrote, left>>

Step(c) == Launch(c) \/ TryWait(c) \/ Poll(c) \/ Collect(c)

\* The kernel is killed; the processes it started and its files stay.
Restart ==
    /\ Spend("crashes")
    /\ kernel' \in [pid : Pids, token : {0}]
    /\ pc' = [c \in Calls |->
                IF pc[c] \in {"new", "ok", "error"} THEN pc[c] ELSE "lost"]
    /\ UNCHANGED <<clock, call, procs, files, text, wrote>>

-----------------------------------------------------------------------------
(* The processes of a call *)

\* The files a process holds open are those its call opened, unlinked or not.
Write(c) ==
    \E p \in procs[c], s \in {"out", "err"} :
        /\ wrote[c] < MaxWrites
        /\ wrote' = [wrote EXCEPT ![c] = @ + 1]
        /\ text' = [text EXCEPT ![call[c].opened] = @ \cup
                {[call |-> c, n |-> wrote[c] + 1, time |-> clock, stream |-> s, by |-> p]}]
        /\ UNCHANGED <<kernel, clock, pc, call, procs, files, left>>

\* The child leaves a process in its group, or one that calls setsid.
Fork(c) ==
    /\ "child" \in procs[c]
    /\ Spend("forks")
    /\ \E p \in {"group", "escaped"} : procs' = [procs EXCEPT ![c] = @ \cup {p}]
    /\ UNCHANGED <<kernel, clock, pc, call, files, text, wrote>>

\* The child ends by itself; what it left in the background stays.
Exit(c) ==
    /\ "child" \in procs[c]
    /\ procs' = [procs EXCEPT ![c] = @ \ {"child"}]
    /\ UNCHANGED <<kernel, clock, pc, call, files, text, wrote, left>>

\* The command may remove the files it finds in its directory.
Unlink(c) ==
    /\ procs[c] # {}
    /\ Spend("faults")
    /\ files[Name(c)] # NoFile
    /\ Remove(c)
    /\ UNCHANGED <<kernel, clock, pc, call, procs, text, wrote>>

\* Only the time that passes during a call matters.
Tick ==
    /\ clock < Horizon
    /\ \E c \in Calls : pc[c] \notin Resting
    /\ clock' = clock + 1
    /\ UNCHANGED <<kernel, pc, call, procs, files, text, wrote, left>>

Finished ==
    /\ \A c \in Calls : pc[c] \in Resting
    /\ UNCHANGED vars

Next ==
    \/ \E c \in Calls : Begin(c) \/ Step(c) \/ Write(c) \/ Fork(c) \/ Exit(c) \/ Unlink(c)
    \/ Restart
    \/ Tick
    \/ Finished

\* Time passes and the kernel's loops go on; a command need not end.
Fairness == WF_vars(Tick) /\ \A c \in Calls : WF_vars(Step(c))

Spec == Init /\ [][Next]_vars
LiveSpec == Spec /\ Fairness

-----------------------------------------------------------------------------
(* Properties *)

TypeOK ==
    /\ kernel \in [pid : Pids, token : 0..Cardinality(Calls)]
    /\ clock \in 0..Horizon
    /\ pc \in [Calls -> Location]
    /\ call \in [Calls -> Call]
    /\ procs \in [Calls -> SUBSET Processes]
    /\ files \in [Names -> Calls \cup {NoFile}]
    /\ text \in [Calls -> SUBSET Writes]
    /\ wrote \in [Calls -> 0..MaxWrites]
    /\ left \in [forks : Nat, faults : Nat, crashes : Nat]

\* A call that was aborted, or that gave up, has left nothing running in its
\* group and no files of its own (worker.rs:213-216, 255-257).
NothingLeft ==
    \A c \in Calls :
        /\ pc[c] = "error" \/ (pc[c] = "ok" /\ call[c].aborted # "no") =>
              procs[c] \subseteq {"escaped"}
        /\ pc[c] \in {"ok", "error"} => files[Name(c)] # c

\* A call is killed as stuck only after a full idle interval in which neither
\* its child nor its group wrote to either stream (worker.rs:241-245), unless
\* the files were unlinked under the kernel.
IdleNeedsSilence ==
    \A c \in Calls :
        call[c].aborted = "idle" /\ left.faults = MaxFaults =>
            \A w \in text[c] :
                w.by # "escaped" => call[c].until - w.time >= call[c].caps.idle

\* The transcript of a call holds what its own processes wrote and nothing of
\* another call's, a dead kernel's included (worker.rs:53-56), and, unless the
\* files were unlinked, all that its child wrote before it ended or was killed.
TranscriptKept ==
    \A c \in Calls : pc[c] = "ok" =>
        /\ \A w \in call[c].output : w.call = c
        /\ left.faults = MaxFaults =>
              {w \in text[c] : w.by = "child"} \subseteq call[c].output

\* A call with a wall cap returns, whatever its command does, unless the kernel
\* dies.
CallReturns ==
    \A c \in Calls :
        (pc[c] = "open" /\ call[c].caps.wall # NoCap)
            ~> pc[c] \in {"ok", "error", "lost"}

-----------------------------------------------------------------------------
(* What the code does not promise *)

\* A command that ended before its deadline is not reported as aborted.
ExitIsReported ==
    [][\A c \in Calls :
          call'[c].aborted = "wall" /\ call[c].aborted = "no" => "child" \in procs[c]]_vars

\* A new kernel's first calls are not refused because an old one was killed.
LeftoversDoNotRefuse ==
    \A c \in Calls : pc[c] = "error" => left.faults < MaxFaults
=============================================================================
