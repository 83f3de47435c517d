--------------------------- MODULE CappedRunProofs ---------------------------
(***************************************************************************)
(* Theorems about CappedRun for any number of calls, caps, processes left  *)
(* in the background, writes, failures and restarts.                       *)
(***************************************************************************)
EXTENDS CappedRun, FiniteSetTheorems, TLAPS

-----------------------------------------------------------------------------
(* The inductive invariant *)

Begun == {c \in Calls : pc[c] # "new"}

\* A token is drawn by each call that begins, and faults are only used up.
TypeInv ==
    /\ TypeOK
    /\ kernel.token <= Cardinality(Begun)
    /\ left.faults <= MaxFaults

Active(c) == pc[c] \notin Resting

\* A kernel makes its calls one after another.
Alone == \A c, d \in Calls : Active(c) /\ Active(d) => c = d

\* The files a call has made have its name, and are there while it goes on.
OwnFiles ==
    \A c \in Calls, n \in Names :
        files[n] = c => n = Name(c) /\ pc[c] \in {"try", "poll", "wait", "lost"}

Held ==
    \A c \in Calls : pc[c] \in {"try", "poll", "wait"} =>
        /\ files[Name(c)] \in {c, NoFile}
        /\ left.faults = MaxFaults => files[Name(c)] = c

\* A process writes to what its own call has opened, from its launch on.
OwnText ==
    \A c \in Calls :
        /\ call[c].opened = c
        /\ \A w \in text[c] : w.call = c /\ w.time <= clock
        /\ pc[c] \in {"new", "open"} => procs[c] = {} /\ text[c] = {} /\ call[c].seen = {}

\* Only a call that waits, or has waited, was aborted, and then its tree is gone.
Killed ==
    \A c \in Calls :
        /\ pc[c] \in {"new", "open", "try", "poll"} => call[c].aborted = "no"
        /\ call[c].aborted # "no" \/ pc[c] = "error" => procs[c] \subseteq {"escaped"}

\* What the idle clock has seen is older than its last reset.
Watching ==
    \A c \in Calls : pc[c] \in {"open", "try", "poll"} =>
        /\ call[c].activity <= clock
        /\ call[c].seen \subseteq text[c]
        /\ \A w \in call[c].seen : w.time <= call[c].activity

\* A transcript is taken when the child is gone.
Taken ==
    \A c \in Calls : pc[c] = "ok" =>
        /\ "child" \notin procs[c]
        /\ \A w \in call[c].output : w.call = c
        /\ left.faults = MaxFaults =>
              {w \in text[c] : w.by = "child"} \subseteq call[c].output

IInv ==
    /\ TypeInv /\ Alone /\ OwnFiles /\ Held /\ OwnText
    /\ Killed /\ Watching /\ Taken /\ IdleNeedsSilence

-----------------------------------------------------------------------------
(* Type correctness *)

\* The assumptions on the constants, one by one.
LEMMA Bounds ==
    /\ IsFiniteSet(Calls)
    /\ Horizon \in Nat /\ MaxWrites \in Nat /\ MaxForks \in Nat
    /\ MaxFaults \in Nat /\ MaxCrashes \in Nat
    /\ NoCap \notin Nat /\ NoFile \notin Calls /\ Caps # {}
    /\ Caps \subseteq [wall : Nat \cup {NoCap}, idle : Nat \cup {NoCap}]
  BY CappedRunAssumption DEF CappedRunAssumption

Left == [forks : Nat, faults : Nat, crashes : Nat]

\* A bound is used up one by one; the others stay.
LEMMA SpendTyped ==
    ASSUME left \in Left, NEW k \in {"forks", "faults", "crashes"}, Spend(k)
    PROVE  /\ left' \in Left
           /\ left'.faults <= left.faults
           /\ k = "faults" => left'.faults < left.faults
           /\ k # "faults" => left'.faults = left.faults
  BY DEF Left, Spend

LEMMA TypeInvLeft == TypeInv => left \in Left
  BY DEF TypeInv, TypeOK, Left

LEMMA TreeTyped ==
    ASSUME TypeOK, NEW c \in Calls, KillTree(c)
    PROVE  procs' \in [Calls -> SUBSET Processes]
  BY DEF TypeOK, KillTree

LEMMA RemoveTyped ==
    ASSUME TypeOK, NEW c \in Calls, Remove(c)
    PROVE  files' \in [Names -> Calls \cup {NoFile}]
  BY DEF TypeOK, Remove

LEMMA GotoTyped ==
    ASSUME TypeOK, NEW c \in Calls, NEW l \in Location, Goto(c, l)
    PROVE  /\ pc' \in [Calls -> Location]
           /\ pc'[c] = l
           /\ \A d \in Calls \ {c} : pc'[d] = pc[d]
  BY DEF TypeOK, Goto

LEMMA SetTyped ==
    ASSUME TypeOK, NEW c \in Calls, NEW k \in Call, Set(c, k)
    PROVE  /\ call' \in [Calls -> Call]
           /\ call'[c] = k
           /\ \A d \in Calls \ {c} : call'[d] = call[d]
  BY DEF TypeOK, Set

LEMMA NameTyped ==
    ASSUME TypeOK, NEW c \in Calls
    PROVE  call[c] \in Call /\ Name(c) \in Names /\ Name(c) = call[c].name
  BY DEF TypeOK, Name, Call

LEMMA FoundTyped ==
    ASSUME TypeOK, NEW c \in Calls
    PROVE  Found(c) \in SUBSET Writes
  BY NameTyped DEF TypeOK, Found

\* No fewer calls have begun than tokens were drawn, and a step that begins none
\* draws none.
LEMMA BegunStays ==
    ASSUME TypeOK, pc' \in [Calls -> Location],
           \A c \in Calls : pc'[c] = "new" <=> pc[c] = "new"
    PROVE  Begun' = Begun
  BY DEF Begun

\* A call that begins is one more.
LEMMA BegunGrows ==
    ASSUME TypeInv, NEW c \in Calls, Begin(c)
    PROVE  /\ kernel.token + 1 <= Cardinality(Begun')
           /\ kernel.token + 1 \in 0..Cardinality(Calls)
<1>1. pc' = [pc EXCEPT ![c] = "open"] /\ pc \in [Calls -> Location] /\ pc[c] = "new"
  BY DEF TypeInv, TypeOK, Begin, Goto
<1>2. Begun' = Begun \cup {c} /\ c \notin Begun
  BY <1>1 DEF Begun
<1>3. IsFiniteSet(Begun) /\ IsFiniteSet(Begun') /\ Begun' \subseteq Calls
  BY Bounds, FS_Subset DEF Begun
<1>4. Cardinality(Begun') = Cardinality(Begun) + 1 /\ Cardinality(Begun) \in Nat
  BY <1>2, <1>3, FS_AddElement, FS_CardinalityType
<1>5. Cardinality(Begun') <= Cardinality(Calls) /\ Cardinality(Calls) \in Nat
  BY <1>3, Bounds, FS_Subset, FS_CardinalityType
<1>6. kernel.token \in Nat /\ kernel.token <= Cardinality(Begun)
  BY <1>5 DEF TypeInv, TypeOK
<1> QED
  BY <1>4, <1>5, <1>6

LEMMA BeginTyped ==
    ASSUME TypeInv, NEW c \in Calls, Begin(c)
    PROVE  TypeInv'
<1> USE Bounds
<1>1. TypeOK
  BY DEF TypeInv
<1>2. PICK k \in Caps :
        call' = [call EXCEPT ![c] =
                    [call[c] EXCEPT !.name = <<kernel.pid, kernel.token>>,
                                    !.caps = k, !.start = clock, !.activity = clock]]
  BY DEF Begin, Set
<1>3. /\ clock \in Nat /\ call \in [Calls -> Call]
      /\ kernel \in [pid : Pids, token : 0..Cardinality(Calls)]
  BY <1>1 DEF TypeOK
<1>4. <<kernel.pid, kernel.token>> \in Names
  BY <1>3 DEF Names
<1>5. call' \in [Calls -> Call]
  <2>1. call[c] \in Call
    BY <1>3
  <2>2. [call[c] EXCEPT !.name = <<kernel.pid, kernel.token>>,
                        !.caps = k, !.start = clock, !.activity = clock] \in Call
    BY <2>1, <1>3, <1>4 DEF Call
  <2> QED
    BY <2>2, <1>2, <1>3
<1>6. kernel' \in [pid : Pids, token : 0..Cardinality(Calls)] /\ kernel'.token = kernel.token + 1
  BY <1>3, BegunGrows DEF Begin
<1>7. pc' \in [Calls -> Location]
  BY <1>1, GotoTyped DEF Begin, Location
<1> QED
  BY <1>1, <1>5, <1>6, <1>7, BegunGrows DEF TypeInv, TypeOK, Begin

LEMMA LaunchTyped ==
    ASSUME TypeInv, NEW c \in Calls, Launch(c)
    PROVE  TypeInv'
<1> USE Bounds
<1>1. TypeOK /\ Name(c) \in Names
  BY NameTyped DEF TypeInv
<1>2. /\ pc' \in [Calls -> Location]
      /\ \A d \in Calls : pc'[d] = "new" <=> pc[d] = "new"
  BY <1>1 DEF Launch, Goto, TypeOK, Location
<1>3. Begun' = Begun
  BY <1>1, <1>2, BegunStays
<1>4. left' \in Left /\ left'.faults <= left.faults /\ left.faults \in Nat
  BY TypeInvLeft, SpendTyped DEF Launch, Left
<1>5. files' \in [Names -> Calls \cup {NoFile}] /\ procs' \in [Calls -> SUBSET Processes]
  BY <1>1 DEF Launch, TypeOK, Processes
<1> QED
  BY <1>1, <1>2, <1>3, <1>4, <1>5 DEF TypeInv, TypeOK, Launch, Left

LEMMA TryWaitTyped ==
    ASSUME TypeInv, NEW c \in Calls, TryWait(c)
    PROVE  TypeInv'
<1> USE Bounds
<1>1. TypeOK /\ Name(c) \in Names
  BY NameTyped DEF TypeInv
<1>2. /\ pc' \in [Calls -> Location]
      /\ \A d \in Calls : pc'[d] = "new" <=> pc[d] = "new"
  BY <1>1 DEF TryWait, Goto, TypeOK, Location
<1>3. Begun' = Begun
  BY <1>1, <1>2, BegunStays
<1>4. left' \in Left /\ left'.faults <= left.faults /\ left.faults \in Nat
  BY TypeInvLeft, SpendTyped DEF TryWait, Left
<1>5. files' \in [Names -> Calls \cup {NoFile}] /\ procs' \in [Calls -> SUBSET Processes]
  BY <1>1, RemoveTyped, TreeTyped DEF TryWait, TypeOK
<1> QED
  BY <1>1, <1>2, <1>3, <1>4, <1>5 DEF TypeInv, TypeOK, TryWait, Left

LEMMA PollTyped ==
    ASSUME TypeInv, NEW c \in Calls, Poll(c)
    PROVE  TypeInv'
<1> USE Bounds
<1>1. TypeOK /\ call[c] \in Call /\ Found(c) \in SUBSET Writes /\ clock \in Nat
  BY NameTyped, FoundTyped DEF TypeInv, TypeOK
<1>2. /\ pc' \in [Calls -> Location]
      /\ \A d \in Calls : pc'[d] = "new" <=> pc[d] = "new"
  BY <1>1 DEF Poll, Goto, TypeOK, Location
<1>3. Begun' = Begun
  BY <1>1, <1>2, BegunStays
<1>4. procs' \in [Calls -> SUBSET Processes]
  BY <1>1, TreeTyped DEF Poll, TypeOK
<1>5. call' \in [Calls -> Call]
  <2> DEFINE moved == call[c].caps.idle # NoCap /\ files[Name(c)] # NoFile
                          /\ Watched(c) # call[c].seen
             activity == IF moved THEN clock ELSE call[c].activity
             cut == [call[c] EXCEPT !.aborted = IF Overdue(c) THEN "wall" ELSE "idle",
                                    !.until = clock]
             on == [call[c] EXCEPT !.activity = activity,
                                   !.seen = IF moved THEN Watched(c) ELSE @]
  <2>1. Set(c, cut) \/ Set(c, on)
    BY DEF Poll
  <2>2. cut \in Call
    BY <1>1 DEF Call
  <2>3. on \in Call
    BY <1>1 DEF Call, Watched
  <2> HIDE DEF cut, on
  <2> QED
    BY <2>1, <2>2, <2>3, <1>1, SetTyped
<1> QED
  BY <1>1, <1>2, <1>3, <1>4, <1>5 DEF TypeInv, TypeOK, Poll

LEMMA CollectTyped ==
    ASSUME TypeInv, NEW c \in Calls, Collect(c)
    PROVE  TypeInv'
<1> USE Bounds
<1>1. TypeOK /\ call[c] \in Call /\ Found(c) \in SUBSET Writes
  BY NameTyped, FoundTyped DEF TypeInv
<1>2. /\ pc' \in [Calls -> Location]
      /\ \A d \in Calls : pc'[d] = "new" <=> pc[d] = "new"
  BY <1>1 DEF Collect, Goto, TypeOK, Location
<1>3. Begun' = Begun
  BY <1>1, <1>2, BegunStays
<1>4. [call[c] EXCEPT !.output = Found(c)] \in Call
  BY <1>1 DEF Call
<1>5. call' \in [Calls -> Call] /\ files' \in [Names -> Calls \cup {NoFile}]
  BY <1>1, <1>4, SetTyped, RemoveTyped DEF Collect
<1> QED
  BY <1>1, <1>2, <1>3, <1>5 DEF TypeInv, TypeOK, Collect

LEMMA RestartTyped ==
    ASSUME TypeInv, Restart
    PROVE  TypeInv'
<1> USE Bounds
<1>1. TypeOK
  BY DEF TypeInv
<1>2. /\ pc' \in [Calls -> Location]
      /\ \A d \in Calls : pc'[d] = "new" <=> pc[d] = "new"
  BY <1>1 DEF Restart, TypeOK, Location
<1>3. Begun' = Begun /\ Cardinality(Begun) \in Nat /\ Cardinality(Calls) \in Nat
  BY <1>1, <1>2, BegunStays, FS_Subset, FS_CardinalityType DEF Begun
<1>4. left' \in Left /\ left'.faults <= left.faults /\ left.faults \in Nat
  BY TypeInvLeft, SpendTyped DEF Restart, Left
<1>5. kernel' \in [pid : Pids, token : 0..Cardinality(Calls)] /\ kernel'.token = 0
  BY <1>3 DEF Restart
<1> QED
  BY <1>1, <1>2, <1>3, <1>4, <1>5 DEF TypeInv, TypeOK, Restart, Left

\* The steps of the command's processes and of the clock leave the kernel alone.
LEMMA WriteTyped ==
    ASSUME TypeInv, NEW c \in Calls, Write(c)
    PROVE  TypeInv'
<1> USE Bounds
<1>1. TypeOK /\ call[c].opened \in Calls
  BY NameTyped DEF TypeInv, Call
<1>2. PICK p \in procs[c], s \in {"out", "err"} :
        /\ wrote[c] < MaxWrites
        /\ wrote' = [wrote EXCEPT ![c] = @ + 1]
        /\ text' = [text EXCEPT ![call[c].opened] = @ \cup
                {[call |-> c, n |-> wrote[c] + 1, time |-> clock, stream |-> s, by |-> p]}]
  BY DEF Write
<1>3. [call |-> c, n |-> wrote[c] + 1, time |-> clock, stream |-> s, by |-> p] \in Writes
  BY <1>1, <1>2 DEF Writes, TypeOK
<1>4. wrote' \in [Calls -> 0..MaxWrites] /\ text' \in [Calls -> SUBSET Writes]
  BY <1>1, <1>2, <1>3 DEF TypeOK
<1>5. Begun' = Begun
  BY DEF Write, Begun
<1> QED
  BY <1>1, <1>4, <1>5 DEF TypeInv, TypeOK, Write

LEMMA OutsideTyped ==
    ASSUME TypeInv,
           Tick \/ UNCHANGED vars \/ \E c \in Calls : Fork(c) \/ Exit(c) \/ Unlink(c)
    PROVE  TypeInv'
<1> USE Bounds
<1>1. TypeOK /\ left \in Left
  BY TypeInvLeft DEF TypeInv
<1>2. Begun' = Begun
  BY DEF Tick, vars, Fork, Exit, Unlink, Begun
<1>3. CASE Tick
  BY <1>1, <1>2, <1>3 DEF Tick, TypeInv, TypeOK
<1>4. CASE UNCHANGED vars
  BY <1>1, <1>2, <1>4 DEF vars, TypeInv, TypeOK
<1>5. ASSUME NEW c \in Calls, Fork(c) PROVE TypeInv'
  <2>1. procs' \in [Calls -> SUBSET Processes]
    BY <1>1, <1>5 DEF Fork, TypeOK, Processes
  <2>2. left' \in Left /\ left'.faults <= left.faults /\ left.faults \in Nat
    BY <1>1, <1>5, SpendTyped DEF Fork, Left
  <2> QED
    BY <1>1, <1>2, <1>5, <2>1, <2>2 DEF Fork, TypeInv, TypeOK, Left
<1>6. ASSUME NEW c \in Calls, Exit(c) PROVE TypeInv'
  <2>1. procs' \in [Calls -> SUBSET Processes]
    BY <1>1, <1>6 DEF Exit, TypeOK
  <2> QED
    BY <1>1, <1>2, <1>6, <2>1 DEF Exit, TypeInv, TypeOK
<1>7. ASSUME NEW c \in Calls, Unlink(c) PROVE TypeInv'
  <2>1. files' \in [Names -> Calls \cup {NoFile}]
    BY <1>1, <1>7, RemoveTyped DEF Unlink
  <2>2. left' \in Left /\ left'.faults <= left.faults /\ left.faults \in Nat
    BY <1>1, <1>7, SpendTyped DEF Unlink, Left
  <2> QED
    BY <1>1, <1>2, <1>7, <2>1, <2>2 DEF Unlink, TypeInv, TypeOK, Left
<1> QED
  BY <1>3, <1>4, <1>5, <1>6, <1>7

\* The actions of Next, and the stutter.
LEMMA Steps ==
    ASSUME [Next]_vars
    PROVE  \/ \E c \in Calls : \/ Begin(c) \/ Launch(c) \/ TryWait(c) \/ Poll(c)
                               \/ Collect(c) \/ Write(c) \/ Fork(c) \/ Exit(c) \/ Unlink(c)
           \/ Restart \/ Tick \/ UNCHANGED vars
  BY DEF Next, Step, Finished

LEMMA InitTypeInv == Init => TypeInv
<1> SUFFICES ASSUME Init PROVE TypeInv
  OBVIOUS
<1> USE Bounds
<1>1. Cardinality(Calls) \in Nat /\ Begun = {} /\ Cardinality(Begun) = 0
  BY FS_CardinalityType, FS_EmptySet DEF Init, Begun
<1>2. (CHOOSE k \in Caps : TRUE) \in Caps
  OBVIOUS
<1>3. kernel \in [pid : Pids, token : 0..Cardinality(Calls)] /\ kernel.token = 0
  BY <1>1 DEF Init
<1>4. <<kernel.pid, 0>> \in Names
  BY <1>1, <1>3 DEF Names
<1>5. call \in [Calls -> Call]
  BY <1>2, <1>4 DEF Init, Call
<1>6. pc \in [Calls -> Location] /\ files \in [Names -> Calls \cup {NoFile}]
  BY DEF Init, Location
<1>7. /\ procs \in [Calls -> SUBSET Processes] /\ text \in [Calls -> SUBSET Writes]
      /\ wrote \in [Calls -> 0..MaxWrites]
  BY DEF Init
<1>8. /\ left \in [forks : Nat, faults : Nat, crashes : Nat] /\ left.faults = MaxFaults
      /\ clock \in 0..Horizon
  BY DEF Init
<1> QED
  BY <1>1, <1>3, <1>5, <1>6, <1>7, <1>8 DEF TypeInv, TypeOK

LEMMA StepTypeInv == TypeInv /\ [Next]_vars => TypeInv'
<1> SUFFICES ASSUME TypeInv, [Next]_vars PROVE TypeInv'
  OBVIOUS
<1> QED
  BY Steps, BeginTyped, LaunchTyped, TryWaitTyped, PollTyped, CollectTyped, WriteTyped,
     RestartTyped, OutsideTyped

\* The run, the files and the transcripts keep their types, whatever the command
\* does and however often the kernel is restarted.
THEOREM TypeCorrect == Spec => []TypeOK
<1>1. TypeInv => TypeOK
  BY DEF TypeInv
<1> QED
  BY <1>1, InitTypeInv, StepTypeInv, PTL DEF Spec

-----------------------------------------------------------------------------
(* The steps of one call *)

OfCall(c) ==
    \/ Begin(c) \/ Launch(c) \/ TryWait(c) \/ Poll(c) \/ Collect(c)
    \/ Write(c) \/ Fork(c) \/ Exit(c) \/ Unlink(c)

\* A step of one call leaves the others alone, but for the files of their name.
LEMMA OthersStay ==
    ASSUME TypeOK, OwnText, NEW c \in Calls, OfCall(c), NEW d \in Calls \ {c}
    PROVE  /\ pc'[d] = pc[d] /\ call'[d] = call[d]
           /\ procs'[d] = procs[d] /\ text'[d] = text[d]
<1>1. pc'[d] = pc[d]
  BY DEF TypeOK, OfCall, Begin, Launch, TryWait, Poll, Collect, Write, Fork, Exit, Unlink, Goto
<1>2. call'[d] = call[d]
  BY DEF TypeOK, OfCall, Begin, Launch, TryWait, Poll, Collect, Write, Fork, Exit, Unlink, Set
<1>3. procs'[d] = procs[d]
  BY DEF TypeOK, OfCall, Begin, Launch, TryWait, Poll, Collect, Write, Fork, Exit, Unlink,
         KillTree
<1>4. text'[d] = text[d]
  BY DEF TypeOK, OwnText, OfCall, Begin, Launch, TryWait, Poll, Collect, Write, Fork, Exit, Unlink
<1> QED
  BY <1>1, <1>2, <1>3, <1>4

\* What does not change, or how, in every step of a call.
LEMMA Common ==
    ASSUME TypeInv, NEW c \in Calls, OfCall(c)
    PROVE  /\ clock' = clock /\ clock \in Nat
           /\ left.faults \in Nat /\ left'.faults \in Nat
           /\ left'.faults <= left.faults /\ left.faults <= MaxFaults /\ MaxFaults \in Nat
<1>1. left \in Left /\ clock \in Nat /\ MaxFaults \in Nat /\ left.faults <= MaxFaults
  BY TypeInvLeft, Bounds DEF TypeInv, TypeOK
<1>2. clock' = clock
  BY DEF OfCall, Begin, Launch, TryWait, Poll, Collect, Write, Fork, Exit, Unlink
<1>3. left' = left \/ Spend("faults") \/ Spend("forks")
  BY DEF OfCall, Begin, Launch, TryWait, Poll, Collect, Write, Fork, Exit, Unlink
<1>4. left' \in Left /\ left'.faults <= left.faults
  BY <1>1, <1>3, SpendTyped DEF Left
<1> QED
  BY <1>1, <1>2, <1>4 DEF Left

\* How the location of a call and its processes change.
LEMMA Path ==
    ASSUME TypeOK, NEW c \in Calls, OfCall(c)
    PROVE  \/ pc[c] = "new" /\ pc'[c] = "open" /\ Begin(c)
           \/ pc[c] = "open" /\ pc'[c] \in {"try", "wait", "error"} /\ Launch(c)
           \/ pc[c] = "try" /\ pc'[c] \in {"poll", "wait", "error"} /\ TryWait(c)
           \/ pc[c] = "poll" /\ pc'[c] \in {"try", "wait"} /\ Poll(c)
           \/ pc[c] = "wait" /\ pc'[c] = "ok" /\ Collect(c)
           \/ pc' = pc /\ call' = call /\ (Write(c) \/ Fork(c) \/ Exit(c) \/ Unlink(c))
<1>1. CASE Begin(c)
  BY <1>1 DEF TypeOK, Begin, Goto
<1>2. CASE Launch(c)
  BY <1>2 DEF TypeOK, Launch, Goto
<1>3. CASE TryWait(c)
  BY <1>3 DEF TypeOK, TryWait, Goto
<1>4. CASE Poll(c)
  BY <1>4 DEF TypeOK, Poll, Goto
<1>5. CASE Collect(c)
  BY <1>5 DEF TypeOK, Collect, Goto
<1>6. CASE Write(c) \/ Fork(c) \/ Exit(c) \/ Unlink(c)
  BY <1>6 DEF Write, Fork, Exit, Unlink
<1> QED
  BY <1>1, <1>2, <1>3, <1>4, <1>5, <1>6 DEF OfCall

\* Once it has begun, a call keeps its name, its caps and the files it opens.
LEMMA CallStays ==
    ASSUME TypeOK, NEW c \in Calls, OfCall(c)
    PROVE  /\ call'[c].opened = call[c].opened
           /\ pc[c] # "new" => /\ call'[c].name = call[c].name
                              /\ call'[c].caps = call[c].caps
                              /\ call'[c].start = call[c].start
<1>1. call \in [Calls -> Call]
  BY DEF TypeOK
<1>2. CASE Begin(c)
  BY <1>1, <1>2 DEF Begin, Set, Call
<1>3. CASE Poll(c)
  <2>1. PICK a \in {"wall", "idle"}, u \in {clock}, t \in {clock, call[c].activity},
               s \in {Watched(c), call[c].seen} :
            \/ Set(c, [call[c] EXCEPT !.aborted = a, !.until = u])
            \/ Set(c, [call[c] EXCEPT !.activity = t, !.seen = s])
    BY <1>3 DEF Poll
  <2>2. \/ call'[c] = [call[c] EXCEPT !.aborted = a, !.until = u]
        \/ call'[c] = [call[c] EXCEPT !.activity = t, !.seen = s]
    BY <1>1, <2>1 DEF Set
  <2>3. call[c] \in Call
    BY <1>1
  <2> QED
    BY <2>2, <2>3 DEF Call
<1>4. CASE Collect(c)
  BY <1>1, <1>4 DEF Collect, Set, Call
<1>5. CASE call' = call
  BY <1>5, <1>1
<1> QED
  BY <1>2, <1>3, <1>4, <1>5 DEF OfCall, Launch, TryWait, Write, Fork, Exit, Unlink

\* A restart loses the calls in progress and nothing else.
LEMMA RestartLoses ==
    ASSUME TypeInv, Restart, NEW c \in Calls
    PROVE  /\ pc'[c] = pc[c] \/ pc'[c] = "lost"
           /\ pc'[c] \in Resting
           /\ UNCHANGED <<clock, call, procs, files, text>> /\ left'.faults = left.faults
           /\ clock \in Nat
<1>1. left'.faults = left.faults
  BY TypeInvLeft, SpendTyped DEF Restart
<1> QED
  BY <1>1, Bounds DEF TypeInv, TypeOK, Restart, Resting

\* The clock moves alone.
LEMMA TickMoves ==
    ASSUME TypeInv, Tick
    PROVE  /\ UNCHANGED <<pc, call, procs, files, text, left>>
           /\ clock' \in Nat /\ clock \in Nat /\ clock' = clock + 1
  BY Bounds DEF TypeInv, TypeOK, Tick

LEMMA NextSteps ==
    ASSUME [Next]_vars
    PROVE  (\E c \in Calls : OfCall(c)) \/ Restart \/ Tick \/ UNCHANGED vars
  BY Steps DEF OfCall

-----------------------------------------------------------------------------
(* One call at a time *)

LEMMA StepAlone ==
    ASSUME TypeInv, OwnText, Alone, [Next]_vars
    PROVE  Alone'
<1>1. TypeOK
  BY DEF TypeInv
<1>2. ASSUME NEW c \in Calls, OfCall(c) PROVE Alone'
  <2>1. \A d \in Calls \ {c} : pc'[d] = pc[d]
    BY <1>1, <1>2, OthersStay
  <2>2. CASE Begin(c)
    <3>1. \A d \in Calls \ {c} : pc'[d] \in Resting
      BY <2>1, <2>2 DEF Begin
    <3> QED
      BY <3>1 DEF Alone, Active
  <2>3. CASE pc[c] \in {"open", "try", "poll", "wait"}
    <3>1. Active(c)
      BY <2>3 DEF Active, Resting
    <3> QED
      BY <3>1, <2>1 DEF Alone, Active
  <2>4. CASE pc' = pc
    BY <2>4 DEF Alone, Active
  <2> QED
    BY <1>1, <1>2, <2>2, <2>3, <2>4, Path
<1>3. CASE Restart
  BY <1>3, RestartLoses DEF Alone, Active
<1>4. CASE Tick \/ UNCHANGED vars
  BY <1>4 DEF Tick, vars, Alone, Active
<1> QED
  BY <1>2, <1>3, <1>4, NextSteps

-----------------------------------------------------------------------------
(* The files of a call *)

LEMMA StepOwnFiles ==
    ASSUME TypeInv, OwnText, OwnFiles, [Next]_vars
    PROVE  OwnFiles'
<1>1. TypeOK /\ NoFile \notin Calls
  BY Bounds DEF TypeInv
<1>2. ASSUME NEW c \in Calls, OfCall(c) PROVE OwnFiles'
  <2> SUFFICES ASSUME NEW d \in Calls, NEW n \in Names, files'[n] = d
               PROVE  n = call'[d].name /\ pc'[d] \in {"try", "poll", "wait", "lost"}
    BY DEF OwnFiles, Name
  <2>1. Name(c) \in Names /\ files \in [Names -> Calls \cup {NoFile}]
    BY <1>1, NameTyped DEF TypeOK
  <2>2. \/ files' = files
        \/ Remove(c)
        \/ Launch(c) /\ files' = [files EXCEPT ![Name(c)] = c] /\ pc'[c] \in {"try", "wait"}
    <3>1. CASE Launch(c)
      BY <1>1, <3>1 DEF Launch, Goto, TypeOK
    <3> QED
      BY <1>2, <3>1 DEF OfCall, Begin, TryWait, Poll, Collect, Write, Fork, Exit, Unlink
  <2>3. CASE files[n] = d
    <3>1. n = call[d].name /\ pc[d] \in {"try", "poll", "wait", "lost"}
      BY <2>3 DEF OwnFiles, Name
    <3>2. CASE d # c
      BY <1>1, <1>2, <3>1, <3>2, OthersStay
    <3>3. CASE d = c
      <4>1. Remove(c) => files'[n] # d
        BY <1>1, <2>1, <3>1, <3>3 DEF Remove, Name
      <4>2. ~Remove(c)
        BY <4>1
      <4>3. call'[c].name = call[c].name
        BY <1>1, <1>2, <3>1, <3>3, CallStays
      <4>4. pc'[c] \in {"try", "poll", "wait", "lost"}
        BY <1>1, <1>2, <3>1, <3>3, <4>2, Path DEF TypeOK, TryWait, Goto, Collect
      <4> QED
        BY <3>1, <3>3, <4>3, <4>4
    <3> QED
      BY <3>2, <3>3
  <2>4. CASE files[n] # d
    <3>1. /\ Launch(c) /\ n = Name(c) /\ d = c /\ pc'[c] \in {"try", "wait"}
      BY <1>1, <2>1, <2>2, <2>4 DEF Remove
    <3> QED
      BY <3>1 DEF Launch, Name
  <2> QED
    BY <2>3, <2>4
<1>3. CASE Restart
  <2>1. \A c \in Calls : pc[c] \in {"try", "poll", "wait", "lost"} => pc'[c] = "lost"
    BY <1>1, <1>3 DEF Restart, TypeOK
  <2> QED
    BY <1>3, <2>1 DEF Restart, OwnFiles, Name
<1>4. CASE Tick \/ UNCHANGED vars
  BY <1>4 DEF Tick, vars, OwnFiles, Name
<1> QED
  BY <1>2, <1>3, <1>4, NextSteps

\* What a call does with the files of its name while it goes on.
LEMMA StepHeld ==
    ASSUME TypeInv, OwnText, Alone, Held, [Next]_vars
    PROVE  Held'
<1>1. TypeOK /\ NoFile \notin Calls
  BY Bounds DEF TypeInv
<1>2. ASSUME NEW c \in Calls, OfCall(c) PROVE Held'
  <2> SUFFICES ASSUME NEW d \in Calls, pc'[d] \in {"try", "poll", "wait"}
               PROVE  /\ files'[call'[d].name] \in {d, NoFile}
                      /\ left'.faults = MaxFaults => files'[call'[d].name] = d
    BY DEF Held, Name
  <2>1. Name(c) \in Names /\ Name(d) \in Names /\ files \in [Names -> Calls \cup {NoFile}]
    BY <1>1, NameTyped DEF TypeOK
  <2>2. CASE Launch(c)
    <3>1. d = c
      <4>1. Active(c)
        BY <2>2 DEF Launch, Active, Resting
      <4>2. d # c => Active(d)
        BY <1>1, <1>2, OthersStay DEF Active, Resting
      <4> QED
        BY <4>1, <4>2 DEF Alone
    <3>2. files' = [files EXCEPT ![Name(c)] = c] /\ call' = call
      BY <1>1, <2>2, <3>1 DEF Launch, Goto, TypeOK
    <3> QED
      BY <2>1, <3>1, <3>2 DEF Name
  <2>3. CASE ~Launch(c)
    <3>1. pc[d] \in {"try", "poll", "wait"} /\ call'[d].name = call[d].name
      <4>1. CASE d # c
        BY <1>1, <1>2, <4>1, OthersStay
      <4>2. CASE d = c
        <5>1. pc'[c] \in {"try", "poll", "wait"}
          BY <4>2
        <5>2. pc[c] \in {"try", "poll", "wait"}
          BY <1>1, <1>2, <2>3, <5>1, Path
        <5> QED
          BY <1>1, <1>2, <4>2, <5>2, CallStays
      <4> QED
        BY <4>1, <4>2
    <3>2. files[Name(d)] \in {d, NoFile} /\ (left.faults = MaxFaults => files[Name(d)] = d)
      BY <3>1 DEF Held
    <3>3. CASE files' = files
      BY <1>2, <3>1, <3>2, <3>3, Common DEF Name
    <3>4. CASE Remove(c) /\ Spend("faults")
      <4>1. left'.faults < left.faults
        BY <3>4, TypeInvLeft, SpendTyped
      <4>2. left'.faults # MaxFaults
        BY <1>2, <4>1, Common
      <4> QED
        BY <2>1, <3>1, <3>2, <3>4, <4>2 DEF Remove, Name
    <3>5. CASE Collect(c)
      <4>1. Active(c) /\ Active(d)
        BY <3>1, <3>5 DEF Collect, Active, Resting
      <4>2. c = d
        BY <4>1 DEF Alone
      <4> QED
        BY <1>1, <3>5, <4>2 DEF Collect, Goto, TypeOK
    <3> QED
      BY <1>2, <2>3, <3>3, <3>4, <3>5 DEF OfCall, Begin, TryWait, Poll, Write, Fork, Exit, Unlink
  <2> QED
    BY <2>2, <2>3
<1>3. CASE Restart
  BY <1>3, RestartLoses DEF Held, Resting
<1>4. CASE Tick \/ UNCHANGED vars
  BY <1>4 DEF Tick, vars, Held, Name
<1> QED
  BY <1>2, <1>3, <1>4, NextSteps

-----------------------------------------------------------------------------
(* What is written, and when *)

\* A write goes to the files of the writer's own call.
LEMMA WriteMoves ==
    ASSUME TypeOK, OwnText, NEW c \in Calls, Write(c)
    PROVE  \E w \in [call : {c}, n : {wrote[c] + 1}, time : {clock},
                     stream : {"out", "err"}, by : procs[c]] :
              text'[c] = text[c] \cup {w}
<1>1. call[c].opened = c /\ text \in [Calls -> SUBSET Writes]
  BY DEF OwnText, TypeOK
<1>2. PICK p \in procs[c], s \in {"out", "err"} :
        text' = [text EXCEPT ![call[c].opened] = @ \cup
                {[call |-> c, n |-> wrote[c] + 1, time |-> clock, stream |-> s, by |-> p]}]
  BY DEF Write
<1> DEFINE w == [call |-> c, n |-> wrote[c] + 1, time |-> clock, stream |-> s, by |-> p]
<1>3. w \in [call : {c}, n : {wrote[c] + 1}, time : {clock},
             stream : {"out", "err"}, by : procs[c]]
  OBVIOUS
<1>4. text' = [text EXCEPT ![c] = @ \cup {w}]
  BY <1>1, <1>2
<1> HIDE DEF w
<1>5. text'[c] = text[c] \cup {w}
  BY <1>1, <1>4
<1> QED
  BY <1>3, <1>5

LEMMA BeginMoves ==
    ASSUME TypeOK, NEW c \in Calls, Begin(c)
    PROVE  /\ call'[c].activity = clock /\ call'[c].seen = call[c].seen
           /\ call'[c].aborted = call[c].aborted
           /\ UNCHANGED <<procs, text, files, left>> /\ pc[c] = "new"
<1>1. PICK k \in Caps :
        call'[c] = [call[c] EXCEPT !.name = <<kernel.pid, kernel.token>>,
                                   !.caps = k, !.start = clock, !.activity = clock]
  BY DEF Begin, Set, TypeOK
<1>2. call[c] \in Call
  BY NameTyped
<1> QED
  BY <1>1, <1>2 DEF Begin, Call

LEMMA CollectMoves ==
    ASSUME TypeOK, NEW c \in Calls, Collect(c)
    PROVE  /\ call'[c].output = Found(c) /\ call'[c].aborted = call[c].aborted
           /\ call'[c].until = call[c].until
           /\ UNCHANGED <<procs, text, left>> /\ "child" \notin procs[c]
<1>1. call'[c] = [call[c] EXCEPT !.output = Found(c)] /\ call[c] \in Call
  BY NameTyped DEF Collect, Set, TypeOK
<1> QED
  BY <1>1 DEF Collect, Call

LEMMA TreeGone ==
    ASSUME TypeOK, NEW c \in Calls, KillTree(c)
    PROVE  procs'[c] \subseteq {"escaped"}
  BY DEF TypeOK, KillTree, Processes

\* A poll cuts the call off, or resets the idle clock when it sees something new.
LEMMA PollMoves ==
    ASSUME TypeOK, NEW c \in Calls, Poll(c)
    PROVE  /\ UNCHANGED <<text, files, left, clock>>
           /\ \/ /\ pc'[c] = "wait"
                 /\ call'[c].aborted \in {"wall", "idle"} /\ call'[c].until = clock
                 /\ procs'[c] \subseteq {"escaped"}
                 /\ call'[c].aborted = "idle" =>
                      /\ call[c].caps.idle # NoCap
                      /\ \/ /\ Found(c) # call[c].seen /\ files[Name(c)] # NoFile
                            /\ clock - clock >= call[c].caps.idle
                         \/ /\ Found(c) = call[c].seen \/ files[Name(c)] = NoFile
                            /\ clock - call[c].activity >= call[c].caps.idle
              \/ /\ pc'[c] = "try" /\ procs' = procs
                 /\ call'[c].aborted = call[c].aborted
                 /\ \/ call'[c].activity = clock /\ call'[c].seen = Found(c)
                    \/ /\ call'[c].activity = call[c].activity
                       /\ call'[c].seen = call[c].seen
<1> DEFINE moved == call[c].caps.idle # NoCap /\ files[Name(c)] # NoFile
                        /\ Watched(c) # call[c].seen
           activity == IF moved THEN clock ELSE call[c].activity
           idle == Reached(clock - activity, call[c].caps.idle)
<1>1. call[c] \in Call /\ pc \in [Calls -> Location] /\ call \in [Calls -> Call]
  BY NameTyped DEF TypeOK
<1>2. CASE /\ Overdue(c) \/ idle
           /\ Set(c, [call[c] EXCEPT !.aborted = IF Overdue(c) THEN "wall" ELSE "idle",
                                     !.until = clock])
           /\ KillTree(c)
           /\ Goto(c, "wait")
  <2>1. call'[c] = [call[c] EXCEPT !.aborted = IF Overdue(c) THEN "wall" ELSE "idle",
                                   !.until = clock]
    BY <1>1, <1>2 DEF Set
  <2>2. /\ call'[c].aborted = IF Overdue(c) THEN "wall" ELSE "idle"
        /\ call'[c].until = clock
    BY <1>1, <2>1 DEF Call
  <2>3. pc'[c] = "wait" /\ procs'[c] \subseteq {"escaped"}
    BY <1>1, <1>2, TreeGone DEF Goto
  <2>4. call'[c].aborted = "idle" => idle
    BY <1>2, <2>2
  <2>5. idle => /\ call[c].caps.idle # NoCap
                /\ \/ /\ Found(c) # call[c].seen /\ files[Name(c)] # NoFile
                      /\ clock - clock >= call[c].caps.idle
                   \/ /\ Found(c) = call[c].seen \/ files[Name(c)] = NoFile
                      /\ clock - call[c].activity >= call[c].caps.idle
    BY DEF Reached, Watched
  <2> HIDE DEF idle
  <2> QED
    BY <2>2, <2>3, <2>4, <2>5 DEF Poll
<1>3. CASE /\ Set(c, [call[c] EXCEPT !.activity = activity,
                                     !.seen = IF moved THEN Watched(c) ELSE @])
           /\ Goto(c, "try")
           /\ UNCHANGED procs
  <2>1. call'[c] = [call[c] EXCEPT !.activity = activity,
                                   !.seen = IF moved THEN Watched(c) ELSE @]
    BY <1>1, <1>3 DEF Set
  <2>2. /\ call'[c].aborted = call[c].aborted /\ call'[c].activity = activity
        /\ call'[c].seen = IF moved THEN Watched(c) ELSE call[c].seen
    BY <1>1, <2>1 DEF Call
  <2>3. pc'[c] = "try"
    BY <1>1, <1>3 DEF Goto
  <2>4. \/ call'[c].activity = clock /\ call'[c].seen = Found(c)
        \/ call'[c].activity = call[c].activity /\ call'[c].seen = call[c].seen
    BY <2>2 DEF Watched
  <2> QED
    BY <1>3, <2>2, <2>3, <2>4 DEF Poll
<1> QED
  BY <1>2, <1>3 DEF Poll

\* What a call finds under its name is its own.
LEMMA FoundIsOwn ==
    ASSUME TypeOK, Held, NEW c \in Calls, pc[c] \in {"try", "poll", "wait"}
    PROVE  /\ Found(c) \subseteq text[c]
           /\ left.faults = MaxFaults => Found(c) = text[c] /\ files[Name(c)] # NoFile
  BY Bounds DEF Held, Found

LEMMA StepOwnText ==
    ASSUME TypeInv, OwnText, [Next]_vars
    PROVE  OwnText'
<1>1. TypeOK
  BY DEF TypeInv
<1>2. ASSUME NEW c \in Calls, OfCall(c) PROVE OwnText'
  <2> SUFFICES ASSUME NEW d \in Calls
               PROVE  /\ call'[d].opened = d
                      /\ \A w \in text'[d] : w.call = d /\ w.time <= clock'
                      /\ pc'[d] \in {"new", "open"} =>
                            procs'[d] = {} /\ text'[d] = {} /\ call'[d].seen = {}
    BY DEF OwnText
  <2>1. clock' = clock /\ clock \in Nat
    BY <1>2, Common
  <2>2. /\ call[d].opened = d
        /\ \A w \in text[d] : w.call = d /\ w.time <= clock
        /\ pc[d] \in {"new", "open"} => procs[d] = {} /\ text[d] = {} /\ call[d].seen = {}
    BY DEF OwnText
  <2>3. CASE d # c
    BY <1>1, <1>2, <2>1, <2>2, <2>3, OthersStay
  <2>4. CASE d = c
    <3>1. call'[c].opened = c
      BY <1>1, <1>2, <2>2, <2>4, CallStays
    <3>2. \A w \in text'[c] : w.call = c /\ w.time <= clock
      <4>1. CASE Write(c)
        BY <1>1, <2>1, <2>2, <2>4, <4>1, WriteMoves
      <4>2. CASE text' = text
        BY <2>2, <2>4, <4>2
      <4> QED
        BY <1>2, <4>1, <4>2 DEF OfCall, Begin, Launch, TryWait, Poll, Collect, Fork, Exit, Unlink
    <3>3. ASSUME pc'[c] \in {"new", "open"}
          PROVE  procs'[c] = {} /\ text'[c] = {} /\ call'[c].seen = {}
      <4>1. CASE Begin(c)
        BY <1>1, <2>2, <2>4, <4>1, BeginMoves
      <4>2. CASE pc' = pc /\ call' = call /\ (Write(c) \/ Fork(c) \/ Exit(c) \/ Unlink(c))
        <5>1. procs[c] = {} /\ text[c] = {} /\ call[c].seen = {}
          BY <2>2, <2>4, <3>3, <4>2
        <5>2. Unlink(c)
          BY <4>2, <5>1 DEF Write, Fork, Exit
        <5> QED
          BY <5>1, <5>2 DEF Unlink
      <4> QED
        BY <1>1, <1>2, <3>3, <4>1, <4>2, Path
    <3> QED
      BY <2>1, <2>4, <3>1, <3>2, <3>3
  <2> QED
    BY <2>3, <2>4
<1>3. CASE Restart
  BY <1>3, RestartLoses DEF OwnText, Resting
<1>4. CASE Tick
  <2>1. \A c \in Calls : \A w \in text[c] : w.time \in Nat
    BY <1>1, Bounds DEF TypeOK, Writes
  <2> QED
    BY <1>4, <2>1, TickMoves DEF OwnText
<1>5. CASE UNCHANGED vars
  BY <1>5 DEF vars, OwnText
<1> QED
  BY <1>2, <1>3, <1>4, <1>5, NextSteps

\* A call that was cut off stays as it was cut off.
LEMMA CutStays ==
    ASSUME TypeOK, Killed, NEW c \in Calls, OfCall(c), call[c].aborted # "no"
    PROVE  /\ call'[c].aborted = call[c].aborted /\ call'[c].until = call[c].until
           /\ call'[c].caps = call[c].caps
           /\ procs[c] \subseteq {"escaped"}
           /\ text' = text \/ Write(c)
<1>1. pc[c] \notin {"new", "open", "try", "poll"} /\ procs[c] \subseteq {"escaped"}
  BY DEF Killed
<1>2. Collect(c) \/ (call' = call /\ (Write(c) \/ Fork(c) \/ Exit(c) \/ Unlink(c)))
  BY <1>1, Path
<1>3. call'[c].caps = call[c].caps
  BY <1>1, CallStays
<1> QED
  BY <1>1, <1>2, <1>3, CollectMoves DEF Fork, Exit, Unlink

LEMMA StepKilled ==
    ASSUME TypeInv, OwnText, Killed, [Next]_vars
    PROVE  Killed'
<1>1. TypeOK
  BY DEF TypeInv
<1>2. ASSUME NEW c \in Calls, OfCall(c) PROVE Killed'
  <2> SUFFICES ASSUME NEW d \in Calls
               PROVE  /\ pc'[d] \in {"new", "open", "try", "poll"} => call'[d].aborted = "no"
                      /\ call'[d].aborted # "no" \/ pc'[d] = "error" =>
                            procs'[d] \subseteq {"escaped"}
    BY DEF Killed
  <2>1. /\ pc[d] \in {"new", "open", "try", "poll"} => call[d].aborted = "no"
        /\ call[d].aborted # "no" \/ pc[d] = "error" => procs[d] \subseteq {"escaped"}
        /\ pc[d] = "open" => procs[d] = {}
    BY DEF Killed, OwnText
  <2>2. CASE d # c
    BY <1>1, <1>2, <2>1, <2>2, OthersStay
  <2>3. CASE d = c
    <3>1. CASE Begin(c)
      BY <1>1, <2>1, <2>3, <3>1, BeginMoves DEF Begin, Goto, TypeOK
    <3>2. CASE Launch(c)
      BY <1>1, <2>1, <2>3, <3>2 DEF Launch, Goto, TypeOK
    <3>3. CASE TryWait(c)
      <4>1. pc'[c] = "error" => procs'[c] \subseteq {"escaped"}
        BY <1>1, <3>3, TreeGone DEF TryWait, Goto, TypeOK
      <4>2. call' = call /\ call[c].aborted = "no"
        BY <2>1, <2>3, <3>3 DEF TryWait
      <4> QED
        BY <2>3, <4>1, <4>2
    <3>4. CASE Poll(c)
      <4>1. call[c].aborted = "no"
        BY <2>1, <2>3, <3>4 DEF Poll
      <4> QED
        BY <1>1, <2>3, <3>4, <4>1, PollMoves
    <3>5. CASE Collect(c)
      BY <1>1, <2>1, <2>3, <3>5, CollectMoves DEF Collect, Goto, TypeOK
    <3>6. CASE pc' = pc /\ call' = call /\ (Write(c) \/ Fork(c) \/ Exit(c) \/ Unlink(c))
      <4>1. procs'[c] \subseteq procs[c] \/ "child" \in procs[c]
        BY <1>1, <3>6 DEF Write, Fork, Exit, Unlink, TypeOK
      <4> QED
        BY <2>1, <2>3, <3>6, <4>1
    <3> QED
      BY <1>1, <1>2, <3>1, <3>2, <3>3, <3>4, <3>5, <3>6, Path
  <2> QED
    BY <2>2, <2>3
<1>3. CASE Restart
  BY <1>3, RestartLoses DEF Killed, Restart, TypeOK, Resting
<1>4. CASE Tick \/ UNCHANGED vars
  BY <1>4 DEF Tick, vars, Killed
<1> QED
  BY <1>2, <1>3, <1>4, NextSteps

LEMMA StepWatching ==
    ASSUME TypeInv, OwnText, Held, Watching, [Next]_vars
    PROVE  Watching'
<1>1. TypeOK
  BY DEF TypeInv
<1>2. ASSUME NEW c \in Calls, OfCall(c) PROVE Watching'
  <2> SUFFICES ASSUME NEW d \in Calls, pc'[d] \in {"open", "try", "poll"}
               PROVE  /\ call'[d].activity <= clock
                      /\ call'[d].seen \subseteq text'[d]
                      /\ \A w \in call'[d].seen : w.time <= call'[d].activity
    BY <1>2, Common DEF Watching
  <2>1. clock \in Nat
    BY <1>2, Common
  <2>2. pc[d] \in {"open", "try", "poll"} =>
            /\ call[d].activity <= clock
            /\ call[d].seen \subseteq text[d]
            /\ \A w \in call[d].seen : w.time <= call[d].activity
    BY DEF Watching
  <2>3. CASE d # c
    BY <1>1, <1>2, <2>2, <2>3, OthersStay
  <2>4. CASE d = c
    <3>1. CASE Begin(c)
      <4>1. call[c].seen = {}
        BY <3>1 DEF OwnText, Begin
      <4> QED
        BY <1>1, <2>1, <2>4, <3>1, <4>1, BeginMoves
    <3>2. CASE Launch(c) \/ TryWait(c)
      BY <2>2, <2>4, <3>2 DEF Launch, TryWait
    <3>3. CASE Poll(c)
      <4>1. Found(c) \subseteq text[c] /\ \A w \in text[c] : w.time <= clock
        BY <1>1, <3>3, FoundIsOwn DEF Poll, OwnText
      <4>2. /\ call[c].activity <= clock
            /\ call[c].seen \subseteq text[c]
            /\ \A w \in call[c].seen : w.time <= call[c].activity
        BY <2>2, <2>4, <3>3 DEF Poll
      <4>3. text' = text /\ \/ call'[c].activity = clock /\ call'[c].seen = Found(c)
                            \/ /\ call'[c].activity = call[c].activity
                               /\ call'[c].seen = call[c].seen
        BY <1>1, <2>4, <3>3, PollMoves
      <4> QED
        BY <2>1, <2>4, <4>1, <4>2, <4>3
    <3>4. CASE pc' = pc /\ call' = call /\ (Write(c) \/ Fork(c) \/ Exit(c) \/ Unlink(c))
      <4>1. text[c] \subseteq text'[c]
        BY <1>1, <3>4, WriteMoves DEF Fork, Exit, Unlink
      <4> QED
        BY <2>2, <2>4, <3>4, <4>1
    <3> QED
      BY <1>1, <1>2, <2>4, <3>1, <3>2, <3>3, <3>4, Path
  <2> QED
    BY <2>3, <2>4
<1>3. CASE Restart
  BY <1>3, RestartLoses DEF Watching, Resting
<1>4. CASE Tick
  <2>1. \A c \in Calls : call[c].activity \in Nat
    BY <1>1, NameTyped DEF Call
  <2> QED
    BY <1>4, <2>1, TickMoves DEF Watching
<1>5. CASE UNCHANGED vars
  BY <1>5 DEF vars, Watching
<1> QED
  BY <1>2, <1>3, <1>4, <1>5, NextSteps

LEMMA StepTaken ==
    ASSUME TypeInv, OwnText, Held, Taken, [Next]_vars
    PROVE  Taken'
<1>1. TypeOK
  BY DEF TypeInv
<1>2. ASSUME NEW c \in Calls, OfCall(c) PROVE Taken'
  <2> SUFFICES ASSUME NEW d \in Calls, pc'[d] = "ok"
               PROVE  /\ "child" \notin procs'[d]
                      /\ \A w \in call'[d].output : w.call = d
                      /\ left'.faults = MaxFaults =>
                            {w \in text'[d] : w.by = "child"} \subseteq call'[d].output
    BY DEF Taken
  <2>1. left'.faults = MaxFaults => left.faults = MaxFaults
    BY <1>2, Common
  <2>2. pc[d] = "ok" =>
            /\ "child" \notin procs[d]
            /\ \A w \in call[d].output : w.call = d
            /\ left.faults = MaxFaults =>
                  {w \in text[d] : w.by = "child"} \subseteq call[d].output
    BY DEF Taken
  <2>3. CASE d # c
    BY <1>1, <1>2, <2>1, <2>2, <2>3, OthersStay
  <2>4. CASE d = c
    <3>1. CASE Collect(c)
      <4>1. /\ Found(c) \subseteq text[c]
            /\ left.faults = MaxFaults => Found(c) = text[c]
            /\ \A w \in text[c] : w.call = c
        BY <1>1, <3>1, FoundIsOwn DEF Collect, OwnText
      <4> QED
        BY <1>1, <2>1, <2>4, <3>1, <4>1, CollectMoves
    <3>2. CASE pc' = pc /\ call' = call /\ (Write(c) \/ Fork(c) \/ Exit(c) \/ Unlink(c))
      <4>1. "child" \notin procs[c]
        BY <2>2, <2>4, <3>2
      <4>2. "child" \notin procs'[c]
        BY <1>1, <3>2, <4>1 DEF Write, Fork, Exit, Unlink, TypeOK
      <4>3. {w \in text'[c] : w.by = "child"} = {w \in text[c] : w.by = "child"}
        <5>1. CASE Write(c)
          BY <1>1, <4>1, <5>1, WriteMoves
        <5> QED
          BY <3>2, <5>1 DEF Fork, Exit, Unlink
      <4> QED
        BY <2>1, <2>2, <2>4, <3>2, <4>2, <4>3
    <3> QED
      BY <1>1, <1>2, <2>4, <3>1, <3>2, Path
  <2> QED
    BY <2>3, <2>4
<1>3. CASE Restart
  BY <1>3, RestartLoses DEF Taken
<1>4. CASE Tick \/ UNCHANGED vars
  BY <1>4 DEF Tick, vars, Taken
<1> QED
  BY <1>2, <1>3, <1>4, NextSteps

LEMMA StepIdle ==
    ASSUME TypeInv, OwnText, Held, Killed, Watching, IdleNeedsSilence, [Next]_vars
    PROVE  IdleNeedsSilence'
<1>1. TypeOK
  BY DEF TypeInv
<1>2. ASSUME NEW c \in Calls, OfCall(c) PROVE IdleNeedsSilence'
  <2> SUFFICES ASSUME NEW d \in Calls, call'[d].aborted = "idle", left'.faults = MaxFaults,
                      NEW w \in text'[d], w.by # "escaped"
               PROVE  call'[d].until - w.time >= call'[d].caps.idle
    BY DEF IdleNeedsSilence
  <2>1. left.faults = MaxFaults /\ clock \in Nat
    BY <1>2, Common
  <2>2. call[d].aborted = "idle" /\ w \in text[d] =>
            call[d].until - w.time >= call[d].caps.idle
    BY <2>1 DEF IdleNeedsSilence
  <2>3. CASE d # c
    BY <1>1, <1>2, <2>2, <2>3, OthersStay
  <2>4. CASE d = c /\ call[c].aborted # "no"
    <3>1. /\ call'[c].aborted = call[c].aborted /\ call'[c].until = call[c].until
          /\ call'[c].caps = call[c].caps
          /\ procs[c] \subseteq {"escaped"} /\ (text' = text \/ Write(c))
      BY <1>1, <1>2, <2>4, CutStays
    <3>2. w \in text[c]
      BY <1>1, <2>4, <3>1, WriteMoves
    <3> QED
      BY <2>2, <2>4, <3>1, <3>2
  <2>5. CASE d = c /\ call[c].aborted = "no"
    <3>1. Poll(c)
      <4>1. ~Begin(c) /\ ~Collect(c) /\ call' # call
        BY <1>1, <2>5, BeginMoves, CollectMoves
      <4> QED
        BY <1>2, <4>1 DEF OfCall, Launch, TryWait, Write, Fork, Exit, Unlink
    <3>2. /\ call[c].activity <= clock
          /\ \A v \in call[c].seen : v.time <= call[c].activity
          /\ \A v \in text[c] : v.time <= clock
      BY <3>1 DEF Poll, Watching, OwnText
    <3>3. Found(c) = text[c] /\ files[Name(c)] # NoFile
      BY <1>1, <2>1, <3>1, FoundIsOwn DEF Poll
    <3>4. call'[c].caps = call[c].caps
      BY <1>1, <1>2, <3>1, CallStays DEF Poll
    <3>5. /\ text' = text /\ call'[c].until = clock /\ call[c].caps.idle # NoCap
          /\ \/ Found(c) # call[c].seen /\ clock - clock >= call[c].caps.idle
             \/ Found(c) = call[c].seen /\ clock - call[c].activity >= call[c].caps.idle
      <4>1. pc'[c] # "try" \/ call'[c].aborted # call[c].aborted
        BY <2>5
      <4> QED
        BY <1>1, <2>5, <3>1, <3>3, <4>1, PollMoves
    <3>6. /\ call[c].caps.idle \in Nat /\ call[c].activity \in Nat
          /\ w \in text[c] /\ w.time \in Nat
      <4>1. call[c] \in Call /\ w \in text[c] /\ w \in Writes
        BY <1>1, <2>5, <3>5, NameTyped DEF TypeOK
      <4> QED
        BY <3>5, <4>1, Bounds DEF Call, Writes
    <3>7. clock - w.time >= call[c].caps.idle
      <4>1. w.time <= clock /\ (Found(c) = call[c].seen => w.time <= call[c].activity)
        BY <3>2, <3>3, <3>6
      <4> QED
        BY <2>1, <3>5, <3>6, <4>1
    <3> QED
      BY <2>5, <3>4, <3>5, <3>7
  <2> QED
    BY <2>3, <2>4, <2>5
<1>3. CASE Restart
  BY <1>3, RestartLoses DEF IdleNeedsSilence
<1>4. CASE Tick \/ UNCHANGED vars
  BY <1>4 DEF Tick, vars, IdleNeedsSilence
<1> QED
  BY <1>2, <1>3, <1>4, NextSteps

-----------------------------------------------------------------------------
(* The theorems *)

LEMMA InitIInv == Init => IInv
<1> SUFFICES ASSUME Init PROVE IInv
  OBVIOUS
<1>1. TypeInv
  BY InitTypeInv
<1>2. \A c \in Calls : /\ pc[c] = "new" /\ procs[c] = {} /\ text[c] = {}
                       /\ call[c].opened = c /\ call[c].seen = {} /\ call[c].aborted = "no"
  BY DEF Init
<1>3. \A n \in Names : files[n] \notin Calls
  BY Bounds DEF Init
<1>4. Alone /\ OwnFiles /\ Held
  BY <1>2, <1>3 DEF Alone, Active, Resting, OwnFiles, Held
<1>5. OwnText /\ Killed /\ Watching /\ Taken /\ IdleNeedsSilence
  BY <1>2 DEF OwnText, Killed, Watching, Taken, IdleNeedsSilence
<1> QED
  BY <1>1, <1>4, <1>5 DEF IInv

LEMMA StepIInv == IInv /\ [Next]_vars => IInv'
<1> SUFFICES ASSUME IInv, [Next]_vars PROVE IInv'
  OBVIOUS
<1>1. /\ TypeInv /\ Alone /\ OwnFiles /\ Held /\ OwnText
      /\ Killed /\ Watching /\ Taken /\ IdleNeedsSilence
  BY DEF IInv
<1>2. TypeInv' /\ Alone' /\ OwnFiles' /\ Held' /\ OwnText'
  BY <1>1, StepTypeInv, StepAlone, StepOwnFiles, StepHeld, StepOwnText
<1>3. Killed' /\ Watching' /\ Taken' /\ IdleNeedsSilence'
  BY <1>1, StepKilled, StepWatching, StepTaken, StepIdle
<1> QED
  BY <1>2, <1>3 DEF IInv

LEMMA AlwaysIInv == Spec => []IInv
  BY InitIInv, StepIInv, PTL DEF Spec

\* An aborted call, and one that gave up, leaves nothing running in its group,
\* and no call that has ended leaves files of its own, even if earlier kernels
\* with the same pid have (worker.rs:229-235, 250-263, 287-310).
THEOREM NothingIsLeft == Spec => []NothingLeft
<1>1. IInv => NothingLeft
  <2> SUFFICES ASSUME IInv PROVE NothingLeft
    OBVIOUS
  <2>1. TypeOK /\ OwnFiles /\ Killed
    BY DEF IInv, TypeInv
  <2> QED
    BY <2>1, NameTyped DEF OwnFiles, Killed, NothingLeft
<1> QED
  BY <1>1, AlwaysIInv, PTL

\* No call is killed as stuck that has written something within its idle cap,
\* to whichever stream and by whichever process of its group (worker.rs:270-276).
THEOREM OnlySilenceIsIdle == Spec => []IdleNeedsSilence
<1>1. IInv => IdleNeedsSilence
  BY DEF IInv
<1> QED
  BY <1>1, AlwaysIInv, PTL

\* A transcript is the call's own and holds all its child wrote, whatever a dead
\* kernel has left under the same names (worker.rs:197-205, 287-310).
THEOREM TranscriptsAreKept == Spec => []TranscriptKept
<1>1. IInv => TranscriptKept
  BY DEF IInv, Taken, TranscriptKept
<1> QED
  BY <1>1, AlwaysIInv, PTL
=============================================================================
