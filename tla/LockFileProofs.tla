--------------------------- MODULE LockFileProofs ---------------------------
(***************************************************************************)
(* Theorems about LockFile for any number of processes, tokens and rounds. *)
(***************************************************************************)
EXTENDS LockFile, TLAPS

-----------------------------------------------------------------------------
(* Type correctness.  A token is written to a file only by a process that *)
(* drew one, which the types alone do not say.                             *)

TypeInv == TypeOK /\ \A p \in Procs : pc[p] = "stamp" => token[p] # NoToken

\* A file is not the absence of one.
LEMMA FileIsAFile ==
    \A t \in Tokens, b, c \in BOOLEAN :
        [token |-> t, stamped |-> b, stale |-> c] # NoFile
BY LockFileAssumption

LEMMA InitTypeInv == Init => TypeInv
BY LockFileAssumption DEF Init, TypeInv, TypeOK, Location

\* The value of every action of the lock protocol has the type of its variable.
LEMMA StepTypeInv == TypeInv /\ [Next]_vars => TypeInv'
<1> SUFFICES ASSUME TypeInv, [Next]_vars PROVE TypeInv'
  OBVIOUS
<1> USE LockFileAssumption DEF TypeInv, TypeOK, Goto
<1>1. ASSUME NEW p \in Procs, Start(p) PROVE TypeInv'
  BY <1>1 DEF Start, Location
<1>2. ASSUME NEW p \in Procs, Step(p) PROVE TypeInv'
  <2>1. CASE CreateNew(p)
    BY <2>1 DEF CreateNew, File, Location
  <2>2. CASE AlreadyExists(p)
    BY <2>2 DEF AlreadyExists, Location
  <2>3. CASE StampToken(p)
    BY <2>3 DEF StampToken, File, Location
  <2>4. CASE StampFails(p)
    BY <2>4 DEF StampFails, Location
  <2>5. CASE LookAtAge(p)
    BY <2>5 DEF LookAtAge, Location
  <2>6. CASE RenameAside(p)
    BY <2>6 DEF RenameAside, Location
  <2>7. CASE Recheck(p)
    BY <2>7 DEF Recheck, Location
  <2>8. CASE PutBack(p)
    BY <2>8 DEF PutBack, Location
  <2>9. CASE Sleep(p)
    BY <2>9 DEF Sleep, Location
  <2>10. CASE GiveUp(p)
    BY <2>10 DEF GiveUp, Location
  <2>11. CASE LeaveSection(p)
    BY <2>11 DEF LeaveSection, Location
  <2>12. CASE DropRead(p)
    BY <2>12 DEF DropRead, Location
  <2>13. CASE DropRemove(p)
    BY <2>13 DEF DropRemove, Location
  <2> QED
    BY <1>2, <2>1, <2>2, <2>3, <2>4, <2>5, <2>6, <2>7, <2>8, <2>9, <2>10,
       <2>11, <2>12, <2>13 DEF Step
<1>3. ASSUME NEW p \in Procs, Crash(p) PROVE TypeInv'
  BY <1>3 DEF Crash, Location
<1>4. CASE GrowOld
  <2>1. \A f \in File : [f EXCEPT !.stale = TRUE] \in File
    BY DEF File
  <2>2. CASE MayAge(path) /\ path' = [path EXCEPT !.stale = TRUE] /\ UNCHANGED aside
    BY <1>4, <2>1, <2>2 DEF GrowOld, MayAge
  <2>3. ASSUME NEW p \in Procs, MayAge(aside[p]), UNCHANGED path,
               aside' = [aside EXCEPT ![p].stale = TRUE]
        PROVE  TypeInv'
    <3>1. aside[p] \in File
      BY <2>3 DEF MayAge
    <3>2. aside' = [aside EXCEPT ![p] = [aside[p] EXCEPT !.stale = TRUE]]
      BY <2>3
    <3> QED
      BY <1>4, <2>1, <2>3, <3>1, <3>2 DEF GrowOld
  <2> QED
    BY <1>4, <2>2, <2>3 DEF GrowOld
<1>5. CASE UNCHANGED vars
  BY <1>5 DEF vars
<1> QED
  BY <1>1, <1>2, <1>3, <1>4, <1>5 DEF Next

\* Every reachable state of the lock protocol of ticket.rs is well typed.
THEOREM TypeCorrect == Spec => []TypeOK
<1>1. Init => TypeInv
  BY InitTypeInv
<1>2. TypeInv /\ [Next]_vars => TypeInv'
  BY StepTypeInv
<1>3. TypeInv => TypeOK
  BY DEF TypeInv
<1> QED
  BY <1>1, <1>2, <1>3, PTL DEF Spec

-----------------------------------------------------------------------------
(* Mutual exclusion where nothing is ever stolen: nobody dies holding the  *)
(* lock and nobody holds it beyond the stale threshold.                    *)

\* Places between the creation of the lock file and its removal.
Owning == {"stamp", "held", "dropRead", "dropRemove"}

\* The file at the path is its only owner's.
Owned ==
    /\ path # NoFile => \E p \in Procs : pc[p] \in Owning
    /\ \A p \in Procs : pc[p] \in Owning =>
          /\ path # NoFile
          /\ path.token = token[p]
          /\ ~path.stale
          /\ pc[p] # "stamp" => path.stamped
    /\ \A p, q \in Procs : pc[p] \in Owning /\ pc[q] \in Owning => p = q

\* No steal is in progress.
NoSteal ==
    \A p \in Procs : aside[p] = NoFile /\ pc[p] \notin {"rename", "recheck", "putBack"}

IInv == TypeInv /\ Owned /\ NoSteal

LEMMA InitIInv == Init => IInv
BY InitTypeInv DEF Init, IInv, Owned, NoSteal, Owning

\* The file system operations of lock_file and drop keep the owner unique.
LEMMA DeathlessStep ==
    ASSUME PromptHolders
    PROVE  IInv /\ [Next]_vars /\ crashes' = crashes => IInv'
<1> SUFFICES ASSUME IInv, [Next]_vars, crashes' = crashes PROVE IInv'
  OBVIOUS
<1>0. TypeInv'
  BY StepTypeInv DEF IInv
<1> USE LockFileAssumption, <1>0 DEF IInv, Owned, NoSteal, Owning, TypeInv, TypeOK, Goto
<1>1. ASSUME NEW p \in Procs, Start(p) PROVE IInv'
  BY <1>1 DEF Start
<1>2. ASSUME NEW p \in Procs, Step(p) PROVE IInv'
  <2>1. CASE CreateNew(p)
    <3>1. PICK t \in Tokens :
             /\ path' = [token |-> t, stamped |-> FALSE, stale |-> FALSE]
             /\ token' = [token EXCEPT ![p] = t]
      BY <2>1 DEF CreateNew
    <3>2. path' # NoFile
      BY <3>1, FileIsAFile
    <3>3. \A q \in Procs : pc[q] \notin Owning
      BY <2>1 DEF CreateNew
    <3> QED
      BY <2>1, <3>1, <3>2, <3>3 DEF CreateNew
  <2>2. CASE AlreadyExists(p)
    BY <2>2 DEF AlreadyExists
  <2>3. CASE StampToken(p)
    <3>1. token[p] \in Tokens
      BY <2>3 DEF StampToken
    <3>2. path' # NoFile
      BY <2>3, <3>1, FileIsAFile DEF StampToken
    <3> QED
      BY <2>3, <3>2 DEF StampToken
  <2>4. CASE StampFails(p)
    BY <2>4 DEF StampFails
  <2>5. CASE LookAtAge(p)
    BY <2>5 DEF LookAtAge
  <2>6. CASE RenameAside(p)
    BY <2>6 DEF RenameAside
  <2>7. CASE Recheck(p)
    BY <2>7 DEF Recheck
  <2>8. CASE PutBack(p)
    BY <2>8 DEF PutBack
  <2>9. CASE Sleep(p)
    BY <2>9 DEF Sleep
  <2>10. CASE GiveUp(p)
    BY <2>10 DEF GiveUp
  <2>11. CASE LeaveSection(p)
    BY <2>11 DEF LeaveSection
  <2>12. CASE DropRead(p)
    <3>1. OwnsFile(p, path)
      BY <2>12 DEF DropRead, OwnsFile
    <3> QED
      BY <2>12, <3>1 DEF DropRead
  <2>13. CASE DropRemove(p)
    BY <2>13 DEF DropRemove
  <2> QED
    BY <1>2, <2>1, <2>2, <2>3, <2>4, <2>5, <2>6, <2>7, <2>8, <2>9, <2>10,
       <2>11, <2>12, <2>13 DEF Step
<1>3. ASSUME NEW p \in Procs, Crash(p) PROVE IInv'
  BY <1>3 DEF Crash
<1>4. CASE GrowOld
  BY <1>4 DEF GrowOld, MayAge
<1>5. CASE UNCHANGED vars
  BY <1>5 DEF vars
<1> QED
  BY <1>1, <1>2, <1>3, <1>4, <1>5 DEF Next

\* Deaths are counted one by one.
LEMMA DeathsCounted == TypeInv /\ [Next]_vars => crashes' = crashes \/ crashes' = crashes + 1
BY DEF Next, Step, Start, CreateNew, AlreadyExists, StampToken, StampFails, LookAtAge,
   RenameAside, Recheck, PutBack, Sleep, GiveUp, LeaveSection, DropRead, DropRemove,
   Crash, GrowOld, vars

LEMMA StepIInv ==
    ASSUME MaxCrashes = 0, PromptHolders
    PROVE  IInv /\ [Next]_vars => IInv'
<1> SUFFICES ASSUME IInv, [Next]_vars PROVE IInv'
  OBVIOUS
<1>1. crashes = 0
  BY DEF IInv, TypeInv, TypeOK
<1>2. crashes' \in 0..0
  BY StepTypeInv DEF IInv, TypeInv, TypeOK
<1> QED
  BY <1>1, <1>2, DeathlessStep

LEMMA ExclusionFromIInv == IInv => MutualExclusion
BY DEF IInv, Owned, Owning, MutualExclusion, Holders

\* As long as nobody dies in the section and nobody outlasts the stale
\* threshold, O_EXCL and the removal by token give mutual exclusion for any
\* number of processes: the steal of ticket.rs:583-646 is the only weak spot.
THEOREM ExclusionWithoutSteals ==
    ASSUME MaxCrashes = 0, PromptHolders
    PROVE  Spec => []MutualExclusion
<1>1. Init => IInv
  BY InitIInv
<1>2. IInv /\ [Next]_vars => IInv'
  BY StepIInv
<1>3. IInv => MutualExclusion
  BY ExclusionFromIInv
<1> QED
  BY <1>1, <1>2, <1>3, PTL DEF Spec

\* Under the same hypotheses a drop never takes the lock from another holder.
THEOREM DropSparesWithoutSteals ==
    ASSUME MaxCrashes = 0, PromptHolders
    PROVE  Spec => DropSparesOthers
<1>1. IInv /\ [Next]_vars =>
        [\A p, q \in Procs :
            DropRemove(p) /\ q # p /\ pc[q] = "held" => ~OwnsFile(q, path)]_vars
  BY DEF IInv, Owned, Owning, DropRemove
<1>2. Init => IInv
  BY InitIInv
<1>3. IInv /\ [Next]_vars => IInv'
  BY StepIInv
<1> QED
  BY <1>1, <1>2, <1>3, PTL DEF Spec, DropSparesOthers

\* A step of the protocol is, for its callers, an entry into an empty section,
\* an exit, or nothing.
LEMMA StepRefines ==
    ASSUME MaxCrashes = 0, PromptHolders
    PROVE  IInv /\ [Next]_vars => [Abstract!Next]_Holders
<1> SUFFICES ASSUME IInv, [Next]_vars PROVE [Abstract!Next]_Holders
  OBVIOUS
<1> USE DEF IInv, TypeInv, TypeOK, Goto, Holders
<1>1. ASSUME NEW p \in Procs, StampToken(p) PROVE [Abstract!Next]_Holders
  <2>1. Holders = {}
    BY <1>1 DEF StampToken, Owned, Owning
  <2>2. Holders' = {p}
    BY <1>1, <2>1 DEF StampToken
  <2> QED
    BY <2>1, <2>2 DEF Abstract!Next, Abstract!Enter
<1>2. ASSUME NEW p \in Procs, LeaveSection(p) PROVE [Abstract!Next]_Holders
  <2>1. p \in Holders
    BY <1>2 DEF LeaveSection
  <2>2. Holders' = Holders \ {p}
    BY <1>2 DEF LeaveSection
  <2> QED
    BY <2>1, <2>2 DEF Abstract!Next, Abstract!Leave
<1>3. ASSUME NEW p \in Procs, NEW l \in Location \ {"held"}, pc[p] # "held", Goto(p, l)
      PROVE  Holders' = Holders
  BY <1>3
<1>4. ASSUME NEW p \in Procs,
             \/ Start(p) \/ CreateNew(p) \/ AlreadyExists(p) \/ StampFails(p)
             \/ LookAtAge(p) \/ RenameAside(p) \/ Recheck(p) \/ PutBack(p)
             \/ Sleep(p) \/ GiveUp(p) \/ DropRead(p) \/ DropRemove(p)
      PROVE  Holders' = Holders
  BY <1>3, <1>4 DEF Start, CreateNew, AlreadyExists, StampFails, LookAtAge, RenameAside,
     Recheck, PutBack, Sleep, GiveUp, DropRead, DropRemove, Location
<1>5. ASSUME NEW p \in Procs, Crash(p) PROVE FALSE
  BY <1>5, LockFileAssumption DEF Crash
<1>6. CASE GrowOld
  BY <1>6 DEF GrowOld
<1>7. CASE UNCHANGED vars
  BY <1>7 DEF vars
<1> QED
  BY <1>1, <1>2, <1>4, <1>5, <1>6, <1>7 DEF Next, Step

\* Without deaths in the section and without slow holders, the file protocol
\* is the critical section its callers (the gap loop among them) rely on.
THEOREM LockWithoutSteals ==
    ASSUME MaxCrashes = 0, PromptHolders
    PROVE  Spec => ImplementsLock
<1>1. Init => Abstract!Init
  BY DEF Init, Abstract!Init, Holders
<1>2. Init => IInv
  BY InitIInv
<1>3. IInv /\ [Next]_vars => IInv'
  BY StepIInv
<1>4. IInv /\ [Next]_vars => [Abstract!Next]_Holders
  BY StepRefines
<1> QED
  BY <1>1, <1>2, <1>3, <1>4, PTL DEF Spec, ImplementsLock, Abstract!Spec

-----------------------------------------------------------------------------
(* Two processes with deaths and steals.  The lock path may now be free    *)
(* while its holder is in the section, but only because the other process  *)
(* has set the holder's file aside and is about to link it back.  Nobody   *)
(* else is there to take the path meanwhile, unless the thief itself dies. *)

Stealing == {"recheck", "putBack"}

FreshFileOf(p, f) == f # NoFile /\ f.token = token[p] /\ ~f.stale

\* A process has a file aside while it looks at it again or links it back.
AsideWhileStealing == \A p \in Procs : aside[p] # NoFile <=> pc[p] \in Stealing

\* The file of a process that is between its creation and its removal is at
\* the path, or the other process has it in its hands.
FileIsKept ==
    \A p \in Procs : pc[p] \in Owning =>
       \/ FreshFileOf(p, path)
       \/ /\ path = NoFile
          /\ \E q \in Procs \ {p} : pc[q] \in Stealing /\ FreshFileOf(p, aside[q])

OneOwns == \A p, q \in Procs : pc[p] \in Owning /\ pc[q] \in Owning => p = q

\* An owner has drawn a token.
OwnersHaveTokens == \A p \in Procs : pc[p] \in Owning => token[p] \in Tokens

StealInv ==
    TypeInv /\ OwnersHaveTokens /\ AsideWhileStealing /\ FileIsKept /\ OneOwns

\* No process dies between taking a fresh file aside and linking it back.
ThiefSurvives == \A p \in Procs : Crash(p) => aside[p] = NoFile \/ aside[p].stale
ThievesSurvive == [][ThiefSurvives]_vars

LEMMA InitStealInv == Init => StealInv
BY InitTypeInv DEF Init, StealInv, OwnersHaveTokens, AsideWhileStealing, FileIsKept,
   OneOwns, Owning, Stealing

\* Each call of either process keeps the owner unique.
LEMMA StealStep ==
    ASSUME NEW a, NEW b, Procs = {a, b}, PromptHolders,
           StealInv, [Next]_vars, [ThiefSurvives]_vars
    PROVE  StealInv'
<1>0. TypeInv'
  BY StepTypeInv DEF StealInv
<1>a. \A p, q, r \in Procs : p # q /\ p # r => q = r
  OBVIOUS
<1> USE LockFileAssumption, <1>0
    DEF StealInv, OwnersHaveTokens, AsideWhileStealing, FileIsKept, OneOwns, FreshFileOf,
        Owning, Stealing, TypeInv, TypeOK, Goto
<1>1. ASSUME NEW p \in Procs, Start(p) PROVE StealInv'
  BY <1>1 DEF Start
<1>2. ASSUME NEW p \in Procs, CreateNew(p) PROVE StealInv'
  <2>1. PICK t \in Tokens :
           /\ path' = [token |-> t, stamped |-> FALSE, stale |-> FALSE]
           /\ token' = [token EXCEPT ![p] = t]
    BY <1>2 DEF CreateNew
  <2>2. path' # NoFile /\ path'.token = t /\ ~path'.stale
    BY <2>1, FileIsAFile
  <2>3. \A q \in Procs : pc[q] \notin Owning
    BY <1>2, <1>a DEF CreateNew
  <2> QED
    BY <1>2, <2>1, <2>2, <2>3 DEF CreateNew
<1>3. ASSUME NEW p \in Procs, AlreadyExists(p) PROVE StealInv'
  BY <1>3 DEF AlreadyExists
<1>4. ASSUME NEW p \in Procs, StampToken(p) PROVE StealInv'
  <2>1. path' # NoFile /\ path'.token = token[p] /\ ~path'.stale
    BY <1>4, FileIsAFile DEF StampToken
  <2>2. \A q \in Procs : pc[q] \in Owning => q = p
    BY <1>4 DEF StampToken
  <2> QED
    BY <1>4, <2>1, <2>2 DEF StampToken
<1>5. ASSUME NEW p \in Procs, StampFails(p) PROVE StealInv'
  BY <1>5 DEF StampFails
<1>6. ASSUME NEW p \in Procs, LookAtAge(p) PROVE StealInv'
  BY <1>6 DEF LookAtAge
<1>7. ASSUME NEW p \in Procs, RenameAside(p) PROVE StealInv'
  BY <1>7, <1>a DEF RenameAside
<1>8. ASSUME NEW p \in Procs, Recheck(p) PROVE StealInv'
  BY <1>8, <1>a DEF Recheck
<1>9. ASSUME NEW p \in Procs, PutBack(p) PROVE StealInv'
  BY <1>9, <1>a DEF PutBack
<1>10. ASSUME NEW p \in Procs, Sleep(p) \/ GiveUp(p) PROVE StealInv'
  BY <1>10 DEF Sleep, GiveUp
<1>11. ASSUME NEW p \in Procs, LeaveSection(p) \/ DropRead(p) \/ DropRemove(p) PROVE StealInv'
  BY <1>11 DEF LeaveSection, DropRead, DropRemove
<1>12. ASSUME NEW p \in Procs, Crash(p) PROVE StealInv'
  <2>0. crashes' # crashes
    BY <1>12 DEF Crash
  <2>1. aside[p] = NoFile \/ aside[p].stale
    BY <1>12, <2>0 DEF ThiefSurvives, vars
  <2> QED
    BY <1>12, <2>1, <1>a DEF Crash
<1>13. CASE GrowOld
  <2>1. ASSUME MayAge(path), path' = [path EXCEPT !.stale = TRUE], UNCHANGED aside
        PROVE  StealInv'
    <3>1. path' # NoFile /\ \A p \in Procs : token[p] # path.token
      BY <2>1 DEF MayAge, File
    <3> QED
      BY <1>13, <2>1, <3>1 DEF GrowOld, MayAge
  <2>2. ASSUME NEW r \in Procs, MayAge(aside[r]), UNCHANGED path,
               aside' = [aside EXCEPT ![r].stale = TRUE]
        PROVE  StealInv'
    <3>1. aside[r] \in File /\ \A p \in Procs : token[p] # aside[r].token
      BY <2>2 DEF MayAge
    <3>2. aside' = [aside EXCEPT ![r] = [aside[r] EXCEPT !.stale = TRUE]]
      BY <2>2
    <3>3. [aside[r] EXCEPT !.stale = TRUE] # NoFile
      BY <3>1 DEF File
    <3>4. UNCHANGED <<pc, token, rounds, crashes>>
      BY <1>13 DEF GrowOld
    <3>5. AsideWhileStealing'
      BY <2>2, <3>2, <3>3, <3>4 DEF MayAge
    <3>6. FileIsKept'
      BY <2>2, <3>1, <3>2, <3>4
    <3>7. (TypeInv /\ OwnersHaveTokens /\ OneOwns)'
      BY <3>4
    <3> QED
      BY <3>5, <3>6, <3>7
  <2> QED
    BY <1>13, <2>1, <2>2 DEF GrowOld
<1>14. CASE UNCHANGED vars
  BY <1>14 DEF vars
<1> QED
  BY <1>1, <1>2, <1>3, <1>4, <1>5, <1>6, <1>7, <1>8, <1>9, <1>10, <1>11, <1>12, <1>13,
     <1>14 DEF Next, Step

\* With one owner at a time, a step of the protocol is, for its callers, an
\* entry into an empty section, an exit, or nothing; a death is an exit.
LEMMA OwnersRefine == TypeInv /\ OneOwns /\ [Next]_vars => [Abstract!Next]_Holders
<1> SUFFICES ASSUME TypeInv, OneOwns, [Next]_vars PROVE [Abstract!Next]_Holders
  OBVIOUS
<1> USE DEF TypeInv, TypeOK, Goto, Holders
<1>1. ASSUME NEW p \in Procs, StampToken(p) PROVE [Abstract!Next]_Holders
  <2>1. Holders = {}
    BY <1>1 DEF StampToken, OneOwns, Owning
  <2>2. Holders' = {p}
    BY <1>1, <2>1 DEF StampToken
  <2> QED
    BY <2>1, <2>2 DEF Abstract!Next, Abstract!Enter
<1>2. ASSUME NEW p \in Procs, LeaveSection(p) \/ (Crash(p) /\ pc[p] = "held")
      PROVE  [Abstract!Next]_Holders
  <2>1. p \in Holders
    BY <1>2 DEF LeaveSection
  <2>2. Holders' = Holders \ {p}
    BY <1>2 DEF LeaveSection, Crash
  <2> QED
    BY <2>1, <2>2 DEF Abstract!Next, Abstract!Leave
<1>3. ASSUME NEW p \in Procs, NEW l \in Location \ {"held"}, pc[p] # "held", Goto(p, l)
      PROVE  Holders' = Holders
  BY <1>3
<1>4. ASSUME NEW p \in Procs,
             \/ Start(p) \/ CreateNew(p) \/ AlreadyExists(p) \/ StampFails(p)
             \/ LookAtAge(p) \/ RenameAside(p) \/ Recheck(p) \/ PutBack(p)
             \/ Sleep(p) \/ GiveUp(p) \/ DropRead(p) \/ DropRemove(p)
             \/ Crash(p) /\ pc[p] # "held"
      PROVE  Holders' = Holders
  BY <1>3, <1>4 DEF Start, CreateNew, AlreadyExists, StampFails, LookAtAge, RenameAside,
     Recheck, PutBack, Sleep, GiveUp, DropRead, DropRemove, Crash, Location
<1>5. CASE GrowOld
  BY <1>5 DEF GrowOld
<1>6. CASE UNCHANGED vars
  BY <1>6 DEF vars
<1> QED
  BY <1>1, <1>2, <1>4, <1>5, <1>6 DEF Next, Step

LEMMA OwnersSpare ==
    TypeInv /\ OneOwns /\ [Next]_vars =>
       [\A p, q \in Procs :
           DropRemove(p) /\ q # p /\ pc[q] = "held" => ~OwnsFile(q, path)]_vars
BY DEF OneOwns, Owning, DropRemove

\* Of two processes one at a time holds the lock, through any number of deaths
\* and steals, a fresh file that was set aside being put back in time as
\* ticket.rs:610 says, unless a thief dies with it in its hands.
THEOREM ExclusionOfTwo ==
    ASSUME NEW a, NEW b, Procs = {a, b}, PromptHolders
    PROVE  Spec /\ ThievesSurvive => []MutualExclusion
<1>1. Init => StealInv
  BY InitStealInv
<1>2. StealInv /\ [Next]_vars /\ [ThiefSurvives]_vars => StealInv'
  BY StealStep
<1>3. StealInv => MutualExclusion
  BY DEF StealInv, OneOwns, Owning, MutualExclusion, Holders
<1> QED
  BY <1>1, <1>2, <1>3, PTL DEF Spec, ThievesSurvive

\* Under the same hypotheses the protocol is the critical section that its
\* callers rely on, and no drop takes the file of another holder.
THEOREM LockOfTwo ==
    ASSUME NEW a, NEW b, Procs = {a, b}, PromptHolders
    PROVE  Spec /\ ThievesSurvive => ImplementsLock /\ DropSparesOthers
<1>1. Init => StealInv /\ Abstract!Init
  BY InitStealInv DEF Init, Abstract!Init, Holders
<1>2. StealInv /\ [Next]_vars /\ [ThiefSurvives]_vars => StealInv'
  BY StealStep
<1>3. StealInv /\ [Next]_vars => [Abstract!Next]_Holders
  BY OwnersRefine DEF StealInv
<1>4. StealInv /\ [Next]_vars =>
        [\A p, q \in Procs :
            DropRemove(p) /\ q # p /\ pc[q] = "held" => ~OwnsFile(q, path)]_vars
  BY OwnersSpare DEF StealInv
<1> QED
  BY <1>1, <1>2, <1>3, <1>4, PTL
     DEF Spec, ThievesSurvive, ImplementsLock, DropSparesOthers, Abstract!Spec

-----------------------------------------------------------------------------
(* A stale file is the work of a death, so it takes two of them before a   *)
(* thief can die with a fresh file: one to make it a thief, and its own.   *)

\* Before the first death nothing is stolen.
Unharmed == crashes = 0 => Owned /\ NoSteal

LEMMA UnharmedStep ==
    ASSUME PromptHolders
    PROVE  TypeInv /\ Unharmed /\ [Next]_vars => Unharmed'
<1> SUFFICES ASSUME TypeInv, Unharmed, [Next]_vars, crashes' = 0 PROVE Owned' /\ NoSteal'
  BY DEF Unharmed
<1>1. crashes = 0 /\ crashes' = crashes
  <2>1. crashes \in Nat
    BY LockFileAssumption DEF TypeInv, TypeOK
  <2> QED
    BY <2>1, DeathsCounted
<1> QED
  BY <1>1, DeathlessStep DEF IInv, Unharmed

\* The death that is left to a protocol with one at most is not a thief's.
LEMMA FirstDeathIsNoThiefs ==
    ASSUME MaxCrashes = 1
    PROVE  TypeInv /\ Unharmed /\ [Next]_vars => [ThiefSurvives]_vars
<1> SUFFICES ASSUME TypeInv, Unharmed, NEW p \in Procs, Crash(p)
             PROVE  aside[p] = NoFile
  BY DEF ThiefSurvives
<1>1. crashes = 0
  BY DEF Crash, TypeInv, TypeOK
<1> QED
  BY <1>1 DEF Unharmed, NoSteal

\* One death of one of two processes, at any point, costs neither exclusion
\* nor anybody's lock file: the callers keep their critical section.
THEOREM OneDeathOfTwo ==
    ASSUME NEW a, NEW b, Procs = {a, b}, PromptHolders, MaxCrashes = 1
    PROVE  Spec => []MutualExclusion /\ ImplementsLock /\ DropSparesOthers
<1>1. Init => TypeInv /\ Unharmed
  BY InitTypeInv, InitIInv DEF IInv, Unharmed
<1>2. TypeInv /\ Unharmed /\ [Next]_vars => (TypeInv /\ Unharmed)'
  BY StepTypeInv, UnharmedStep
<1>3. TypeInv /\ Unharmed /\ [Next]_vars => [ThiefSurvives]_vars
  BY FirstDeathIsNoThiefs
<1>4. Spec => ThievesSurvive
  BY <1>1, <1>2, <1>3, PTL DEF Spec, ThievesSurvive
<1> QED
  BY <1>4, ExclusionOfTwo, LockOfTwo, PTL
=============================================================================
