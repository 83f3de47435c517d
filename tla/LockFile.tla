------------------------------ MODULE LockFile ------------------------------
(***************************************************************************)
(* The lock of ticket.rs: lock_file and the Drop of ClaimsLock, one file   *)
(* system call per action.  The lock is held by whoever created the file   *)
(* at the lock path with O_EXCL.  A file older than the stale threshold is *)
(* stolen: it is renamed to a name of the thief's own, looked at again,    *)
(* and either removed or, when it turns out to be fresh, linked back.      *)
(*                                                                         *)
(* A file is its owner's token, whether the token has been written into    *)
(* it yet (it is created empty), and whether its age exceeds the           *)
(* threshold.  Times are abstracted to that last bit and to the rounds of  *)
(* 100 ms that a waiter sleeps.                                            *)
(***************************************************************************)
EXTENDS Naturals, FiniteSets

CONSTANTS
    Procs,        \* processes that contend for one lock path
    Tokens,       \* ownership tokens; lock_token never repeats a live one
    NoToken,
    NoFile,
    MaxRounds,    \* rounds a waiter sleeps before LOCK_MAX_WAIT_MS is over
    MaxCrashes,   \* deaths that may leave a lock file behind
    PromptHolders \* no live holder outlasts the stale threshold

ASSUME LockFileAssumption ==
    /\ MaxRounds \in Nat
    /\ MaxCrashes \in Nat
    /\ PromptHolders \in BOOLEAN
    /\ NoToken \notin Tokens
    /\ NoFile \notin [token : Tokens, stamped : BOOLEAN, stale : BOOLEAN]

VARIABLES
    path,      \* the file at the lock path, or NoFile
    aside,     \* aside[p]: the file p has renamed to its steal name, or NoFile
    pc,        \* where p is in lock_file or in drop
    token,     \* the token p wrote or is about to write, or NoToken
    rounds,    \* sleeps since p entered lock_file
    crashes    \* deaths so far

vars == <<path, aside, pc, token, rounds, crashes>>

File == [token : Tokens, stamped : BOOLEAN, stale : BOOLEAN]

Location == {"idle", "try", "stamp", "stat", "rename", "recheck", "putBack",
             "wait", "held", "dropRead", "dropRemove"}

Init ==
    /\ path = NoFile
    /\ aside = [p \in Procs |-> NoFile]
    /\ pc = [p \in Procs |-> "idle"]
    /\ token = [p \in Procs |-> NoToken]
    /\ rounds = [p \in Procs |-> 0]
    /\ crashes = 0

Goto(p, l) == pc' = [pc EXCEPT ![p] = l]

\* Tokens of live processes and of files somebody can still reach.
TokensInUse ==
    {token[p] : p \in Procs}
        \cup {f.token : f \in ({path} \cup {aside[p] : p \in Procs}) \ {NoFile}}

-----------------------------------------------------------------------------
(* lock_file *)

Start(p) ==
    /\ pc[p] = "idle"
    /\ Goto(p, "try")
    /\ rounds' = [rounds EXCEPT ![p] = 0]
    /\ UNCHANGED <<path, aside, token, crashes>>

\* (mutant of CreateNew) The file is opened without O_EXCL.
CreateNewUnchecked(p) ==
    /\ pc[p] = "try"
    /\ \E t \in Tokens \ TokensInUse :
          /\ path' = [token |-> t, stamped |-> FALSE, stale |-> FALSE]
          /\ token' = [token EXCEPT ![p] = t]
    /\ Goto(p, "stamp")
    /\ UNCHANGED <<aside, rounds, crashes>>

\* create_new succeeds only where no file is; the file starts out empty.
CreateNew(p) ==
    /\ pc[p] = "try"
    /\ path = NoFile
    /\ \E t \in Tokens \ TokensInUse :
          /\ path' = [token |-> t, stamped |-> FALSE, stale |-> FALSE]
          /\ token' = [token EXCEPT ![p] = t]
    /\ Goto(p, "stamp")
    /\ UNCHANGED <<aside, rounds, crashes>>

AlreadyExists(p) ==
    /\ pc[p] = "try"
    /\ path # NoFile
    /\ Goto(p, "stat")
    /\ UNCHANGED <<path, aside, token, rounds, crashes>>

\* fs::write goes by name: it truncates whatever file is at the path now and
\* creates one when there is none.
StampToken(p) ==
    /\ pc[p] = "stamp"
    /\ path' = [token |-> token[p], stamped |-> TRUE, stale |-> FALSE]
    /\ Goto(p, "held")
    /\ UNCHANGED <<aside, token, rounds, crashes>>

\* A failed write removes the file at the path, and lock_file returns the error.
StampFails(p) ==
    /\ pc[p] = "stamp"
    /\ path' = NoFile
    /\ Goto(p, "idle")
    /\ token' = [token EXCEPT ![p] = NoToken]
    /\ UNCHANGED <<aside, rounds, crashes>>

\* (mutant of LookAtAge) No file is ever taken for stale.
LookAtAgeNever(p) ==
    /\ pc[p] = "stat"
    /\ Goto(p, "wait")
    /\ UNCHANGED <<path, aside, token, rounds, crashes>>

\* An absent file and a fresh file both count as not stale.
LookAtAge(p) ==
    /\ pc[p] = "stat"
    /\ \/ /\ path # NoFile
          /\ path.stale
          /\ Goto(p, "rename")
       \/ /\ path # NoFile => ~path.stale
          /\ Goto(p, "wait")
    /\ UNCHANGED <<path, aside, token, rounds, crashes>>

RenameAside(p) ==
    /\ pc[p] = "rename"
    /\ \/ /\ path # NoFile
          /\ aside' = [aside EXCEPT ![p] = path]
          /\ path' = NoFile
          /\ Goto(p, "recheck")
       \/ /\ path = NoFile
          /\ Goto(p, "try")
          /\ UNCHANGED <<path, aside>>
    /\ UNCHANGED <<token, rounds, crashes>>

\* (mutant of Recheck) What was renamed is removed without a second look.
RecheckDiscards(p) ==
    /\ pc[p] = "recheck"
    /\ aside' = [aside EXCEPT ![p] = NoFile]
    /\ Goto(p, "try")
    /\ UNCHANGED <<path, token, rounds, crashes>>

\* The age is looked at again after the rename: a stale file is removed, a
\* fresh one has to go back.
Recheck(p) ==
    /\ pc[p] = "recheck"
    /\ \/ /\ aside[p].stale
          /\ aside' = [aside EXCEPT ![p] = NoFile]
          /\ Goto(p, "try")
       \/ /\ ~aside[p].stale
          /\ Goto(p, "putBack")
          /\ UNCHANGED aside
    /\ UNCHANGED <<path, token, rounds, crashes>>

\* hard_link fails when the path has been taken again; the steal name then
\* stays behind as an orphan nobody reads.
PutBack(p) ==
    /\ pc[p] = "putBack"
    /\ path' = IF path = NoFile THEN aside[p] ELSE path
    /\ aside' = [aside EXCEPT ![p] = NoFile]
    /\ Goto(p, "wait")
    /\ UNCHANGED <<token, rounds, crashes>>

\* (mutant of Sleep) The rounds are not counted.
SleepUncounted(p) ==
    /\ pc[p] = "wait"
    /\ Goto(p, "try")
    /\ UNCHANGED <<path, aside, token, rounds, crashes>>

Sleep(p) ==
    /\ pc[p] = "wait"
    /\ rounds[p] < MaxRounds
    /\ rounds' = [rounds EXCEPT ![p] = @ + 1]
    /\ Goto(p, "try")
    /\ UNCHANGED <<path, aside, token, crashes>>

\* WouldBlock; a suspended waiter may find the deadline past after any round.
GiveUp(p) ==
    /\ pc[p] = "wait"
    /\ Goto(p, "idle")
    /\ UNCHANGED <<path, aside, token, rounds, crashes>>

-----------------------------------------------------------------------------
(* Drop for ClaimsLock: read the file, compare the token, remove by name. *)

LeaveSection(p) ==
    /\ pc[p] = "held"
    /\ Goto(p, "dropRead")
    /\ UNCHANGED <<path, aside, token, rounds, crashes>>

OwnsFile(p, f) == f # NoFile /\ f.stamped /\ f.token = token[p]

DropRead(p) ==
    /\ pc[p] = "dropRead"
    /\ \/ /\ OwnsFile(p, path)
          /\ Goto(p, "dropRemove")
          /\ UNCHANGED token
       \/ /\ ~OwnsFile(p, path)
          /\ Goto(p, "idle")
          /\ token' = [token EXCEPT ![p] = NoToken]
    /\ UNCHANGED <<path, aside, rounds, crashes>>

DropRemove(p) ==
    /\ pc[p] = "dropRemove"
    /\ path' = NoFile
    /\ Goto(p, "idle")
    /\ token' = [token EXCEPT ![p] = NoToken]
    /\ UNCHANGED <<aside, rounds, crashes>>

-----------------------------------------------------------------------------
(* The world around the calls. *)

\* The process dies (or drop cannot read or remove): its file stays where it is.
Crash(p) ==
    /\ pc[p] # "idle"
    /\ crashes < MaxCrashes
    /\ crashes' = crashes + 1
    /\ Goto(p, "idle")
    /\ token' = [token EXCEPT ![p] = NoToken]
    /\ aside' = [aside EXCEPT ![p] = NoFile]
    /\ UNCHANGED <<path, rounds>>

MayAge(f) ==
    /\ f # NoFile
    /\ ~f.stale
    /\ PromptHolders => \A p \in Procs : token[p] # f.token

\* Time passes until the file at the path, or one renamed aside, is stale.
GrowOld ==
    /\ \/ /\ MayAge(path)
          /\ path' = [path EXCEPT !.stale = TRUE]
          /\ UNCHANGED aside
       \/ \E p \in Procs :
             /\ MayAge(aside[p])
             /\ aside' = [aside EXCEPT ![p].stale = TRUE]
             /\ UNCHANGED path
    /\ UNCHANGED <<pc, token, rounds, crashes>>

Step(p) ==
    \/ CreateNew(p) \/ AlreadyExists(p) \/ StampToken(p) \/ StampFails(p)
    \/ LookAtAge(p) \/ RenameAside(p) \/ Recheck(p) \/ PutBack(p)
    \/ Sleep(p) \/ GiveUp(p)
    \/ LeaveSection(p) \/ DropRead(p) \/ DropRemove(p)

Next ==
    \/ \E p \in Procs : Start(p) \/ Step(p) \/ Crash(p)
    \/ GrowOld

Spec == Init /\ [][Next]_vars

\* A running process keeps running, the commands of the program keep being
\* called, and the clock advances.
FairSpec ==
    /\ Spec
    /\ \A p \in Procs : WF_vars(Start(p)) /\ WF_vars(Step(p))
    /\ WF_vars(GrowOld)

-----------------------------------------------------------------------------
(* Properties *)

TypeOK ==
    /\ path \in File \cup {NoFile}
    /\ aside \in [Procs -> File \cup {NoFile}]
    /\ pc \in [Procs -> Location]
    /\ token \in [Procs -> Tokens \cup {NoToken}]
    /\ rounds \in [Procs -> 0..MaxRounds]
    /\ crashes \in 0..MaxCrashes

Holders == {p \in Procs : pc[p] = "held"}

\* At most one process is between the return of lock_file and the drop of the
\* guard it returned, whatever steals are in progress (ticket.rs:611: a fresh
\* lock moved aside is put back "so no double-holder arises").
MutualExclusion == \A p, q \in Holders : p = q

\* The protocol keeps the promise its callers are written against.
Abstract == INSTANCE AbstractLock WITH holders <- Holders
ImplementsLock == Abstract!Spec

\* The drop of one process never takes the lock file from under another that
\* is in its critical section (ticket.rs:513-516: drop removes the file only
\* if it still carries our token).
DropSparesOthers ==
    [][\A p, q \in Procs :
          DropRemove(p) /\ q # p /\ pc[q] = "held" => ~OwnsFile(q, path)]_vars

\* A file nobody owns any more.
Abandoned == path # NoFile /\ \A p \in Procs : token[p] # path.token

\* A lock left behind by a dead process does not block the callers for ever:
\* it ages and a waiter steals it.
AbandonedIsRecovered == Abandoned ~> ~Abandoned

\* Every call of lock_file comes back, with the lock or with an error.
CallReturns ==
    \A p \in Procs : pc[p] = "try" ~> pc[p] \in {"held", "idle"}
=============================================================================
