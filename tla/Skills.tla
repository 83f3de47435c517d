-------------------------------- MODULE Skills --------------------------------
(***************************************************************************)
(* The skills registry of skills.rs: a directory .agents/skills with one   *)
(* directory per skill.  skill add (the CLI's and the MCP server's) clones *)
(* a source and installs its skills one by one, each by setting what is    *)
(* there aside and copying file after file; set_disabled rewrites one      *)
(* manifest in place.  Neither takes a lock.                               *)
(*                                                                         *)
(* A skill's directory is its manifest SKILL.md and, as one value, the     *)
(* files beside it.  A text is a version of the skill with its quarantine  *)
(* mark; Broken is a file cut short.                                       *)
(***************************************************************************)
EXTENDS Naturals, Sequences

CONSTANTS
    Installers,     \* processes that call skill add
    Togglers,       \* processes that call set_disabled
    SkillNames,
    Versions,
    Sources,        \* the repositories: what version of which skill they hold
    FirstRegistry,  \* the versions installed before anything runs
    Missing, Broken, Malformed, NoDir,
    TogglesRace,    \* set_disabled may run beside an install
    MaxInstalls, MaxToggles,
    MaxFaults,      \* failing writes and clones
    MaxCrashes

Procs == Installers \cup Togglers
Text == [version : Versions, disabled : BOOLEAN]
Dir == [md : Text \cup {Missing, Broken}, aux : Versions \cup {Missing, Broken}]
NoSkill == "none"

ASSUME SkillsAssumption ==
    /\ Installers \cap Togglers = {}
    /\ Sources \subseteq [SkillNames -> Versions \cup {Missing, Malformed}]
    /\ FirstRegistry \in [SkillNames -> Versions \cup {Missing}]
    /\ {Missing, Broken, Malformed} \cap Versions = {}
    /\ Missing \notin Text /\ Broken \notin Text /\ NoDir \notin Dir
    /\ Missing # Broken /\ Missing # Malformed /\ Broken # Malformed
    /\ TogglesRace \in BOOLEAN
    /\ {MaxInstalls, MaxToggles, MaxFaults, MaxCrashes} \subseteq Nat

VARIABLES
    registry,  \* the directory of each skill
    backups,   \* its earlier directories, <name>.local-before-<nanos>
    pc,
    job,       \* the local variables of a command and the result of the last one
    left       \* what remains of each bound

vars == <<registry, backups, pc, job, left>>

Location == {"idle", "next", "aside", "mkdir", "manifest", "aux", "toggle"}

NoJob == [source |-> FirstRegistry, todo |-> {}, installed |-> {}, skill |-> NoSkill,
          text |-> Missing, result |-> "none"]

\* A skill as its source holds it.
Unit(v) == [md |-> [version |-> v, disabled |-> FALSE], aux |-> v]
EmptyDir == [md |-> Missing, aux |-> Missing]

Init ==
    /\ registry = [s \in SkillNames |->
                     IF FirstRegistry[s] = Missing THEN NoDir ELSE Unit(FirstRegistry[s])]
    /\ backups = [s \in SkillNames |-> <<>>]
    /\ pc = [p \in Procs |-> "idle"]
    /\ job = [p \in Procs |-> NoJob]
    /\ left = [installs |-> MaxInstalls, toggles |-> MaxToggles,
               faults |-> MaxFaults, crashes |-> MaxCrashes]

Goto(p, l) == pc' = [pc EXCEPT ![p] = l]
Set(p, j) == job' = [job EXCEPT ![p] = j]
Spend(k) == left[k] > 0 /\ left' = [left EXCEPT ![k] = @ - 1]
Return(p, r) == Goto(p, "idle") /\ Set(p, [job[p] EXCEPT !.result = r])

\* An error leaves whatever the install has done so far.
Fails(p) == Return(p, "error") /\ UNCHANGED <<registry, backups>>

-----------------------------------------------------------------------------
(* Reading the registry *)

Named(s) == registry[s] # NoDir /\ registry[s].md # Missing

\* (mutant of Stray) A directory of another name is passed over.
StrayTolerated(s) == FALSE

\* A backup has the manifest of a skill and a name of its own: a mismatch.
Stray(s) == \E i \in DOMAIN backups[s] : backups[s][i].md # Missing

\* discover_skills fails as a whole on a mismatch or on a manifest that does not
\* parse; a directory without a manifest is passed over.
Unreadable == \E s \in SkillNames : Stray(s) \/ (Named(s) /\ registry[s].md = Broken)
Listed == IF Unreadable THEN {} ELSE {s \in SkillNames : Named(s)}

\* find_skill looks at one directory alone.
Finds(s) == Named(s) /\ registry[s].md # Broken

-----------------------------------------------------------------------------
(* skill add *)

Clone(p) ==
    /\ p \in Installers /\ pc[p] = "idle"
    /\ TogglesRace \/ \A t \in Togglers : pc[t] = "idle"
    /\ Spend("installs")
    /\ \E src \in Sources :
          Set(p, [NoJob EXCEPT !.source = src, !.todo = {s \in SkillNames : src[s] # Missing}])
    /\ Goto(p, "next")
    /\ UNCHANGED <<registry, backups>>

\* The clone fails, or an entry of it cannot be read.
CloneFails(p) == pc[p] = "next" /\ Spend("faults") /\ Fails(p)

\* (mutant of Same) Only the manifests are compared.
SameManifest(v, d) == d # NoDir /\ d.md = Unit(v).md

\* skill_hash of the whole unit.
Same(v, d) == d = Unit(v)

\* The next skill of the source, in the order of its directory: one that does not
\* parse or has another name ends the call, and those before it stay; one that is
\* there as it is needs nothing.
InstallOne(p) ==
    /\ pc[p] = "next"
    /\ \E s \in job[p].todo :
          LET v == job[p].source[s]
              rest == [job[p] EXCEPT !.todo = @ \ {s}, !.skill = s] IN
          \/ /\ v = Malformed
             /\ Return(p, "error")
          \/ /\ v # Malformed /\ Same(v, registry[s])
             /\ Set(p, [rest EXCEPT !.installed = @ \cup {s}])
             /\ UNCHANGED pc
          \/ /\ v # Malformed /\ ~Same(v, registry[s])
             /\ Set(p, rest)
             /\ Goto(p, IF registry[s] = NoDir THEN "mkdir" ELSE "aside")
    /\ UNCHANGED <<registry, backups, left>>

\* (mutant of SetAside) The old directory is removed.
SetAsideRemoves(p) ==
    LET s == job[p].skill IN
    /\ pc[p] = "aside" /\ registry[s] # NoDir
    /\ registry' = [registry EXCEPT ![s] = NoDir]
    /\ Goto(p, "mkdir")
    /\ UNCHANGED <<backups, job, left>>

\* The rename to a name that no backup has; it fails when the directory is gone.
SetAside(p) ==
    LET s == job[p].skill IN
    /\ pc[p] = "aside"
    /\ \/ /\ registry[s] # NoDir
          /\ backups' = [backups EXCEPT ![s] = Append(@, registry[s])]
          /\ registry' = [registry EXCEPT ![s] = NoDir]
          /\ Goto(p, "mkdir")
          /\ UNCHANGED <<job, left>>
       \/ registry[s] = NoDir /\ Fails(p) /\ UNCHANGED left
       \/ Spend("faults") /\ Fails(p)

\* create_dir_all does not mind a directory that is there.
MakeDir(p) ==
    LET s == job[p].skill IN
    /\ pc[p] = "mkdir"
    /\ \/ /\ registry' = [registry EXCEPT ![s] = IF @ = NoDir THEN EmptyDir ELSE @]
          /\ Goto(p, "manifest")
          /\ UNCHANGED <<backups, job, left>>
       \/ Spend("faults") /\ Fails(p)

\* fs::copy truncates what is there; it fails without the directory, and a copy
\* that fails may leave a file cut short.
CopyManifest(p) ==
    LET s == job[p].skill IN
    /\ pc[p] = "manifest"
    /\ \/ /\ registry[s] # NoDir
          /\ registry' = [registry EXCEPT ![s].md = Unit(job[p].source[s]).md]
          /\ Goto(p, "aux")
          /\ UNCHANGED <<job, left>>
       \/ registry[s] = NoDir /\ Return(p, "error") /\ UNCHANGED <<registry, left>>
       \/ /\ registry[s] # NoDir /\ Spend("faults")
          /\ registry' \in {registry, [registry EXCEPT ![s].md = Broken]}
          /\ Return(p, "error")
    /\ UNCHANGED backups

\* The other files, directories among them (copy_dir).
CopyFiles(p) ==
    LET s == job[p].skill IN
    /\ pc[p] = "aux"
    /\ \/ /\ registry[s] # NoDir
          /\ registry' = [registry EXCEPT ![s].aux = job[p].source[s]]
          /\ Set(p, [job[p] EXCEPT !.installed = @ \cup {s}])
          /\ Goto(p, "next")
          /\ UNCHANGED left
       \/ registry[s] = NoDir /\ Return(p, "error") /\ UNCHANGED <<registry, left>>
       \/ /\ registry[s] # NoDir /\ Spend("faults")
          /\ registry' \in {registry, [registry EXCEPT ![s].aux = Broken]}
          /\ Return(p, "error")
    /\ UNCHANGED backups

\* The call returns the names, or an error when there was nothing to install.
Installed(p) ==
    /\ pc[p] = "next" /\ job[p].todo = {}
    /\ Return(p, IF job[p].installed = {} THEN "error" ELSE "ok")
    /\ UNCHANGED <<registry, backups, left>>

-----------------------------------------------------------------------------
(* set_disabled *)

\* The manifest is found and read.
ReadSkill(p) ==
    /\ p \in Togglers /\ pc[p] = "idle"
    /\ TogglesRace \/ \A i \in Installers : pc[i] = "idle"
    /\ Spend("toggles")
    /\ \E s \in {x \in SkillNames : Finds(x)}, mark \in BOOLEAN :
          Set(p, [NoJob EXCEPT !.skill = s, !.text = [registry[s].md EXCEPT !.disabled = mark]])
    /\ Goto(p, "toggle")
    /\ UNCHANGED <<registry, backups>>

\* What was read is written back with the mark, whatever is there by now.
WriteSkill(p) ==
    LET s == job[p].skill IN
    /\ pc[p] = "toggle"
    /\ \/ /\ registry[s] # NoDir
          /\ registry' = [registry EXCEPT ![s].md = job[p].text]
          /\ Return(p, "ok")
          /\ UNCHANGED left
       \/ registry[s] = NoDir /\ Return(p, "error") /\ UNCHANGED <<registry, left>>
       \/ /\ registry[s] # NoDir /\ Spend("faults")
          /\ registry' = [registry EXCEPT ![s].md = Broken]
          /\ Return(p, "error")
    /\ UNCHANGED backups

-----------------------------------------------------------------------------

\* A process is killed, perhaps in the middle of a file.
Crash(p) ==
    LET s == job[p].skill IN
    /\ pc[p] # "idle" /\ Spend("crashes")
    /\ Goto(p, "idle") /\ Set(p, NoJob)
    /\ \/ UNCHANGED registry
       \/ /\ pc[p] \in {"manifest", "toggle"} /\ registry[s] # NoDir
          /\ registry' = [registry EXCEPT ![s].md = Broken]
       \/ /\ pc[p] = "aux" /\ registry[s] # NoDir
          /\ registry' = [registry EXCEPT ![s].aux = Broken]
    /\ UNCHANGED backups

Step(p) ==
    \/ InstallOne(p) \/ SetAside(p) \/ MakeDir(p) \/ CopyManifest(p) \/ CopyFiles(p)
    \/ Installed(p) \/ CloneFails(p) \/ WriteSkill(p)

Finished ==
    /\ \A p \in Procs : pc[p] = "idle"
    /\ left.installs = 0
    /\ UNCHANGED vars

Next == (\E p \in Procs : Clone(p) \/ ReadSkill(p) \/ Step(p) \/ Crash(p)) \/ Finished

Spec == Init /\ [][Next]_vars

-----------------------------------------------------------------------------
(* Properties *)

TypeOK ==
    /\ registry \in [SkillNames -> Dir \cup {NoDir}]
    /\ backups \in [SkillNames -> Seq(Dir)]
    /\ pc \in [Procs -> Location]
    /\ \A p \in Procs : job[p].result \in {"none", "ok", "error"}
    /\ left \in [installs : Nat, toggles : Nat, faults : Nat, crashes : Nat]

Whole(d) == d # NoDir /\ {d.md, d.aux} \cap {Missing, Broken} = {}
Kept(d, s) == registry'[s] = d \/ d \in {backups'[s][i] : i \in DOMAIN backups'[s]}

\* A skill that an install replaces, with the marks and edits it has got, stays in
\* a backup (skills.rs:880: "nothing is ever destroyed by an install").
NothingDestroyed ==
    [][(\A t \in Togglers : pc'[t] = pc[t]) =>
          \A s \in SkillNames : Whole(registry[s]) => Kept(registry[s], s)]_vars

\* An install that returns its names has left exactly the units of its source,
\* whatever an earlier one that failed or was killed left there.
InstalledIsWhole ==
    [][\A p \in Installers : pc[p] = "next" /\ pc'[p] = "idle" /\ job'[p].result = "ok" =>
          \A s \in job'[p].installed : registry'[s] = Unit(job[p].source[s])]_vars

\* A skill that is listed does not drop off the list unseen: it stays, or the
\* listing fails (skills.rs:268-270: "not silently droppable -- the registry gate
\* must see the violation").
NoneVanishes ==
    [][\A s \in Listed : s \in Listed' \/ Unreadable']_vars

-----------------------------------------------------------------------------
(* Claims of the docs that the code does not keep *)

\* The registry can be listed after an update: it cannot, the backup has a
\* manifest whose name is not its directory's.
RegistryReadable ==
    (left.faults = MaxFaults /\ left.crashes = MaxCrashes /\ \A p \in Procs : pc[p] = "idle")
        => ~Unreadable

\* A disabled skill stays so until set_disabled enables it (PIPELINE-DESIGN.md:372:
\* "a disabled pattern stays quarantined"): installing its source again undoes it.
QuarantineHolds ==
    [][\A s \in SkillNames :
          /\ Finds(s) /\ registry[s].md.disabled
          /\ registry'[s] # NoDir /\ registry'[s].md \in Text
          => registry'[s].md.disabled]_vars
=============================================================================
