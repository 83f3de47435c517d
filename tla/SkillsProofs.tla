----------------------------- MODULE SkillsProofs -----------------------------
(***************************************************************************)
(* Theorems about Skills for any number of skills, versions, sources,      *)
(* commands, failures and kills; those about the content of a directory    *)
(* for one installing process.                                             *)
(***************************************************************************)
EXTENDS Skills, TLAPS

-----------------------------------------------------------------------------
(* Types *)

Source == [SkillNames -> Versions \cup {Missing, Malformed}]
Job == [source : Source, todo : SUBSET SkillNames, installed : SUBSET SkillNames,
        skill : SkillNames \cup {NoSkill}, text : Text \cup {Missing},
        result : {"none", "ok", "error"}]
Left == [installs : Nat, toggles : Nat, faults : Nat, crashes : Nat]

AtSkill == {"aside", "mkdir", "manifest", "aux"}
Installing == AtSkill \cup {"next"}

\* A process at a place of a command: an install at work on a skill has a version
\* of it, what it has yet to install is in its source, and a set_disabled has the
\* text it is to write.
Fits(p, l, j) ==
    /\ l \in AtSkill => j.skill \in SkillNames /\ j.source[j.skill] \in Versions
    /\ l = "toggle" => j.skill \in SkillNames /\ j.text \in Text /\ p \in Togglers
    /\ l \in Installing => p \in Installers
    /\ \A s \in j.todo : j.source[s] # Missing

DirsTyped ==
    /\ registry \in [SkillNames -> Dir \cup {NoDir}]
    /\ backups \in [SkillNames -> Seq(Dir)]

ProcsTyped ==
    /\ pc \in [Procs -> Location] /\ job \in [Procs -> Job]
    /\ \A p \in Procs : Fits(p, pc[p], job[p])

TypeInv == DirsTyped /\ ProcsTyped /\ left \in Left

LEMMA UnitTyped ==
    ASSUME NEW v \in Versions
    PROVE  /\ Unit(v) \in Dir /\ Unit(v).md \in Text /\ Unit(v).aux = v
           /\ v # Missing /\ v # Broken /\ v # Malformed
BY SkillsAssumption DEF Unit, Dir, Text

LEMMA TextIsPresent ==
    ASSUME NEW t \in Text
    PROVE  t # Missing /\ t # Broken
BY SkillsAssumption

LEMMA ManifestUpdate ==
    ASSUME NEW d \in Dir, NEW t \in Text \cup {Broken}
    PROVE  /\ [d EXCEPT !.md = t] \in Dir /\ [d EXCEPT !.md = t].md = t
           /\ [d EXCEPT !.md = t].aux = d.aux
BY DEF Dir

LEMMA FilesUpdate ==
    ASSUME NEW d \in Dir, NEW v \in Versions \cup {Broken}
    PROVE  /\ [d EXCEPT !.aux = v] \in Dir /\ [d EXCEPT !.aux = v].md = d.md
           /\ [d EXCEPT !.aux = v].aux = v
BY DEF Dir

LEMMA NextJob ==
    ASSUME NEW j \in Job, NEW s \in SkillNames
    PROVE  LET k == [j EXCEPT !.todo = j.todo \ {s}, !.skill = s] IN
           /\ k \in Job /\ k.todo = j.todo \ {s} /\ k.skill = s
           /\ k.source = j.source /\ k.installed = j.installed
BY DEF Job

LEMMA InstalledJob ==
    ASSUME NEW j \in Job, NEW s \in SkillNames
    PROVE  LET k == [j EXCEPT !.installed = j.installed \cup {s}] IN
           /\ k \in Job /\ k.installed = j.installed \cup {s} /\ k.skill = j.skill
           /\ k.source = j.source /\ k.todo = j.todo
BY DEF Job

LEMMA NoJobTyped == NoJob \in Job /\ NoJob.todo = {}
BY SkillsAssumption DEF NoJob, Job, Source

LEMMA SpendTyped ==
    ASSUME left \in Left, NEW k \in {"installs", "toggles", "faults", "crashes"}, Spend(k)
    PROVE  left' \in Left
BY DEF Left, Spend

\* A process that goes on in its place leaves the others as they are.
LEMMA MovesTyped ==
    ASSUME ProcsTyped, NEW p \in Procs, NEW l \in Location, NEW j \in Job, Fits(p, l, j),
           pc' = [pc EXCEPT ![p] = l], job' = [job EXCEPT ![p] = j]
    PROVE  ProcsTyped'
<1>1. pc' \in [Procs -> Location] /\ job' \in [Procs -> Job]
  BY DEF ProcsTyped
<1>2. ASSUME NEW q \in Procs PROVE Fits(q, pc'[q], job'[q])
  <2>1. CASE q = p
    BY <2>1 DEF ProcsTyped
  <2>2. CASE q # p
    BY <2>2 DEF ProcsTyped
  <2> QED
    BY <2>1, <2>2
<1> QED
  BY <1>1, <1>2 DEF ProcsTyped

LEMMA ReturnTyped ==
    ASSUME ProcsTyped, NEW p \in Procs, NEW r \in {"ok", "error"}, Return(p, r)
    PROVE  /\ ProcsTyped'
           /\ pc' = [pc EXCEPT ![p] = "idle"]
           /\ job' = [job EXCEPT ![p] = [job[p] EXCEPT !.result = r]]
<1> DEFINE j == [job[p] EXCEPT !.result = r]
<1>1. pc' = [pc EXCEPT ![p] = "idle"] /\ job' = [job EXCEPT ![p] = j]
  BY DEF Return, Goto, Set
<1>2. job[p] \in Job /\ Fits(p, pc[p], job[p])
  BY DEF ProcsTyped
<1>3. j \in Job /\ j.todo = job[p].todo /\ j.source = job[p].source
  BY <1>2 DEF Job
<1>4. Fits(p, "idle", j)
  BY <1>2, <1>3 DEF Fits, AtSkill, Installing
<1> QED
  BY <1>1, <1>3, <1>4, MovesTyped DEF Location
-----------------------------------------------------------------------------
(* What a step does to a directory *)

WritesManifest(s) ==
    /\ registry[s] # NoDir /\ UNCHANGED backups
    /\ \E t \in Text \cup {Broken} : registry' = [registry EXCEPT ![s] = [@ EXCEPT !.md = t]]

WritesFiles(s) ==
    /\ registry[s] # NoDir /\ UNCHANGED backups
    /\ \E v \in Versions \cup {Broken} :
          registry' = [registry EXCEPT ![s] = [@ EXCEPT !.aux = v]]

Renames(s) ==
    /\ registry[s] # NoDir
    /\ backups' = [backups EXCEPT ![s] = Append(@, registry[s])]
    /\ registry' = [registry EXCEPT ![s] = NoDir]

Makes(s) ==
    /\ registry[s] = NoDir /\ UNCHANGED backups
    /\ registry' = [registry EXCEPT ![s] = EmptyDir]

\* Nothing, or one call on the directory of the skill a command is at.
DirStep(p) ==
    LET s == job[p].skill IN
    \/ UNCHANGED <<registry, backups>>
    \/ /\ s \in SkillNames
       /\ \/ pc[p] \in {"manifest", "toggle"} /\ WritesManifest(s)
          \/ pc[p] = "aux" /\ WritesFiles(s)
          \/ pc[p] = "aside" /\ Renames(s)
          \/ pc[p] = "mkdir" /\ Makes(s)

LEMMA DirStepTyped ==
    ASSUME DirsTyped, NEW p \in Procs, DirStep(p)
    PROVE  DirsTyped'
<1> DEFINE s == job[p].skill
<1>1. CASE UNCHANGED <<registry, backups>>
  BY <1>1 DEF DirsTyped
<1>2. CASE s \in SkillNames /\ WritesManifest(s)
  <2>1. PICK t \in Text \cup {Broken} : registry' = [registry EXCEPT ![s] = [@ EXCEPT !.md = t]]
    BY <1>2 DEF WritesManifest
  <2>2. registry[s] \in Dir
    BY <1>2 DEF WritesManifest, DirsTyped
  <2>3. [registry[s] EXCEPT !.md = t] \in Dir
    BY <2>2, ManifestUpdate
  <2> QED
    BY <1>2, <2>1, <2>3 DEF DirsTyped, WritesManifest
<1>3. CASE s \in SkillNames /\ WritesFiles(s)
  <2>1. PICK v \in Versions \cup {Broken} :
          registry' = [registry EXCEPT ![s] = [@ EXCEPT !.aux = v]]
    BY <1>3 DEF WritesFiles
  <2>2. registry[s] \in Dir
    BY <1>3 DEF WritesFiles, DirsTyped
  <2>3. [registry[s] EXCEPT !.aux = v] \in Dir
    BY <2>2, FilesUpdate
  <2> QED
    BY <1>3, <2>1, <2>3 DEF DirsTyped, WritesFiles
<1>4. CASE s \in SkillNames /\ Renames(s)
  <2>1. registry[s] \in Dir /\ Append(backups[s], registry[s]) \in Seq(Dir)
    BY <1>4 DEF DirsTyped, Renames
  <2> QED
    BY <1>4, <2>1 DEF DirsTyped, Renames
<1>5. CASE s \in SkillNames /\ Makes(s)
  <2>1. EmptyDir \in Dir
    BY DEF EmptyDir, Dir
  <2> QED
    BY <1>5, <2>1 DEF DirsTyped, Makes
<1> QED
  BY <1>1, <1>2, <1>3, <1>4, <1>5 DEF DirStep

-----------------------------------------------------------------------------
(* The steps one by one *)

StepIsTyped(p) == ProcsTyped' /\ left' \in Left /\ DirStep(p)

LEMMA AtSkillTyped ==
    ASSUME TypeInv, NEW p \in Procs, pc[p] \in AtSkill
    PROVE  /\ job[p] \in Job /\ job[p].skill \in SkillNames
           /\ job[p].source[job[p].skill] \in Versions
           /\ registry[job[p].skill] \in Dir \cup {NoDir} /\ p \in Installers
           /\ Fits(p, pc[p], job[p])
BY DEF TypeInv, ProcsTyped, DirsTyped, Fits, Installing

LEMMA CloneTyped ==
    ASSUME TypeInv, NEW p \in Procs, Clone(p)
    PROVE  StepIsTyped(p)
<1>1. PICK src \in Sources :
        Set(p, [NoJob EXCEPT !.source = src, !.todo = {s \in SkillNames : src[s] # Missing}])
  BY DEF Clone
<1> DEFINE j == [NoJob EXCEPT !.source = src, !.todo = {s \in SkillNames : src[s] # Missing}]
<1>2. src \in Source
  BY SkillsAssumption DEF Source
<1>3. j \in Job /\ j.source = src /\ j.todo = {s \in SkillNames : src[s] # Missing}
  <2>1. NoJob \in Job
    BY NoJobTyped
  <2> QED
    BY <1>2, <2>1 DEF Job
<1>4. Fits(p, "next", j)
  BY <1>3 DEF Fits, AtSkill, Installing, Clone
<1>5. ProcsTyped'
  <2>1. pc' = [pc EXCEPT ![p] = "next"] /\ job' = [job EXCEPT ![p] = j]
    BY <1>1 DEF Clone, Goto, Set
  <2> QED
    BY <1>3, <1>4, <2>1, MovesTyped DEF TypeInv, Location
<1> QED
  BY <1>5, SpendTyped DEF Clone, TypeInv, StepIsTyped, DirStep

LEMMA CloneFailsTyped ==
    ASSUME TypeInv, NEW p \in Procs, CloneFails(p)
    PROVE  StepIsTyped(p)
BY ReturnTyped, SpendTyped DEF CloneFails, Fails, TypeInv, StepIsTyped, DirStep

LEMMA InstallOneMoves ==
    ASSUME TypeInv, NEW p \in Procs, InstallOne(p)
    PROVE  /\ StepIsTyped(p) /\ UNCHANGED <<registry, backups>>
           /\ pc[p] = "next"
           /\ \/ Return(p, "error")
              \/ \E s \in job[p].todo :
                    LET v == job[p].source[s]
                        rest == [job[p] EXCEPT !.todo = @ \ {s}, !.skill = s] IN
                    \/ /\ registry[s] = Unit(v) /\ v \in Versions
                       /\ Set(p, [rest EXCEPT !.installed = @ \cup {s}])
                       /\ pc' = [pc EXCEPT ![p] = "next"]
                    \/ /\ Set(p, rest)
                       /\ pc' = [pc EXCEPT ![p] = IF registry[s] = NoDir THEN "mkdir" ELSE "aside"]
<1>0. job[p] \in Job /\ Fits(p, "next", job[p]) /\ pc \in [Procs -> Location] /\ pc[p] = "next"
  BY DEF TypeInv, ProcsTyped, InstallOne
<1>1. PICK s \in job[p].todo :
          LET v == job[p].source[s]
              rest == [job[p] EXCEPT !.todo = @ \ {s}, !.skill = s] IN
          \/ /\ v = Malformed
             /\ Return(p, "error")
          \/ /\ v # Malformed /\ Same(v, registry[s])
             /\ Set(p, [rest EXCEPT !.installed = @ \cup {s}])
             /\ UNCHANGED pc
          \/ /\ v # Malformed /\ ~Same(v, registry[s])
             /\ Set(p, rest)
             /\ Goto(p, IF registry[s] = NoDir THEN "mkdir" ELSE "aside")
  BY DEF InstallOne
<1> DEFINE v == job[p].source[s]
<1> DEFINE rest == [job[p] EXCEPT !.todo = job[p].todo \ {s}, !.skill = s]
<1> DEFINE done == [rest EXCEPT !.installed = rest.installed \cup {s}]
<1>2. s \in SkillNames /\ v \in Versions \cup {Malformed}
  BY <1>0 DEF Job, Source, Fits
<1>3. /\ rest \in Job /\ rest.source = job[p].source /\ rest.skill = s
      /\ rest.todo = job[p].todo \ {s} /\ rest.installed = job[p].installed
  BY <1>0, <1>2, NextJob
<1>4. done \in Job /\ done.source = job[p].source /\ done.todo = job[p].todo \ {s}
  <2> HIDE DEF rest
  <2> QED
    BY <1>2, <1>3, InstalledJob
<1>5. UNCHANGED <<registry, backups, left>>
  BY DEF InstallOne
<1>6. CASE v = Malformed /\ Return(p, "error")
  BY <1>0, <1>5, <1>6, ReturnTyped DEF StepIsTyped, TypeInv, DirStep
<1>7. CASE v # Malformed /\ Same(v, registry[s]) /\ Set(p, done) /\ UNCHANGED pc
  <2>1. pc' = [pc EXCEPT ![p] = "next"] /\ job' = [job EXCEPT ![p] = done]
    BY <1>0, <1>7 DEF Set
  <2>2. Fits(p, "next", done)
    <3> HIDE DEF done
    <3> QED
      BY <1>0, <1>4 DEF Fits, AtSkill, Installing
  <2>3. ProcsTyped'
    <3> HIDE DEF done
    <3> QED
      BY <1>4, <2>1, <2>2, MovesTyped DEF TypeInv, Location
  <2>4. registry[s] = Unit(v) /\ v \in Versions
    BY <1>2, <1>7 DEF Same
  <2> QED
    BY <1>0, <1>5, <1>7, <2>1, <2>3, <2>4 DEF StepIsTyped, TypeInv, DirStep
<1>8. CASE /\ v # Malformed /\ Set(p, rest)
           /\ Goto(p, IF registry[s] = NoDir THEN "mkdir" ELSE "aside")
  <2> DEFINE l == IF registry[s] = NoDir THEN "mkdir" ELSE "aside"
  <2>1. pc' = [pc EXCEPT ![p] = l] /\ job' = [job EXCEPT ![p] = rest]
    BY <1>8 DEF Set, Goto
  <2>2. l \in Location /\ l \in AtSkill /\ l # "toggle"
    BY DEF Location, AtSkill
  <2>3. Fits(p, l, rest)
    <3> HIDE DEF rest, l
    <3> QED
      BY <1>0, <1>2, <1>3, <1>8, <2>2 DEF Fits, Installing
  <2>4. ProcsTyped'
    <3> HIDE DEF rest, l
    <3> QED
      BY <1>3, <2>1, <2>2, <2>3, MovesTyped DEF TypeInv
  <2> QED
    BY <1>0, <1>5, <1>8, <2>1, <2>4 DEF StepIsTyped, TypeInv, DirStep
<1> QED
  BY <1>1, <1>6, <1>7, <1>8
LEMMA SetAsideTyped ==
    ASSUME TypeInv, NEW p \in Procs, SetAside(p)
    PROVE  StepIsTyped(p)
<1> DEFINE s == job[p].skill
<1>0. pc[p] = "aside" /\ job[p] \in Job /\ s \in SkillNames /\ Fits(p, "mkdir", job[p])
  BY AtSkillTyped DEF SetAside, AtSkill, Fits, Installing
<1>1. CASE registry[s] = NoDir /\ Fails(p) /\ UNCHANGED left
  BY <1>1, ReturnTyped DEF Fails, StepIsTyped, TypeInv, DirStep
<1>2. CASE Spend("faults") /\ Fails(p)
  BY <1>2, ReturnTyped, SpendTyped DEF Fails, StepIsTyped, TypeInv, DirStep
<1>3. CASE /\ registry[s] # NoDir
           /\ backups' = [backups EXCEPT ![s] = Append(@, registry[s])]
           /\ registry' = [registry EXCEPT ![s] = NoDir]
           /\ Goto(p, "mkdir") /\ UNCHANGED <<job, left>>
  <2>1. DirStep(p)
    BY <1>0, <1>3 DEF DirStep, Renames
  <2>2. pc' = [pc EXCEPT ![p] = "mkdir"] /\ job' = [job EXCEPT ![p] = job[p]]
    BY <1>3 DEF Goto, TypeInv, ProcsTyped
  <2>3. ProcsTyped'
    BY <1>0, <2>2, MovesTyped DEF TypeInv, Location
  <2> QED
    BY <1>3, <2>1, <2>3 DEF StepIsTyped, TypeInv
<1> QED
  BY <1>1, <1>2, <1>3 DEF SetAside

LEMMA MakeDirTyped ==
    ASSUME TypeInv, NEW p \in Procs, MakeDir(p)
    PROVE  StepIsTyped(p)
<1> DEFINE s == job[p].skill
<1>0. pc[p] = "mkdir" /\ job[p] \in Job /\ s \in SkillNames /\ Fits(p, "manifest", job[p])
  BY AtSkillTyped DEF MakeDir, AtSkill, Fits, Installing
<1>1. CASE Spend("faults") /\ Fails(p)
  BY <1>1, ReturnTyped, SpendTyped DEF Fails, StepIsTyped, TypeInv, DirStep
<1>2. CASE /\ registry' = [registry EXCEPT ![s] = IF @ = NoDir THEN EmptyDir ELSE @]
           /\ Goto(p, "manifest") /\ UNCHANGED <<backups, job, left>>
  <2>1. DirStep(p)
    <3>1. CASE registry[s] = NoDir
      BY <1>0, <1>2, <3>1 DEF DirStep, Makes
    <3>2. CASE registry[s] # NoDir
      BY <1>2, <3>2 DEF DirStep, TypeInv, DirsTyped
    <3> QED
      BY <3>1, <3>2
  <2>2. pc' = [pc EXCEPT ![p] = "manifest"] /\ job' = [job EXCEPT ![p] = job[p]]
    BY <1>2 DEF Goto, TypeInv, ProcsTyped
  <2>3. ProcsTyped'
    BY <1>0, <2>2, MovesTyped DEF TypeInv, Location
  <2> QED
    BY <1>2, <2>1, <2>3 DEF StepIsTyped, TypeInv
<1> QED
  BY <1>1, <1>2 DEF MakeDir

LEMMA CopyManifestTyped ==
    ASSUME TypeInv, NEW p \in Procs, CopyManifest(p)
    PROVE  StepIsTyped(p)
<1> DEFINE s == job[p].skill
<1>0. /\ pc[p] = "manifest" /\ job[p] \in Job /\ s \in SkillNames
      /\ Fits(p, "aux", job[p]) /\ job[p].source[s] \in Versions /\ UNCHANGED backups
  BY AtSkillTyped DEF CopyManifest, AtSkill, Fits, Installing
<1>1. CASE registry[s] = NoDir /\ Return(p, "error") /\ UNCHANGED <<registry, left>>
  BY <1>0, <1>1, ReturnTyped DEF StepIsTyped, TypeInv, DirStep
<1>2. CASE /\ registry[s] # NoDir /\ Spend("faults")
           /\ registry' \in {registry, [registry EXCEPT ![s].md = Broken]}
           /\ Return(p, "error")
  <2>1. DirStep(p)
    BY <1>0, <1>2 DEF DirStep, WritesManifest
  <2> QED
    BY <1>2, <2>1, ReturnTyped, SpendTyped DEF StepIsTyped, TypeInv
<1>3. CASE /\ registry[s] # NoDir
           /\ registry' = [registry EXCEPT ![s].md = Unit(job[p].source[s]).md]
           /\ Goto(p, "aux") /\ UNCHANGED <<job, left>>
  <2>1. Unit(job[p].source[s]).md \in Text \cup {Broken}
    BY <1>0, UnitTyped
  <2>2. DirStep(p)
    BY <1>0, <1>3, <2>1 DEF DirStep, WritesManifest
  <2>3. pc' = [pc EXCEPT ![p] = "aux"] /\ job' = [job EXCEPT ![p] = job[p]]
    BY <1>3 DEF Goto, TypeInv, ProcsTyped
  <2>4. ProcsTyped'
    BY <1>0, <2>3, MovesTyped DEF TypeInv, Location
  <2> QED
    BY <1>3, <2>2, <2>4 DEF StepIsTyped, TypeInv
<1> QED
  BY <1>1, <1>2, <1>3 DEF CopyManifest

LEMMA CopyFilesTyped ==
    ASSUME TypeInv, NEW p \in Procs, CopyFiles(p)
    PROVE  StepIsTyped(p)
<1> DEFINE s == job[p].skill
<1> DEFINE j == [job[p] EXCEPT !.installed = job[p].installed \cup {s}]
<1>0. /\ pc[p] = "aux" /\ job[p] \in Job /\ s \in SkillNames /\ Fits(p, "aux", job[p])
      /\ job[p].source[s] \in Versions /\ UNCHANGED backups
  BY AtSkillTyped DEF CopyFiles, AtSkill, Fits, Installing
<1>1. CASE registry[s] = NoDir /\ Return(p, "error") /\ UNCHANGED <<registry, left>>
  BY <1>0, <1>1, ReturnTyped DEF StepIsTyped, TypeInv, DirStep
<1>2. CASE /\ registry[s] # NoDir /\ Spend("faults")
           /\ registry' \in {registry, [registry EXCEPT ![s].aux = Broken]}
           /\ Return(p, "error")
  <2>1. DirStep(p)
    BY <1>0, <1>2 DEF DirStep, WritesFiles
  <2> QED
    BY <1>2, <2>1, ReturnTyped, SpendTyped DEF StepIsTyped, TypeInv
<1>3. CASE /\ registry[s] # NoDir
           /\ registry' = [registry EXCEPT ![s].aux = job[p].source[s]]
           /\ Set(p, j) /\ Goto(p, "next") /\ UNCHANGED left
  <2>1. DirStep(p)
    BY <1>0, <1>3 DEF DirStep, WritesFiles
  <2>2. j \in Job /\ j.todo = job[p].todo /\ j.source = job[p].source
    BY <1>0, InstalledJob
  <2>3. Fits(p, "next", j)
    <3> HIDE DEF j
    <3> QED
      BY <1>0, <2>2 DEF Fits, AtSkill, Installing
  <2>4. pc' = [pc EXCEPT ![p] = "next"] /\ job' = [job EXCEPT ![p] = j]
    BY <1>3 DEF Goto, Set
  <2>5. ProcsTyped'
    <3> HIDE DEF j
    <3> QED
      BY <2>2, <2>3, <2>4, MovesTyped DEF TypeInv, Location
  <2> QED
    BY <1>3, <2>1, <2>5 DEF StepIsTyped, TypeInv
<1> QED
  BY <1>1, <1>2, <1>3 DEF CopyFiles

LEMMA InstalledTyped ==
    ASSUME TypeInv, NEW p \in Procs, Installed(p)
    PROVE  StepIsTyped(p)
<1>1. PICK r \in {"ok", "error"} : Return(p, r)
  BY DEF Installed
<1> QED
  BY <1>1, ReturnTyped DEF Installed, StepIsTyped, TypeInv, DirStep

LEMMA ReadSkillTyped ==
    ASSUME TypeInv, NEW p \in Procs, ReadSkill(p)
    PROVE  StepIsTyped(p)
<1>1. PICK s \in {x \in SkillNames : Finds(x)}, mark \in BOOLEAN :
        Set(p, [NoJob EXCEPT !.skill = s, !.text = [registry[s].md EXCEPT !.disabled = mark]])
  BY DEF ReadSkill
<1> DEFINE t == [registry[s].md EXCEPT !.disabled = mark]
<1> DEFINE j == [NoJob EXCEPT !.skill = s, !.text = t]
<1>2. t \in Text
  <2>1. registry[s] \in Dir /\ registry[s].md \notin {Missing, Broken}
    BY <1>1 DEF Finds, Named, TypeInv, DirsTyped
  <2>2. registry[s].md \in Text
    BY <2>1 DEF Dir
  <2> QED
    BY <2>2 DEF Text
<1>3. j \in Job /\ j.skill = s /\ j.text = t /\ j.todo = {}
  <2> HIDE DEF t
  <2> QED
    BY <1>1, <1>2, NoJobTyped DEF Job
<1>4. Fits(p, "toggle", j)
  <2> HIDE DEF j, t
  <2> QED
    BY <1>1, <1>2, <1>3 DEF Fits, AtSkill, Installing, ReadSkill
<1>5. pc' = [pc EXCEPT ![p] = "toggle"] /\ job' = [job EXCEPT ![p] = j]
  BY <1>1 DEF ReadSkill, Goto, Set
<1>6. ProcsTyped'
  <2> HIDE DEF j
  <2> QED
    BY <1>3, <1>4, <1>5, MovesTyped DEF TypeInv, Location
<1> QED
  BY <1>6, SpendTyped DEF ReadSkill, TypeInv, StepIsTyped, DirStep

LEMMA WriteSkillTyped ==
    ASSUME TypeInv, NEW p \in Procs, WriteSkill(p)
    PROVE  StepIsTyped(p)
<1> DEFINE s == job[p].skill
<1>0. pc[p] = "toggle" /\ s \in SkillNames /\ job[p].text \in Text /\ UNCHANGED backups
  BY DEF WriteSkill, TypeInv, ProcsTyped, Fits
<1>1. CASE registry[s] = NoDir /\ Return(p, "error") /\ UNCHANGED <<registry, left>>
  BY <1>0, <1>1, ReturnTyped DEF StepIsTyped, TypeInv, DirStep
<1>2. CASE /\ registry[s] # NoDir /\ registry' = [registry EXCEPT ![s].md = job[p].text]
           /\ Return(p, "ok") /\ UNCHANGED left
  <2>1. DirStep(p)
    BY <1>0, <1>2 DEF DirStep, WritesManifest
  <2> QED
    BY <1>2, <2>1, ReturnTyped DEF StepIsTyped, TypeInv
<1>3. CASE /\ registry[s] # NoDir /\ Spend("faults")
           /\ registry' = [registry EXCEPT ![s].md = Broken] /\ Return(p, "error")
  <2>1. DirStep(p)
    BY <1>0, <1>3 DEF DirStep, WritesManifest
  <2> QED
    BY <1>3, <2>1, ReturnTyped, SpendTyped DEF StepIsTyped, TypeInv
<1> QED
  BY <1>1, <1>2, <1>3 DEF WriteSkill

LEMMA CrashTyped ==
    ASSUME TypeInv, NEW p \in Procs, Crash(p)
    PROVE  StepIsTyped(p)
<1> DEFINE s == job[p].skill
<1>1. ProcsTyped'
  <2>1. Fits(p, "idle", NoJob)
    BY NoJobTyped DEF Fits, AtSkill, Installing
  <2>2. pc' = [pc EXCEPT ![p] = "idle"] /\ job' = [job EXCEPT ![p] = NoJob]
    BY DEF Crash, Goto, Set
  <2> QED
    BY <2>1, <2>2, NoJobTyped, MovesTyped DEF TypeInv, Location
<1>2. pc[p] \in {"manifest", "aux", "toggle"} => s \in SkillNames
  BY DEF TypeInv, ProcsTyped, Fits, AtSkill
<1>3. DirStep(p)
  <2>0. UNCHANGED backups
    BY DEF Crash
  <2>1. CASE UNCHANGED registry
    BY <2>0, <2>1 DEF DirStep
  <2>2. CASE /\ pc[p] \in {"manifest", "toggle"} /\ registry[s] # NoDir
             /\ registry' = [registry EXCEPT ![s].md = Broken]
    BY <1>2, <2>0, <2>2 DEF DirStep, WritesManifest
  <2>3. CASE /\ pc[p] = "aux" /\ registry[s] # NoDir
             /\ registry' = [registry EXCEPT ![s].aux = Broken]
    BY <1>2, <2>0, <2>3 DEF DirStep, WritesFiles
  <2> QED
    BY <2>1, <2>2, <2>3 DEF Crash
<1> QED
  BY <1>1, <1>3, SpendTyped DEF Crash, TypeInv, StepIsTyped

LEMMA EveryStepTyped ==
    ASSUME TypeInv, NEW p \in Procs, Clone(p) \/ ReadSkill(p) \/ Step(p) \/ Crash(p)
    PROVE  StepIsTyped(p)
BY CloneTyped, ReadSkillTyped, CrashTyped, InstallOneMoves, SetAsideTyped, MakeDirTyped,
   CopyManifestTyped, CopyFilesTyped, InstalledTyped, CloneFailsTyped, WriteSkillTyped
DEF Step

LEMMA InitTypeInv == Init => TypeInv
<1> SUFFICES ASSUME Init PROVE TypeInv
  OBVIOUS
<1>1. DirsTyped
  <2>1. ASSUME NEW s \in SkillNames
        PROVE  (IF FirstRegistry[s] = Missing THEN NoDir ELSE Unit(FirstRegistry[s]))
                   \in Dir \cup {NoDir}
    <3>1. FirstRegistry[s] \in Versions \cup {Missing}
      BY SkillsAssumption
    <3> QED
      BY <3>1, UnitTyped
  <2>2. registry \in [SkillNames -> Dir \cup {NoDir}]
    BY <2>1 DEF Init
  <2>3. backups \in [SkillNames -> Seq(Dir)]
    BY DEF Init
  <2> QED
    BY <2>2, <2>3 DEF DirsTyped
<1>2. ProcsTyped
  <2>1. \A p \in Procs : Fits(p, "idle", NoJob)
    BY NoJobTyped DEF Fits, AtSkill, Installing
  <2> QED
    BY <2>1, NoJobTyped DEF Init, ProcsTyped, Location
<1>3. left \in Left
  BY SkillsAssumption DEF Init, Left
<1> QED
  BY <1>1, <1>2, <1>3 DEF TypeInv

LEMMA StepTypeInv == TypeInv /\ [Next]_vars => TypeInv'
<1> SUFFICES ASSUME TypeInv, [Next]_vars PROVE TypeInv'
  OBVIOUS
<1>1. CASE UNCHANGED vars
  BY <1>1 DEF vars, TypeInv, DirsTyped, ProcsTyped
<1>2. ASSUME NEW p \in Procs, Clone(p) \/ ReadSkill(p) \/ Step(p) \/ Crash(p)
      PROVE  TypeInv'
  BY <1>2, EveryStepTyped, DirStepTyped DEF StepIsTyped, TypeInv
<1> QED
  BY <1>1, <1>2 DEF Next, Finished

\* Every reachable state of the registry and of the commands on it is well typed.
THEOREM TypeCorrect == Spec => []TypeOK
<1>1. Init => TypeInv
  BY InitTypeInv
<1>2. TypeInv /\ [Next]_vars => TypeInv'
  BY StepTypeInv
<1>3. TypeInv => TypeOK
  BY DEF TypeInv, DirsTyped, ProcsTyped, TypeOK, Left, Job
<1> QED
  BY <1>1, <1>2, <1>3, PTL DEF Spec

-----------------------------------------------------------------------------
(* The list *)

\* A directory with a manifest keeps one, or is set aside with it.
LEMMA ManifestStays ==
    ASSUME TypeInv, NEW p \in Procs, DirStep(p), NEW s \in SkillNames, Named(s)
    PROVE  Named(s)' \/ Unreadable'
<1> DEFINE d == job[p].skill
<1>0. registry \in [SkillNames -> Dir \cup {NoDir}] /\ registry[s] \in Dir
      /\ backups \in [SkillNames -> Seq(Dir)] /\ registry[s].md # Missing
  BY DEF TypeInv, DirsTyped, Named
<1>1. CASE UNCHANGED <<registry, backups>>
  BY <1>1 DEF Named
<1>2. CASE d # s
  BY <1>0, <1>2 DEF DirStep, WritesManifest, WritesFiles, Renames, Makes, Named
<1>3. CASE d = s /\ WritesManifest(s)
  <2>1. PICK t \in Text \cup {Broken} : registry' = [registry EXCEPT ![s] = [@ EXCEPT !.md = t]]
    BY <1>3 DEF WritesManifest
  <2>2. t # Missing
    <3>1. Missing \notin Text /\ Missing # Broken
      BY SkillsAssumption
    <3> QED
      BY <3>1
  <2>3. [registry[s] EXCEPT !.md = t] \in Dir /\ [registry[s] EXCEPT !.md = t].md = t
    BY <1>0, ManifestUpdate
  <2>4. registry'[s] = [registry[s] EXCEPT !.md = t]
    BY <1>0, <2>1
  <2> QED
    BY <2>2, <2>3, <2>4, SkillsAssumption DEF Named
<1>4. CASE d = s /\ WritesFiles(s)
  <2>1. PICK v \in Versions \cup {Broken} :
          registry' = [registry EXCEPT ![s] = [@ EXCEPT !.aux = v]]
    BY <1>4 DEF WritesFiles
  <2>2. /\ [registry[s] EXCEPT !.aux = v] \in Dir
        /\ [registry[s] EXCEPT !.aux = v].md = registry[s].md
    BY <1>0, FilesUpdate
  <2>3. registry'[s] = [registry[s] EXCEPT !.aux = v]
    BY <1>0, <2>1
  <2> QED
    BY <1>0, <2>2, <2>3, SkillsAssumption DEF Named
<1>5. CASE d = s /\ Renames(s)
  <2>1. backups'[s] = Append(backups[s], registry[s]) /\ backups[s] \in Seq(Dir)
    BY <1>0, <1>5 DEF Renames
  <2>2. /\ Len(backups[s]) + 1 \in DOMAIN backups'[s]
        /\ backups'[s][Len(backups[s]) + 1] = registry[s]
    BY <1>0, <2>1
  <2> QED
    BY <1>0, <2>2 DEF Stray, Unreadable
<1>6. CASE d = s /\ Makes(s)
  BY <1>6 DEF Makes, Named
<1> QED
  BY <1>1, <1>2, <1>3, <1>4, <1>5, <1>6 DEF DirStep

\* A skill that is listed does not drop off the list without an error of the listing:
\* whatever runs beside what, fails or is killed.
THEOREM NoSkillVanishes == Spec => NoneVanishes
<1>1. Init => TypeInv
  BY InitTypeInv
<1>2. TypeInv /\ [Next]_vars => TypeInv'
  BY StepTypeInv
<1>3. ASSUME TypeInv, [Next]_vars
      PROVE  [\A s \in Listed : s \in Listed' \/ Unreadable']_vars
  <2> SUFFICES ASSUME ~UNCHANGED vars, NEW s \in Listed PROVE s \in Listed' \/ Unreadable'
    OBVIOUS
  <2>1. PICK p \in Procs : Clone(p) \/ ReadSkill(p) \/ Step(p) \/ Crash(p)
    BY <1>3 DEF Next, Finished
  <2>2. DirStep(p)
    BY <1>3, <2>1, EveryStepTyped DEF StepIsTyped
  <2>3. s \in SkillNames /\ Named(s)
    BY DEF Listed
  <2>4. Named(s)' \/ Unreadable'
    BY <1>3, <2>2, <2>3, ManifestStays
  <2> QED
    BY <2>3, <2>4 DEF Listed
<1> QED
  BY <1>1, <1>2, <1>3, PTL DEF Spec, NoneVanishes
-----------------------------------------------------------------------------
(* One installing process *)

OneInstaller == \A i, j \in Installers : i = j

\* What an install is about to fill holds nothing that anybody would miss.
HalfMade ==
    \A i \in Installers :
        LET s == job[i].skill IN
        /\ pc[i] = "mkdir" => registry[s] = NoDir
        /\ pc[i] \in {"manifest", "aux"} => registry[s] = NoDir \/ registry[s].aux = Missing

LEMMA InstallAlone ==
    ASSUME OneInstaller, TypeInv, NEW p \in Procs, NEW i \in Installers,
           pc[p] \in Installing
    PROVE  p = i
BY DEF OneInstaller, TypeInv, ProcsTyped, Fits

\* A manifest that is written leaves the files as they are.
LEMMA FilesStay ==
    ASSUME TypeInv, NEW s \in SkillNames, WritesManifest(s)
    PROVE  registry'[s] \in Dir /\ registry'[s].aux = registry[s].aux
<1>1. PICK t \in Text \cup {Broken} : registry' = [registry EXCEPT ![s] = [@ EXCEPT !.md = t]]
  BY DEF WritesManifest
<1>2. registry[s] \in Dir /\ registry'[s] = [registry[s] EXCEPT !.md = t]
  BY <1>1 DEF TypeInv, DirsTyped, WritesManifest
<1> QED
  BY <1>2, ManifestUpdate

\* Another command on the registry is a set_disabled: the directory an install is at
\* stays half made.
LEMMA OthersKeepHalfMade ==
    ASSUME OneInstaller, TypeInv, HalfMade, NEW p \in Procs, pc[p] \notin Installing,
           DirStep(p), pc' = [pc EXCEPT ![p] = pc'[p]], job' = [job EXCEPT ![p] = job'[p]],
           pc'[p] \notin AtSkill
    PROVE  HalfMade'
<1> SUFFICES ASSUME NEW i \in Installers, pc'[i] \in {"mkdir", "manifest", "aux"}
             PROVE  LET s == job'[i].skill IN
                    /\ pc'[i] = "mkdir" => registry'[s] = NoDir
                    /\ pc'[i] \in {"manifest", "aux"} =>
                          registry'[s] = NoDir \/ registry'[s].aux = Missing
  BY DEF HalfMade
<1> DEFINE s == job[i].skill
<1>1. i # p /\ pc'[i] = pc[i] /\ job'[i] = job[i]
  BY DEF TypeInv, ProcsTyped, AtSkill, Procs
<1>2. /\ pc[i] = "mkdir" => registry[s] = NoDir
      /\ pc[i] \in {"manifest", "aux"} => registry[s] = NoDir \/ registry[s].aux = Missing
  BY DEF HalfMade
<1>3. s \in SkillNames
  BY <1>1 DEF TypeInv, ProcsTyped, Fits, AtSkill, Procs
<1>4. CASE UNCHANGED registry
  BY <1>1, <1>2, <1>4
<1>5. CASE job[p].skill \in SkillNames /\ WritesManifest(job[p].skill)
  <2>1. CASE job[p].skill = s
    <3>1. registry[s] # NoDir
      BY <1>5, <2>1 DEF WritesManifest
    <3> QED
      BY <1>1, <1>2, <1>5, <2>1, <3>1, FilesStay
  <2>2. CASE job[p].skill # s
    <3>1. registry'[s] = registry[s]
      BY <1>3, <1>5, <2>2 DEF WritesManifest, TypeInv, DirsTyped
    <3> QED
      BY <1>1, <1>2, <3>1
  <2> QED
    BY <2>1, <2>2
<1> QED
  BY <1>4, <1>5 DEF DirStep, Installing, AtSkill

\* A step of the installing process itself.
LEMMA OwnStepHalfMade ==
    ASSUME OneInstaller, NEW p \in Installers,
           LET s == job'[p].skill IN
           /\ pc'[p] = "mkdir" => registry'[s] = NoDir
           /\ pc'[p] \in {"manifest", "aux"} => registry'[s] = NoDir \/ registry'[s].aux = Missing
    PROVE  HalfMade'
BY DEF OneInstaller, HalfMade

LEMMA StepHalfMade ==
    ASSUME OneInstaller
    PROVE  TypeInv /\ HalfMade /\ [Next]_vars => HalfMade'
<1> SUFFICES ASSUME TypeInv, HalfMade, [Next]_vars PROVE HalfMade'
  OBVIOUS
<1>0. pc \in [Procs -> Location] /\ job \in [Procs -> Job]
  BY DEF TypeInv, ProcsTyped
<1>1. CASE UNCHANGED vars
  BY <1>1 DEF vars, HalfMade
<1>2. ASSUME NEW p \in Procs, Clone(p) \/ CloneFails(p) \/ Installed(p)
      PROVE  HalfMade'
  <2>1. p \in Installers /\ pc'[p] \in {"next", "idle"}
    BY <1>0, <1>2
    DEF Clone, CloneFails, Installed, Fails, Return, Goto, TypeInv, ProcsTyped, Fits, Installing
  <2> QED
    BY <2>1, OwnStepHalfMade
<1>3. ASSUME NEW p \in Procs, InstallOne(p)
      PROVE  HalfMade'
  <2>1. p \in Installers /\ UNCHANGED registry
    BY <1>0, <1>3 DEF InstallOne, TypeInv, ProcsTyped, Fits, Installing
  <2>2. CASE pc'[p] \in {"idle", "next", "aside"}
    BY <2>1, <2>2, OwnStepHalfMade
  <2>3. CASE pc'[p] \notin {"idle", "next", "aside"}
    <3>1. PICK s \in job[p].todo :
            /\ job' = [job EXCEPT ![p] = [job[p] EXCEPT !.todo = @ \ {s}, !.skill = s]]
            /\ pc' = [pc EXCEPT ![p] = IF registry[s] = NoDir THEN "mkdir" ELSE "aside"]
      BY <1>0, <1>3, <2>3, InstallOneMoves DEF Return, Goto, Set
    <3>2. job[p] \in Job /\ s \in SkillNames
      BY <1>0, <3>1 DEF Job
    <3>3. job'[p].skill = s /\ pc'[p] = (IF registry[s] = NoDir THEN "mkdir" ELSE "aside")
      BY <1>0, <3>1, <3>2, NextJob
    <3> QED
      BY <2>1, <2>3, <3>3, OwnStepHalfMade
  <2> QED
    BY <2>2, <2>3
<1>4. ASSUME NEW p \in Procs, SetAside(p)
      PROVE  HalfMade'
  <2> DEFINE s == job[p].skill
  <2>1. p \in Installers /\ s \in SkillNames
    BY <1>4, AtSkillTyped DEF SetAside, AtSkill
  <2>2. CASE pc'[p] = "idle"
    BY <2>1, <2>2, OwnStepHalfMade
  <2>3. CASE pc'[p] # "idle"
    <3>1. registry' = [registry EXCEPT ![s] = NoDir] /\ Goto(p, "mkdir") /\ UNCHANGED job
      BY <1>0, <1>4, <2>3 DEF SetAside, Fails, Return, Goto
    <3>2. registry'[s] = NoDir /\ pc'[p] = "mkdir"
      BY <1>0, <2>1, <3>1 DEF Goto, TypeInv, DirsTyped
    <3> QED
      BY <2>1, <3>1, <3>2, OwnStepHalfMade
  <2> QED
    BY <2>2, <2>3
<1>5. ASSUME NEW p \in Procs, MakeDir(p)
      PROVE  HalfMade'
  <2> DEFINE s == job[p].skill
  <2>1. p \in Installers /\ s \in SkillNames /\ pc[p] = "mkdir"
    BY <1>5, AtSkillTyped DEF MakeDir, AtSkill
  <2>2. CASE pc'[p] = "idle"
    BY <2>1, <2>2, OwnStepHalfMade
  <2>3. CASE pc'[p] # "idle"
    <3>1. /\ registry' = [registry EXCEPT ![s] = IF @ = NoDir THEN EmptyDir ELSE @]
          /\ Goto(p, "manifest") /\ UNCHANGED job
      BY <1>0, <1>5, <2>3 DEF MakeDir, Fails, Return, Goto
    <3>2. registry[s] = NoDir
      BY <2>1 DEF HalfMade
    <3>3. registry'[s] = EmptyDir /\ pc'[p] = "manifest"
      BY <1>0, <2>1, <3>1, <3>2 DEF Goto, TypeInv, DirsTyped
    <3> QED
      BY <2>1, <3>1, <3>3, OwnStepHalfMade DEF EmptyDir
  <2> QED
    BY <2>2, <2>3
<1>6. ASSUME NEW p \in Procs, CopyManifest(p)
      PROVE  HalfMade'
  <2> DEFINE s == job[p].skill
  <2>1. p \in Installers /\ s \in SkillNames /\ pc[p] = "manifest"
        /\ job[p].source[s] \in Versions
    BY <1>6, AtSkillTyped DEF CopyManifest, AtSkill
  <2>2. CASE pc'[p] = "idle"
    BY <2>1, <2>2, OwnStepHalfMade
  <2>3. CASE pc'[p] # "idle"
    <3>1. /\ registry[s] # NoDir /\ Goto(p, "aux") /\ UNCHANGED <<job, backups>>
          /\ registry' = [registry EXCEPT ![s].md = Unit(job[p].source[s]).md]
      BY <1>0, <1>6, <2>3 DEF CopyManifest, Return, Goto
    <3>2. WritesManifest(s)
      BY <2>1, <3>1, UnitTyped DEF WritesManifest
    <3>3. registry[s].aux = Missing
      BY <2>1, <3>1 DEF HalfMade
    <3>4. registry'[s].aux = Missing
      BY <2>1, <3>2, <3>3, FilesStay
    <3>5. pc'[p] = "aux" /\ job'[p].skill = s
      BY <1>0, <3>1 DEF Goto
    <3> QED
      BY <2>1, <3>4, <3>5, OwnStepHalfMade
  <2> QED
    BY <2>2, <2>3
<1>7. ASSUME NEW p \in Procs, CopyFiles(p)
      PROVE  HalfMade'
  <2>1. p \in Installers /\ pc'[p] \in {"next", "idle"}
    BY <1>0, <1>7, AtSkillTyped DEF CopyFiles, AtSkill, Return, Goto
  <2> QED
    BY <2>1, OwnStepHalfMade
<1>8. ASSUME NEW p \in Procs, ReadSkill(p) \/ WriteSkill(p) \/ (Crash(p) /\ pc[p] = "toggle")
      PROVE  HalfMade'
  <2>1. /\ pc[p] \notin Installing /\ pc'[p] \in {"idle", "toggle"}
        /\ pc' = [pc EXCEPT ![p] = pc'[p]] /\ job' = [job EXCEPT ![p] = job'[p]]
    BY <1>0, <1>8
    DEF ReadSkill, WriteSkill, Crash, Return, Goto, Set, Installing, AtSkill
  <2>2. DirStep(p)
    BY <1>8, ReadSkillTyped, WriteSkillTyped, CrashTyped DEF StepIsTyped
  <2> QED
    BY <2>1, <2>2, OthersKeepHalfMade DEF AtSkill
<1>9. ASSUME NEW p \in Procs, Crash(p), pc[p] # "toggle"
      PROVE  HalfMade'
  <2>1. p \in Installers /\ pc'[p] = "idle"
    BY <1>0, <1>9
    DEF Crash, Goto, TypeInv, ProcsTyped, Fits, Installing, AtSkill, Location
  <2> QED
    BY <2>1, OwnStepHalfMade
<1> QED
  BY <1>1, <1>2, <1>3, <1>4, <1>5, <1>6, <1>7, <1>8, <1>9 DEF Next, Step, Finished

\* What an install does to a directory keeps it in a backup, or it was not whole.
LEMMA InstallKeeps ==
    ASSUME TypeInv, HalfMade, NEW p \in Installers, DirStep(p), pc[p] # "toggle",
           NEW s \in SkillNames, Whole(registry[s])
    PROVE  Kept(registry[s], s)
<1> DEFINE d == job[p].skill
<1>0. registry \in [SkillNames -> Dir \cup {NoDir}] /\ backups \in [SkillNames -> Seq(Dir)]
  BY DEF TypeInv, DirsTyped
<1>1. CASE registry'[s] = registry[s]
  BY <1>1 DEF Kept
<1>2. CASE d = s /\ Renames(s)
  <2>1. backups'[s] = Append(backups[s], registry[s]) /\ backups[s] \in Seq(Dir)
        /\ registry[s] \in Dir
    BY <1>0, <1>2 DEF Renames
  <2>2. /\ Len(backups[s]) + 1 \in DOMAIN backups'[s]
        /\ backups'[s][Len(backups[s]) + 1] = registry[s]
    BY <2>1
  <2> QED
    BY <2>2 DEF Kept
<1>3. CASE d = s /\ pc[p] \in {"manifest", "aux"} /\ registry[s] # NoDir
  <2>1. registry[s].aux = Missing
    BY <1>3 DEF HalfMade
  <2> QED
    BY <2>1 DEF Whole
<1>4. CASE d = s /\ Makes(s)
  BY <1>4 DEF Makes, Whole
<1>5. CASE d # s
  <2>1. registry'[s] = registry[s]
    BY <1>0, <1>5 DEF DirStep, WritesManifest, WritesFiles, Renames, Makes
  <2> QED
    BY <2>1 DEF Kept
<1> QED
  BY <1>1, <1>2, <1>3, <1>4, <1>5 DEF DirStep, WritesManifest, WritesFiles

\* With one installing process, no install destroys a whole skill, with the marks and
\* edits it has got, however it ends, and whatever set_disabled does beside it.
THEOREM NothingIsDestroyed == ASSUME OneInstaller PROVE Spec => NothingDestroyed
<1>1. Init => TypeInv /\ HalfMade
  <2>1. Init => HalfMade
    BY DEF Init, HalfMade, Procs
  <2> QED
    BY <2>1, InitTypeInv
<1>2. TypeInv /\ HalfMade /\ [Next]_vars => (TypeInv /\ HalfMade)'
  BY StepTypeInv, StepHalfMade
<1>3. ASSUME TypeInv, HalfMade, [Next]_vars
      PROVE  [(\A t \in Togglers : pc'[t] = pc[t]) =>
                 \A s \in SkillNames : Whole(registry[s]) => Kept(registry[s], s)]_vars
  <2> SUFFICES ASSUME ~UNCHANGED vars, \A t \in Togglers : pc'[t] = pc[t],
                      NEW s \in SkillNames, Whole(registry[s])
               PROVE  Kept(registry[s], s)
    OBVIOUS
  <2>1. PICK p \in Procs : Clone(p) \/ ReadSkill(p) \/ Step(p) \/ Crash(p)
    BY <1>3 DEF Next, Finished
  <2>2. DirStep(p)
    BY <1>3, <2>1, EveryStepTyped DEF StepIsTyped
  <2>3. CASE registry'[s] = registry[s]
    BY <2>3 DEF Kept
  <2>4. CASE registry'[s] # registry[s]
    <3>1. pc[p] \in {"manifest", "aux", "aside", "mkdir", "toggle"}
      BY <2>2, <2>4 DEF DirStep
    <3>2. pc[p] # "toggle"
      <4>1. SUFFICES ASSUME pc[p] = "toggle" PROVE FALSE
        OBVIOUS
      <4>2. p \in Togglers /\ pc \in [Procs -> Location]
        BY <1>3, <4>1 DEF TypeInv, ProcsTyped, Fits
      <4>3. WriteSkill(p) \/ Crash(p)
        BY <2>1, <4>1
        DEF Step, Clone, ReadSkill, InstallOne, SetAside, MakeDir, CopyManifest, CopyFiles,
            Installed, CloneFails
      <4>4. pc'[p] = "idle"
        BY <4>2, <4>3 DEF WriteSkill, Crash, Return, Goto
      <4> QED
        BY <4>1, <4>2, <4>4
    <3>3. p \in Installers
      BY <1>3, <3>1, <3>2 DEF TypeInv, ProcsTyped, Fits, Installing, AtSkill
    <3> QED
      BY <1>3, <2>2, <3>2, <3>3, InstallKeeps
  <2> QED
    BY <2>3, <2>4
<1> QED
  BY <1>1, <1>2, <1>3, PTL DEF Spec, NothingDestroyed
-----------------------------------------------------------------------------
(* Whole installs *)

\* No set_disabled runs beside an install.
Apart == (\E i \in Installers : pc[i] # "idle") => \A t \in Togglers : pc[t] = "idle"

\* What an install has done is as its source has it, and it does not come back to it.
DoneIsWhole ==
    \A i \in Installers :
        LET s == job[i].skill IN
        /\ pc[i] \in Installing =>
              \A x \in job[i].installed :
                  registry[x] = Unit(job[i].source[x]) /\ x \notin job[i].todo
        /\ pc[i] \in AtSkill => s \notin job[i].installed /\ s \notin job[i].todo
        /\ pc[i] = "aux" => registry[s] \in Dir /\ registry[s].md = Unit(job[i].source[s]).md

InstallInv == Apart /\ DoneIsWhole

\* A step at one process, with no set_disabled at work, keeps the two apart.
LEMMA ApartKept ==
    ASSUME ~TogglesRace
    PROVE  TypeInv /\ Apart /\ [Next]_vars => Apart'
<1> SUFFICES ASSUME TypeInv, Apart, [Next]_vars PROVE Apart'
  OBVIOUS
<1>0. pc \in [Procs -> Location] /\ Installers \cap Togglers = {}
  BY SkillsAssumption DEF TypeInv, ProcsTyped
<1>1. CASE UNCHANGED vars
  BY <1>1 DEF vars, Apart
<1>2. ASSUME NEW p \in Procs, Clone(p)
      PROVE  Apart'
  <2>1. p \in Installers /\ (\A t \in Togglers : pc[t] = "idle") /\ pc' = [pc EXCEPT ![p] = "next"]
    BY <1>2 DEF Clone, Goto
  <2> QED
    BY <1>0, <2>1 DEF Apart, Procs
<1>3. ASSUME NEW p \in Procs, ReadSkill(p)
      PROVE  Apart'
  <2>1. p \in Togglers /\ (\A i \in Installers : pc[i] = "idle") /\ pc' = [pc EXCEPT ![p] = "toggle"]
    BY <1>3 DEF ReadSkill, Goto
  <2> QED
    BY <1>0, <2>1 DEF Apart, Procs
<1>4. ASSUME NEW p \in Procs, Step(p) \/ Crash(p)
      PROVE  Apart'
  <2>1. /\ pc[p] # "idle"
        /\ \E l \in Location : pc' = [pc EXCEPT ![p] = l] /\ (p \in Togglers => l = "idle")
    <3>1. CASE InstallOne(p)
      <4>1. pc[p] = "next" /\ p \notin Togglers
        BY <1>0, <1>4, <3>1 DEF InstallOne, TypeInv, ProcsTyped, Fits, Installing, Procs
      <4>2. \E l \in Location : pc' = [pc EXCEPT ![p] = l]
        BY <1>0, <3>1 DEF InstallOne, Return, Goto, Location
      <4> QED
        BY <4>1, <4>2
    <3>2. CASE SetAside(p) \/ MakeDir(p) \/ CopyManifest(p) \/ CopyFiles(p)
      <4>1. pc[p] # "idle" /\ p \notin Togglers
        BY <1>0, <3>2, AtSkillTyped
        DEF SetAside, MakeDir, CopyManifest, CopyFiles, AtSkill
      <4>2. \E l \in Location : pc' = [pc EXCEPT ![p] = l]
        BY <3>2
        DEF SetAside, MakeDir, CopyManifest, CopyFiles, Fails, Return, Goto, Location
      <4> QED
        BY <4>1, <4>2
    <3>3. CASE Installed(p) \/ CloneFails(p) \/ WriteSkill(p) \/ Crash(p)
      BY <3>3 DEF Installed, CloneFails, WriteSkill, Crash, Fails, Return, Goto, Location
    <3> QED
      BY <1>4, <3>1, <3>2, <3>3 DEF Step
  <2>2. PICK l \in Location : pc' = [pc EXCEPT ![p] = l] /\ (p \in Togglers => l = "idle")
    BY <2>1
  <2> QED
    BY <1>0, <2>1, <2>2 DEF Apart, Procs
<1> QED
  BY <1>1, <1>2, <1>3, <1>4 DEF Next, Finished

\* A step of a set_disabled, while no install is at work.
LEMMA TogglerKeepsDone ==
    ASSUME TypeInv, Apart, Apart', DoneIsWhole, NEW p \in Togglers,
           pc[p] # "idle" \/ pc'[p] # "idle",
           pc' = [pc EXCEPT ![p] = pc'[p]]
    PROVE  DoneIsWhole'
<1>1. \A i \in Installers : pc'[i] = "idle"
  <2> SUFFICES ASSUME NEW i \in Installers, pc'[i] # "idle" PROVE FALSE
    OBVIOUS
  <2>1. i # p /\ pc'[i] = pc[i]
    BY SkillsAssumption DEF TypeInv, ProcsTyped, Procs
  <2> QED
    BY <2>1 DEF Apart
<1> QED
  BY <1>1 DEF DoneIsWhole, Installing, AtSkill

LEMMA OwnStepDone ==
    ASSUME OneInstaller, NEW p \in Installers,
           LET s == job'[p].skill IN
           /\ pc'[p] \in Installing =>
                 \A x \in job'[p].installed :
                     registry'[x] = Unit(job'[p].source[x]) /\ x \notin job'[p].todo
           /\ pc'[p] \in AtSkill => s \notin job'[p].installed /\ s \notin job'[p].todo
           /\ pc'[p] = "aux" =>
                 registry'[s] \in Dir /\ registry'[s].md = Unit(job'[p].source[s]).md
    PROVE  DoneIsWhole'
BY DEF OneInstaller, DoneIsWhole

\* The directory a step changes is not one that is done.
LEMMA DoneUntouched ==
    ASSUME TypeInv, DoneIsWhole, NEW p \in Installers, pc[p] \in AtSkill, DirStep(p)
    PROVE  \A x \in job[p].installed :
               registry'[x] = Unit(job[p].source[x]) /\ x \notin job[p].todo
<1> SUFFICES ASSUME NEW x \in job[p].installed
             PROVE  registry'[x] = Unit(job[p].source[x]) /\ x \notin job[p].todo
  OBVIOUS
<1>1. registry[x] = Unit(job[p].source[x]) /\ x \notin job[p].todo /\ x # job[p].skill
  BY DEF DoneIsWhole, Installing
<1>2. x \in SkillNames /\ registry \in [SkillNames -> Dir \cup {NoDir}]
  BY DEF TypeInv, ProcsTyped, DirsTyped, Job, Procs
<1>3. registry'[x] = registry[x]
  BY <1>1, <1>2 DEF DirStep, WritesManifest, WritesFiles, Renames, Makes
<1> QED
  BY <1>1, <1>3

LEMMA StepDone ==
    ASSUME OneInstaller
    PROVE  TypeInv /\ InstallInv /\ Apart' /\ [Next]_vars => DoneIsWhole'
<1> SUFFICES ASSUME TypeInv, InstallInv, Apart', [Next]_vars PROVE DoneIsWhole'
  OBVIOUS
<1>0. pc \in [Procs -> Location] /\ job \in [Procs -> Job] /\ DoneIsWhole /\ Apart
  BY DEF TypeInv, ProcsTyped, InstallInv
<1>1. CASE UNCHANGED vars
  BY <1>0, <1>1 DEF vars, DoneIsWhole
<1>2. ASSUME NEW p \in Procs, Clone(p)
      PROVE  DoneIsWhole'
  <2>1. PICK src \in Sources :
          job' = [job EXCEPT ![p] = [NoJob EXCEPT !.source = src,
                                     !.todo = {s \in SkillNames : src[s] # Missing}]]
    BY <1>2 DEF Clone, Set
  <2>2. job'[p].installed = {} /\ pc'[p] = "next" /\ p \in Installers
    BY <1>0, <1>2, <2>1 DEF Clone, Goto, NoJob
  <2> QED
    BY <2>2, OwnStepDone DEF AtSkill
<1>3. ASSUME NEW p \in Procs, CloneFails(p) \/ Installed(p) \/ (Crash(p) /\ pc[p] # "toggle")
      PROVE  DoneIsWhole'
  <2>1. p \in Installers /\ pc'[p] = "idle"
    BY <1>0, <1>3
    DEF CloneFails, Installed, Crash, Fails, Return, Goto, TypeInv, ProcsTyped, Fits,
        Installing, AtSkill, Location
  <2> QED
    BY <2>1, OwnStepDone DEF Installing, AtSkill
<1>4. ASSUME NEW p \in Procs, InstallOne(p)
      PROVE  DoneIsWhole'
  <2>1. p \in Installers /\ UNCHANGED registry /\ pc[p] = "next" /\ job[p] \in Job
    BY <1>0, <1>4 DEF InstallOne, TypeInv, ProcsTyped, Fits, Installing
  <2>2. \A x \in job[p].installed :
            registry[x] = Unit(job[p].source[x]) /\ x \notin job[p].todo
    BY <1>0, <2>1 DEF DoneIsWhole, Installing
  <2>3. CASE Return(p, "error")
    BY <1>0, <2>1, <2>3, OwnStepDone DEF Return, Goto, Installing, AtSkill
  <2>4. CASE ~Return(p, "error")
    <3>1. PICK s \in job[p].todo :
            LET v == job[p].source[s]
                rest == [job[p] EXCEPT !.todo = @ \ {s}, !.skill = s] IN
            \/ /\ registry[s] = Unit(v) /\ v \in Versions
               /\ Set(p, [rest EXCEPT !.installed = @ \cup {s}])
               /\ pc' = [pc EXCEPT ![p] = "next"]
            \/ /\ Set(p, rest)
               /\ pc' = [pc EXCEPT ![p] = IF registry[s] = NoDir THEN "mkdir" ELSE "aside"]
      BY <1>4, <2>4, InstallOneMoves
    <3> DEFINE rest == [job[p] EXCEPT !.todo = job[p].todo \ {s}, !.skill = s]
    <3> DEFINE done == [rest EXCEPT !.installed = rest.installed \cup {s}]
    <3>2. s \in SkillNames /\ s \notin job[p].installed
      BY <2>1, <2>2 DEF Job
    <3>3. /\ rest \in Job /\ rest.source = job[p].source /\ rest.skill = s
          /\ rest.todo = job[p].todo \ {s} /\ rest.installed = job[p].installed
      BY <2>1, <3>2, NextJob
    <3>4. /\ done.source = job[p].source /\ done.todo = job[p].todo \ {s}
          /\ done.installed = job[p].installed \cup {s}
      <4> HIDE DEF rest
      <4> QED
        BY <3>2, <3>3, InstalledJob
    <3>5. CASE /\ registry[s] = Unit(job[p].source[s]) /\ Set(p, done)
               /\ pc' = [pc EXCEPT ![p] = "next"]
      <4>1. job'[p] = done /\ pc'[p] = "next"
        BY <1>0, <3>5 DEF Set
      <4> HIDE DEF done
      <4>2. \A x \in done.installed :
                registry'[x] = Unit(done.source[x]) /\ x \notin done.todo
        BY <2>1, <2>2, <3>4, <3>5
      <4> QED
        BY <2>1, <4>1, <4>2, OwnStepDone DEF AtSkill
    <3>6. CASE /\ Set(p, rest)
               /\ pc' = [pc EXCEPT ![p] = IF registry[s] = NoDir THEN "mkdir" ELSE "aside"]
      <4>1. job'[p] = rest /\ pc'[p] \in {"mkdir", "aside"}
        BY <1>0, <3>6 DEF Set
      <4> HIDE DEF rest
      <4>2. \A x \in rest.installed :
                registry'[x] = Unit(rest.source[x]) /\ x \notin rest.todo
        BY <2>1, <2>2, <3>3
      <4>3. rest.skill \notin rest.installed /\ rest.skill \notin rest.todo
        BY <3>2, <3>3
      <4> QED
        BY <2>1, <4>1, <4>2, <4>3, OwnStepDone
    <3> QED
      BY <3>1, <3>5, <3>6
  <2> QED
    BY <2>3, <2>4
<1>5. ASSUME NEW p \in Procs, SetAside(p) \/ MakeDir(p) \/ CopyManifest(p)
      PROVE  DoneIsWhole'
  <2> DEFINE s == job[p].skill
  <2>1. /\ p \in Installers /\ pc[p] \in AtSkill /\ DirStep(p) /\ s \in SkillNames
        /\ job[p].source[s] \in Versions
    BY <1>5, AtSkillTyped, SetAsideTyped, MakeDirTyped, CopyManifestTyped
    DEF StepIsTyped, SetAside, MakeDir, CopyManifest, AtSkill
  <2>2. CASE pc'[p] = "idle"
    BY <2>1, <2>2, OwnStepDone DEF Installing, AtSkill
  <2>3. CASE pc'[p] # "idle"
    <3>1. UNCHANGED job /\ pc'[p] \in {"mkdir", "manifest", "aux"}
      BY <1>0, <1>5, <2>3 DEF SetAside, MakeDir, CopyManifest, Fails, Return, Goto
    <3>2. \A x \in job[p].installed :
              registry'[x] = Unit(job[p].source[x]) /\ x \notin job[p].todo
      BY <1>0, <2>1, DoneUntouched
    <3>3. s \notin job[p].installed /\ s \notin job[p].todo
      BY <1>0, <2>1 DEF DoneIsWhole
    <3>4. pc'[p] = "aux" => registry'[s] \in Dir /\ registry'[s].md = Unit(job[p].source[s]).md
      <4> SUFFICES ASSUME pc'[p] = "aux"
                   PROVE  registry'[s] \in Dir /\ registry'[s].md = Unit(job[p].source[s]).md
        OBVIOUS
      <4>1. CopyManifest(p)
        BY <1>0, <1>5 DEF SetAside, MakeDir, Fails, Return, Goto
      <4>2. registry[s] # NoDir /\ registry' = [registry EXCEPT ![s].md = Unit(job[p].source[s]).md]
        BY <1>0, <2>3, <4>1 DEF CopyManifest, Return, Goto
      <4>3. registry[s] \in Dir /\ registry'[s] = [registry[s] EXCEPT !.md = Unit(job[p].source[s]).md]
        BY <2>1, <4>2 DEF TypeInv, DirsTyped
      <4>4. Unit(job[p].source[s]).md \in Text \cup {Broken}
        BY <2>1, UnitTyped
      <4> QED
        BY <4>3, <4>4, ManifestUpdate
    <3> QED
      BY <2>1, <3>1, <3>2, <3>3, <3>4, OwnStepDone
  <2> QED
    BY <2>2, <2>3
<1>6. ASSUME NEW p \in Procs, CopyFiles(p)
      PROVE  DoneIsWhole'
  <2> DEFINE s == job[p].skill
  <2> DEFINE j == [job[p] EXCEPT !.installed = job[p].installed \cup {s}]
  <2>1. /\ p \in Installers /\ pc[p] = "aux" /\ pc[p] \in AtSkill /\ DirStep(p)
        /\ s \in SkillNames /\ job[p].source[s] \in Versions /\ job[p] \in Job
    BY <1>6, AtSkillTyped, CopyFilesTyped DEF StepIsTyped, CopyFiles, AtSkill
  <2>2. CASE pc'[p] = "idle"
    BY <2>1, <2>2, OwnStepDone DEF Installing, AtSkill
  <2>3. CASE pc'[p] # "idle"
    <3>1. /\ registry[s] # NoDir /\ registry' = [registry EXCEPT ![s].aux = job[p].source[s]]
          /\ job'[p] = j /\ pc'[p] = "next"
      BY <1>0, <1>6, <2>3 DEF CopyFiles, Return, Goto, Set
    <3>2. /\ j.installed = job[p].installed \cup {s} /\ j.source = job[p].source
          /\ j.todo = job[p].todo
      BY <2>1, InstalledJob
    <3>3. registry'[s] = Unit(job[p].source[s])
      <4>1. registry[s] \in Dir /\ registry[s].md = Unit(job[p].source[s]).md
        BY <1>0, <2>1 DEF DoneIsWhole
      <4>2. registry'[s] = [registry[s] EXCEPT !.aux = job[p].source[s]]
        BY <2>1, <3>1 DEF TypeInv, DirsTyped
      <4> QED
        BY <4>1, <4>2 DEF Dir, Unit
    <3>4. \A x \in job[p].installed :
              registry'[x] = Unit(job[p].source[x]) /\ x \notin job[p].todo
      BY <1>0, <2>1, DoneUntouched
    <3>5. s \notin job[p].todo
      BY <1>0, <2>1 DEF DoneIsWhole
    <3> HIDE DEF j
    <3>6. \A x \in j.installed : registry'[x] = Unit(j.source[x]) /\ x \notin j.todo
      BY <3>2, <3>3, <3>4, <3>5
    <3> QED
      BY <2>1, <3>1, <3>6, OwnStepDone DEF AtSkill
  <2> QED
    BY <2>2, <2>3
<1>7. ASSUME NEW p \in Procs, ReadSkill(p) \/ WriteSkill(p) \/ (Crash(p) /\ pc[p] = "toggle")
      PROVE  DoneIsWhole'
  <2>1. /\ pc[p] = "toggle" \/ pc'[p] = "toggle"
        /\ pc' = [pc EXCEPT ![p] = pc'[p]]
    BY <1>0, <1>7 DEF ReadSkill, WriteSkill, Crash, Return, Goto
  <2>2. p \in Togglers
    BY <1>7 DEF ReadSkill, WriteSkill, TypeInv, ProcsTyped, Fits
  <2> QED
    BY <1>0, <2>1, <2>2, TogglerKeepsDone
<1> QED
  BY <1>1, <1>2, <1>3, <1>4, <1>5, <1>6, <1>7 DEF Next, Step, Finished

\* With one installing process and no set_disabled beside it, an install that returns
\* its names has left exactly the units of its source.
THEOREM InstallsAreWhole ==
    ASSUME OneInstaller, ~TogglesRace PROVE Spec => InstalledIsWhole
<1>1. Init => TypeInv /\ InstallInv
  <2>1. Init => InstallInv
    BY DEF Init, InstallInv, Apart, DoneIsWhole, Procs, Installing, AtSkill
  <2> QED
    BY <2>1, InitTypeInv
<1>2. TypeInv /\ InstallInv /\ [Next]_vars => (TypeInv /\ InstallInv)'
  BY StepTypeInv, ApartKept, StepDone DEF InstallInv
<1>3. ASSUME TypeInv, InstallInv, [Next]_vars
      PROVE  [\A p \in Installers : pc[p] = "next" /\ pc'[p] = "idle" /\ job'[p].result = "ok" =>
                 \A s \in job'[p].installed : registry'[s] = Unit(job[p].source[s])]_vars
  <2> SUFFICES ASSUME ~UNCHANGED vars, NEW p \in Installers, pc[p] = "next", pc'[p] = "idle",
                      job'[p].result = "ok", NEW s \in job'[p].installed
               PROVE  registry'[s] = Unit(job[p].source[s])
    OBVIOUS
  <2>1. PICK q \in Procs : Clone(q) \/ ReadSkill(q) \/ Step(q) \/ Crash(q)
    BY <1>3 DEF Next, Finished
  <2>2. /\ pc \in [Procs -> Location] /\ job \in [Procs -> Job] /\ p \in Procs
        /\ \A x \in job[p].installed : registry[x] = Unit(job[p].source[x])
    BY <1>3 DEF TypeInv, ProcsTyped, InstallInv, DoneIsWhole, Installing, Procs
  <2>3. q = p
    BY <2>1, <2>2
    DEF Clone, ReadSkill, Step, Crash, InstallOne, SetAside, MakeDir, CopyManifest, CopyFiles,
        Installed, CloneFails, WriteSkill, Fails, Return, Goto
  <2>4. Installed(p) \/ CloneFails(p) \/ InstallOne(p) \/ Crash(p)
    BY <2>1, <2>3
    DEF Clone, ReadSkill, Step, SetAside, MakeDir, CopyManifest, CopyFiles, WriteSkill
  <2>5. Installed(p)
    <3>1. ~Crash(p)
      BY <2>2 DEF Crash, Set, NoJob
    <3>2. ~Return(p, "error")
      BY <2>2 DEF Return, Set, Job
    <3>3. ~CloneFails(p)
      BY <3>2 DEF CloneFails, Fails
    <3>4. ~InstallOne(p)
      <4> SUFFICES ASSUME InstallOne(p) PROVE FALSE
        OBVIOUS
      <4>1. pc'[p] \in {"next", "mkdir", "aside"}
        BY <1>3, <2>2, <3>2, InstallOneMoves
      <4> QED
        BY <4>1
    <3> QED
      BY <2>4, <3>1, <3>3, <3>4
  <2>6. UNCHANGED registry /\ job'[p].installed = job[p].installed
    BY <2>2, <2>5 DEF Installed, Return, Set, Job
  <2> QED
    BY <2>2, <2>6
<1> QED
  BY <1>1, <1>2, <1>3, PTL DEF Spec, InstalledIsWhole
===============================================================================
