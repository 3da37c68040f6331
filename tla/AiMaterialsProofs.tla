-------------------------- MODULE AiMaterialsProofs --------------------------
(***************************************************************************)
(* Theorems about AiMaterials: for any number of processes, users, tasks,  *)
(* files, edits and faults.                                                *)
(***************************************************************************)
EXTENDS AiMaterials, TLAPS

TaskStates == Active \cup Over \cup {"absent"}
FileStates == {"absent", "staged", "ready", "pending_delete", "deleting", "delete_failed",
               "deleted"}
Places     == {"idle", "staging", "attaching", "claimed", "generating", "generated", "marked",
               "failing", "expired"}

\* Who is at work has something to work on.
AtWork ==
  /\ \A p \in Procs : pc[p] \notin {"idle", "expired"} => doing[p] \in Tasks
  /\ \A a \in Actors : pc[a] = "attaching" => hold[a] \in Files
  /\ \A u \in Users : pc[u] \in {"idle", "attaching"}

\* A task has seen no version that is still to come.
Dated == \A t \in Tasks : tver[t] <= version

\* What an actor is to attach has a row, and is stored as long as nobody has taken the row.
Stored ==
  \A a \in Actors :
    pc[a] = "attaching" =>
      file[hold[a]] # "absent" /\ (file[hold[a]] = "staged" => hold[a] \in object)

\* The inductive invariant.
Inv == TypeOK /\ AtWork /\ Dated /\ Stored /\ FilesAccounted

-----------------------------------------------------------------------------
LEMMA Constants == 1 \in Files /\ None \notin Files /\ None \notin Tasks /\ Procs \cap Users = {}
BY MaterialAssumption DEF MaterialAssumption, Files, Tasks, None, Procs

\* The variables of actors: their types, and what they work on.
ActorsOK ==
  /\ pc \in [Actors -> Places] /\ hold \in [Actors -> Files \cup {None}]
  /\ doing \in [Procs -> Tasks \cup {None}] /\ seen \in [Users -> Nat]
  /\ AtWork

FilesOK ==
  /\ file \in [Files -> FileStates] /\ object \subseteq Files
  /\ cleaning \subseteq {f \in Files : file[f] = "deleting"}
  /\ ref \in [Roles -> Files \cup {None}]

TasksOK ==
  /\ task \in [Tasks -> TaskStates] /\ tver \in [Tasks -> Nat]
  /\ tsource \in [Tasks -> Files \cup {None}]
  /\ stale \subseteq {t \in Tasks : task[t] \in Executing}

MaterialOK ==
  /\ live \in BOOLEAN /\ version \in Nat /\ shown \in Active \cup Over \cup {"idle"}
  /\ current \in Files \cup {None} /\ source \in Files \cup {None}

BoundsOK == cutOff \subseteq Files /\ torn \in BOOLEAN /\ faults \in 0..MaxFaults

LEMMA Parts == TypeOK /\ AtWork <=> ActorsOK /\ FilesOK /\ TasksOK /\ MaterialOK /\ BoundsOK
BY DEF TypeOK, ActorsOK, FilesOK, TasksOK, MaterialOK, BoundsOK, Places, FileStates, TaskStates

LEMMA RestOK == ASSUME ActorsOK, NEW a \in Actors, Rest(a) PROVE ActorsOK'
<1>1. pc' \in [Actors -> Places] /\ hold' \in [Actors -> Files \cup {None}]
  BY DEF ActorsOK, Rest, Goto, Places
<1>2. doing' \in [Procs -> Tasks \cup {None}] /\ seen' \in [Users -> Nat]
  BY DEF ActorsOK, Rest
<1>3. AtWork'
  BY DEF ActorsOK, AtWork, Rest, Goto, Actors
<1> QED BY <1>1, <1>2, <1>3 DEF ActorsOK

LEMMA FailOK ==
  ASSUME ActorsOK, NEW a \in Actors, Fail(a), seen' \in [Users -> Nat],
         a \in Procs => doing[a] \in Tasks
  PROVE  ActorsOK'
<1>1. pc' \in [Actors -> Places] /\ hold' \in [Actors -> Files \cup {None}]
  BY DEF ActorsOK, Fail, Goto, Places
<1>2. AtWork'
  BY Constants DEF ActorsOK, AtWork, Fail, Goto, Actors
<1> QED BY <1>1, <1>2 DEF ActorsOK, Fail

LEMMA GotoOK ==
  ASSUME ActorsOK, NEW p \in Procs, NEW s \in Places \ {"attaching"}, Goto(p, s),
         s \in {"idle", "expired"} \/ doing'[p] \in Tasks,
         \A q \in Procs : q # p => doing'[q] = doing[q],
         doing' \in [Procs -> Tasks \cup {None}], UNCHANGED <<hold, seen>>
  PROVE  ActorsOK'
<1>1. pc' \in [Actors -> Places]
  BY DEF ActorsOK, Goto, Actors
<1>2. AtWork'
  BY Constants DEF ActorsOK, AtWork, Goto, Actors
<1> QED BY <1>1, <1>2 DEF ActorsOK

LEMMA AnswerOK ==
  ASSUME ActorsOK, NEW p \in Procs, NEW s \in {"marked", "staging"}, Answer(p, s),
         UNCHANGED seen, doing[p] \in Tasks
  PROVE  ActorsOK'
<1>1. CASE Fail(p)
  BY <1>1, FailOK DEF Actors, ActorsOK
<1>2. CASE Goto(p, s) /\ UNCHANGED <<hold, doing>>
  BY <1>2, GotoOK DEF Places, ActorsOK
<1> QED BY <1>1, <1>2 DEF Answer

LEMMA EndOK ==
  ASSUME TasksOK, NEW t \in Tasks, NEW s \in Over, End(t, s), UNCHANGED <<tver, tsource>>
  PROVE  TasksOK'
BY DEF TasksOK, End, Over, Executing, TaskStates

LEMMA FaultOK == ASSUME BoundsOK, Fault, UNCHANGED histVars PROVE BoundsOK'
BY MaterialAssumption DEF histVars, BoundsOK, Fault, MaterialAssumption

\* The two effects of a reference that changes.
LEMMA ReplaceOK ==
  ASSUME FilesOK, NEW r \in Roles, NEW f \in Files, NEW old, Staged(f), Replace(r, f, old),
         UNCHANGED <<object, cleaning>>
  PROVE  FilesOK'
<1>1. file' \in [Files -> FileStates]
  BY DEF FilesOK, Replace, Unreferenced, FileStates
<1>2. ref' \in [Roles -> Files \cup {None}]
  BY DEF FilesOK, Replace
<1>3. \A g \in Files : file[g] = "deleting" => file'[g] = "deleting"
  BY DEF Replace, Unreferenced, Staged
<1> QED BY <1>1, <1>2, <1>3 DEF FilesOK

LEMMA ReleaseOK ==
  ASSUME FilesOK, NEW rs \in SUBSET Roles, Release(rs), UNCHANGED <<object, cleaning>>
  PROVE  FilesOK'
<1>1. file' \in [Files -> FileStates]
  BY DEF FilesOK, Release, Unreferenced, FileStates
<1>2. ref' \in [Roles -> Files \cup {None}]
  BY DEF FilesOK, Release
<1>3. \A g \in Files : file[g] = "deleting" => file'[g] = "deleting"
  BY DEF FilesOK, Release, Unreferenced
<1> QED BY <1>1, <1>2, <1>3 DEF FilesOK

LEMMA StageOK ==
  ASSUME ActorsOK, FilesOK, BoundsOK, NEW a \in Actors, StageAndStore(a),
         a \in Procs => doing[a] \in Tasks, seen' \in [Users -> Nat], UNCHANGED histVars
  PROVE  ActorsOK' /\ FilesOK' /\ BoundsOK'
<1>1. CASE Fail(a) /\ UNCHANGED <<fileVars, faults>>
  BY <1>1, FailOK DEF FilesOK, BoundsOK, fileVars, histVars
<1>2. ASSUME NEW f \in Files, file[f] = "absent",
             file' = [file EXCEPT ![f] = "staged"], object' = object \cup {f},
             Goto(a, "attaching"), hold' = [hold EXCEPT ![a] = f],
             UNCHANGED <<doing, faults>>, UNCHANGED <<cleaning, ref>>
      PROVE  ActorsOK' /\ FilesOK' /\ BoundsOK'
  <2>1. FilesOK'
    BY <1>2 DEF FilesOK, FileStates
  <2>2. pc' \in [Actors -> Places] /\ hold' \in [Actors -> Files \cup {None}]
    BY <1>2 DEF ActorsOK, Goto, Places
  <2>3. AtWork'
    BY <1>2, <2>2, Constants DEF ActorsOK, AtWork, Goto, Actors
  <2> QED BY <1>2, <2>1, <2>2, <2>3 DEF ActorsOK, BoundsOK, histVars
<1>3. ASSUME NEW f \in Files, file[f] = "absent", NEW s \in {"staged", "pending_delete"},
             file' = [file EXCEPT ![f] = s], NEW stored \in SUBSET {f},
             object' = object \cup stored, Fail(a), Fault, UNCHANGED <<cleaning, ref>>
      PROVE  ActorsOK' /\ FilesOK' /\ BoundsOK'
  <2>1. FilesOK'
    BY <1>3 DEF FilesOK, FileStates
  <2> QED BY <1>3, <2>1, FailOK, FaultOK
<1> QED BY <1>1, <1>2, <1>3 DEF StageAndStore

-----------------------------------------------------------------------------
LEMMA InitTypes == Init => TypeOK /\ AtWork
<1> SUFFICES ASSUME Init PROVE ActorsOK /\ FilesOK /\ TasksOK /\ MaterialOK /\ BoundsOK
  BY Parts
<1> USE MaterialAssumption, Constants DEF Init, MaterialAssumption
<1>1. ActorsOK
  BY DEF ActorsOK, AtWork, Places, Actors
<1>2. FilesOK /\ MaterialOK
  BY DEF FilesOK, MaterialOK, FileStates, Over, Roles
<1>3. TasksOK
  BY DEF TasksOK, TaskStates
<1>4. faults \in 0..MaxFaults
  OBVIOUS
<1>5. torn \in BOOLEAN
  OBVIOUS
<1> QED BY <1>1, <1>2, <1>3, <1>4, <1>5 DEF BoundsOK

LEMMA NextTypes == TypeOK /\ AtWork /\ [Next]_vars => TypeOK' /\ AtWork'
<1>p. ActorsOK' /\ FilesOK' /\ TasksOK' /\ MaterialOK' /\ BoundsOK' => TypeOK' /\ AtWork'
  BY DEF TypeOK, ActorsOK, FilesOK, TasksOK, MaterialOK, BoundsOK, Places, FileStates, TaskStates
<1> SUFFICES ASSUME ActorsOK, FilesOK, TasksOK, MaterialOK, BoundsOK, [Next]_vars
             PROVE  ActorsOK' /\ FilesOK' /\ TasksOK' /\ MaterialOK' /\ BoundsOK'
  BY <1>p, Parts
<1> DEFINE Types == ActorsOK /\ FilesOK /\ TasksOK /\ MaterialOK /\ BoundsOK
<1>a. UNCHANGED actVars => ActorsOK'
  BY DEF actVars, ActorsOK, AtWork
<1>f. UNCHANGED fileVars => FilesOK'
  BY DEF fileVars, FilesOK
<1>t. UNCHANGED taskVars => TasksOK'
  BY DEF taskVars, TasksOK
<1>m. UNCHANGED matVars => MaterialOK'
  BY DEF matVars, MaterialOK
<1>b. UNCHANGED <<histVars, faults>> => BoundsOK'
  BY DEF histVars, BoundsOK
<1>j. \A p \in Procs :
        /\ p \in Actors
        /\ pc[p] \notin {"idle", "expired"} => doing[p] \in Tasks
  BY DEF ActorsOK, AtWork, Actors
<1>h. \A a \in Actors : pc[a] = "attaching" => hold[a] \in Files
  BY DEF ActorsOK, AtWork
<1>u. \A u \in Users : u \in Actors /\ u \notin Procs
  BY Constants DEF Actors
<1>1. CASE UNCHANGED vars
  BY <1>1, <1>a, <1>f, <1>t, <1>m, <1>b DEF vars
<1>2. ASSUME NEW u \in Users, BeginEdit(u) PROVE Types'
  <2>1. seen' \in [Users -> Nat]
    BY <1>2 DEF BeginEdit, ActorsOK, MaterialOK
  <2> QED BY <1>2, <1>t, <1>m, <1>u, <2>1, StageOK DEF BeginEdit
<1>3. ASSUME NEW u \in Users, SaveEdit(u) PROVE Types'
  <2>1. hold[u] \in Files
    BY <1>3, <1>h, <1>u DEF SaveEdit
  <2>2. MaterialOK'
    BY <1>3, <2>1 DEF SaveEdit, Edited, MaterialOK
  <2>3. FilesOK'
    BY <1>3, <2>1, ReplaceOK DEF SaveEdit, Roles
  <2> QED BY <1>3, <1>t, <1>b, <1>u, <2>2, <2>3, RestOK DEF SaveEdit
<1>4. ASSUME NEW u \in Users, EndEdit(u) PROVE Types'
  BY <1>4, <1>f, <1>t, <1>m, <1>b, <1>u, RestOK DEF EndEdit
<1>5. ASSUME Edit PROVE Types'
  <2>1. MaterialOK'
    BY <1>5 DEF Edit, Edited, MaterialOK
  <2>2. FilesOK'
    BY <1>5, <1>f, ReleaseOK DEF Edit, Roles, fileVars
  <2> QED BY <1>5, <1>a, <1>t, <1>b, <2>1, <2>2 DEF Edit
<1>6. ASSUME Remove PROVE Types'
  <2>1. MaterialOK'
    BY <1>6 DEF Remove, MaterialOK
  <2>2. FilesOK'
    BY <1>6, ReleaseOK DEF Remove
  <2> QED BY <1>6, <1>a, <1>t, <1>b, <2>1, <2>2 DEF Remove
<1>7. ASSUME NEW t \in Tasks, Submit(t) \/ LeaseOver(t) PROVE Types'
  <2>1. MaterialOK'
    BY <1>7, <1>m DEF Submit, LeaseOver, MaterialOK, Active
  <2>2. TasksOK'
    BY <1>7 DEF Submit, LeaseOver, TasksOK, MaterialOK, TaskStates, Active, Executing
  <2> QED BY <1>7, <1>a, <1>f, <1>b, <2>1, <2>2 DEF Submit, LeaseOver
<1>8. ASSUME NEW p \in Procs, NEW t \in Tasks, Expire(p, t) PROVE Types'
  <2>1. TasksOK'
    BY <1>8, EndOK DEF Expire, Over
  <2>2. ActorsOK'
    BY <1>8, GotoOK DEF Expire, Places, ActorsOK
  <2> QED BY <1>8, <1>f, <1>m, <1>b, <2>1, <2>2 DEF Expire
<1>9. ASSUME NEW p \in Procs, NEW t \in Tasks, Claim(p, t) PROVE Types'
  <2>1. TasksOK'
    BY <1>9 DEF Claim, TasksOK, TaskStates, Active, Executing
  <2>2. CASE Goto(p, "claimed") /\ doing' = [doing EXCEPT ![p] = t] /\ UNCHANGED faults
    <3>1. ActorsOK'
      BY <1>9, <2>2, GotoOK DEF Claim, Places, ActorsOK
    <3> QED BY <1>9, <1>f, <1>m, <1>b, <2>1, <2>2, <3>1 DEF Claim
  <2>3. CASE Fault /\ UNCHANGED <<pc, doing>>
    BY <1>9, <1>a, <1>f, <1>m, <2>1, <2>3, FaultOK DEF Claim, actVars
  <2> QED BY <1>9, <2>2, <2>3 DEF Claim
<1>10. ASSUME NEW p \in Procs, ShowRunning(p) \/ Generate(p) PROVE Types'
  <2>1. ActorsOK'
    BY <1>10, <1>j, GotoOK DEF ShowRunning, Generate, Places, ActorsOK
  <2>2. MaterialOK'
    BY <1>10, <1>m DEF ShowRunning, Generate, MaterialOK, Active, Executing
  <2> QED BY <1>10, <1>f, <1>t, <1>b, <2>1, <2>2 DEF ShowRunning, Generate, NoFault
<1>11. ASSUME NEW p \in Procs, MarkStoring(p) \/ ShowStoring(p) PROVE Types'
  <2>1. doing[p] \in Tasks
    BY <1>11, <1>j DEF MarkStoring, ShowStoring
  <2>2. PICK s \in {"marked", "staging"} : Answer(p, s)
    BY <1>11 DEF MarkStoring, ShowStoring
  <2>3. ActorsOK'
    BY <1>11, <2>1, <2>2, AnswerOK DEF MarkStoring, ShowStoring
  <2>4. TasksOK'
    BY <1>11, <1>t, <2>1 DEF MarkStoring, ShowStoring, TasksOK, TaskStates, Active, Executing
  <2>5. MaterialOK'
    BY <1>11, <1>m DEF MarkStoring, ShowStoring, MaterialOK, Active, Executing
  <2>6. BoundsOK'
    BY <1>11, <1>b, <2>2, FaultOK DEF MarkStoring, ShowStoring, Answer
  <2> QED BY <1>11, <1>f, <2>3, <2>4, <2>5, <2>6 DEF MarkStoring, ShowStoring
<1>12. ASSUME NEW p \in Procs, Store(p) PROVE Types'
  BY <1>12, <1>j, <1>t, <1>m, StageOK DEF Store, ActorsOK
<1>13. ASSUME NEW p \in Procs, Attach(p) PROVE Types'
  <2>1. doing[p] \in Tasks /\ hold[p] \in Files
    BY <1>13, <1>j, <1>h DEF Attach
  <2>2. FilesOK'
    BY <1>13, <2>1, ReplaceOK DEF Attach, Roles
  <2>3. TasksOK'
    BY <1>13, <2>1, EndOK DEF Attach, Over
  <2>4. MaterialOK'
    BY <1>13, <2>1 DEF Attach, MaterialOK, Over
  <2>5. CASE Rest(p) /\ UNCHANGED faults
    BY <1>13, <1>j, <1>b, <2>2, <2>3, <2>4, <2>5, RestOK DEF Attach
  <2>6. CASE Fail(p) /\ Fault /\ UNCHANGED seen
    BY <1>13, <1>j, <2>1, <2>2, <2>3, <2>4, <2>6, FailOK, FaultOK DEF Attach, ActorsOK
  <2> QED BY <1>13, <2>5, <2>6 DEF Attach
<1>14. ASSUME NEW p \in Procs, Conflict(p) \/ Break(p) PROVE Types'
  <2>1. ActorsOK'
    BY <1>14, <1>j, FailOK DEF Conflict, Break, ActorsOK
  <2>2. BoundsOK'
    BY <1>14, <1>b, FaultOK DEF Conflict, Break, NoFault
  <2> QED BY <1>14, <1>f, <1>t, <1>m, <2>1, <2>2 DEF Conflict, Break
<1>15. ASSUME NEW p \in Procs, FailTask(p) PROVE Types'
  <2>1. TasksOK'
    BY <1>15, <1>j, <1>t, EndOK DEF FailTask, Over, taskVars
  <2>2. ActorsOK'
    BY <1>15, GotoOK DEF FailTask, Places, ActorsOK
  <2> QED BY <1>15, <1>f, <1>m, <1>b, <2>1, <2>2 DEF FailTask, NoFault
<1>16. ASSUME NEW p \in Procs, ShowFailed(p) PROVE Types'
  <2>1. MaterialOK'
    BY <1>16 DEF ShowFailed, MaterialOK, Over
  <2> QED BY <1>16, <1>f, <1>t, <1>b, <1>j, <2>1, RestOK DEF ShowFailed, NoFault
<1>17. ASSUME NEW p \in Procs, Drop(p) PROVE Types'
  <2>1. ActorsOK'
    BY <1>17, <1>j, RestOK DEF Drop
  <2>2. faults' \in 0..MaxFaults
    BY <1>17, MaterialAssumption DEF Drop, Fault, BoundsOK, MaterialAssumption
  <2>3. torn' \in BOOLEAN
    BY <1>17 DEF Drop
  <2> QED BY <1>17, <1>f, <1>t, <1>m, <2>1, <2>2, <2>3 DEF Drop, BoundsOK
<1>18. ASSUME NEW f \in Files, Cleanup(f) \/ CleanedUp(f) PROVE Types'
  <2>1. FilesOK'
    BY <1>18 DEF Cleanup, CleanedUp, FilesOK, FileStates
  <2>2. torn' \in BOOLEAN /\ cutOff' \subseteq Files
    BY <1>18 DEF Cleanup, CleanedUp, histVars, BoundsOK
  <2>3. faults' \in 0..MaxFaults
    BY <1>18, MaterialAssumption DEF Cleanup, CleanedUp, Fault, BoundsOK, MaterialAssumption
  <2> QED BY <1>18, <1>a, <1>t, <1>m, <2>1, <2>2, <2>3 DEF Cleanup, CleanedUp, BoundsOK
<1> QED BY <1>1, <1>2, <1>3, <1>4, <1>5, <1>6, <1>7, <1>8, <1>9, <1>10, <1>11, <1>12, <1>13,
           <1>14, <1>15, <1>16, <1>17, <1>18 DEF Next, RunStep

LEMMA TypesHold == Spec => [](TypeOK /\ AtWork)
BY InitTypes, NextTypes, PTL DEF Spec

-----------------------------------------------------------------------------
\* What a step does to the material's files, whoever takes it.
Idle == UNCHANGED <<live, current, source, file, object, cleaning, ref, cutOff>>

Stages(f) ==
  /\ file[f] = "absent" /\ UNCHANGED <<live, current, source, cleaning, ref, cutOff>>
  /\ \E s \in {"staged", "pending_delete"} : file' = [file EXCEPT ![f] = s]
  /\ \E stored \in SUBSET {f} : object' = object \cup stored

\* A result, or a new source, takes its place.
Installs(r, f) ==
  /\ live /\ Staged(f) /\ f \in object
  /\ Replace(r, f, IF r = "current" THEN current ELSE source)
  /\ current' = IF r = "current" THEN f ELSE current
  /\ source' = IF r = "source" THEN f ELSE source
  /\ UNCHANGED <<live, object, cleaning, cutOff>>

\* The source, or everything, is given up.
GivesUp(rs) ==
  /\ live /\ Release(rs) /\ UNCHANGED <<current, object, cleaning, cutOff>>
  /\ \/ rs = {"source"} /\ source' = None /\ UNCHANGED live
     \/ rs = Roles /\ live' = FALSE /\ UNCHANGED source

LEMMA FileMoves ==
  ASSUME TypeOK, AtWork, Stored, Next
  PROVE  \/ Idle
         \/ \E f \in Files : Stages(f)
         \/ \E r \in Roles, f \in Files : Installs(r, f)
         \/ \E rs \in {{"source"}, Roles} : GivesUp(rs)
         \/ \E f \in Files : Cleanup(f) \/ CleanedUp(f)
<1> USE DEF matVars, fileVars, histVars
<1>s. ASSUME NEW a \in Actors, StageAndStore(a), UNCHANGED <<live, current, source, cutOff>>
      PROVE  Idle \/ \E f \in Files : Stages(f)
  <2>1. CASE UNCHANGED fileVars
    BY <1>s, <2>1 DEF Idle
  <2>2. ASSUME NEW f \in Files, file[f] = "absent",
               file' = [file EXCEPT ![f] = "staged"], object' = object \cup {f},
               UNCHANGED <<cleaning, ref>>
        PROVE  Stages(f)
    BY <1>s, <2>2 DEF Stages
  <2>3. ASSUME NEW f \in Files, file[f] = "absent", NEW s \in {"staged", "pending_delete"},
               file' = [file EXCEPT ![f] = s], NEW stored \in SUBSET {f},
               object' = object \cup stored, UNCHANGED <<cleaning, ref>>
        PROVE  Stages(f)
    BY <1>s, <2>3 DEF Stages
  <2> QED BY <1>s, <2>1, <2>2, <2>3 DEF StageAndStore
<1>1. ASSUME NEW u \in Users, BeginEdit(u) PROVE Idle \/ \E f \in Files : Stages(f)
  BY <1>1, <1>s DEF BeginEdit, Actors
<1>2. ASSUME NEW p \in Procs, Store(p) PROVE Idle \/ \E f \in Files : Stages(f)
  BY <1>2, <1>s DEF Store, Actors
<1>3. ASSUME NEW u \in Users, SaveEdit(u) PROVE \E f \in Files : Installs("source", f)
  <2>1. hold[u] \in Files /\ hold[u] \in object
    BY <1>3 DEF SaveEdit, AtWork, Stored, Actors, Staged
  <2> QED BY <1>3, <2>1 DEF SaveEdit, Edited, Installs
<1>4. ASSUME NEW p \in Procs, Attach(p) PROVE \E f \in Files : Installs("current", f)
  <2>1. hold[p] \in Files /\ hold[p] \in object
    BY <1>4 DEF Attach, AtWork, Stored, Actors, Staged
  <2> QED BY <1>4, <2>1 DEF Attach, Attachable, Installs
<1>5. ASSUME Edit PROVE Idle \/ GivesUp({"source"})
  BY <1>5 DEF Edit, Edited, Idle, GivesUp
<1>6. ASSUME Remove PROVE GivesUp(Roles)
  BY <1>6 DEF Remove, GivesUp
<1>7. ASSUME NEW u \in Users, EndEdit(u) PROVE Idle
  BY <1>7 DEF EndEdit, Idle
<1>8. ASSUME NEW t \in Tasks, Submit(t) \/ LeaseOver(t) PROVE Idle
  BY <1>8 DEF Submit, LeaseOver, Idle
<1>9. ASSUME NEW p \in Procs, NEW t \in Tasks, Expire(p, t) \/ Claim(p, t) PROVE Idle
  BY <1>9 DEF Expire, Claim, Idle
<1>10. ASSUME NEW p \in Procs,
              \/ ShowRunning(p) \/ Generate(p) \/ MarkStoring(p) \/ ShowStoring(p)
              \/ Conflict(p) \/ FailTask(p) \/ ShowFailed(p) \/ Break(p) \/ Drop(p)
       PROVE  Idle
  BY <1>10 DEF ShowRunning, Generate, MarkStoring, ShowStoring, Conflict, FailTask, ShowFailed,
               Break, Drop, NoFault, Idle
<1> QED BY <1>1, <1>2, <1>3, <1>4, <1>5, <1>6, <1>7, <1>8, <1>9, <1>10 DEF Next, RunStep, Roles

\* Files move as they should: what is staged now was staged or absent, and no row vanishes.
LEMMA Rows ==
  ASSUME TypeOK, AtWork, Stored, Next, NEW g \in Files
  PROVE  /\ file[g] # "absent" => file'[g] # "absent"
         /\ file[g] # "absent" /\ file'[g] = "staged" => file[g] = "staged"
         /\ file[g] = "staged" /\ file'[g] = "staged" /\ g \in object => g \in object'
<1>1. CASE Idle
  BY <1>1 DEF Idle
<1>2. ASSUME NEW f \in Files, Stages(f)
      PROVE  \/ g = f /\ file[g] = "absent"
             \/ file'[g] = file[g] /\ object \subseteq object'
  BY <1>2 DEF Stages, TypeOK
<1>3. ASSUME NEW r \in Roles, NEW f \in Files, Installs(r, f)
      PROVE  (file'[g] = file[g] \/ file'[g] \in {"ready", "pending_delete"}) /\ object' = object
  BY <1>3 DEF Installs, Replace, Unreferenced
<1>4. ASSUME NEW rs \in {{"source"}, Roles}, GivesUp(rs)
      PROVE  (file'[g] = file[g] \/ file'[g] = "pending_delete") /\ object' = object
  BY <1>4 DEF GivesUp, Release, Unreferenced
<1>5. ASSUME NEW f \in Files, Cleanup(f)
      PROVE  (file'[g] = file[g] \/ file'[g] = "deleting") /\ object' = object
  BY <1>5 DEF Cleanup, TypeOK
<1>6. ASSUME NEW f \in Files, CleanedUp(f)
      PROVE  \/ file'[g] = file[g] /\ (g \in object => g \in object')
             \/ g = f /\ file[g] = "deleting" /\ file'[g] \in {"deleted", "delete_failed", "deleting"}
  BY <1>6 DEF CleanedUp, TypeOK
<1> QED BY <1>1, <1>2, <1>3, <1>4, <1>5, <1>6, FileMoves

\* Whoever attaches has done so before, or has just stored a file of its own.
LEMMA Attachers ==
  ASSUME TypeOK, AtWork, Next, NEW a \in Actors, pc'[a] = "attaching"
  PROVE  \/ pc[a] = "attaching" /\ hold'[a] = hold[a]
         \/ /\ hold'[a] \in Files /\ hold'[a] \in object'
            /\ file'[hold'[a]] = "staged"
<1> DEFINE Goal == \/ pc[a] = "attaching" /\ hold'[a] = hold[a]
                   \/ /\ hold'[a] \in Files /\ hold'[a] \in object'
                      /\ file'[hold'[a]] = "staged"
<1>g. ASSUME NEW b \in Actors, NEW s \in {"idle", "expired", "claimed", "generating", "generated",
                                        "marked", "staging", "failing"},
             Goto(b, s), UNCHANGED hold
      PROVE  Goal
  BY <1>g DEF Goto, TypeOK
<1>r. ASSUME NEW b \in Actors, Rest(b) \/ Fail(b) PROVE Goal
  <2>1. /\ \E s \in {"idle", "failing"} : Goto(b, s)
        /\ hold' = [hold EXCEPT ![b] = None]
    BY <1>r DEF Rest, Fail
  <2> QED BY <2>1 DEF Goto, TypeOK
<1>s. ASSUME NEW b \in Actors, StageAndStore(b) PROVE Goal
  <2>1. CASE Fail(b)
    BY <2>1, <1>r
  <2>2. ASSUME NEW f \in Files, file' = [file EXCEPT ![f] = "staged"], object' = object \cup {f},
               Goto(b, "attaching"), hold' = [hold EXCEPT ![b] = f]
        PROVE  Goal
    BY <2>2 DEF Goto, TypeOK
  <2> QED BY <1>s, <2>1, <2>2 DEF StageAndStore
<1>n. ASSUME UNCHANGED <<pc, hold>> PROVE Goal
  BY <1>n
<1>p. \A p \in Procs : p \in Actors
  BY DEF Actors
<1>u. \A u \in Users : u \in Actors
  BY DEF Actors
<1>1. ASSUME NEW u \in Users, BeginEdit(u) \/ SaveEdit(u) \/ EndEdit(u) PROVE Goal
  BY <1>1, <1>s, <1>r, <1>u DEF BeginEdit, SaveEdit, EndEdit
<1>2. CASE Edit \/ Remove \/ \E t \in Tasks : Submit(t) \/ LeaseOver(t)
  BY <1>2, <1>n DEF Edit, Remove, Submit, LeaseOver, actVars
<1>3. ASSUME NEW p \in Procs, NEW t \in Tasks, Expire(p, t) \/ Claim(p, t) PROVE Goal
  BY <1>3, <1>g, <1>n, <1>p DEF Expire, Claim
<1>4. ASSUME NEW p \in Procs, ShowRunning(p) \/ Generate(p) \/ FailTask(p) PROVE Goal
  BY <1>4, <1>g, <1>p DEF ShowRunning, Generate, FailTask
<1>5. ASSUME NEW p \in Procs, MarkStoring(p) \/ ShowStoring(p) PROVE Goal
  BY <1>5, <1>g, <1>r, <1>p DEF MarkStoring, ShowStoring, Answer
<1>6. ASSUME NEW p \in Procs, Store(p) \/ Attach(p) \/ Conflict(p) \/ ShowFailed(p) \/ Break(p) \/ Drop(p)
      PROVE  Goal
  BY <1>6, <1>s, <1>r, <1>p DEF Store, Attach, Conflict, ShowFailed, Break, Drop
<1>7. ASSUME NEW f \in Files, Cleanup(f) \/ CleanedUp(f) PROVE Goal
  BY <1>7, <1>n DEF Cleanup, CleanedUp, actVars
<1> QED BY <1>1, <1>2, <1>3, <1>4, <1>5, <1>6, <1>7 DEF Next, RunStep

LEMMA StoredStep == TypeOK /\ AtWork /\ Stored /\ Next => Stored'
<1> SUFFICES ASSUME TypeOK, AtWork, Stored, Next, NEW a \in Actors, pc'[a] = "attaching"
             PROVE  /\ file'[hold'[a]] # "absent"
                    /\ file'[hold'[a]] = "staged" => hold'[a] \in object'
  BY DEF Stored
<1>1. CASE pc[a] = "attaching" /\ hold'[a] = hold[a]
  <2>1. hold[a] \in Files /\ file[hold[a]] # "absent"
        /\ (file[hold[a]] = "staged" => hold[a] \in object)
    BY <1>1 DEF AtWork, Stored
  <2> QED BY <1>1, <2>1, Rows
<1>2. CASE hold'[a] \in object' /\ file'[hold'[a]] = "staged"
  BY <1>2
<1> QED BY <1>1, <1>2, Attachers

-----------------------------------------------------------------------------
\* What a step does to the tasks and to what their snapshots are compared with: no task
\* begins, or one does, with what the material is.
NoneBegins ==
  /\ \A t \in Tasks : task'[t] \in Active => task[t] \in Active
  /\ UNCHANGED <<tver, tsource>>
  /\ \/ UNCHANGED <<live, version, source>>
     \/ version' = version + 1
     \/ \A t \in Tasks : task'[t] \notin Active

Begins(t) ==
  /\ task' = [task EXCEPT ![t] = "pending"]
  /\ tver' = [tver EXCEPT ![t] = version] /\ tsource' = [tsource EXCEPT ![t] = source]
  /\ live /\ UNCHANGED <<live, version, source>>

LEMMA TaskMoves ==
  ASSUME TypeOK, AtWork, Next
  PROVE  NoneBegins \/ \E t \in Tasks : Begins(t)
<1> USE DEF matVars, taskVars
<1>e. \A t \in Tasks, s \in Over : End(t, s) =>
        \A k \in Tasks : task'[k] \in Active => task[k] \in Active
  BY DEF End, TypeOK, Over, Active, Executing
<1>1. ASSUME NEW u \in Users, BeginEdit(u) \/ SaveEdit(u) \/ EndEdit(u) PROVE NoneBegins
  BY <1>1 DEF BeginEdit, SaveEdit, EndEdit, Edited, NoneBegins
<1>2. ASSUME NEW f \in Files, Cleanup(f) \/ CleanedUp(f) PROVE NoneBegins
  BY <1>2 DEF Cleanup, CleanedUp, NoneBegins
<1>3. ASSUME NEW t \in Tasks, LeaseOver(t) PROVE NoneBegins
  BY <1>3 DEF LeaseOver, NoneBegins
<1>4. ASSUME NEW p \in Procs,
             \/ ShowRunning(p) \/ Generate(p) \/ ShowStoring(p) \/ Store(p)
             \/ Conflict(p) \/ ShowFailed(p) \/ Break(p) \/ Drop(p)
      PROVE  NoneBegins
  BY <1>4 DEF ShowRunning, Generate, ShowStoring, Store, Conflict, ShowFailed, Break, Drop,
              NoneBegins
<1>5. ASSUME Edit \/ Remove PROVE NoneBegins
  BY <1>5 DEF Edit, Remove, Edited, NoneBegins
<1>6. ASSUME NEW t \in Tasks, Submit(t) PROVE Begins(t)
  BY <1>6 DEF Submit, Begins
<1>7. ASSUME NEW p \in Procs, NEW t \in Tasks, Expire(p, t) \/ Claim(p, t) PROVE NoneBegins
  BY <1>7, <1>e DEF Expire, Claim, TypeOK, Over, Active, NoneBegins
<1>8. ASSUME NEW p \in Procs, MarkStoring(p) \/ FailTask(p) \/ Attach(p) PROVE NoneBegins
  <2>1. doing[p] \in Tasks
    BY <1>8 DEF MarkStoring, FailTask, Attach, AtWork
  <2>2. \A k \in Tasks : task'[k] \in Active => task[k] \in Active
    BY <1>8, <1>e, <2>1 DEF MarkStoring, FailTask, Attach, TypeOK, Over, Active, Executing
  <2> QED BY <1>8, <2>2 DEF MarkStoring, FailTask, Attach, NoneBegins
<1> QED BY <1>1, <1>2, <1>3, <1>4, <1>5, <1>6, <1>7, <1>8 DEF Next, RunStep

LEMMA DatedStep == TypeOK /\ AtWork /\ Dated /\ Next => Dated'
<1> SUFFICES ASSUME TypeOK, AtWork, Dated, Next PROVE Dated'
  OBVIOUS
<1>1. version' = version \/ version' = version + 1
  BY DEF Next, RunStep, BeginEdit, SaveEdit, EndEdit, Edit, Remove, Submit, LeaseOver, Expire, Claim,
         ShowRunning, Generate, MarkStoring, ShowStoring, Store, Attach, Conflict, FailTask,
         ShowFailed, Break, Drop, Cleanup, CleanedUp, Edited, matVars
<1>2. CASE NoneBegins
  BY <1>1, <1>2 DEF Dated, TypeOK, NoneBegins
<1>3. CASE \E t \in Tasks : Begins(t)
  BY <1>3 DEF Dated, TypeOK, Begins
<1> QED BY <1>2, <1>3, TaskMoves

LEMMA SnapshotStep == TypeOK /\ AtWork /\ Dated /\ SnapshotHasSource /\ Next => SnapshotHasSource'
<1> SUFFICES ASSUME TypeOK, AtWork, Dated, SnapshotHasSource, Next PROVE SnapshotHasSource'
  OBVIOUS
<1>1. CASE NoneBegins
  <2>1. CASE UNCHANGED <<live, version, source>>
    BY <1>1, <2>1 DEF NoneBegins, SnapshotHasSource
  <2>2. CASE version' = version + 1
    <3>1. \A t \in Tasks : tver'[t] # version'
      BY <1>1, <2>2 DEF Dated, TypeOK, NoneBegins
    <3> QED BY <3>1 DEF SnapshotHasSource
  <2>3. CASE \A t \in Tasks : task'[t] \notin Active
    BY <2>3 DEF SnapshotHasSource
  <2> QED BY <1>1, <2>1, <2>2, <2>3 DEF NoneBegins
<1>2. CASE \E t \in Tasks : Begins(t)
  BY <1>2 DEF Begins, SnapshotHasSource, TypeOK
<1> QED BY <1>1, <1>2, TaskMoves

-----------------------------------------------------------------------------
\* What is referred to stays ready and stored: cleanup takes nothing that is ready, and
\* what takes a place is stored.
LEMMA KeptStep ==
  TypeOK /\ AtWork /\ Stored /\ ReferencedFilesKept /\ Next => ReferencedFilesKept'
<1> SUFFICES ASSUME TypeOK, AtWork, Stored, ReferencedFilesKept, Next, live'
             PROVE  /\ ref'["current"] = current' /\ ref'["source"] = source'
                    /\ \A r \in Roles :
                         ref'[r] # None => file'[ref'[r]] = "ready" /\ ref'[r] \in object'
  BY DEF ReferencedFilesKept
<1> DEFINE Goal == /\ ref'["current"] = current' /\ ref'["source"] = source'
                   /\ \A r \in Roles :
                        ref'[r] # None => file'[ref'[r]] = "ready" /\ ref'[r] \in object'
<1>k. live => /\ ref["current"] = current /\ ref["source"] = source
              /\ \A r \in Roles : ref[r] # None => /\ ref[r] \in Files
                                                  /\ file[ref[r]] = "ready" /\ ref[r] \in object
  BY DEF ReferencedFilesKept, TypeOK
<1>1. ASSUME Idle PROVE Goal
  BY <1>1, <1>k DEF Idle
<1>2. ASSUME NEW f \in Files, Stages(f) PROVE Goal
  <2>1. \A g \in Files : file[g] = "ready" => file'[g] = "ready"
    BY <1>2 DEF Stages, TypeOK
  <2>2. object \subseteq object' /\ live
    BY <1>2 DEF Stages
  <2> QED BY <1>2, <1>k, <2>1, <2>2 DEF Stages
<1>3. ASSUME NEW r \in Roles, NEW f \in Files, Installs(r, f) PROVE Goal
  <2>1. live /\ ref' = [ref EXCEPT ![r] = f] /\ object' = object /\ f \in object
    BY <1>3 DEF Installs, Replace
  <2>2. ref'["current"] = current' /\ ref'["source"] = source'
    BY <1>3, <1>k, <2>1 DEF Installs, Roles, TypeOK
  <2>3. file'[f] = "ready"
    BY <1>3 DEF Installs, Replace
  <2>4. \A g \in Files : file[g] = "ready" /\ (\E q \in Roles : ref'[q] = g) => file'[g] = "ready"
    BY <1>3 DEF Installs, Replace, Unreferenced
  <2>5. \A q \in Roles : ref'[q] = f \/ ref'[q] = ref[q]
    BY <2>1 DEF TypeOK
  <2> QED BY <1>k, <2>1, <2>2, <2>3, <2>4, <2>5
<1>4. ASSUME NEW rs \in {{"source"}, Roles}, GivesUp(rs) PROVE Goal
  <2>1. rs = {"source"} /\ source' = None /\ live /\ UNCHANGED <<current, object>>
    BY <1>4 DEF GivesUp
  <2>2. \A q \in Roles : ref'[q] = ref[q] \/ ref'[q] = None
    BY <1>4 DEF GivesUp, Release
  <2>3. ref'["current"] = current /\ ref'["source"] = None
    BY <1>4, <1>k, <2>1 DEF GivesUp, Release, Roles
  <2>4. \A g \in Files : file[g] = "ready" /\ (\E q \in Roles : ref'[q] = g) => file'[g] = "ready"
    BY <1>4 DEF GivesUp, Release, Unreferenced
  <2> QED BY <1>k, <2>1, <2>2, <2>3, <2>4
<1>5. ASSUME NEW f \in Files, Cleanup(f) \/ CleanedUp(f) PROVE Goal
  <2>1. UNCHANGED <<live, current, source, ref>> /\ file[f] # "ready"
    BY <1>5 DEF Cleanup, CleanedUp, matVars, TypeOK
  <2>2. \A g \in Files : g # f => file'[g] = file[g] /\ (g \in object => g \in object')
    BY <1>5 DEF Cleanup, CleanedUp, TypeOK
  <2> QED BY <1>k, <2>1, <2>2
<1> QED BY <1>1, <1>2, <1>3, <1>4, <1>5, FileMoves

\* No object is lost sight of: what gives up its place is unreferenced, and told so.
LEMMA ForgottenStep ==
  TypeOK /\ AtWork /\ Stored /\ ReferencedFilesKept /\ NoObjectForgotten /\ Next => NoObjectForgotten'
<1> SUFFICES ASSUME TypeOK, AtWork, Stored, ReferencedFilesKept, NoObjectForgotten, Next
             PROVE  NoObjectForgotten'
  OBVIOUS
<1>k. live => /\ ref["current"] = current /\ ref["source"] = source
  BY DEF ReferencedFilesKept
<1>1. ASSUME Idle PROVE NoObjectForgotten'
  BY <1>1 DEF Idle, NoObjectForgotten
<1>2. ASSUME NEW f \in Files, Stages(f) PROVE NoObjectForgotten'
  BY <1>2 DEF Stages, NoObjectForgotten, TypeOK
<1>3. ASSUME NEW r \in Roles, NEW f \in Files, Installs(r, f) PROVE NoObjectForgotten'
  <2>1. live /\ ref' = [ref EXCEPT ![r] = f] /\ UNCHANGED <<object, cleaning, cutOff>>
    BY <1>3 DEF Installs, Replace
  <2>2. ref'[r] = f
    BY <2>1 DEF TypeOK
  <2>3. \A g \in Files : g # f /\ g # ref[r] => file'[g] = file[g]
    BY <1>3, <1>k, <2>1 DEF Installs, Replace, Roles
  <2>4. ref[r] \in Files /\ ref[r] # f => file'[ref[r]] = Unreferenced(ref[r])
    BY <1>3, Constants DEF Installs, Replace
  <2>5. \A q \in Roles : q # r => ref'[q] = ref[q]
    BY <2>1 DEF TypeOK
  <2> SUFFICES ASSUME NEW g \in object
               PROVE  \/ file'[g] \in {"staged", "pending_delete", "delete_failed"}
                      \/ file'[g] = "deleting" /\ g \in cleaning \cup cutOff
                      \/ file'[g] = "ready" /\ \E q \in Roles : ref'[q] = g
    BY <2>1 DEF NoObjectForgotten
  <2>6. g \in Files
    BY DEF TypeOK
  <2>7. \/ file[g] \in {"staged", "pending_delete", "delete_failed"}
        \/ file[g] = "deleting" /\ g \in cleaning \cup cutOff
        \/ file[g] = "ready" /\ \E q \in Roles : ref[q] = g
    BY DEF NoObjectForgotten
  <2>8. CASE g = f
    BY <1>3, <2>2, <2>8 DEF Installs, Replace
  <2>9. CASE g # f /\ g # ref[r]
    BY <2>3, <2>5, <2>6, <2>7, <2>9
  <2>10. CASE g # f /\ g = ref[r]
    BY <2>4, <2>6, <2>7, <2>10 DEF Unreferenced
  <2> QED BY <2>8, <2>9, <2>10
<1>4. ASSUME NEW rs \in {{"source"}, Roles}, GivesUp(rs) PROVE NoObjectForgotten'
  <2>1. live /\ UNCHANGED <<object, cleaning, cutOff>>
    BY <1>4 DEF GivesUp
  <2>2. \A q \in Roles : ref'[q] = IF q \in rs THEN None ELSE ref[q]
    BY <1>4, <1>k DEF GivesUp, Release, Roles
  <2>3. \A g \in Files : file'[g] = IF \E q \in rs : ref[q] = g THEN Unreferenced(g) ELSE file[g]
    BY <1>4, <1>k DEF GivesUp, Release, Roles
  <2>4. rs \subseteq Roles
    BY <1>4 DEF Roles
  <2> SUFFICES ASSUME NEW g \in object
               PROVE  \/ file'[g] \in {"staged", "pending_delete", "delete_failed"}
                      \/ file'[g] = "deleting" /\ g \in cleaning \cup cutOff
                      \/ file'[g] = "ready" /\ \E q \in Roles : ref'[q] = g
    BY <2>1 DEF NoObjectForgotten
  <2>5. g \in Files
    BY DEF TypeOK
  <2>6. \/ file[g] \in {"staged", "pending_delete", "delete_failed"}
        \/ file[g] = "deleting" /\ g \in cleaning \cup cutOff
        \/ file[g] = "ready" /\ \E q \in Roles : ref[q] = g
    BY DEF NoObjectForgotten
  <2> QED BY <2>1, <2>2, <2>3, <2>4, <2>5, <2>6 DEF Unreferenced
<1>5. ASSUME NEW f \in Files, Cleanup(f) PROVE NoObjectForgotten'
  BY <1>5 DEF Cleanup, NoObjectForgotten, TypeOK, histVars
<1>6. ASSUME NEW f \in Files, CleanedUp(f) PROVE NoObjectForgotten'
  <2>1. \A g \in Files : g # f => file'[g] = file[g] /\ (g \in object' => g \in object)
                               /\ (g \in cleaning => g \in cleaning')
    BY <1>6 DEF CleanedUp, TypeOK
  <2>2. \/ f \notin object'
        \/ file'[f] = "delete_failed" \/ (file'[f] = "deleting" /\ f \in cutOff')
    BY <1>6 DEF CleanedUp, TypeOK
  <2>3. object' \subseteq object /\ cutOff \subseteq cutOff' /\ UNCHANGED ref
    BY <1>6 DEF CleanedUp
  <2> QED BY <2>1, <2>2, <2>3 DEF NoObjectForgotten, TypeOK
<1> QED BY <1>1, <1>2, <1>3, <1>4, <1>5, <1>6, FileMoves

-----------------------------------------------------------------------------
LEMMA InitInv == Init => Inv
<1> SUFFICES ASSUME Init PROVE Inv
  OBVIOUS
<1>1. TypeOK /\ AtWork
  BY InitTypes
<1>2. Dated
  BY DEF Init, Dated
<1>3. Stored
  BY DEF Init, Stored
<1>4. ReferencedFilesKept
  BY Constants DEF Init, ReferencedFilesKept, Roles
<1>5. SnapshotHasSource
  BY DEF Init, SnapshotHasSource, Active, Executing
<1>6. NoObjectForgotten
  BY Constants DEF Init, NoObjectForgotten, Roles
<1> QED BY <1>1, <1>2, <1>3, <1>4, <1>5, <1>6 DEF Inv, FilesAccounted

LEMMA NextInv == Inv /\ [Next]_vars => Inv'
<1> SUFFICES ASSUME Inv, [Next]_vars PROVE Inv'
  OBVIOUS
<1>1. CASE Next
  BY <1>1, NextTypes, DatedStep, StoredStep, KeptStep, SnapshotStep, ForgottenStep
  DEF Inv, FilesAccounted
<1>2. CASE UNCHANGED vars
  <2> USE <1>2 DEF Inv, FilesAccounted, vars, matVars, taskVars, fileVars, actVars,
              histVars
  <2>1. TypeOK' /\ AtWork'
    BY NextTypes
  <2>2. Dated' /\ SnapshotHasSource'
    BY DEF Dated, SnapshotHasSource
  <2>3. Stored'
    BY DEF Stored
  <2>4. ReferencedFilesKept' /\ NoObjectForgotten'
    BY DEF ReferencedFilesKept, NoObjectForgotten
  <2> QED BY <2>1, <2>2, <2>3, <2>4
<1> QED BY <1>1, <1>2

LEMMA InvHolds == Spec => []Inv
BY InitInv, NextInv, PTL DEF Spec

\* Every variable keeps its type; a lease is only over for a task in execution, and only
\* a row that is being deleted is being cleaned up.
THEOREM MaterialTypeCorrect == Spec => []TypeOK
<1>1. Inv => TypeOK
  BY DEF Inv
<1> QED BY InvHolds, <1>1, PTL

\* However edits, generations, removal and cleanup interleave, and whatever fails between
\* the store and the database: no file of the material is deleted, a task of the present
\* version keeps its source, and no object is forgotten, but one whose own cleanup was cut
\* off.  (A task that an edit has overtaken may lose its source.)
THEOREM FilesAccountedCorrect == Spec => []FilesAccounted
<1>1. Inv => FilesAccounted
  BY DEF Inv
<1> QED BY InvHolds, <1>1, PTL

\* What the image is replaced by, and when; and what has ended.
Timely ==
  /\ \A t \in Tasks : task[t] \in Over => task'[t] = task[t]
  /\ current' # current =>
       \E t \in Tasks : /\ task[t] = "storing" /\ task'[t] = "succeeded" /\ t \notin stale
                        /\ tver[t] = version'

LEMMA TimelyStep == TypeOK /\ AtWork /\ Next => Timely
<1> SUFFICES ASSUME TypeOK, AtWork, Next PROVE Timely
  OBVIOUS
<1> USE DEF matVars, taskVars, Over, Active, Executing
<1>1. ASSUME NEW p \in Procs, Attach(p) PROVE Timely
  <2>1. doing[p] \in Tasks
    BY <1>1 DEF Attach, AtWork
  <2> QED BY <1>1, <2>1 DEF Attach, Attachable, End, Timely, TypeOK
<1>2. ASSUME NEW p \in Procs, MarkStoring(p) \/ FailTask(p) PROVE Timely
  <2>1. doing[p] \in Tasks
    BY <1>2 DEF MarkStoring, FailTask, AtWork
  <2> QED BY <1>2, <2>1 DEF MarkStoring, FailTask, End, Timely, TypeOK
<1>3. ASSUME NEW p \in Procs, NEW t \in Tasks, Expire(p, t) \/ Claim(p, t) PROVE Timely
  BY <1>3 DEF Expire, Claim, End, Timely, TypeOK
<1>4. ASSUME NEW t \in Tasks, Submit(t) \/ LeaseOver(t) PROVE Timely
  BY <1>4 DEF Submit, LeaseOver, Timely, TypeOK
<1>5. ASSUME NEW u \in Users, BeginEdit(u) \/ SaveEdit(u) \/ EndEdit(u) PROVE Timely
  BY <1>5 DEF BeginEdit, SaveEdit, EndEdit, Edited, Timely
<1>6. ASSUME Edit \/ Remove PROVE Timely
  BY <1>6 DEF Edit, Edited, Remove, Timely
<1>7. ASSUME NEW p \in Procs,
             \/ ShowRunning(p) \/ Generate(p) \/ ShowStoring(p) \/ Store(p)
             \/ Conflict(p) \/ ShowFailed(p) \/ Break(p) \/ Drop(p)
      PROVE  Timely
  BY <1>7 DEF ShowRunning, Generate, ShowStoring, Store, Conflict, ShowFailed, Break, Drop, Timely
<1>8. ASSUME NEW f \in Files, Cleanup(f) \/ CleanedUp(f) PROVE Timely
  BY <1>8 DEF Cleanup, CleanedUp, Timely
<1> QED BY <1>1, <1>2, <1>3, <1>4, <1>5, <1>6, <1>7, <1>8 DEF Next, RunStep

\* A result that comes late, after an edit, after the lease or after another task, never
\* replaces the image; a task succeeds in the step that shows its image, and ends once.
THEOREM TimelyResults == Spec => OnlyTimelyResults
<1>1. Inv /\ [Next]_vars => [Timely]_vars
  BY TimelyStep DEF Inv
<1>2. [Timely]_vars <=>
        [/\ \A t \in Tasks : task[t] \in Over => task'[t] = task[t]
         /\ current' # current =>
              \E t \in Tasks : /\ task[t] = "storing" /\ task'[t] = "succeeded" /\ t \notin stale
                               /\ tver[t] = version']_vars
  BY DEF Timely
<1> QED BY InvHolds, <1>1, <1>2, PTL DEF Spec, OnlyTimelyResults
=============================================================================
