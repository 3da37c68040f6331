----------------------------- MODULE AiMaterials -----------------------------
(***************************************************************************)
(* An AI material, its generation tasks and its files                      *)
(* (server/src/ai-materials/ai-materials.service.ts and                    *)
(* server/src/managed-files/managed-files.service.ts).                     *)
(*                                                                         *)
(* One material of one user: its tasks exclude one another, so that the    *)
(* rule of one running task per user adds nothing.  "failed" stands for    *)
(* failed, interrupted and unknown, which are treated alike.  A task is    *)
(* claimed once, so that the process that holds it is the worker in its    *)
(* row.  What a prompt or an image contains is left out.                   *)
(***************************************************************************)
EXTENDS Integers, FiniteSets

CONSTANTS
  MaxProcs,            \* server processes
  Users,               \* requests that bring a new source
  MaxTasks, MaxFiles,  \* bounds on tasks and on file rows
  MaxVersion,          \* bound on edits
  MaxFaults            \* bound on failed statements, lost replies and crashes

ASSUME MaterialAssumption ==
  /\ MaxProcs \in Nat \ {0} /\ Nat \cap Users = {}
  /\ MaxTasks \in Nat /\ MaxFiles \in Nat \ {0} /\ MaxVersion \in Nat /\ MaxFaults \in Nat

VARIABLES
  live, version, shown,     \* the material: not removed, version, generationStatus
  current, source,          \* its columns currentFileId and referenceFileId
  task, tver, tsource,      \* tasks, with the version and source of their snapshots
  stale,                    \* tasks in execution whose lease is over
  file, object, cleaning,   \* file rows; files whose object is stored; those cleaned up
  ref,                      \* live reference rows of the material, by role
  pc, hold,                 \* processes and requests; the file row each has made
  doing, seen,              \* a process's task; the version that a request has read
  cutOff, torn,             \* history: files whose cleanup was cut off
  faults                    \* bound

matVars  == <<live, version, shown, current, source>>
taskVars == <<task, tver, tsource, stale>>
fileVars == <<file, object, cleaning, ref>>
actVars  == <<pc, hold, doing, seen>>
histVars == <<cutOff, torn>>
vars == <<matVars, taskVars, fileVars, actVars, histVars, faults>>

Procs  == 1..MaxProcs
Tasks  == 1..MaxTasks
Files  == 1..MaxFiles
Roles  == {"current", "source"}
Actors == Procs \cup Users
None   == 0

Executing == {"running", "storing"}
Active    == {"pending"} \cup Executing
Over      == {"succeeded", "failed"}

Fault == faults < MaxFaults /\ faults' = faults + 1
NoFault == UNCHANGED <<histVars, faults>>

\* Nobody is left to end what the material shows: no task is active, and no process is
\* between the end of a task and the material.
Abandoned ==
  /\ shown \in Active /\ \A t \in Tasks : task[t] \notin Active
  /\ \A p \in Procs : pc[p] = "idle"

Goto(a, s) == pc' = [pc EXCEPT ![a] = s]

\* An actor is done; a file that it has staged stays behind.
Rest(a) ==
  /\ Goto(a, "idle") /\ hold' = [hold EXCEPT ![a] = None]
  /\ doing' = [p \in Procs |-> IF p = a THEN None ELSE doing[p]]
  /\ seen' = [u \in Users |-> IF u = a THEN 0 ELSE seen[u]]

\* An error reaches the catch block of run, or the user.
Fail(a) ==
  /\ Goto(a, IF a \in Procs THEN "failing" ELSE "idle")
  /\ hold' = [hold EXCEPT ![a] = None] /\ doing' = doing

\* A statement of the try block of run: its reply may be lost, after its effect.
Answer(p, s) ==
  \/ Goto(p, s) /\ UNCHANGED <<hold, doing, faults>>
  \/ Fail(p) /\ Fault

\* Slip: a task that ends keeps its lease.
End_KeepsLease(t, s) == task' = [task EXCEPT ![t] = s] /\ stale' = stale

\* A task ends, with its lease.
End(t, s) == task' = [task EXCEPT ![t] = s] /\ stale' = stale \ {t}

-----------------------------------------------------------------------------
\* Files.

\* markUnreferenced: after the references have changed.
Unreferenced(f) ==
  IF file[f] = "ready" /\ \A r \in Roles : ref'[r] # f THEN "pending_delete" ELSE file[f]

\* Slip: any registered file may be referenced.
Staged_Any(f) == file[f] # "absent"

\* The row that replaceMaterialRoleReference locks.
Staged(f) == file[f] = "staged"

\* replaceMaterialRoleReference; old is what the material's column names.
Replace(r, f, old) ==
  LET previous == IF ref[r] # None THEN ref[r] ELSE old IN
  /\ ref' = [ref EXCEPT ![r] = f]
  /\ file' = [g \in Files |-> IF g = f THEN "ready"
                              ELSE IF g = previous THEN Unreferenced(g) ELSE file[g]]

\* releaseMaterialRoleReference, for the roles rs and the files in the columns.
Release(rs) ==
  LET named(r) == IF r = "current" THEN current ELSE source IN
  /\ ref' = [r \in Roles |-> IF r \in rs /\ ref[r] = named(r) THEN None ELSE ref[r]]
  /\ file' = [g \in Files |-> IF \E r \in rs : named(r) = g THEN Unreferenced(g) ELSE file[g]]

\* stageAndStore: the row, then the object; the reservation may be refused.  Nobody looks
\* at the file before it is stored; after a failure part of the object may be there, and the
\* row says so if it can.
StageAndStore(a) ==
  \/ /\ \E f \in Files :
          /\ file[f] = "absent" /\ \A g \in Files : g < f => file[g] # "absent"
          /\ \/ /\ file' = [file EXCEPT ![f] = "staged"] /\ object' = object \cup {f}
                /\ Goto(a, "attaching") /\ hold' = [hold EXCEPT ![a] = f]
                /\ UNCHANGED <<doing, faults>>
             \/ /\ \E s \in {"staged", "pending_delete"} : file' = [file EXCEPT ![f] = s]
                /\ \E stored \in SUBSET {f} : object' = object \cup stored
                /\ Fail(a) /\ Fault
     /\ UNCHANGED <<cleaning, ref>>
  \/ Fail(a) /\ UNCHANGED <<fileVars, faults>>

\* The transaction of cleanup.  The retention of 24 hours is over at any moment.
\* (Files of this scope have no other references.)
Cleanup(f) ==
  /\ file[f] \in {"staged", "pending_delete", "delete_failed"}
  /\ \A r \in Roles : ref[r] # f
  /\ file' = [file EXCEPT ![f] = "deleting"] /\ cleaning' = cleaning \cup {f}
  /\ UNCHANGED <<matVars, taskVars, object, ref, actVars, histVars, faults>>

\* The object is deleted and the row tells so; when one of the two fails, the row is to
\* be tried again.  A crash, or a second failure, leaves it "deleting": no cleanup selects
\* it any more.
CleanedUp(f) ==
  /\ f \in cleaning
  /\ cleaning' = cleaning \ {f}
  /\ \/ /\ object' = object \ {f} /\ file' = [file EXCEPT ![f] = "deleted"]
        /\ UNCHANGED <<cutOff, faults>>
     \/ /\ Fault
        /\ \E gone \in SUBSET {f} : object' = object \ gone
        /\ \/ file' = [file EXCEPT ![f] = "delete_failed"] /\ UNCHANGED cutOff
           \/ UNCHANGED file /\ cutOff' = cutOff \cup {f}
  /\ UNCHANGED <<matVars, taskVars, ref, actVars, torn>>

-----------------------------------------------------------------------------
\* Requests of the user.

\* What the transaction of update does to the material, besides its source.
Edited ==
  /\ version' = version + 1
  /\ shown' = IF shown \in Active THEN shown ELSE "idle"
  /\ UNCHANGED <<live, current>>

\* update without a new source, which it keeps or, for a mode without one, releases; the
\* version is the one that was read before.
Edit ==
  /\ live /\ version < MaxVersion
  /\ Edited
  /\ \/ Release({"source"}) /\ source' = None
     \/ UNCHANGED <<source, file, ref>>
  /\ UNCHANGED <<taskVars, object, cleaning, actVars, histVars, faults>>

\* update with a new source, which is stored after the material was read.
BeginEdit(u) ==
  /\ pc[u] = "idle" /\ live /\ version < MaxVersion
  /\ StageAndStore(u)
  /\ seen' = [seen EXCEPT ![u] = IF pc'[u] = "idle" THEN 0 ELSE version]
  /\ UNCHANGED <<matVars, taskVars, histVars>>

\* Its transaction, on the version that was read.
SaveEdit(u) ==
  /\ pc[u] = "attaching" /\ live /\ version = seen[u] /\ Staged(hold[u])
  /\ Edited
  /\ Replace("source", hold[u], source) /\ source' = hold[u]
  /\ Rest(u)
  /\ UNCHANGED <<taskVars, object, cleaning, histVars, faults>>

\* It is refused, or fails.
EndEdit(u) ==
  /\ pc[u] = "attaching"
  /\ Rest(u)
  /\ UNCHANGED <<matVars, taskVars, fileVars, histVars, faults>>

\* remove: the columns stay, the references go.
Remove ==
  /\ live /\ \A t \in Tasks : task[t] \notin Active
  /\ live' = FALSE
  /\ Release(Roles)
  /\ UNCHANGED <<version, shown, current, source, taskVars, object, cleaning, actVars,
                 histVars, faults>>

\* The transaction of submit, on the version that was read with the snapshot; of the
\* tasks of a material one is active.
Submit(t) ==
  /\ live /\ task[t] = "absent" /\ \A k \in Tasks : k < t => task[k] \in Over
  /\ task' = [task EXCEPT ![t] = "pending"]
  /\ tver' = [tver EXCEPT ![t] = version] /\ tsource' = [tsource EXCEPT ![t] = source]
  /\ shown' = "pending"
  /\ UNCHANGED <<live, version, current, source, stale, fileVars, actVars, histVars, faults>>

-----------------------------------------------------------------------------
\* tick of a process.

\* Some process that is not in a tick.
Ticks(p) == pc[p] = "idle" /\ \A q \in Procs : q < p => pc[q] # "idle"

\* expireLeases compares the status once more, not the lease.
Expire(p, t) ==
  /\ Ticks(p) /\ t \in stale
  /\ End(t, "failed") /\ Goto(p, "expired")
  /\ UNCHANGED <<matVars, tver, tsource, fileVars, hold, doing, seen, histVars, faults>>

\* The conditional update of the pending task found; its reply may be lost.
Claim(p, t) ==
  /\ Ticks(p) /\ task[t] = "pending"
  /\ task' = [task EXCEPT ![t] = "running"]
  /\ \/ Goto(p, "claimed") /\ doing' = [doing EXCEPT ![p] = t] /\ UNCHANGED faults
     \/ Fault /\ UNCHANGED <<pc, doing>>
  /\ UNCHANGED <<matVars, tver, tsource, stale, fileVars, hold, seen, histVars>>

\* The material is told, whatever has become of the task.
ShowRunning(p) ==
  /\ pc[p] = "claimed"
  /\ shown' = "running" /\ Goto(p, "generating")
  /\ UNCHANGED <<live, version, current, source, taskVars, fileVars, hold, doing, seen>>
  /\ NoFault

\* The source of the snapshot is read, and the provider answers; either may fail.
Generate(p) ==
  LET readable == {f \in object : file[f] \in {"ready", "pending_delete"}} IN
  /\ pc[p] = "generating"
  /\ \/ tsource[doing[p]] \in readable \cup {None} /\ Goto(p, "generated")
     \/ Goto(p, "failing")
  /\ UNCHANGED <<matVars, taskVars, fileVars, hold, doing, seen>>
  /\ NoFault

\* The conditional update to storing, whose result is not looked at.
MarkStoring(p) ==
  LET t == doing[p] IN
  /\ pc[p] = "generated"
  /\ task' = [task EXCEPT ![t] = IF @ = "running" THEN "storing" ELSE @]
  /\ Answer(p, "marked")
  /\ UNCHANGED <<matVars, tver, tsource, stale, fileVars, seen, histVars>>

ShowStoring(p) ==
  /\ pc[p] = "marked"
  /\ shown' = "storing" /\ Answer(p, "staging")
  /\ UNCHANGED <<live, version, current, source, taskVars, fileVars, seen, histVars>>

Store(p) ==
  /\ pc[p] = "staging"
  /\ StageAndStore(p)
  /\ UNCHANGED <<matVars, taskVars, seen, histVars>>

\* Slip: the row of the task is not looked at again.
Attachable_Late(t) == live /\ version = tver[t] /\ t \notin stale

\* What the attaching transaction finds under its locks.
Attachable(t) ==
  /\ task[t] = "storing" /\ t \notin stale
  /\ live /\ version = tver[t]

\* The attaching transaction commits; its reply may be lost.
Attach(p) ==
  LET t == doing[p]
      f == hold[p]
  IN
  /\ pc[p] = "attaching" /\ Attachable(t) /\ Staged(f)
  /\ Replace("current", f, current)
  /\ current' = f /\ shown' = "succeeded"
  /\ End(t, "succeeded")
  /\ \/ Rest(p) /\ UNCHANGED faults
     \/ Fail(p) /\ Fault /\ UNCHANGED seen
  /\ UNCHANGED <<live, version, source, tver, tsource, object, cleaning, histVars>>

\* It finds a conflict.
Conflict(p) ==
  /\ pc[p] = "attaching" /\ ~(Attachable(doing[p]) /\ Staged(hold[p]))
  /\ Fail(p)
  /\ UNCHANGED <<matVars, taskVars, fileVars, seen>>
  /\ NoFault

\* A statement of the try block fails without effect, or the provider's request is aborted.
Break(p) ==
  /\ pc[p] \in {"generated", "marked", "staging", "attaching"}
  /\ Fault
  /\ Fail(p)
  /\ UNCHANGED <<matVars, taskVars, fileVars, seen, histVars>>

\* The catch block: the conditional update of the task.
FailTask(p) ==
  /\ pc[p] = "failing"
  /\ IF task[doing[p]] \in Executing THEN End(doing[p], "failed") ELSE UNCHANGED <<task, stale>>
  /\ Goto(p, "expired")
  /\ UNCHANGED <<matVars, tver, tsource, fileVars, hold, doing, seen>>
  /\ NoFault

\* Slip: only a material that waits or is running is told.
ShowFailed_NotStoring(p) ==
  /\ pc[p] = "expired"
  /\ shown' = IF shown \in {"pending", "running"} THEN "failed" ELSE shown
  /\ Rest(p)
  /\ UNCHANGED <<live, version, current, source, taskVars, fileVars>>
  /\ NoFault

\* The material after a task that failed or was interrupted, whichever task it shows.
ShowFailed(p) ==
  /\ pc[p] = "expired"
  /\ shown' = IF shown \in Active THEN "failed" ELSE shown
  /\ Rest(p)
  /\ UNCHANGED <<live, version, current, source, taskVars, fileVars>>
  /\ NoFault

\* A statement outside the try block fails, or the process dies and starts again.
Drop(p) ==
  /\ pc[p] # "idle"
  /\ Fault
  /\ Rest(p)
  /\ UNCHANGED <<matVars, taskVars, fileVars, cutOff>>
  /\ torn' = (torn \/ Abandoned')

\* Time passes; nothing renews a lease.
LeaseOver(t) ==
  /\ task[t] \in Executing /\ t \notin stale
  /\ stale' = stale \cup {t}
  /\ UNCHANGED <<matVars, task, tver, tsource, fileVars, actVars, histVars, faults>>

-----------------------------------------------------------------------------
\* A material with one file: created with a source, or with an image from before.
Init ==
  /\ live = TRUE /\ version = 1
  /\ \/ source = 1 /\ current = None /\ shown = "idle"
     \/ source = None /\ current = 1 /\ shown = "succeeded"
  /\ task = [t \in Tasks |-> "absent"]
  /\ tver = [t \in Tasks |-> 0] /\ tsource = [t \in Tasks |-> None]
  /\ stale = {}
  /\ file = [f \in Files |-> IF f = 1 THEN "ready" ELSE "absent"]
  /\ object = {1} /\ cleaning = {}
  /\ ref = [r \in Roles |-> IF r = "source" THEN source ELSE current]
  /\ pc = [a \in Actors |-> "idle"] /\ hold = [a \in Actors |-> None]
  /\ doing = [p \in Procs |-> None] /\ seen = [u \in Users |-> 0]
  /\ cutOff = {} /\ torn = FALSE /\ faults = 0

RunStep(p) ==
  \/ ShowRunning(p) \/ Generate(p) \/ MarkStoring(p) \/ ShowStoring(p)
  \/ Store(p) \/ Attach(p) \/ Conflict(p)
  \/ FailTask(p) \/ ShowFailed(p)

Next ==
  \/ \E u \in Users : BeginEdit(u) \/ SaveEdit(u) \/ EndEdit(u)
  \/ Edit \/ Remove
  \/ \E t \in Tasks : Submit(t) \/ LeaseOver(t)
  \/ \E p \in Procs, t \in Tasks : Expire(p, t) \/ Claim(p, t)
  \/ \E p \in Procs : RunStep(p) \/ Break(p) \/ Drop(p)
  \/ \E f \in Files : Cleanup(f) \/ CleanedUp(f)

Spec == Init /\ [][Next]_vars

\* A call to the database, the store or the provider answers or fails; time passes, and
\* some process ticks.  Users and those who clean up owe nothing.
Fairness ==
  /\ \A p \in Procs : WF_vars(RunStep(p))
  /\ WF_vars(\E t \in Tasks : LeaseOver(t))
  /\ WF_vars(\E p \in Procs, t \in Tasks : Expire(p, t))
  /\ WF_vars(\E p \in Procs, t \in Tasks : Claim(p, t))

FairSpec == Spec /\ Fairness
-----------------------------------------------------------------------------
TypeOK ==
  /\ live \in BOOLEAN /\ version \in Nat
  /\ shown \in Active \cup Over \cup {"idle"}
  /\ current \in Files \cup {None} /\ source \in Files \cup {None}
  /\ task \in [Tasks -> Active \cup Over \cup {"absent"}]
  /\ tver \in [Tasks -> Nat] /\ tsource \in [Tasks -> Files \cup {None}]
  /\ stale \subseteq {t \in Tasks : task[t] \in Executing}
  /\ file \in [Files -> {"absent", "staged", "ready", "pending_delete", "deleting",
                         "delete_failed", "deleted"}]
  /\ object \subseteq Files /\ cleaning \subseteq {f \in Files : file[f] = "deleting"}
  /\ ref \in [Roles -> Files \cup {None}]
  /\ pc \in [Actors -> {"idle", "staging", "attaching", "claimed", "generating",
                        "generated", "marked", "failing", "expired"}]
  /\ hold \in [Actors -> Files \cup {None}]
  /\ doing \in [Procs -> Tasks \cup {None}] /\ seen \in [Users -> Nat]
  /\ cutOff \subseteq Files /\ torn \in BOOLEAN /\ faults \in 0..MaxFaults

\* While the material exists its files are stored and out of the reach of cleanup, and
\* the reference rows agree with its columns.
ReferencedFilesKept ==
  live =>
    /\ ref["current"] = current /\ ref["source"] = source
    /\ \A r \in Roles : ref[r] # None => file[ref[r]] = "ready" /\ ref[r] \in object

\* A task whose version is still the material's finds the source of its snapshot.  One
\* whose material was edited since may not: its source may be released and cleaned up
\* while it is active.
SnapshotHasSource ==
  \A t \in Tasks :
    task[t] \in Active /\ tver[t] = version => live /\ tsource[t] = source

\* A stored object is not lost sight of: somebody refers to it, or cleanup may take it, or
\* is taking it; the exception is an object whose own cleanup was cut off.
NoObjectForgotten ==
  \A f \in object :
    \/ file[f] \in {"staged", "pending_delete", "delete_failed"}
    \/ file[f] = "deleting" /\ f \in cleaning \cup cutOff
    \/ file[f] = "ready" /\ \E r \in Roles : ref[r] = f

\* However edits, generations, removal and cleanup interleave, and whatever fails between
\* the store and the database: no file of the material is deleted, a task of the present
\* version keeps its source, and no object is forgotten.  It does not hold of the source
\* of a task that an edit has overtaken, nor of an object whose cleanup was cut off.
FilesAccounted == ReferencedFilesKept /\ SnapshotHasSource /\ NoObjectForgotten

\* A result that comes late, after an edit, after the lease or after another task, never
\* replaces the image; a task succeeds in the step that shows its image, and ends once.
OnlyTimelyResults ==
  [][/\ \A t \in Tasks : task[t] \in Over => task'[t] = task[t]
     /\ current' # current =>
          \E t \in Tasks : /\ task[t] = "storing" /\ task'[t] = "succeeded" /\ t \notin stale
                           /\ tver[t] = version']_vars

\* Every generation ends, and the material stops showing one, unless a failure left it
\* behind when no process had a task of it any more.
EveryGenerationEnds ==
  []<>(/\ \A t \in Tasks : task[t] \notin Active
       /\ shown \in Active => torn)
=============================================================================
