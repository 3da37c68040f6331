--------------------- MODULE CustomerDispatchLockProofs ---------------------
(***************************************************************************)
(* Theorems about CustomerDispatchLock: for any number of processes and    *)
(* tasks.                                                                  *)
(***************************************************************************)
EXTENDS CustomerDispatchLock, TLAPS

-----------------------------------------------------------------------------
LEMMA InitTypeOK == Init => TypeOK
BY LockAssumption DEF LockAssumption, Init, TypeOK, Occupied, Ended

LEMMA ForgetTypeOK ==
  ASSUME TypeOK, NEW p \in Procs, Forget(p), holder' \in Procs \cup {None}, status' = status,
         losses' \in 0..MaxLosses, stops' \in 0..MaxStops, fails' \in 0..MaxFails
  PROVE  TypeOK'
BY DEF TypeOK, Forget

LEMMA FinishCommitType ==
  ASSUME TypeOK, NEW p \in Procs, NEW t \in Tasks, FinishCommit(p, t)
  PROVE  status' \in [Tasks -> Occupied \cup Ended \cup {"none", "queued"}]
BY DEF TypeOK, FinishCommit, Ended

LEMMA NextTypeOK == TypeOK /\ [Next]_vars => TypeOK'
<1> SUFFICES ASSUME TypeOK, Next PROVE TypeOK'
  BY DEF TypeOK, vars, procVars, drainVars, runVars, boundVars
<1> PICK p \in Procs : InitStep(p) \/ StopStep(p) \/ DrainStep(p) \/ WorkStep(p)
  BY DEF Next
<1> DEFINE Stages == {"down", "locking", "locked", "recovering", "ready", "lost", "draining",
                      "aborting", "releasing", "released"}
<1>e. ASSUME NEW next \in Stages, Enter(p, next) PROVE stage' \in [Procs -> Stages]
  BY <1>e DEF Enter, TypeOK
<1>g. GiveUp(p) => stage' \in [Procs -> Stages] /\ UNCHANGED <<stopping, interrupted>>
  BY <1>e DEF GiveUp
<1> USE DEF procVars, drainVars, runVars, boundVars
<1>f. Fail => fails' \in 0..MaxFails /\ UNCHANGED <<losses, stops>>
  BY LockAssumption DEF Fail, LockAssumption, TypeOK
<1>s. Stop => stops' \in 0..MaxStops /\ UNCHANGED <<losses, fails>>
  BY LockAssumption DEF Stop, LockAssumption, TypeOK
<1>u. Unlocked(p) \in Procs \cup {None}
  BY DEF Unlocked, TypeOK
<1>1. CASE Start(p) \/ Acquire(p) \/ BecomeReady(p)
  BY <1>1 DEF Start, Acquire, BecomeReady, Enter, GiveUp, TypeOK
<1>2. CASE Refused(p) \/ Exit(p)
  BY <1>2, <1>f, ForgetTypeOK DEF Refused, Exit, TypeOK
<1>3. CASE ListInterrupted(p)
  <2>1. UNCHANGED <<holder, drain, taken, entry, publish, status>>
    BY <1>3 DEF ListInterrupted
  <2>2. /\ UNCHANGED <<stopping, losses, stops>> /\ stage' \in [Procs -> Stages]
        /\ fails' \in 0..MaxFails /\ interrupted' \in [Procs -> SUBSET Tasks]
    BY <1>3, <1>f, <1>e, <1>g DEF ListInterrupted, TypeOK
  <2> QED BY <2>1, <2>2 DEF TypeOK
<1>4. ASSUME NEW t \in Tasks, RecoverTask(p, t) PROVE TypeOK'
  <2>1. RecoveredStatus(t) \in Occupied \cup Ended \cup {"none", "queued"}
    BY DEF RecoveredStatus, TypeOK, Ended
  <2>2. status' \in [Tasks -> Occupied \cup Ended \cup {"none", "queued"}]
    BY <1>4, <2>1 DEF RecoverTask, TypeOK
  <2>3. UNCHANGED <<holder, drain, taken, entry, publish, stopping>>
    BY <1>4 DEF RecoverTask, GiveUp
  <2>4. /\ UNCHANGED <<losses, stops>> /\ stage' \in [Procs -> Stages]
        /\ fails' \in 0..MaxFails /\ interrupted' \in [Procs -> SUBSET Tasks]
    BY <1>4, <1>f, <1>g DEF RecoverTask, TypeOK
  <2> QED BY <2>2, <2>3, <2>4 DEF TypeOK
<1>5. CASE Release(p)
  BY <1>5, <1>u DEF Release, Enter, TypeOK
<1>6. CASE BeginShutdown(p)
  BY <1>6, <1>s DEF BeginShutdown, TypeOK
<1>7. CASE AbortAll(p) \/ EndShutdown(p)
  BY <1>7 DEF AbortAll, EndShutdown, Enter, TypeOK
<1>8. CASE Crash(p)
  BY <1>8, <1>s, <1>u, ForgetTypeOK DEF Crash, TypeOK
<1>9. CASE LoseConnection(p)
  BY <1>9, LockAssumption DEF LoseConnection, LockAssumption, TypeOK
<1>10. CASE CheckLock(p) \/ Dispatch(p) \/ EndDrain(p)
  <2>1. /\ UNCHANGED <<holder, stopping, interrupted, taken, entry, status, losses, stops>>
        /\ fails' \in 0..MaxFails
    BY <1>10, <1>f DEF CheckLock, Dispatch, EndDrain, TypeOK
  <2>2. /\ stage' \in [Procs -> Stages]
        /\ drain' \in [Procs -> {"idle", "finalizers", "dispatching", "registering"}]
        /\ publish' \in [Procs -> SUBSET Tasks] /\ \A q \in Procs : publish'[q] \subseteq publish[q]
    BY <1>10 DEF CheckLock, Dispatch, EndDrain, Enter, TypeOK
  <2> QED BY <2>1, <2>2 DEF TypeOK
<1>11. CASE TakeTasks(p)
  BY <1>11 DEF TakeTasks, Queued, Occupied, TypeOK
<1>12. CASE Register(p)
  <2>1. /\ entry' \in [Procs -> [Tasks -> {"none", "working", "pending"}]]
        /\ \A q \in Procs \ {p} : entry'[q] = entry[q]
        /\ \A t \in Tasks : entry'[p][t] = IF t \in taken[p] THEN "working" ELSE entry[p][t]
    BY <1>12 DEF Register, TypeOK
  <2>2. /\ publish' \in [Procs -> SUBSET Tasks]
        /\ \A q \in Procs \ {p} : publish'[q] = publish[q]
        /\ publish'[p] \subseteq publish[p] \cup taken[p]
    BY <1>12 DEF Register, TypeOK
  <2>3. ASSUME NEW q \in Procs, NEW t \in publish'[q] PROVE entry'[q][t] # "none"
    <3>1. t \in Tasks
      BY <2>2
    <3>2. CASE q = p
      <4>1. t \in publish[p] => entry[p][t] # "none"
        BY DEF TypeOK
      <4> QED BY <2>1, <2>2, <3>1, <3>2, <4>1
    <3>3. CASE q # p
      BY <2>1, <2>2, <3>3 DEF TypeOK
    <3> QED BY <3>2, <3>3
  <2>4. /\ UNCHANGED <<holder, procVars, status, boundVars>>
        /\ drain' \in [Procs -> {"idle", "finalizers", "dispatching", "registering"}]
        /\ taken' \in [Procs -> SUBSET Tasks]
    BY <1>12 DEF Register, TypeOK
  <2> QED BY <2>1, <2>2, <2>3, <2>4 DEF TypeOK
<1>13. ASSUME NEW t \in Tasks, RetryFinalizer(p, t) PROVE TypeOK'
  <2>1. status' \in [Tasks -> Occupied \cup Ended \cup {"none", "queued"}]
    BY <1>13, FinishCommitType DEF RetryFinalizer, TypeOK
  <2>2. /\ UNCHANGED <<holder, stage, stopping, interrupted, taken, losses, stops>>
        /\ fails' \in 0..MaxFails
        /\ drain' \in [Procs -> {"idle", "finalizers", "dispatching", "registering"}]
    BY <1>13, <1>f DEF RetryFinalizer, TypeOK
  <2>3. /\ entry' \in [Procs -> [Tasks -> {"none", "working", "pending"}]]
        /\ publish' \in [Procs -> SUBSET Tasks]
        /\ \A q \in Procs : \A u \in publish'[q] : entry'[q][u] # "none"
    <3>1. CASE UNCHANGED runVars
      BY <3>1 DEF TypeOK
    <3>2. CASE RemoveEntry(p, t)
      BY <3>2 DEF RemoveEntry, TypeOK
    <3> QED BY <1>13, <3>1, <3>2 DEF RetryFinalizer
  <2> QED BY <2>1, <2>2, <2>3 DEF TypeOK
<1>14. ASSUME NEW t \in Tasks, Finish(p, t) PROVE TypeOK'
  BY <1>14, FinishCommitType DEF Finish, RemoveEntry, TypeOK
<1>15. ASSUME NEW t \in Tasks, FinishFails(p, t) PROVE TypeOK'
  BY <1>15, <1>f DEF FinishFails, TypeOK
<1>16. ASSUME NEW t \in Tasks, SubmitVisitorMessage(p, t) PROVE TypeOK'
  BY <1>16 DEF SubmitVisitorMessage, TypeOK
<1>17. ASSUME NEW t \in Tasks, CancelTask(p, t) PROVE TypeOK'
  BY <1>17 DEF CancelTask, TypeOK, Occupied, Ended
<1> QED BY <1>1, <1>2, <1>3, <1>4, <1>5, <1>6, <1>7, <1>8, <1>9, <1>10, <1>11, <1>12, <1>13,
           <1>14, <1>15, <1>16, <1>17 DEF InitStep, StopStep, DrainStep, WorkStep

\* Every variable keeps its type, and only registered tasks may publish.
THEOREM LockTypeCorrect == Spec => []TypeOK
BY InitTypeOK, NextTypeOK, PTL DEF Spec

-----------------------------------------------------------------------------
\* The inductive invariant.

\* A process drains only while it serves or winds up its drain, and executes
\* only until shutdown has waited for it; what it takes waits for registration
\* and has no entry before.
Quiet ==
  \A p \in Procs :
    /\ stage[p] \notin {"ready", "draining"} => drain[p] = "idle"
    /\ stage[p] \notin {"ready", "lost", "draining", "aborting"} =>
         \A t \in Tasks : entry[p][t] # "working"
    /\ drain[p] # "registering" => taken[p] = {}
    /\ \A t \in Tasks : t \in taken[p] => entry[p][t] = "none"

\* What a process owns has left the queue.
OwnedHasLeft ==
  \A p \in Procs, t \in Tasks : Owns(p, t) => status[t] \notin {"none", "queued"}

\* Orphans only, taken tasks included.
HeldUntilSettled ==
  losses = 0 => \A p \in Procs, t \in Tasks :
    entry[p][t] = "working" \/ t \in taken[p] => status[t] \in Occupied

LockInv == TypeOK /\ LockGuardsWork /\ Quiet /\ OwnedHasLeft /\ NoDoubleExecution /\ HeldUntilSettled

\* What the steps of p leave alone.
OthersSame(p) ==
  \A q \in Procs \ {p} : /\ stage'[q] = stage[q] /\ drain'[q] = drain[q]
                         /\ taken'[q] = taken[q] /\ entry'[q] = entry[q]

LEMMA InitLockInv == Init => LockInv
<1> SUFFICES ASSUME Init PROVE LockInv
  OBVIOUS
<1>1. LockGuardsWork /\ Quiet /\ OwnedHasLeft /\ NoDoubleExecution /\ HeldUntilSettled
  BY DEF Init, LockGuardsWork, Works, Quiet, OwnedHasLeft, NoDoubleExecution, Owns, HeldUntilSettled
<1> QED BY <1>1, InitTypeOK DEF LockInv

\* A step of p that frees nothing but may move its stage and its drain.
LEMMA StageStep ==
  ASSUME LockInv, TypeOK', NEW p \in Procs, OthersSame(p), UNCHANGED <<entry, taken, status>>,
         losses' = 0 => losses = 0,
         losses' = 0 => \A q \in Procs \ {p} : holder = q => holder' = q,
         losses' = 0 /\ Works(p)' => holder' = p,
         stage'[p] \notin {"ready", "draining"} => drain'[p] = "idle",
         stage'[p] \notin {"ready", "lost", "draining", "aborting"} =>
           \A t \in Tasks : entry[p][t] # "working",
         drain'[p] # "registering" => taken[p] = {}
  PROVE  LockInv'
<1>1. LockGuardsWork'
  BY DEF LockInv, LockGuardsWork, Works, OthersSame
<1>2. Quiet'
  BY DEF LockInv, Quiet, OthersSame
<1>3. OwnedHasLeft' /\ NoDoubleExecution' /\ HeldUntilSettled'
  BY DEF LockInv, OwnedHasLeft, NoDoubleExecution, Owns, HeldUntilSettled
<1> QED BY <1>1, <1>2, <1>3 DEF LockInv

\* The memory of p is gone.
LEMMA ForgetStep ==
  ASSUME LockInv, TypeOK', NEW p \in Procs, Forget(p), status' = status,
         losses' = 0 => losses = 0, \A q \in Procs \ {p} : holder = q => holder' = q
  PROVE  LockInv'
<1>1. /\ OthersSame(p) /\ stage'[p] = "down" /\ drain'[p] = "idle" /\ taken'[p] = {}
      /\ \A t \in Tasks : entry'[p][t] = "none"
  BY DEF Forget, OthersSame, LockInv, TypeOK
<1>2. LockGuardsWork'
  BY <1>1 DEF LockInv, LockGuardsWork, Works, OthersSame
<1>3. Quiet'
  BY <1>1 DEF LockInv, Quiet, OthersSame
<1>4. \A q \in Procs, t \in Tasks : Owns(q, t)' => Owns(q, t)
  BY <1>1 DEF Owns, OthersSame
<1>5. OwnedHasLeft' /\ NoDoubleExecution'
  BY <1>4 DEF LockInv, OwnedHasLeft, NoDoubleExecution
<1>6. HeldUntilSettled'
  BY <1>1 DEF LockInv, HeldUntilSettled, OthersSame
<1> QED BY <1>2, <1>3, <1>5, <1>6 DEF LockInv

\* The row of one task changes, or its entry at p goes or turns pending; it
\* stays out of the queue if anybody owns it.
LEMMA RowStep ==
  ASSUME LockInv, TypeOK', NEW p \in Procs, NEW t \in Tasks, OthersSame(p),
         UNCHANGED <<holder, stage, taken, losses>>,
         drain'[p] \in {drain[p], "idle"}, drain[p] # "registering" \/ drain'[p] = drain[p],
         \A u \in Tasks \ {t} : status'[u] = status[u] /\ entry'[p][u] = entry[p][u],
         entry'[p][t] \in {entry[p][t], "none"} \/ (entry[p][t] = "working" /\ entry'[p][t] = "pending"),
         status[t] \notin {"none", "queued"} => status'[t] \notin {"none", "queued"},
         losses = 0 => status[t] \notin Occupied \/ status'[t] \in Occupied
                       \/ \A q \in Procs : entry'[q][t] # "working" /\ t \notin taken[q]
  PROVE  LockInv'
<1>1. \A q \in Procs, u \in Tasks : /\ entry'[q][u] # "none" => entry[q][u] # "none"
                                    /\ entry'[q][u] = "working" => entry[q][u] = "working"
  BY DEF OthersSame
<1>2. LockGuardsWork'
  BY <1>1 DEF LockInv, LockGuardsWork, Works, OthersSame
<1>3. Quiet'
  BY <1>1 DEF LockInv, Quiet, OthersSame
<1>4. \A q \in Procs, u \in Tasks : Owns(q, u)' => Owns(q, u)
  BY <1>1 DEF Owns
<1>5. OwnedHasLeft' /\ NoDoubleExecution'
  BY <1>4 DEF LockInv, OwnedHasLeft, NoDoubleExecution
<1>6. HeldUntilSettled'
  BY <1>1 DEF LockInv, HeldUntilSettled, OwnedHasLeft, Owns
<1> QED BY <1>2, <1>3, <1>5, <1>6 DEF LockInv

\* The end of an execution, at once or after a retry.
LEMMA FinishStepInv ==
  ASSUME LockInv, TypeOK', NEW p \in Procs, NEW t \in Tasks,
         entry[p][t] # "none", FinishCommit(p, t), RemoveEntry(p, t),
         UNCHANGED <<holder, stage, drain, taken, losses>>
  PROVE  LockInv'
<1>t. TypeOK
  BY DEF LockInv
<1>1. /\ \A u \in Tasks \ {t} : status'[u] = status[u]
      /\ status[t] \notin {"none", "queued"} => status'[t] \notin {"none", "queued"}
  BY <1>t DEF FinishCommit, TypeOK
<1>2. /\ OthersSame(p) /\ entry'[p][t] = "none"
      /\ \A u \in Tasks \ {t} : entry'[p][u] = entry[p][u]
  BY <1>t DEF RemoveEntry, OthersSame, TypeOK
<1>3. \A q \in Procs : q # p => ~Owns(q, t)
  BY DEF LockInv, NoDoubleExecution, Owns
<1>4. ASSUME NEW q \in Procs PROVE entry'[q][t] # "working" /\ t \notin taken[q]
  <2>1. CASE q = p
    BY <1>2, <2>1 DEF LockInv, Quiet
  <2>2. CASE q # p
    BY <1>2, <1>3, <2>2 DEF Owns, OthersSame
  <2> QED BY <2>1, <2>2
<1> QED BY <1>1, <1>2, <1>4, RowStep

LEMMA InitStepInv ==
  ASSUME LockInv, TypeOK', NEW p \in Procs, InitStep(p) PROVE LockInv'
<1> USE DEF procVars, drainVars, runVars, boundVars
<1>t. TypeOK
  BY DEF LockInv
<1>f. Fail => losses' = losses
  BY DEF Fail
<1>n. None # p
  BY LockAssumption DEF LockAssumption
<1>e. ASSUME NEW next, Enter(p, next), UNCHANGED <<drain, taken, entry>>
      PROVE  OthersSame(p) /\ stage'[p] = next
  BY <1>e, <1>t DEF Enter, OthersSame, TypeOK
<1>q. ASSUME stage[p] \notin {"ready", "lost", "draining", "aborting"}
      PROVE  drain[p] = "idle" /\ taken[p] = {} /\ \A t \in Tasks : entry[p][t] # "working"
  BY <1>q DEF LockInv, Quiet
<1>1. CASE Start(p)
  <2>1. OthersSame(p) /\ stage'[p] = "locking"
    BY <1>1, <1>e DEF Start
  <2> QED BY <1>1, <1>t, <1>q, <2>1, StageStep DEF Start, Works
<1>2. CASE Acquire(p)
  <2>1. OthersSame(p) /\ stage'[p] \in {"locked", "releasing"}
    BY <1>2, <1>e DEF Acquire, GiveUp
  <2>2. \A q \in Procs : holder # q
    BY <1>2, LockAssumption DEF Acquire, LockFree, LockAssumption
  <2> QED BY <1>2, <1>q, <2>1, <2>2, StageStep DEF Acquire
<1>3. CASE Refused(p)
  BY <1>3, <1>f, ForgetStep DEF Refused
<1>4. CASE ListInterrupted(p)
  <2>1. OthersSame(p) /\ stage'[p] \in {"recovering", "releasing"}
    BY <1>4, <1>e DEF ListInterrupted, GiveUp
  <2>2. losses' = losses /\ UNCHANGED <<holder, entry, drain, taken, status>>
    BY <1>4, <1>f DEF ListInterrupted
  <2>3. Works(p)
    BY <1>4 DEF ListInterrupted, Works
  <2> QED BY <1>4, <1>q, <2>1, <2>2, <2>3, StageStep DEF ListInterrupted, LockInv, LockGuardsWork
<1>5. ASSUME NEW t \in Tasks, RecoverTask(p, t) PROVE LockInv'
  <2>1. Works(p) /\ stage[p] = "recovering"
    BY <1>5 DEF RecoverTask, Works
  <2>2. CASE Fail /\ GiveUp(p) /\ UNCHANGED status
    <3>1. OthersSame(p) /\ stage'[p] = "releasing"
      BY <1>5, <1>e, <2>2 DEF RecoverTask, GiveUp
    <3>2. losses' = losses /\ UNCHANGED <<holder, entry, drain, taken, status>>
      BY <1>5, <1>f, <2>2 DEF RecoverTask
    <3> QED BY <1>q, <2>1, <3>1, <3>2, StageStep DEF LockInv, LockGuardsWork
  <2>3. CASE /\ status' = [status EXCEPT ![t] = RecoveredStatus(t)]
             /\ UNCHANGED <<stage, stopping, boundVars>>
    <3>1. /\ UNCHANGED <<holder, stage, drain, taken, entry, losses>>
          /\ \A u \in Tasks \ {t} : status'[u] = status[u]
          /\ status[t] \notin {"none", "queued"} => status'[t] \notin {"none", "queued"}
      BY <1>5, <1>t, <2>3 DEF RecoverTask, RecoveredStatus, TypeOK
    <3>2. ASSUME losses = 0, NEW q \in Procs PROVE entry[q][t] # "working" /\ t \notin taken[q]
      <4>1. CASE q = p
        BY <2>1, <1>q, <4>1
      <4>2. CASE q # p
        <5>1. ~Works(q)
          BY <2>1, <3>2, <4>2 DEF LockInv, LockGuardsWork
        <5> QED BY <5>1 DEF Works, LockInv, Quiet
      <4> QED BY <4>1, <4>2
    <3>3. OthersSame(p)
      BY <3>1 DEF OthersSame
    <3> QED BY <1>5, <3>1, <3>2, <3>3, RowStep
  <2> QED BY <1>5, <2>2, <2>3 DEF RecoverTask
<1>6. CASE BecomeReady(p)
  <2>1. OthersSame(p) /\ stage'[p] \in {"ready", "releasing"}
    BY <1>6, <1>e DEF BecomeReady, GiveUp
  <2>2. Works(p)
    BY <1>6 DEF BecomeReady, Works
  <2> QED BY <1>6, <1>q, <2>1, <2>2, StageStep DEF BecomeReady, LockInv, LockGuardsWork
<1>7. CASE Release(p)
  <2>1. OthersSame(p) /\ stage'[p] = "released"
    BY <1>7, <1>e DEF Release
  <2>2. \A q \in Procs \ {p} : holder = q => holder' = q
    BY <1>7 DEF Release, Unlocked
  <2>3. drain[p] = "idle" /\ taken[p] = {} /\ \A t \in Tasks : entry[p][t] # "working"
    BY <1>7, <1>q DEF Release
  <2>4. ~Works(p)'
    BY <1>7, <2>1, <2>3 DEF Release, Works
  <2> QED BY <1>7, <2>1, <2>2, <2>3, <2>4, StageStep DEF Release
<1>8. CASE Exit(p)
  BY <1>8, ForgetStep DEF Exit
<1> QED BY <1>1, <1>2, <1>3, <1>4, <1>5, <1>6, <1>7, <1>8 DEF InitStep

LEMMA StopStepInv ==
  ASSUME LockInv, TypeOK', NEW p \in Procs, StopStep(p) PROVE LockInv'
<1> USE DEF procVars, drainVars, runVars, boundVars
<1>t. TypeOK
  BY DEF LockInv
<1>s. Stop => losses' = losses
  BY DEF Stop
<1>1. CASE BeginShutdown(p)
  <2>1. /\ OthersSame(p) /\ UNCHANGED <<holder, drain, taken, entry, status>> /\ losses' = losses
        /\ stage'[p] = IF stage[p] \in {"ready", "lost"} THEN "draining" ELSE stage[p]
    BY <1>1, <1>s, <1>t DEF BeginShutdown, OthersSame, TypeOK
  <2>2. Works(p)' => Works(p)
    BY <2>1 DEF Works
  <2> QED BY <2>1, <2>2, StageStep DEF LockInv, LockGuardsWork, Quiet
<1>2. CASE AbortAll(p)
  <2>1. /\ OthersSame(p) /\ UNCHANGED <<holder, drain, taken, entry, status, losses>>
        /\ stage[p] = "draining" /\ drain[p] = "idle" /\ stage'[p] = "aborting"
    BY <1>2, <1>t DEF AbortAll, Enter, OthersSame, TypeOK
  <2>2. Works(p)
    BY <2>1 DEF Works
  <2> QED BY <2>1, <2>2, StageStep DEF LockInv, LockGuardsWork, Quiet
<1>3. CASE EndShutdown(p)
  <2>1. /\ OthersSame(p) /\ UNCHANGED <<holder, drain, taken, entry, status, losses>>
        /\ stage[p] = "aborting" /\ stage'[p] = "releasing"
        /\ \A t \in Tasks : entry[p][t] # "working"
    BY <1>3, <1>t DEF EndShutdown, Settled, Enter, OthersSame, TypeOK
  <2>2. Works(p)
    BY <2>1 DEF Works
  <2> QED BY <2>1, <2>2, StageStep DEF LockInv, LockGuardsWork, Quiet
<1>4. CASE Crash(p)
  <2>1. \A q \in Procs \ {p} : holder = q => holder' = q
    BY <1>4 DEF Crash, Unlocked
  <2> QED BY <1>4, <1>s, <2>1, ForgetStep DEF Crash
<1>5. CASE LoseConnection(p)
  <2>1. losses' # 0
    BY <1>5, <1>t DEF LoseConnection, TypeOK
  <2>2. OthersSame(p) /\ UNCHANGED <<stage, drain, taken, entry, status>>
    BY <1>5 DEF LoseConnection, OthersSame
  <2> QED BY <2>1, <2>2, StageStep DEF LockInv, Quiet
<1> QED BY <1>1, <1>2, <1>3, <1>4, <1>5 DEF StopStep

LEMMA DrainStepInv ==
  ASSUME LockInv, TypeOK', NEW p \in Procs, DrainStep(p) PROVE LockInv'
<1> USE DEF procVars, drainVars, runVars, boundVars
<1>t. TypeOK
  BY DEF LockInv
<1>d. ASSUME drain[p] # "idle" PROVE stage[p] \in {"ready", "draining"} /\ Works(p)
  BY <1>d DEF LockInv, Quiet, Works
<1>1. CASE CheckLock(p)
  <2>1. /\ OthersSame(p) /\ UNCHANGED <<holder, taken, entry, status, losses>>
        /\ stage[p] = "ready" /\ drain[p] = "idle"
        /\ \/ stage'[p] = "ready" /\ drain'[p] = "finalizers"
           \/ stage'[p] = "lost" /\ drain'[p] = "idle"
    BY <1>1, <1>t DEF CheckLock, Fail, Enter, OthersSame, TypeOK
  <2>2. Works(p)
    BY <2>1 DEF Works
  <2> QED BY <2>1, <2>2, StageStep DEF LockInv, LockGuardsWork, Quiet
<1>2. CASE Dispatch(p) \/ EndDrain(p)
  <2>1. /\ OthersSame(p) /\ UNCHANGED <<holder, stage, taken, entry, status, losses>>
        /\ drain[p] \in {"finalizers", "dispatching"} /\ drain'[p] \in {"dispatching", "idle"}
    BY <1>2, <1>t DEF Dispatch, EndDrain, Fail, OthersSame, TypeOK
  <2> QED BY <1>d, <2>1, StageStep DEF LockInv, LockGuardsWork, Quiet
<1>3. CASE TakeTasks(p)
  <2>1. PICK S \in SUBSET Queued :
          /\ status' = [t \in Tasks |-> IF t \in S THEN "running" ELSE status[t]]
          /\ taken' = [taken EXCEPT ![p] = S]
    BY <1>3 DEF TakeTasks
  <2>2. /\ OthersSame(p) /\ UNCHANGED <<holder, stage, entry, losses>>
        /\ drain[p] = "dispatching" /\ drain'[p] = "registering"
        /\ taken'[p] = S
    BY <1>3, <1>t, <2>1 DEF TakeTasks, OthersSame, TypeOK
  <2>3. \A t \in S : /\ t \in Tasks /\ status'[t] = "running"
                     /\ \A q \in Procs : ~Owns(q, t)
    BY <2>1 DEF Queued, LockInv, OwnedHasLeft
  <2>4. \A t \in Tasks \ S : status'[t] = status[t]
    BY <2>1
  <2>5. \A q \in Procs, t \in Tasks : Owns(q, t)' => Owns(q, t) \/ (q = p /\ t \in S)
    BY <2>2 DEF Owns, OthersSame
  <2>6. LockGuardsWork'
    BY <1>d, <2>2 DEF LockInv, LockGuardsWork, Works, OthersSame
  <2>7. Quiet'
    BY <1>d, <2>2, <2>3 DEF LockInv, Quiet, OthersSame, Owns
  <2>8. OwnedHasLeft'
    BY <2>3, <2>4, <2>5 DEF LockInv, OwnedHasLeft
  <2>9. NoDoubleExecution'
    BY <2>3, <2>5 DEF LockInv, NoDoubleExecution
  <2>10. HeldUntilSettled'
    <3> SUFFICES ASSUME losses' = 0, NEW q \in Procs, NEW t \in Tasks,
                        entry'[q][t] = "working" \/ t \in taken'[q]
                 PROVE  status'[t] \in Occupied
      BY DEF HeldUntilSettled
    <3>1. CASE t \in S
      BY <2>3, <3>1 DEF Occupied
    <3>2. CASE t \notin S
      <4>1. entry[q][t] = "working" \/ t \in taken[q]
        BY <2>2, <3>2 DEF OthersSame
      <4> QED BY <2>2, <2>4, <3>2, <4>1 DEF LockInv, HeldUntilSettled
    <3> QED BY <3>1, <3>2
  <2> QED BY <2>6, <2>7, <2>8, <2>9, <2>10 DEF LockInv
<1>4. CASE Register(p)
  <2>1. /\ OthersSame(p) /\ UNCHANGED <<holder, stage, status, losses>>
        /\ drain[p] = "registering" /\ drain'[p] = "idle" /\ taken'[p] = {}
    BY <1>4, <1>t DEF Register, OthersSame, TypeOK
  <2>2. \A t \in Tasks : entry'[p][t] = IF t \in taken[p] THEN "working" ELSE entry[p][t]
    BY <1>4, <1>t DEF Register, TypeOK
  <2>3. LockGuardsWork'
    BY <1>d, <2>1 DEF LockInv, LockGuardsWork, Works, OthersSame
  <2>4. Quiet'
    BY <1>d, <2>1 DEF LockInv, Quiet, OthersSame
  <2>5. \A q \in Procs, t \in Tasks : Owns(q, t)' => Owns(q, t)
    BY <2>1, <2>2 DEF Owns, OthersSame
  <2>6. OwnedHasLeft' /\ NoDoubleExecution'
    BY <2>1, <2>5 DEF LockInv, OwnedHasLeft, NoDoubleExecution
  <2>7. HeldUntilSettled'
    BY <2>1, <2>2 DEF LockInv, HeldUntilSettled, OthersSame
  <2> QED BY <2>3, <2>4, <2>6, <2>7 DEF LockInv
<1>5. ASSUME NEW t \in Tasks, RetryFinalizer(p, t) PROVE LockInv'
  <2>1. CASE Fail /\ drain' = [drain EXCEPT ![p] = "idle"] /\ UNCHANGED <<status, runVars>>
    <3>1. /\ OthersSame(p) /\ UNCHANGED <<holder, stage, taken, entry, status, losses>>
          /\ drain[p] = "finalizers" /\ drain'[p] = "idle"
      BY <1>5, <1>t, <2>1 DEF RetryFinalizer, Fail, OthersSame, TypeOK
    <3> QED BY <1>d, <3>1, StageStep DEF LockInv, LockGuardsWork, Quiet
  <2>2. CASE FinishCommit(p, t) /\ RemoveEntry(p, t) /\ UNCHANGED <<drain, boundVars>>
    BY <1>5, <2>2, FinishStepInv DEF RetryFinalizer
  <2> QED BY <1>5, <2>1, <2>2 DEF RetryFinalizer
<1> QED BY <1>1, <1>2, <1>3, <1>4, <1>5 DEF DrainStep

LEMMA WorkStepInv ==
  ASSUME LockInv, TypeOK', NEW p \in Procs, WorkStep(p) PROVE LockInv'
<1> USE DEF procVars, drainVars, runVars, boundVars
<1>t. TypeOK
  BY DEF LockInv
<1> PICK t \in Tasks :
      Finish(p, t) \/ FinishFails(p, t) \/ SubmitVisitorMessage(p, t) \/ CancelTask(p, t)
  BY DEF WorkStep
<1>1. CASE Finish(p, t)
  BY <1>1, FinishStepInv DEF Finish
<1>2. CASE FinishFails(p, t)
  <2>1. /\ OthersSame(p) /\ UNCHANGED <<holder, stage, drain, taken, status, losses>>
        /\ \A u \in Tasks \ {t} : entry'[p][u] = entry[p][u]
        /\ entry[p][t] = "working" /\ entry'[p][t] = "pending"
    BY <1>2, <1>t DEF FinishFails, Fail, OthersSame, TypeOK
  <2> QED BY <2>1, RowStep
<1>3. CASE SubmitVisitorMessage(p, t)
  <2>1. /\ OthersSame(p) /\ UNCHANGED <<holder, stage, drain, taken, entry, losses>>
        /\ \A u \in Tasks \ {t} : status'[u] = status[u]
        /\ status[t] = "none"
    BY <1>3, <1>t DEF SubmitVisitorMessage, OthersSame, TypeOK
  <2>2. "none" \notin Occupied
    BY DEF Occupied
  <2> QED BY <2>1, <2>2, RowStep
<1>4. CASE CancelTask(p, t)
  <2>1. /\ OthersSame(p) /\ UNCHANGED <<holder, stage, drain, taken, entry, losses>>
        /\ \A u \in Tasks \ {t} : status'[u] = status[u]
        /\ \/ status[t] = "queued" /\ status'[t] = "cancelled"
           \/ status[t] = "running" /\ status'[t] = "cancelling"
    BY <1>4, <1>t DEF CancelTask, OthersSame, TypeOK
  <2>2. "queued" \notin Occupied /\ "cancelling" \in Occupied
    BY DEF Occupied
  <2> QED BY <2>1, <2>2, RowStep
<1> QED BY <1>1, <1>2, <1>3, <1>4

LEMMA NextLockInv == LockInv /\ [Next]_vars => LockInv'
<1> SUFFICES ASSUME LockInv, [Next]_vars PROVE LockInv'
  OBVIOUS
<1>t. TypeOK'
  BY NextTypeOK DEF LockInv
<1>1. CASE Next
  BY <1>1, <1>t, InitStepInv, StopStepInv, DrainStepInv, WorkStepInv DEF Next
<1>2. CASE UNCHANGED vars
  BY <1>2, <1>t DEF vars, procVars, drainVars, runVars, boundVars, LockInv, LockGuardsWork, Works,
     Quiet, OwnedHasLeft, NoDoubleExecution, Owns, HeldUntilSettled
<1> QED BY <1>1, <1>2

LEMMA LockInvariant == Spec => []LockInv
BY InitLockInv, NextLockInv, PTL DEF Spec

\* One process at a time recovers, serves, dispatches and executes, as long as no
\* lock connection has died.
THEOREM OneWorker == Spec => []LockGuardsWork
BY LockInvariant, PTL DEF LockInv

\* No task is ever executed by two processes, not even after the lock was lost.
THEOREM NoSecondExecution == Spec => []NoDoubleExecution
BY LockInvariant, PTL DEF LockInv

\* Recovery ends nothing that is still executed, as long as no lock connection
\* has died.
THEOREM OrphansOnly == Spec => []RecoversOnlyOrphans
<1>1. LockInv => RecoversOnlyOrphans
  BY DEF LockInv, HeldUntilSettled, RecoversOnlyOrphans
<1> QED BY <1>1, LockInvariant, PTL
=============================================================================
