----------------------- MODULE CustomerExecutorProofs -----------------------
(***************************************************************************)
(* Theorems about CustomerService that relate task rows to the memory of   *)
(* the serving process, and about what a step may never do.                *)
(***************************************************************************)
EXTENDS CustomerServiceProofs

-----------------------------------------------------------------------------
\* The inductive invariant of rows and executors.

\* Without a serving process there are no executors and no drain.
EmptyWhenDown ==
  phase \in {"down", "recovering"} =>
    /\ draining = "idle" /\ taken = {}
    /\ \A t \in TaskIds : exec[t] = "none" /\ timer[t] = "off"

\* A task is registered once: what waits, or has just been taken, has no
\* entry in the `running' map.
Registration ==
  /\ \A t \in TaskIds : status[t] \in {"none", "queued"} => exec[t] = "none" /\ t \notin taken
  /\ \A t \in taken : exec[t] = "none" /\ status[t] \in Occupied
  /\ draining # "registering" => taken = {}
  /\ awaited # None => draining = "finalizers"

\* Behind the second check of an executor, publishing goes on only for a running
\* task or one whose cancellation is still on its way; a timer that has fired
\* has switched it off, and only an executor has a timer.
Silence ==
  \A t \in TaskIds :
    /\ exec[t] \in {"checked", "streaming"} /\ publishAllowed[t] /\ status[t] # "running"
         => t \in toAbort \cup missedAbort
    /\ timer[t] = "marking" => ~publishAllowed[t]
    /\ timer[t] # "off" => exec[t] \in Live \cup {"closing"}

ExecInv ==
  /\ TypeOK
  /\ EmptyWhenDown
  /\ Registration
  /\ SlotHeldWhileExecuting
  /\ Silence

execInvVars == <<phase, draining, awaited, taken, status, execVars, abortVars>>

LEMMA InitExecInv == Init => ExecInv
<1> SUFFICES ASSUME Init PROVE ExecInv
  OBVIOUS
<1>1. TypeOK
  BY InitTypeOK
<1>2. EmptyWhenDown /\ Registration /\ SlotHeldWhileExecuting /\ Silence
  BY DEF Init, EmptyWhenDown, Registration, SlotHeldWhileExecuting, Silence, Live
<1> QED BY <1>1, <1>2 DEF ExecInv

LEMMA ExecFrame == ExecInv /\ TypeOK' /\ UNCHANGED execInvVars => ExecInv'
BY DEF ExecInv, execInvVars, execVars, abortVars, EmptyWhenDown, Registration,
       SlotHeldWhileExecuting, Silence

\* A cancelling request: queued tasks end, executing ones stay where they are
\* and are handed to abortTasks, or their abort is missed.
LEMMA CancelExec ==
  ASSUME ExecInv, TypeOK', NEW s \in Sessions, CancelTasks(s), CommitReply(Executing(s)),
         UNCHANGED <<phase, drainVars, execVars>>
  PROVE  ExecInv'
<1>1. \A t \in TaskIds :
        \/ status'[t] = status[t]
        \/ (status[t] = "queued" /\ status'[t] = "cancelled")
        \/ (status[t] \in Occupied /\ status'[t] = "cancelling" /\ t \in Executing(s))
  BY DEF CancelTasks, Executing, ActiveTasks, Active, Occupied, ExecInv, TypeOK
<1>2. toAbort \cup missedAbort \cup Executing(s) \subseteq (toAbort \cup missedAbort)'
      \/ (toAbort \cup Executing(s) \subseteq toAbort' /\ missedAbort' = missedAbort)
  BY DEF CommitReply
<1>3. EmptyWhenDown'
  BY DEF ExecInv, EmptyWhenDown, drainVars, execVars
<1>4. Registration'
  <2>1. \A t \in taken : t \in TaskIds /\ status[t] \in Occupied
    BY DEF ExecInv, TypeOK, Registration
  <2>2. \A t \in taken : status'[t] \in Occupied
    BY <1>1, <2>1 DEF Occupied
  <2> QED BY <1>1, <2>2 DEF ExecInv, Registration, drainVars, execVars, Occupied
<1>5. SlotHeldWhileExecuting'
  BY <1>1 DEF ExecInv, SlotHeldWhileExecuting, Registration, execVars, Occupied, Live
<1>6. Silence'
  BY <1>1, <1>2 DEF ExecInv, Silence, Registration, execVars, Occupied
<1> QED BY <1>3, <1>4, <1>5, <1>6 DEF ExecInv

LEMMA SessionStepExec == ExecInv /\ SessionStep /\ RowsInv => ExecInv'
<1> SUFFICES ASSUME ExecInv, RowsInv, NEW s \in Sessions,
                    \/ InitSession(s) \/ RequestHuman(s) \/ ResumeAi(s)
                    \/ CancelVisitorTask(s)
                    \/ \E r \in Requests : SubmitVisitorMessage(s, r)
                    \/ \E g \in Agents :
                         \/ ClaimSession(s, g) \/ CloseSession(s, g)
                         \/ \E r \in Requests : SendAgentMessage(s, g, r)
             PROVE  ExecInv'
  BY DEF SessionStep
<1>t. TypeOK'
  BY SessionStepTypeOK DEF ExecInv, SessionStep
<1> USE DEF memVars, procVars
<1>1. CASE InitSession(s)
  BY <1>1, <1>t, ExecFrame DEF InitSession, execInvVars, drainVars
<1>2. CASE RequestHuman(s)
  BY <1>2, <1>t, CancelExec DEF RequestHuman
<1>3. CASE ResumeAi(s)
  BY <1>3, <1>t, ExecFrame DEF ResumeAi, execInvVars, drainVars
<1>4. CASE CancelVisitorTask(s)
  BY <1>4, <1>t, CancelExec DEF CancelVisitorTask
<1>5. ASSUME NEW r \in Requests, SubmitVisitorMessage(s, r) PROVE ExecInv'
  <2>1. UNCHANGED <<phase, draining, awaited, taken, execVars, abortVars>>
    BY <1>5 DEF SubmitVisitorMessage, drainVars
  <2>2. CASE status' = status
    BY <2>1, <2>2, <1>t, ExecFrame DEF execInvVars
  <2>3. CASE /\ lastTask < MaxTasks /\ lastTask' = lastTask + 1
             /\ status' = [status EXCEPT ![lastTask'] = "queued"]
    <3>0. PICK n \in TaskIds : n = lastTask + 1
      BY <2>3, ConstantsAssumption DEF ExecInv, TypeOK, TaskIds, ConstantsAssumption
    <3>1. status[n] = "none"
      BY <3>0 DEF RowsInv, TypeOK, Ledger, LedgerRow
    <3>2. /\ status'[n] = "queued" /\ exec[n] = "none" /\ n \notin taken
          /\ \A t \in TaskIds : t # n => status'[t] = status[t]
      BY <2>3, <3>0, <3>1 DEF ExecInv, TypeOK, Registration
    <3>3. EmptyWhenDown'
      BY <2>1 DEF ExecInv, EmptyWhenDown, execVars
    <3>4. Registration'
      BY <2>1, <3>2 DEF ExecInv, Registration, execVars, TypeOK
    <3>5. SlotHeldWhileExecuting'
      BY <2>1, <3>2 DEF ExecInv, SlotHeldWhileExecuting, execVars, Live
    <3>6. Silence'
      BY <2>1, <3>2 DEF ExecInv, Silence, execVars, abortVars
    <3> QED BY <1>t, <3>3, <3>4, <3>5, <3>6 DEF ExecInv
  <2> QED BY <1>5, <2>2, <2>3 DEF SubmitVisitorMessage
<1>6. ASSUME NEW g \in Agents, ClaimSession(s, g) PROVE ExecInv'
  BY <1>6, <1>t, CancelExec DEF ClaimSession
<1>7. ASSUME NEW g \in Agents, CloseSession(s, g) PROVE ExecInv'
  BY <1>7, <1>t, CancelExec DEF CloseSession
<1>8. ASSUME NEW g \in Agents, NEW r \in Requests, SendAgentMessage(s, g, r) PROVE ExecInv'
  BY <1>8, <1>t, ExecFrame DEF SendAgentMessage, execInvVars, drainVars
<1> QED BY <1>1, <1>2, <1>3, <1>4, <1>5, <1>6, <1>7, <1>8

LEMMA AppStepExec == ExecInv /\ AppStep => ExecInv'
<1> SUFFICES ASSUME ExecInv, AppStep PROVE ExecInv'
  OBVIOUS
<1>1. UNCHANGED execInvVars
  BY DEF AppStep, SetEnabled, SetLimit, execInvVars, memVars, drainVars, procVars
<1> QED BY <1>1, AppStepTypeOK, ExecFrame DEF ExecInv

LEMMA DrainStepExec == ExecInv /\ RowsInv /\ DrainStep => ExecInv'
<1> SUFFICES ASSUME ExecInv, RowsInv, DrainStep PROVE ExecInv'
  OBVIOUS
<1>t. TypeOK /\ TypeOK'
  BY DrainStepTypeOK DEF ExecInv
<1> USE DEF dbVars, drainVars, procVars
<1>1. CASE StartDrain \/ ListQueuedApps \/ EndDrain
  <2>1. UNCHANGED <<phase, taken, status, execVars, abortVars>>
    BY <1>1 DEF StartDrain, ListQueuedApps, EndDrain
  <2>2. draining # "registering" /\ draining' # "registering" /\ phase \notin {"down", "recovering"}
    BY <1>1 DEF StartDrain, ListQueuedApps, EndDrain, ExecInv, EmptyWhenDown
  <2>3. awaited' = awaited /\ awaited = None
    BY <1>1 DEF StartDrain, ListQueuedApps, EndDrain, ExecInv, Registration
  <2> QED BY <2>1, <2>2, <2>3, <1>t DEF ExecInv, EmptyWhenDown, Registration, SlotHeldWhileExecuting,
                                  Silence, execVars, abortVars
<1>2. CASE LoseDispatchLock
  <2>1. UNCHANGED <<draining, awaited, taken, status, exec, timer, abortVars>> /\ phase' = "lost"
    BY <1>2 DEF LoseDispatchLock
  <2>2. \A t \in TaskIds : ~publishAllowed'[t]
    BY <1>2 DEF LoseDispatchLock
  <2> QED BY <2>1, <2>2, <1>t DEF ExecInv, EmptyWhenDown, Registration, SlotHeldWhileExecuting, Silence
<1>3. ASSUME NEW a \in Apps, NEW k \in 0..lastTask, TakeTasks(a, k) PROVE ExecInv'
  <2>1. /\ UNCHANGED <<phase, execVars, abortVars, awaited>>
        /\ draining = "dispatching" /\ taken = {} /\ awaited = None
    BY <1>3 DEF TakeTasks, ExecInv, Registration
  <2>2. phase \notin {"down", "recovering"}
    BY <2>1 DEF ExecInv, EmptyWhenDown
  <2>3. CASE status' = status /\ taken' = taken /\ draining' = "idle"
    BY <2>1, <2>2, <2>3, <1>t DEF ExecInv, EmptyWhenDown, Registration, SlotHeldWhileExecuting,
                                  Silence, execVars, abortVars
  <2>4. CASE /\ status' = TakeStatus(a, k)
             /\ \/ taken' = Selected(a, k) /\ draining' = "registering"
                \/ taken' = {} /\ draining' = "idle"
    <3>1. \A t \in TaskIds :
            \/ status'[t] = status[t]
            \/ (status[t] = "queued" /\ status'[t] \in {"running", "expired", "cancelled"})
      BY <2>4, TakeStatusRows
    <3>2. \A t \in Selected(a, k) : t \in TaskIds /\ status[t] = "queued" /\ status'[t] = "running"
      <4>1. Selected(a, k) \subseteq TaskIds
        BY <1>t, TakeStatusType
      <4>2. \A t \in Selected(a, k) : status[t] = "queued"
        BY DEF Selected, Eligible, TasksOf
      <4>3. \A t \in Selected(a, k) : status'[t] = "running"
        BY <2>4, <4>1 DEF TakeStatus
      <4> QED BY <4>1, <4>2, <4>3
    <3>3. \A t \in Selected(a, k) : exec[t] = "none"
      BY <3>2 DEF ExecInv, Registration
    <3>4. EmptyWhenDown'
      BY <2>1, <2>2 DEF EmptyWhenDown
    <3>5. Registration'
      BY <2>1, <2>4, <3>1, <3>2, <3>3 DEF ExecInv, Registration, execVars, Occupied
    <3>6. SlotHeldWhileExecuting'
      BY <2>1, <3>1 DEF ExecInv, SlotHeldWhileExecuting, Registration, execVars, Occupied, Live
    <3>7. Silence'
      BY <2>1, <3>1 DEF ExecInv, Silence, Registration, execVars, abortVars
    <3> QED BY <1>t, <3>4, <3>5, <3>6, <3>7 DEF ExecInv
  <2> QED BY <1>3, <2>1, <2>3, <2>4 DEF TakeTasks
<1>4. CASE RegisterTasks
  <2>1. /\ UNCHANGED <<phase, awaited, status, abortVars>>
        /\ draining = "registering" /\ draining' = "dispatching" /\ taken' = {} /\ awaited = None
    BY <1>4 DEF RegisterTasks, ExecInv, Registration
  <2>2. phase \notin {"down", "recovering"}
    BY <2>1 DEF ExecInv, EmptyWhenDown
  <2>3. \A t \in TaskIds \ taken : /\ exec'[t] = exec[t] /\ timer'[t] = timer[t]
                                   /\ publishAllowed'[t] = publishAllowed[t]
    BY <1>4 DEF RegisterTasks
  <2>4. \A t \in taken : t \in TaskIds /\ status[t] \in Occupied /\ timer[t] = "off"
    BY <1>t DEF ExecInv, Registration, Silence, TypeOK, Live
  <2>5. \A t \in taken : \/ exec'[t] = "finishing" /\ timer'[t] = timer[t]
                         \/ exec'[t] = "starting" /\ timer'[t] = "armed"
    BY <1>4, <2>4 DEF RegisterTasks
  <2>6. EmptyWhenDown'
    BY <2>1, <2>2 DEF EmptyWhenDown
  <2>7. Registration'
    BY <2>1, <2>3, <2>4, <2>5 DEF ExecInv, Registration, Occupied
  <2>8. SlotHeldWhileExecuting'
    BY <2>1, <2>3, <2>4 DEF ExecInv, SlotHeldWhileExecuting
  <2>9. Silence'
    BY <2>1, <2>3, <2>4, <2>5 DEF ExecInv, Silence, Live, abortVars
  <2> QED BY <1>t, <2>6, <2>7, <2>8, <2>9 DEF ExecInv
<1> QED BY <1>1, <1>2, <1>3, <1>4 DEF DrainStep

\* A step of one task that changes no row of another: the memory of the others
\* stays as it is.
LEMMA TaskStepExec == ExecInv /\ TaskStep => ExecInv'
<1> SUFFICES ASSUME ExecInv, NEW t \in TaskIds,
                    \/ AbortTask(t) \/ RetryFinalizer(t) \/ ExecutorStep(t) \/ Timeout(t)
                    \/ MarkTimedOut(t) \/ FinishFails(t) \/ RecoverTask(t)
             PROVE  ExecInv'
  BY DEF TaskStep
<1>t. TypeOK /\ TypeOK'
  BY TaskStepTypeOK DEF ExecInv, TaskStep
<1> USE DEF dbVars, drainVars, procVars, abortVars
<1>e. ASSUME exec[t] # "none"
      PROVE  /\ phase \notin {"down", "recovering"} /\ t \notin taken
             /\ status[t] \notin {"none", "queued"}
  BY <1>e DEF ExecInv, EmptyWhenDown, Registration
<1>q. ASSUME UNCHANGED <<phase, draining, awaited, taken, status, abortVars>>, exec[t] # "none",
             exec[t] \in Live \cup {"closing"} \/ exec'[t] \notin Live \cup {"closing"},
             \A u \in TaskIds \ {t} : /\ exec'[u] = exec[u] /\ timer'[u] = timer[u]
                                      /\ publishAllowed'[u] = publishAllowed[u],
             /\ exec'[t] \in {"checked", "streaming"} /\ publishAllowed'[t] /\ status[t] # "running"
                  => t \in toAbort \cup missedAbort,
             timer'[t] = "marking" => ~publishAllowed'[t],
             timer'[t] # "off" => exec'[t] \in Live \cup {"closing"}
      PROVE  ExecInv'
  <2>1. EmptyWhenDown'
    BY <1>q, <1>e DEF EmptyWhenDown
  <2>2. Registration'
    BY <1>q, <1>e, <1>t DEF ExecInv, Registration, TypeOK
  <2>3. SlotHeldWhileExecuting'
    BY <1>q DEF ExecInv, SlotHeldWhileExecuting
  <2>4. Silence'
    BY <1>q DEF ExecInv, Silence
  <2> QED BY <1>t, <2>1, <2>2, <2>3, <2>4 DEF ExecInv
<1>c. ASSUME NEW failed \in BOOLEAN, NEW publish \in BOOLEAN, Close(t, failed, publish),
             exec[t] \in Live, publish => publishAllowed[t],
             UNCHANGED <<phase, draining, awaited, taken, status, abortVars>>
      PROVE  ExecInv'
  <2>1. /\ exec'[t] \in {"closing", "finishing"} /\ publishAllowed'[t] = publish
        /\ timer'[t] = IF timer[t] = "marking" THEN "marking" ELSE "off"
        /\ timer[t] = "marking" => exec'[t] = "closing"
    BY <1>c, <1>t DEF Close, TypeOK
  <2>2. \A u \in TaskIds \ {t} : /\ exec'[u] = exec[u] /\ timer'[u] = timer[u]
                                 /\ publishAllowed'[u] = publishAllowed[u]
    BY <1>c, <1>t DEF Close, TypeOK
  <2>3. timer'[t] = "marking" => ~publishAllowed'[t]
    BY <1>c, <2>1 DEF ExecInv, Silence
  <2> QED BY <1>c, <1>q, <2>1, <2>2, <2>3 DEF Live
<1>1. CASE AbortTask(t)
  <2>1. /\ UNCHANGED <<phase, draining, awaited, taken, status, exec, timer, missedAbort>>
        /\ toAbort' = toAbort \ {t} /\ ~publishAllowed'[t]
        /\ \A u \in TaskIds \ {t} : publishAllowed'[u] = publishAllowed[u]
    BY <1>1, <1>t DEF AbortTask, TypeOK
  <2> QED BY <2>1, <1>t DEF ExecInv, EmptyWhenDown, Registration, SlotHeldWhileExecuting, Silence
<1>2. CASE RetryFinalizer(t)
  <2>1. /\ UNCHANGED <<phase, draining, taken, status, publishAllowed, timer, abortVars>>
        /\ draining = "finalizers" /\ exec[t] = "pending" /\ exec'[t] = "finishing"
        /\ \A u \in TaskIds \ {t} : exec'[u] = exec[u]
    BY <1>2, <1>t DEF RetryFinalizer, TypeOK
  <2>2. EmptyWhenDown'
    BY <2>1, <1>e DEF EmptyWhenDown
  <2>3. Registration'
    BY <2>1, <1>e, <1>t DEF ExecInv, Registration, TypeOK
  <2>4. SlotHeldWhileExecuting'
    BY <2>1 DEF ExecInv, SlotHeldWhileExecuting, Live
  <2>5. Silence'
    BY <2>1 DEF ExecInv, Silence, Live
  <2> QED BY <1>t, <2>2, <2>3, <2>4, <2>5 DEF ExecInv
<1>r. ASSUME NEW ok \in BOOLEAN, NEW next \in {"checked", "streaming"}, ReadThen(t, ok, next),
             exec[t] \in Live, ok => status[t] = "running" \/ exec[t] = "checked"
      PROVE  ExecInv'
  <2>1. UNCHANGED <<phase, draining, awaited, taken, status, abortVars>>
    BY <1>r DEF ReadThen
  <2>2. CASE ok
    <3>1. /\ exec'[t] = next /\ UNCHANGED <<publishAllowed, timer>>
          /\ \A u \in TaskIds \ {t} : exec'[u] = exec[u]
      BY <1>r, <1>t, <2>2 DEF ReadThen, Proceed, TypeOK
    <3>2. /\ exec'[t] \in {"checked", "streaming"} /\ publishAllowed'[t] /\ status[t] # "running"
               => t \in toAbort \cup missedAbort
      BY <1>r, <2>2, <3>1 DEF ExecInv, Silence
    <3>3. timer'[t] = "marking" => ~publishAllowed'[t]
      BY <3>1 DEF ExecInv, Silence
    <3> QED BY <1>q, <1>r, <2>1, <3>1, <3>2, <3>3 DEF Live
  <2>3. CASE ~ok
    <3>1. Close(t, TRUE, FALSE)
      BY <1>r, <2>3 DEF ReadThen
    <3> QED BY <1>c, <1>r, <2>1, <3>1
  <2> QED BY <2>2, <2>3
<1>3. CASE ReadAppAndTask(t)
  <2>1. PICK ok \in BOOLEAN : ReadThen(t, ok, "checked") /\ (ok => status[t] = "running")
    BY <1>3 DEF ReadAppAndTask
  <2> QED BY <1>3, <2>1, <1>r DEF ReadAppAndTask, Live
<1>4. CASE ReadSession(t)
  <2>1. PICK ok \in BOOLEAN : ReadThen(t, ok, "streaming")
    BY <1>4 DEF ReadSession, IsCurrent
  <2> QED BY <1>4, <2>1, <1>r DEF ReadSession, Live
<1>5. CASE StreamDone(t)
  BY <1>5, <1>c DEF StreamDone, Live
<1>6. CASE ExecuteFails(t)
  <2>1. publishAllowed[t] \in BOOLEAN
    BY <1>t DEF TypeOK
  <2> QED BY <1>6, <1>c, <2>1 DEF ExecuteFails
<1>7. CASE Timeout(t)
  <2>1. /\ UNCHANGED <<phase, draining, awaited, taken, status, exec, abortVars>>
        /\ exec[t] \in Live /\ ~publishAllowed'[t]
        /\ \A u \in TaskIds \ {t} : timer'[u] = timer[u] /\ publishAllowed'[u] = publishAllowed[u]
    BY <1>7, <1>t DEF Timeout, TypeOK
  <2> QED BY <1>q, <2>1 DEF Live
<1>8. CASE MarkTimedOut(t)
  <2>1. /\ UNCHANGED <<phase, draining, awaited, taken, publishAllowed, abortVars>>
        /\ timer[t] = "marking" /\ timer'[t] = "off"
        /\ exec'[t] = IF exec[t] = "closing" THEN "finishing" ELSE exec[t]
        /\ \A u \in TaskIds \ {t} :
             timer'[u] = timer[u] /\ exec'[u] = exec[u] /\ status'[u] = status[u]
        /\ status'[t] = status[t] \/ (status[t] = "running" /\ status'[t] = "cancelling")
    BY <1>8, <1>t DEF MarkTimedOut, TypeOK
  <2>2. exec[t] \in Live \cup {"closing"} /\ ~publishAllowed[t]
    BY <2>1 DEF ExecInv, Silence
  <2>3. exec[t] # "none" /\ status[t] \in Occupied
    BY <2>2 DEF ExecInv, SlotHeldWhileExecuting, Live
  <2>4. EmptyWhenDown'
    BY <2>1, <2>3, <1>e DEF EmptyWhenDown
  <2>5. Registration'
    <3>1. \A u \in TaskIds : status'[u] \in {"none", "queued"} => exec'[u] = "none" /\ u \notin taken'
      BY <2>1, <2>3, <1>e DEF ExecInv, Registration, Occupied
    <3>2. \A u \in taken' : exec'[u] = "none" /\ status'[u] \in Occupied
      BY <2>1, <2>3, <1>e, <1>t DEF ExecInv, Registration, TypeOK, Occupied
    <3>3. /\ draining' # "registering" => taken' = {}
          /\ awaited' # None => draining' = "finalizers"
      BY <2>1, <2>3, <1>e DEF ExecInv, Registration
    <3> QED BY <3>1, <3>2, <3>3 DEF Registration
  <2>6. SlotHeldWhileExecuting'
    BY <2>1, <2>3 DEF ExecInv, SlotHeldWhileExecuting, Occupied
  <2>7. Silence'
    BY <2>1, <2>2 DEF ExecInv, Silence
  <2> QED BY <1>t, <2>4, <2>5, <2>6, <2>7 DEF ExecInv
<1>m. ASSUME FinishCommit(t), status[t] \notin {"none", "queued"}
      PROVE  /\ status'[t] \notin {"none", "queued"}
             /\ \A u \in TaskIds \ {t} : status'[u] = status[u]
  <2>1. FinishStatus(t) \notin {"none", "queued"}
    BY DEF FinishStatus
  <2>2. CASE status[t] \in Occupied
    BY <1>m, <1>t, <2>1, <2>2 DEF FinishCommit, TypeOK
  <2>3. CASE status[t] \notin Occupied
    BY <1>m, <2>3 DEF FinishCommit
  <2> QED BY <2>2, <2>3
<1>9. CASE FinishTask(t)
  <2>1. /\ UNCHANGED <<phase, draining, taken, timer>> /\ awaited' \in {None, awaited}
        /\ exec[t] = "finishing" /\ exec'[t] = "none" /\ ~publishAllowed'[t]
        /\ toAbort' = toAbort \ {t} /\ missedAbort' = missedAbort \ {t}
        /\ \A u \in TaskIds \ {t} : exec'[u] = exec[u] /\ publishAllowed'[u] = publishAllowed[u]
    BY <1>9, <1>t DEF FinishTask, TypeOK
  <2>2. timer[t] = "off"
    BY <2>1 DEF ExecInv, Silence, Live
  <2>3. status'[t] \notin {"none", "queued"} /\ \A u \in TaskIds \ {t} : status'[u] = status[u]
    BY <1>9, <2>1, <1>e, <1>m DEF FinishTask
  <2>4. EmptyWhenDown'
    BY <2>1, <1>e DEF EmptyWhenDown
  <2>5. Registration'
    <3>1. \A u \in TaskIds : status'[u] \in {"none", "queued"} => exec'[u] = "none" /\ u \notin taken'
      BY <2>1, <2>3, <1>e DEF ExecInv, Registration
    <3>2. \A u \in taken' : exec'[u] = "none" /\ status'[u] \in Occupied
      BY <2>1, <2>3, <1>e, <1>t DEF ExecInv, Registration, TypeOK
    <3>3. /\ draining' # "registering" => taken' = {}
          /\ awaited' # None => draining' = "finalizers"
      BY <2>1, <2>3, <1>e DEF ExecInv, Registration
    <3> QED BY <3>1, <3>2, <3>3 DEF Registration
  <2>6. SlotHeldWhileExecuting'
    BY <2>1, <2>3 DEF ExecInv, SlotHeldWhileExecuting, Live
  <2>7. Silence'
    BY <2>1, <2>2, <2>3 DEF ExecInv, Silence
  <2> QED BY <1>t, <2>4, <2>5, <2>6, <2>7 DEF ExecInv
<1>10. CASE FinishFails(t)
  <2>1. /\ UNCHANGED <<phase, taken, publishAllowed, timer, abortVars>>
        /\ exec[t] = "finishing" /\ exec'[t] = "pending"
        /\ \A u \in TaskIds \ {t} : exec'[u] = exec[u]
    BY <1>10, <1>t DEF FinishFails, Proceed, TypeOK
  <2>2. (awaited = t /\ draining' = "idle" /\ awaited' = None)
        \/ (awaited # t /\ draining' = draining /\ awaited' = awaited)
    BY <1>10 DEF FinishFails
  <2>3. timer[t] = "off"
    BY <2>1 DEF ExecInv, Silence, Live
  <2>4. status'[t] \notin {"none", "queued"} /\ \A u \in TaskIds \ {t} : status'[u] = status[u]
    BY <1>10, <2>1, <1>e, <1>m DEF FinishFails
  <2>5. awaited = t => taken = {}
    BY ConstantsAssumption DEF ExecInv, Registration, ConstantsAssumption, TaskIds
  <2>6. EmptyWhenDown'
    BY <2>1, <1>e DEF EmptyWhenDown
  <2>7. Registration'
    BY <2>1, <2>2, <2>4, <2>5, <1>e, <1>t DEF ExecInv, Registration, TypeOK
  <2>8. SlotHeldWhileExecuting'
    BY <2>1, <2>4 DEF ExecInv, SlotHeldWhileExecuting, Live
  <2>9. Silence'
    BY <2>1, <2>3, <2>4 DEF ExecInv, Silence
  <2> QED BY <1>t, <2>6, <2>7, <2>8, <2>9 DEF ExecInv
<1>11. CASE RecoverTask(t)
  <2>1. UNCHANGED <<phase, draining, awaited, taken, execVars, abortVars>> /\ phase = "recovering"
    BY <1>11 DEF RecoverTask
  <2>2. /\ taken = {} /\ draining = "idle" /\ awaited = None
        /\ \A u \in TaskIds : exec[u] = "none" /\ timer[u] = "off"
    BY <2>1 DEF ExecInv, EmptyWhenDown, Registration
  <2> QED BY <2>1, <2>2, <1>t DEF ExecInv, EmptyWhenDown, Registration, SlotHeldWhileExecuting,
                                  Silence, execVars, Live
<1> QED BY <1>1, <1>2, <1>3, <1>4, <1>5, <1>6, <1>7, <1>8, <1>9, <1>10, <1>11 DEF ExecutorStep

LEMMA ProcessStepExec == ExecInv /\ ProcessStep => ExecInv'
<1> SUFFICES ASSUME ExecInv, ProcessStep PROVE ExecInv'
  OBVIOUS
<1>t. TypeOK'
  BY ProcessStepTypeOK DEF ExecInv
<1> USE DEF dbVars, drainVars, procVars, abortVars
<1>1. CASE StartProcess \/ BecomeReady \/ BeginShutdown
  <2>1. /\ UNCHANGED <<draining, awaited, taken, status, execVars, abortVars>>
        /\ phase' \in {"down", "recovering"} => phase \in {"down", "recovering"}
    BY <1>1 DEF StartProcess, BecomeReady, BeginShutdown
  <2> QED BY <2>1, <1>t DEF ExecInv, EmptyWhenDown, Registration, SlotHeldWhileExecuting,
                            Silence, execVars
<1>2. CASE Crash \/ Exit
  <2>1. /\ draining' = "idle" /\ awaited' = None /\ taken' = {} /\ status' = status
        /\ \A t \in TaskIds : exec'[t] = "none" /\ timer'[t] = "off"
    BY <1>2 DEF Crash, Exit, EmptyMemory
  <2> QED BY <2>1, <1>t DEF ExecInv, EmptyWhenDown, Registration, SlotHeldWhileExecuting,
                            Silence, Live
<1>3. CASE AbortAll
  <2>1. /\ UNCHANGED <<draining, awaited, taken, status, exec, timer, abortVars>>
        /\ phase' = "aborting" /\ \A t \in TaskIds : ~publishAllowed'[t]
    BY <1>3 DEF AbortAll
  <2> QED BY <2>1, <1>t DEF ExecInv, EmptyWhenDown, Registration, SlotHeldWhileExecuting, Silence
<1> QED BY <1>1, <1>2, <1>3 DEF ProcessStep

LEMMA NextExec == ExecInv /\ RowsInv /\ [Next]_vars => ExecInv'
<1>1. ExecInv /\ UNCHANGED vars => ExecInv'
  <2> SUFFICES ASSUME ExecInv, UNCHANGED vars PROVE ExecInv'
    OBVIOUS
  <2>1. UNCHANGED execInvVars
    BY DEF vars, dbVars, memVars, drainVars, procVars, execInvVars
  <2> QED BY <2>1, NextTypeOK, ExecFrame DEF ExecInv
<1> QED BY <1>1, SessionStepExec, AppStepExec, DrainStepExec, TaskStepExec, ProcessStepExec DEF Next

LEMMA ExecInvariant == Spec => []ExecInv
BY InitExecInv, NextExec, RowsInvariant, PTL DEF Spec

\* No handler, timer or administrator frees the slot of an execution that is
\* still going on: the limit of an application counts real AI work.
THEOREM SlotHeld == Spec => []SlotHeldWhileExecuting
BY ExecInvariant, PTL DEF ExecInv

\* An executor whose task was handed over or cancelled publishes nothing once the
\* abort has reached it, and one that starts late never begins to.
THEOREM SilentExecutor == Spec => []SilentAfterHandover
<1>1. ExecInv => SilentAfterHandover
  BY DEF ExecInv, Silence, SilentAfterHandover
<1> QED BY <1>1, ExecInvariant, PTL

-----------------------------------------------------------------------------
\* What a step may never do.

\* How the rows of tasks move, whichever action moves them.
StatusMoves ==
  \A t \in TaskIds :
    /\ status[t] = "cancelling" => status'[t] \in {"cancelling", "cancelled"}
    /\ status[t] \in Terminal => status'[t] = status[t]

LEMMA CancelMoves == ASSUME TypeOK, NEW s \in Sessions, CancelTasks(s) PROVE StatusMoves
BY DEF StatusMoves, CancelTasks, ActiveTasks, Active, Terminal, TypeOK

LEMMA FinishMoves ==
  ASSUME TypeOK, NEW t \in TaskIds, FinishCommit(t) PROVE StatusMoves
<1>1. status[t] = "cancelling" => FinishStatus(t) = "cancelled"
  BY DEF FinishStatus
<1>2. CASE status[t] \in Occupied
  BY <1>1, <1>2 DEF FinishCommit, StatusMoves, Occupied, Terminal, TypeOK
<1>3. CASE status[t] \notin Occupied
  BY <1>3 DEF FinishCommit, StatusMoves, Occupied, Terminal, TypeOK
<1> QED BY <1>2, <1>3

LEMMA NextMoves == RowsInv /\ [Next]_vars => StatusMoves
<1> SUFFICES ASSUME RowsInv, [Next]_vars PROVE StatusMoves
  OBVIOUS
<1>t. TypeOK
  BY DEF RowsInv
<1>u. CASE status' = status
  BY <1>u DEF StatusMoves
<1>1. CASE SessionStep
  <2>1. PICK s \in Sessions :
          \/ status' = status
          \/ CancelTasks(s)
          \/ \E r \in Requests : SubmitVisitorMessage(s, r)
    BY <1>1 DEF SessionStep, InitSession, RequestHuman, ResumeAi, CancelVisitorTask,
                ClaimSession, CloseSession, SendAgentMessage
  <2>2. ASSUME NEW r \in Requests, SubmitVisitorMessage(s, r) PROVE StatusMoves
    <3>1. CASE /\ lastTask < MaxTasks /\ lastTask' = lastTask + 1
               /\ status' = [status EXCEPT ![lastTask'] = "queued"]
      <4>0. PICK n \in TaskIds : n = lastTask + 1
        BY <3>1, <1>t, ConstantsAssumption DEF TypeOK, TaskIds, ConstantsAssumption
      <4>1. status[n] = "none" /\ \A t \in TaskIds : t # n => status'[t] = status[t]
        BY <3>1, <4>0, <1>t DEF RowsInv, TypeOK, Ledger, LedgerRow
      <4> QED BY <4>0, <4>1 DEF StatusMoves, Terminal
    <3> QED BY <2>2, <3>1, <1>u DEF SubmitVisitorMessage
  <2> QED BY <1>t, <1>u, <2>1, <2>2, CancelMoves
<1>2. CASE AppStep
  BY <1>2, <1>u DEF AppStep, SetEnabled, SetLimit
<1>3. CASE DrainStep
  <2>1. ASSUME NEW a \in Apps, NEW k \in 0..lastTask, status' = TakeStatus(a, k)
        PROVE  StatusMoves
    <3>1. \A t \in TaskIds : status'[t] = status[t] \/ status[t] = "queued"
      BY <2>1, TakeStatusRows
    <3> QED BY <3>1 DEF StatusMoves, Terminal
  <2> QED BY <1>3, <1>u, <2>1 DEF DrainStep, StartDrain, LoseDispatchLock, ListQueuedApps,
                                  TakeTasks, RegisterTasks, EndDrain, dbVars
<1>4. CASE TaskStep
  <2>1. PICK t \in TaskIds :
          \/ status' = status \/ FinishCommit(t)
          \/ status' = [status EXCEPT ![t] = IF @ = "running" THEN "cancelling" ELSE @]
          \/ status' = [status EXCEPT ![t] = RecoveredStatus(t)]
    BY <1>4 DEF TaskStep, ExecutorStep, AbortTask, RetryFinalizer, ReadAppAndTask, ReadSession,
                ReadThen, StreamDone, ExecuteFails, FinishTask, Timeout, MarkTimedOut,
                FinishFails, RecoverTask, dbVars
  <2>2. CASE status' = [status EXCEPT ![t] = IF @ = "running" THEN "cancelling" ELSE @]
    BY <2>2, <1>t DEF StatusMoves, Terminal, TypeOK
  <2>3. CASE status' = [status EXCEPT ![t] = RecoveredStatus(t)]
    BY <2>3, <1>t DEF StatusMoves, RecoveredStatus, Terminal, TypeOK
  <2> QED BY <1>t, <1>u, <2>1, <2>2, <2>3, FinishMoves
<1>5. CASE ProcessStep
  BY <1>5, <1>u DEF ProcessStep, StartProcess, BecomeReady, Crash, BeginShutdown, AbortAll, Exit,
                    dbVars
<1>6. CASE UNCHANGED vars
  BY <1>6, <1>u DEF vars, dbVars
<1> QED BY <1>1, <1>2, <1>3, <1>4, <1>5, <1>6 DEF Next

\* A cancellation beats the answer, the timeout and the restart; an ended task
\* stays as it ended.
THEOREM CancellationFinal == Spec => CancellationWins
<1>1. RowsInv /\ [Next]_vars => [StatusMoves]_vars
  BY NextMoves
<1>2. Spec => [][StatusMoves]_vars
  BY <1>1, RowsInvariant, PTL DEF Spec
<1> QED BY <1>2 DEF CancellationWins, StatusMoves

\* Only the finalizer writes AI messages.
MessageMoves ==
  \A t \in TaskIds : aiMessages'[t] # aiMessages[t] => IsCurrent(t) /\ publishAllowed[t]

LEMMA FinishMessage ==
  ASSUME TypeOK, NEW t \in TaskIds, FinishCommit(t) PROVE MessageMoves
<1>1. FinishStatus(t) = "completed" => IsCurrent(t) /\ publishAllowed[t]
  BY DEF FinishStatus
<1>2. CASE status[t] \in Occupied
  BY <1>1, <1>2 DEF FinishCommit, MessageMoves, TypeOK
<1>3. CASE status[t] \notin Occupied
  BY <1>3 DEF FinishCommit, MessageMoves
<1> QED BY <1>2, <1>3

LEMMA NextMessages == TypeOK /\ [Next]_vars => MessageMoves
<1> SUFFICES ASSUME TypeOK, [Next]_vars PROVE MessageMoves
  OBVIOUS
<1> USE DEF messageVars, dbVars
<1>1. aiMessages' = aiMessages \/ \E t \in TaskIds : FinishCommit(t)
  <2>1. CASE SessionStep
    BY <2>1 DEF SessionStep, InitSession, SubmitVisitorMessage, RequestHuman, ResumeAi,
                CancelVisitorTask, ClaimSession, CloseSession, SendAgentMessage
  <2>2. CASE AppStep
    BY <2>2 DEF AppStep, SetEnabled, SetLimit
  <2>3. CASE DrainStep
    BY <2>3 DEF DrainStep, StartDrain, LoseDispatchLock, ListQueuedApps, TakeTasks,
                RegisterTasks, EndDrain
  <2>4. CASE TaskStep
    BY <2>4 DEF TaskStep, ExecutorStep, AbortTask, RetryFinalizer, ReadAppAndTask, ReadSession,
                ReadThen, StreamDone, ExecuteFails, FinishTask, Timeout, MarkTimedOut,
                FinishFails, RecoverTask
  <2>5. CASE ProcessStep
    BY <2>5 DEF ProcessStep, StartProcess, BecomeReady, Crash, BeginShutdown, AbortAll, Exit
  <2>6. CASE UNCHANGED vars
    BY <2>6 DEF vars
  <2> QED BY <2>1, <2>2, <2>3, <2>4, <2>5, <2>6 DEF Next
<1>2. aiMessages' = aiMessages => MessageMoves
  BY DEF MessageMoves
<1> QED BY <1>1, <1>2, FinishMessage

\* No AI message reaches a conversation a person has taken, or that has moved on
\* in any way since the question, nor one whose execution was aborted.
THEOREM NoAnswerTooLate == Spec => NoLateAnswer
<1>1. TypeOK /\ [Next]_vars => [MessageMoves]_vars
  BY NextMessages
<1>2. Spec => [][MessageMoves]_vars
  BY <1>1, TypeCorrect, PTL DEF Spec
<1> QED BY <1>2 DEF NoLateAnswer, MessageMoves

\* Whoever serves a session is known.
ServedBySomebody ==
  \A s \in Sessions : serviceStatus[s] = "human" => assignedAgent[s] # None

AgentMoves ==
  \A s \in Sessions :
    serviceStatus[s] = "human" =>
      /\ serviceStatus'[s] \in {"human", "closed"}
      /\ assignedAgent'[s] = assignedAgent[s]

LEMMA NextAgents ==
  TypeOK /\ ServedBySomebody /\ [Next]_vars => ServedBySomebody' /\ AgentMoves
<1> SUFFICES ASSUME TypeOK, ServedBySomebody, [Next]_vars PROVE ServedBySomebody' /\ AgentMoves
  OBVIOUS
<1> USE DEF dbVars, sessionVars
<1>u. UNCHANGED <<serviceStatus, assignedAgent>> => ServedBySomebody' /\ AgentMoves
  BY DEF ServedBySomebody, AgentMoves
<1>1. CASE SessionStep
  <2>1. PICK s \in Sessions :
          \/ InitSession(s) \/ RequestHuman(s) \/ ResumeAi(s)
          \/ CancelVisitorTask(s)
          \/ \E r \in Requests : SubmitVisitorMessage(s, r)
          \/ \E g \in Agents :
               \/ ClaimSession(s, g) \/ CloseSession(s, g)
               \/ \E r \in Requests : SendAgentMessage(s, g, r)
    BY <1>1 DEF SessionStep
  <2>2. CASE InitSession(s) \/ RequestHuman(s) \/ ResumeAi(s)
    BY <2>2 DEF InitSession, RequestHuman, ResumeAi, TypeOK, ServedBySomebody, AgentMoves
  <2>3. CASE CancelVisitorTask(s)
    BY <2>3, <1>u DEF CancelVisitorTask
  <2>4. ASSUME NEW r \in Requests, SubmitVisitorMessage(s, r)
        PROVE  ServedBySomebody' /\ AgentMoves
    BY <2>4, <1>u DEF SubmitVisitorMessage
  <2>5. ASSUME NEW g \in Agents, ClaimSession(s, g) PROVE ServedBySomebody' /\ AgentMoves
    <3>1. g # None
      BY ConstantsAssumption DEF ConstantsAssumption
    <3>2. serviceStatus[s] # "human"
      BY <2>5 DEF ClaimSession, ClaimableBy, ServedBySomebody
    <3> QED BY <2>5, <3>1, <3>2 DEF ClaimSession, TypeOK, ServedBySomebody, AgentMoves
  <2>6. ASSUME NEW g \in Agents, CloseSession(s, g) PROVE ServedBySomebody' /\ AgentMoves
    BY <2>6 DEF CloseSession, Assigned, TypeOK, ServedBySomebody, AgentMoves
  <2>7. ASSUME NEW g \in Agents, NEW r \in Requests, SendAgentMessage(s, g, r)
        PROVE  ServedBySomebody' /\ AgentMoves
    BY <2>7, <1>u DEF SendAgentMessage
  <2> QED BY <2>1, <2>2, <2>3, <2>4, <2>5, <2>6, <2>7
<1>2. CASE AppStep
  BY <1>2, <1>u DEF AppStep, SetEnabled, SetLimit
<1>3. CASE DrainStep
  BY <1>3, <1>u DEF DrainStep, StartDrain, LoseDispatchLock, ListQueuedApps, TakeTasks,
                    RegisterTasks, EndDrain
<1>4. CASE TaskStep
  BY <1>4, <1>u DEF TaskStep, ExecutorStep, AbortTask, RetryFinalizer, ReadAppAndTask, ReadSession,
                    ReadThen, StreamDone, ExecuteFails, FinishTask, Timeout, MarkTimedOut,
                    FinishFails, RecoverTask
<1>5. CASE ProcessStep
  BY <1>5, <1>u DEF ProcessStep, StartProcess, BecomeReady, Crash, BeginShutdown, AbortAll, Exit
<1>6. CASE UNCHANGED vars
  BY <1>6, <1>u DEF vars
<1> QED BY <1>1, <1>2, <1>3, <1>4, <1>5, <1>6 DEF Next

\* A claimed conversation can be neither claimed away nor taken back by the visitor.
THEOREM AgentExclusive == Spec => AgentKeepsSession
<1>1. Init => ServedBySomebody
  BY DEF Init, ServedBySomebody
<1>2. TypeOK /\ ServedBySomebody /\ [Next]_vars => ServedBySomebody' /\ [AgentMoves]_vars
  BY NextAgents
<1>3. Spec => [][AgentMoves]_vars
  BY <1>1, <1>2, TypeCorrect, PTL DEF Spec
<1> QED BY <1>3 DEF AgentKeepsSession, AgentMoves

-----------------------------------------------------------------------------
\* No slot is lost while the process serves, if no commit of the dispatcher loses
\* its reply (a task committed as running then never gets an executor).

SlotInv ==
  /\ SlotHasExecutor
  /\ phase = "recovering" => Interrupted \subseteq interrupted

LEMMA SessionStepSlots == RowsInv /\ SlotInv /\ SessionStep => SlotInv'
<1> SUFFICES ASSUME RowsInv, SlotInv, SessionStep PROVE SlotInv'
  OBVIOUS
<1>t. TypeOK
  BY DEF RowsInv
<1>1. UNCHANGED <<phase, interrupted, exec, taken>>
  BY DEF SessionStep, InitSession, SubmitVisitorMessage, RequestHuman, ResumeAi,
         CancelVisitorTask, ClaimSession, CloseSession, SendAgentMessage, memVars, drainVars,
         execVars, procVars
<1>2. \A t \in TaskIds : status'[t] \in Occupied => status[t] \in Occupied
  <2>1. PICK s \in Sessions :
          \/ status' = status
          \/ CancelTasks(s)
          \/ \E r \in Requests : SubmitVisitorMessage(s, r)
    BY DEF SessionStep, InitSession, RequestHuman, ResumeAi, CancelVisitorTask,
           ClaimSession, CloseSession, SendAgentMessage
  <2>2. CASE CancelTasks(s)
    BY <2>2, <1>t DEF CancelTasks, ActiveTasks, Active, Occupied, TypeOK
  <2>3. ASSUME NEW r \in Requests, SubmitVisitorMessage(s, r),
               NEW t \in TaskIds, status'[t] \in Occupied
        PROVE  status[t] \in Occupied
    BY <2>3, <1>t DEF SubmitVisitorMessage, Occupied, TypeOK
  <2> QED BY <2>1, <2>2, <2>3
<1> QED BY <1>1, <1>2 DEF SlotInv, SlotHasExecutor, Serving, Interrupted

LEMMA DrainStepSlots ==
  ASSUME "take" \notin Faults, ExecInv, SlotInv, DrainStep
  PROVE  SlotInv'
<1>t. TypeOK
  BY DEF ExecInv
<1> USE DEF dbVars, drainVars, procVars
<1>1. CASE StartDrain \/ ListQueuedApps \/ EndDrain
  BY <1>1 DEF StartDrain, ListQueuedApps, EndDrain, execVars, SlotInv, SlotHasExecutor, Serving,
              Interrupted
<1>2. CASE LoseDispatchLock
  BY <1>2 DEF LoseDispatchLock, SlotInv, SlotHasExecutor, Serving, Interrupted
<1>3. ASSUME NEW a \in Apps, NEW k \in 0..lastTask, TakeTasks(a, k) PROVE SlotInv'
  <2>1. UNCHANGED <<phase, interrupted, exec>> /\ taken = {} /\ draining # "idle"
    BY <1>3 DEF TakeTasks, execVars, ExecInv, Registration
  <2>2. phase # "recovering"
    BY <2>1 DEF ExecInv, EmptyWhenDown
  <2>3. CASE UNCHANGED <<status, taken>>
    BY <2>1, <2>2, <2>3 DEF SlotInv, SlotHasExecutor, Serving
  <2>4. CASE status' = TakeStatus(a, k) /\ taken' = Selected(a, k)
    <3>1. \A t \in TaskIds : status'[t] \in Occupied => status[t] \in Occupied \/ t \in taken'
      BY <2>4, <1>t DEF TakeStatus, Occupied, TypeOK
    <3> QED BY <2>1, <2>2, <3>1 DEF SlotInv, SlotHasExecutor, Serving
  <2> QED BY <1>3, <2>3, <2>4 DEF TakeTasks, Fault
<1>4. CASE RegisterTasks
  <2>1. UNCHANGED <<status, phase, interrupted>>
    BY <1>4 DEF RegisterTasks
  <2>2. \A t \in TaskIds : exec[t] # "none" \/ t \in taken => exec'[t] # "none"
    BY <1>4 DEF RegisterTasks
  <2> QED BY <2>1, <2>2 DEF SlotInv, SlotHasExecutor, Serving, Interrupted
<1> QED BY <1>1, <1>2, <1>3, <1>4 DEF DrainStep

LEMMA TaskStepSlots == ExecInv /\ SlotInv /\ TaskStep => SlotInv'
<1> SUFFICES ASSUME ExecInv, SlotInv, NEW t \in TaskIds,
                    \/ AbortTask(t) \/ RetryFinalizer(t) \/ ExecutorStep(t) \/ Timeout(t)
                    \/ MarkTimedOut(t) \/ FinishFails(t) \/ RecoverTask(t)
             PROVE  SlotInv'
  BY DEF TaskStep
<1>t. TypeOK
  BY DEF ExecInv
<1> USE DEF dbVars, drainVars, procVars
<1>e. exec[t] # "none" => phase \notin {"down", "recovering"}
  BY DEF ExecInv, EmptyWhenDown
<1>q. ASSUME UNCHANGED <<phase, taken>>, exec[t] # "none",
             \A u \in TaskIds \ {t} : exec'[u] = exec[u] /\ status'[u] = status[u],
             exec'[t] = "none" => status'[t] \notin Occupied
      PROVE  SlotInv'
  BY <1>e, <1>q DEF SlotInv, SlotHasExecutor, Serving
<1>1. CASE AbortTask(t)
  BY <1>1 DEF AbortTask, SlotInv, SlotHasExecutor, Serving, Interrupted
<1>2. CASE RetryFinalizer(t)
  BY <1>2, <1>q, <1>t DEF RetryFinalizer, TypeOK
<1>r. ASSUME NEW ok \in BOOLEAN, NEW next \in Live, ReadThen(t, ok, next), exec[t] # "none"
      PROVE  SlotInv'
  <2>1. /\ UNCHANGED <<phase, taken, status>> /\ exec'[t] # "none"
        /\ \A u \in TaskIds \ {t} : exec'[u] = exec[u]
    BY <1>r, <1>t DEF ReadThen, Proceed, Close, Live, TypeOK
  <2> QED BY <1>q, <1>r, <2>1
<1>3. CASE ReadAppAndTask(t)
  <2>1. PICK ok \in BOOLEAN : ReadThen(t, ok, "checked")
    BY <1>3 DEF ReadAppAndTask
  <2> QED BY <1>3, <2>1, <1>r DEF ReadAppAndTask, Live
<1>4. CASE ReadSession(t)
  <2>1. PICK ok \in BOOLEAN : ReadThen(t, ok, "streaming")
    BY <1>4 DEF ReadSession, IsCurrent
  <2> QED BY <1>4, <2>1, <1>r DEF ReadSession, Live
<1>5. CASE StreamDone(t) \/ ExecuteFails(t)
  <2>1. /\ UNCHANGED <<phase, taken, status>> /\ exec'[t] # "none" /\ exec[t] # "none"
        /\ \A u \in TaskIds \ {t} : exec'[u] = exec[u]
    BY <1>5, <1>t DEF StreamDone, ExecuteFails, Close, Live, TypeOK
  <2> QED BY <1>q, <2>1
<1>6. CASE Timeout(t)
  BY <1>6 DEF Timeout, SlotInv, SlotHasExecutor, Serving, Interrupted
<1>7. CASE MarkTimedOut(t)
  <2>1. /\ UNCHANGED <<phase, taken>> /\ timer[t] = "marking"
        /\ exec'[t] = IF exec[t] = "closing" THEN "finishing" ELSE exec[t]
        /\ \A u \in TaskIds \ {t} : exec'[u] = exec[u] /\ status'[u] = status[u]
    BY <1>7, <1>t DEF MarkTimedOut, TypeOK
  <2>2. exec[t] # "none"
    BY <2>1 DEF ExecInv, Silence, Live
  <2> QED BY <1>q, <2>1, <2>2
<1>m. ASSUME FinishCommit(t)
      PROVE  status'[t] \notin Occupied /\ \A u \in TaskIds \ {t} : status'[u] = status[u]
  <2>1. FinishStatus(t) \notin Occupied
    BY DEF FinishStatus, Occupied
  <2>2. CASE status[t] \in Occupied
    BY <1>m, <1>t, <2>1, <2>2 DEF FinishCommit, TypeOK
  <2>3. CASE status[t] \notin Occupied
    BY <1>m, <2>3 DEF FinishCommit
  <2> QED BY <2>2, <2>3
<1>8. CASE FinishTask(t)
  <2>1. /\ UNCHANGED <<phase, taken>> /\ exec[t] = "finishing"
        /\ \A u \in TaskIds \ {t} : exec'[u] = exec[u]
    BY <1>8, <1>t DEF FinishTask, TypeOK
  <2>2. status'[t] \notin Occupied /\ \A u \in TaskIds \ {t} : status'[u] = status[u]
    BY <1>8, <1>m DEF FinishTask
  <2> QED BY <1>q, <2>1, <2>2
<1>9. CASE FinishFails(t)
  <2>1. /\ UNCHANGED <<phase, taken>> /\ exec[t] = "finishing" /\ exec'[t] = "pending"
        /\ \A u \in TaskIds \ {t} : exec'[u] = exec[u]
    BY <1>9, <1>t DEF FinishFails, Proceed, TypeOK
  <2>2. \A u \in TaskIds \ {t} : status'[u] = status[u]
    BY <1>9, <1>m DEF FinishFails
  <2> QED BY <1>q, <2>1, <2>2
<1>10. CASE RecoverTask(t)
  <2>1. /\ UNCHANGED phase /\ phase = "recovering" /\ interrupted' = interrupted \ {t}
        /\ status'[t] \notin Occupied
        /\ \A u \in TaskIds \ {t} : status'[u] = status[u]
    BY <1>10, <1>t DEF RecoverTask, RecoveredStatus, Occupied, TypeOK
  <2> QED BY <2>1 DEF SlotInv, SlotHasExecutor, Serving, Interrupted
<1> QED BY <1>1, <1>2, <1>3, <1>4, <1>5, <1>6, <1>7, <1>8, <1>9, <1>10 DEF ExecutorStep

LEMMA ProcessStepSlots == SlotInv /\ ProcessStep => SlotInv'
<1> SUFFICES ASSUME SlotInv, ProcessStep PROVE SlotInv'
  OBVIOUS
<1> USE DEF dbVars, drainVars, execVars, SlotInv, SlotHasExecutor, Serving, Interrupted
<1>1. CASE StartProcess
  BY <1>1 DEF StartProcess
<1>2. CASE BecomeReady
  BY <1>2 DEF BecomeReady
<1>3. CASE BeginShutdown \/ AbortAll
  BY <1>3 DEF BeginShutdown, AbortAll
<1>4. CASE Crash \/ Exit
  BY <1>4 DEF Crash, Exit
<1> QED BY <1>1, <1>2, <1>3, <1>4 DEF ProcessStep

\* While the process serves, every slot is held by somebody who will give it back.
THEOREM SlotsHaveExecutors ==
  ASSUME "take" \notin Faults
  PROVE  Spec => []SlotHasExecutor
<1>1. Init => SlotInv
  BY DEF Init, SlotInv, SlotHasExecutor, Serving, Interrupted
<1>2. ExecInv /\ RowsInv /\ SlotInv /\ [Next]_vars => SlotInv'
  <2>1. SlotInv /\ UNCHANGED vars => SlotInv'
    BY DEF vars, dbVars, memVars, drainVars, execVars, procVars, SlotInv, SlotHasExecutor,
           Serving, Interrupted
  <2>2. SlotInv /\ AppStep => SlotInv'
    BY DEF AppStep, SetEnabled, SetLimit, memVars, drainVars, execVars, procVars, SlotInv,
           SlotHasExecutor, Serving, Interrupted
  <2> QED BY <2>1, <2>2, SessionStepSlots, DrainStepSlots, TaskStepSlots, ProcessStepSlots DEF Next
<1>3. SlotInv => SlotHasExecutor
  BY DEF SlotInv
<1> QED BY <1>1, <1>2, <1>3, ExecInvariant, RowsInvariant, PTL DEF Spec
=============================================================================
