----------------------- MODULE CustomerServiceProofs -----------------------
(***************************************************************************)
(* Machine-checked theorems about CustomerService, for any sets of         *)
(* applications, sessions, agents and request ids and any values of the    *)
(* bounds.                                                                 *)
(***************************************************************************)
EXTENDS CustomerService, FiniteSetTheorems, TLAPS

-----------------------------------------------------------------------------
\* Type correctness.

LEMMA InitTypeOK == Init => TypeOK
BY ConstantsAssumption DEF Init, TypeOK, ExecPhase, Live, Active, Terminal, ConstantsAssumption

\* Requests and administrators.
LEMMA SessionStepTypeOK == TypeOK /\ SessionStep => TypeOK'
<1> SUFFICES ASSUME TypeOK, NEW s \in Sessions,
                    \/ InitSession(s) \/ RequestHuman(s) \/ ResumeAi(s)
                    \/ CancelVisitorTask(s)
                    \/ \E r \in Requests : SubmitVisitorMessage(s, r)
                    \/ \E g \in Agents :
                         \/ ClaimSession(s, g) \/ CloseSession(s, g)
                         \/ \E r \in Requests : SendAgentMessage(s, g, r)
             PROVE  TypeOK'
  BY DEF SessionStep
<1> USE DEF TypeOK, vars, dbVars, memVars, sessionVars, taskVars, messageVars, appVars,
            drainVars, execVars, procVars, abortVars
<1>c. ASSUME CancelTasks(s) PROVE status' \in [TaskIds -> Active \cup Terminal \cup {"none"}]
  BY <1>c DEF CancelTasks, Active, Terminal
<1>r. ASSUME CommitReply(Executing(s))
      PROVE  toAbort' \subseteq TaskIds /\ missedAbort' \subseteq TaskIds /\ faults' \in 0..MaxFaults
  BY <1>r, ConstantsAssumption DEF CommitReply, Executing, ActiveTasks, Fault, ConstantsAssumption
<1>v. ASSUME BumpVersion(s)
      PROVE  serviceVersion' \in [Sessions -> Nat] /\ handovers' \in 0..MaxHandovers
  BY <1>v, ConstantsAssumption DEF BumpVersion, ConstantsAssumption
<1>1. CASE InitSession(s)
  BY <1>1 DEF InitSession
<1>2. CASE RequestHuman(s)
  BY <1>2, <1>c, <1>r, <1>v DEF RequestHuman
<1>3. CASE ResumeAi(s)
  BY <1>3, <1>v DEF ResumeAi
<1>4. CASE CancelVisitorTask(s)
  BY <1>4, <1>c, <1>r, <1>v DEF CancelVisitorTask
<1>5. ASSUME NEW r \in Requests, SubmitVisitorMessage(s, r) PROVE TypeOK'
  <2>1. author' \in [Sessions -> [Requests -> {"visitor", "agent", None}]]
    BY <1>5 DEF SubmitVisitorMessage, SaveMessage
  <2>2. CASE UNCHANGED <<taskVars, status>>
    BY <1>5, <2>1, <2>2 DEF SubmitVisitorMessage
  <2>3. CASE /\ lastTask < MaxTasks
             /\ lastTask' = lastTask + 1
             /\ status' = [status EXCEPT ![lastTask'] = "queued"]
             /\ taskSession' = [taskSession EXCEPT ![lastTask'] = s]
             /\ taskVersion' = [taskVersion EXCEPT ![lastTask'] = serviceVersion[s]]
             /\ taskRequest' = [taskRequest EXCEPT ![lastTask'] = r]
    <3>1. lastTask' \in 0..MaxTasks
      BY <2>3, ConstantsAssumption DEF ConstantsAssumption
    <3>2. status' \in [TaskIds -> Active \cup Terminal \cup {"none"}]
      BY <2>3 DEF Active
    <3> QED BY <1>5, <2>1, <2>3, <3>1, <3>2 DEF SubmitVisitorMessage
  <2> QED BY <1>5, <2>2, <2>3 DEF SubmitVisitorMessage
<1>6. ASSUME NEW g \in Agents, ClaimSession(s, g) PROVE TypeOK'
  BY <1>6, <1>c, <1>r, <1>v DEF ClaimSession
<1>7. ASSUME NEW g \in Agents, CloseSession(s, g) PROVE TypeOK'
  BY <1>7, <1>c, <1>r, <1>v DEF CloseSession
<1>8. ASSUME NEW g \in Agents, NEW r \in Requests, SendAgentMessage(s, g, r) PROVE TypeOK'
  BY <1>8 DEF SendAgentMessage, SaveMessage
<1> QED BY <1>1, <1>2, <1>3, <1>4, <1>5, <1>6, <1>7, <1>8

LEMMA AppStepTypeOK == TypeOK /\ AppStep => TypeOK'
<1> SUFFICES ASSUME TypeOK, NEW a \in Apps,
                    SetEnabled(a) \/ \E n \in Limits : SetLimit(a, n)
             PROVE  TypeOK'
  BY DEF AppStep
<1> USE DEF TypeOK, vars, dbVars, memVars, sessionVars, taskVars, messageVars, drainVars,
            execVars, procVars, abortVars
<1>1. CASE SetEnabled(a)
  BY <1>1 DEF SetEnabled
<1>2. ASSUME NEW n \in Limits, SetLimit(a, n) PROVE TypeOK'
  BY <1>2 DEF SetLimit
<1> QED BY <1>1, <1>2

\* The transaction of takeTasks keeps statuses statuses.
LEMMA TakeStatusType ==
  ASSUME TypeOK, NEW a \in Apps, NEW k \in 0..lastTask
  PROVE  /\ TakeStatus(a, k) \in [TaskIds -> Active \cup Terminal \cup {"none"}]
         /\ Selected(a, k) \subseteq TaskIds
BY ConstantsAssumption DEF TypeOK, TakeStatus, Selected, Eligible, TasksOf, TaskIds, Active,
   Terminal, ConstantsAssumption

LEMMA DrainStepTypeOK == TypeOK /\ DrainStep => TypeOK'
<1> SUFFICES ASSUME TypeOK, DrainStep PROVE TypeOK'
  OBVIOUS
<1> USE DEF TypeOK, vars, dbVars, memVars, sessionVars, taskVars, messageVars, appVars,
            drainVars, execVars, procVars, abortVars
<1>f. ASSUME NEW kind, Fault(kind) PROVE faults' \in 0..MaxFaults
  BY <1>f, ConstantsAssumption DEF Fault, ConstantsAssumption
<1>1. CASE StartDrain
  BY <1>1 DEF StartDrain, Pending, QueuedApps
<1>2. CASE LoseDispatchLock
  BY <1>2, <1>f DEF LoseDispatchLock
<1>3. CASE ListQueuedApps
  BY <1>3 DEF ListQueuedApps, QueuedApps
<1>4. ASSUME NEW a \in Apps, NEW k \in 0..lastTask, TakeTasks(a, k) PROVE TypeOK'
  BY <1>4, <1>f, TakeStatusType DEF TakeTasks
<1>5. CASE RegisterTasks
  BY <1>5 DEF RegisterTasks, ExecPhase, Live
<1>6. CASE EndDrain
  BY <1>6 DEF EndDrain
<1> QED BY <1>1, <1>2, <1>3, <1>4, <1>5, <1>6 DEF DrainStep

LEMMA TaskStepTypeOK == TypeOK /\ TaskStep => TypeOK'
<1> SUFFICES ASSUME TypeOK, NEW t \in TaskIds,
                    \/ AbortTask(t) \/ RetryFinalizer(t) \/ ExecutorStep(t) \/ Timeout(t)
                    \/ MarkTimedOut(t) \/ FinishFails(t) \/ RecoverTask(t)
             PROVE  TypeOK'
  BY DEF TaskStep
<1> USE DEF TypeOK, vars, dbVars, memVars, sessionVars, taskVars, messageVars, appVars,
            drainVars, execVars, procVars, abortVars
<1>f. ASSUME NEW kind, Fault(kind) PROVE faults' \in 0..MaxFaults
  BY <1>f, ConstantsAssumption DEF Fault, ConstantsAssumption
<1>c. ASSUME NEW b \in BOOLEAN, NEW p \in BOOLEAN, Close(t, b, p)
      PROVE  /\ exec' \in [TaskIds -> ExecPhase]
             /\ publishAllowed' \in [TaskIds -> BOOLEAN]
             /\ failure' \in [TaskIds -> BOOLEAN]
             /\ timer' \in [TaskIds -> {"off", "armed", "marking"}]
  BY <1>c DEF Close, ExecPhase
<1>p. ASSUME NEW e \in ExecPhase, Proceed(t, e)
      PROVE  /\ exec' \in [TaskIds -> ExecPhase]
             /\ UNCHANGED <<publishAllowed, failure, timer>>
  BY <1>p DEF Proceed
<1>r. ASSUME NEW ok \in BOOLEAN, NEW e \in ExecPhase, ReadThen(t, ok, e) PROVE TypeOK'
  BY <1>r, <1>c, <1>p DEF ReadThen
<1>m. ASSUME FinishCommit(t)
      PROVE  /\ status' \in [TaskIds -> Active \cup Terminal \cup {"none"}]
             /\ aiMessages' \in [TaskIds -> Nat]
  <2>1. FinishStatus(t) \in Terminal
    BY DEF FinishStatus, Terminal
  <2>2. CASE status[t] \in Occupied
    BY <1>m, <2>1, <2>2 DEF FinishCommit
  <2>3. CASE status[t] \notin Occupied
    BY <1>m, <2>3 DEF FinishCommit
  <2> QED BY <2>2, <2>3
<1>1. CASE AbortTask(t)
  BY <1>1 DEF AbortTask
<1>2. CASE RetryFinalizer(t)
  BY <1>2 DEF RetryFinalizer, ExecPhase
<1>3. CASE ReadAppAndTask(t)
  <2>1. PICK ok \in BOOLEAN : ReadThen(t, ok, "checked")
    BY <1>3 DEF ReadAppAndTask
  <2> QED BY <2>1, <1>r DEF ExecPhase, Live
<1>4. CASE ReadSession(t)
  <2>1. PICK ok \in BOOLEAN : ReadThen(t, ok, "streaming")
    BY <1>4 DEF ReadSession, IsCurrent
  <2> QED BY <2>1, <1>r DEF ExecPhase, Live
<1>5. CASE StreamDone(t)
  BY <1>5, <1>c DEF StreamDone
<1>6. CASE ExecuteFails(t)
  BY <1>6, <1>c DEF ExecuteFails
<1>7. CASE FinishTask(t)
  BY <1>7, <1>m DEF FinishTask, ExecPhase
<1>8. CASE Timeout(t)
  BY <1>8 DEF Timeout
<1>9. CASE MarkTimedOut(t)
  BY <1>9, <1>f DEF MarkTimedOut, ExecPhase, Active
<1>10. CASE FinishFails(t)
  <2>1. "pending" \in ExecPhase
    BY DEF ExecPhase
  <2> QED BY <1>10, <1>m, <1>p, <1>f, <2>1 DEF FinishFails
<1>11. CASE RecoverTask(t)
  BY <1>11 DEF RecoverTask, RecoveredStatus, Terminal
<1> QED BY <1>1, <1>2, <1>3, <1>4, <1>5, <1>6, <1>7, <1>8, <1>9, <1>10, <1>11 DEF ExecutorStep

LEMMA ProcessStepTypeOK == TypeOK /\ ProcessStep => TypeOK'
<1> SUFFICES ASSUME TypeOK, ProcessStep PROVE TypeOK'
  OBVIOUS
<1> USE DEF TypeOK, vars, dbVars, memVars, sessionVars, taskVars, messageVars, appVars,
            drainVars, execVars, procVars, abortVars
<1>e. ASSUME EmptyMemory
      PROVE  /\ draining' = "idle" /\ retry' = {} /\ awaited' = None /\ todo' = {} /\ taken' = {}
             /\ exec' \in [TaskIds -> ExecPhase]
             /\ publishAllowed' \in [TaskIds -> BOOLEAN]
             /\ failure' \in [TaskIds -> BOOLEAN]
             /\ timer' \in [TaskIds -> {"off", "armed", "marking"}]
             /\ toAbort' = {} /\ missedAbort' = {}
  BY <1>e DEF EmptyMemory, ExecPhase
<1>s. ASSUME stops < MaxStops, stops' = stops + 1 PROVE stops' \in 0..MaxStops
  BY <1>s, ConstantsAssumption DEF ConstantsAssumption
<1>1. CASE StartProcess
  BY <1>1 DEF StartProcess, Interrupted
<1>2. CASE BecomeReady
  BY <1>2 DEF BecomeReady
<1>3. CASE Crash
  BY <1>3, <1>e, <1>s DEF Crash
<1>4. CASE BeginShutdown
  BY <1>4, <1>s DEF BeginShutdown
<1>5. CASE AbortAll
  BY <1>5 DEF AbortAll
<1>6. CASE Exit
  BY <1>6, <1>e DEF Exit
<1> QED BY <1>1, <1>2, <1>3, <1>4, <1>5, <1>6 DEF ProcessStep

LEMMA NextTypeOK == TypeOK /\ [Next]_vars => TypeOK'
<1>1. TypeOK /\ UNCHANGED vars => TypeOK'
  BY DEF TypeOK, vars, dbVars, memVars, sessionVars, taskVars, messageVars, appVars,
         drainVars, execVars, procVars, abortVars
<1> QED BY <1>1, SessionStepTypeOK, AppStepTypeOK, DrainStepTypeOK, TaskStepTypeOK,
           ProcessStepTypeOK DEF Next

\* Rows, maps and counters always hold values of their types: no request,
\* failure, timeout, shutdown or crash leaves one undefined.
THEOREM TypeCorrect == Spec => []TypeOK
BY InitTypeOK, NextTypeOK, PTL DEF Spec

-----------------------------------------------------------------------------
\* The rows of the database.

\* Task ids are given out in order: a row is complete up to lastTask, and there
\* is none beyond.
LedgerRow(t) ==
  IF t <= lastTask
  THEN taskSession[t] \in Sessions /\ taskRequest[t] \in Requests /\ status[t] # "none"
  ELSE taskSession[t] = None /\ status[t] = "none"

Ledger == \A t \in TaskIds : LedgerRow(t)

\* The inductive invariant of the rows.  WorkIsCurrent is what makes it
\* inductive: coming back to the AI bumps the version without cancelling
\* anything, which is safe only because nothing waits or runs by then.
RowsInv ==
  /\ TypeOK
  /\ Ledger
  /\ OneActiveTaskPerSession
  /\ WorkIsCurrent
  /\ AnsweredOnce

rowVars == <<serviceStatus, serviceVersion, lastTask, status, taskSession, taskVersion,
             taskRequest, aiMessages>>

LEMMA InitRowsInv == Init => RowsInv
<1> SUFFICES ASSUME Init PROVE RowsInv
  OBVIOUS
<1>1. TypeOK
  BY InitTypeOK
<1>2. Ledger /\ OneActiveTaskPerSession /\ WorkIsCurrent /\ AnsweredOnce
  BY ConstantsAssumption DEF Init, Ledger, LedgerRow, OneActiveTaskPerSession, WorkIsCurrent, AnsweredOnce,
     Active, TaskIds, ConstantsAssumption
<1> QED BY <1>1, <1>2 DEF RowsInv

\* Most steps touch none of these rows.
LEMMA RowsFrame == RowsInv /\ TypeOK' /\ UNCHANGED rowVars => RowsInv'
BY DEF RowsInv, rowVars, Ledger, LedgerRow, OneActiveTaskPerSession, WorkIsCurrent, AnsweredOnce, IsCurrent

\* Steps that change the status of some tasks and no session: as long as no task
\* starts to wait or run unless it did so before, none is opened, and AI
\* messages follow completion.
LEMMA StatusChange ==
  ASSUME RowsInv, TypeOK',
         UNCHANGED <<serviceStatus, serviceVersion, taskVars>>,
         \A t \in TaskIds :
           /\ status'[t] \in {"queued", "running"} => status[t] \in {"queued", "running"}
           /\ status'[t] \in Active => status[t] \in Active
           /\ status'[t] = "none" <=> status[t] = "none"
           /\ aiMessages'[t] = IF status'[t] = "completed" THEN 1 ELSE 0
  PROVE  RowsInv'
BY DEF RowsInv, Ledger, LedgerRow, OneActiveTaskPerSession, WorkIsCurrent, AnsweredOnce, IsCurrent, taskVars

\* Cancelling all open tasks of a session, whatever happens to the session then.
LEMMA CancelTasksRows ==
  ASSUME RowsInv, TypeOK', NEW s \in Sessions, CancelTasks(s),
         UNCHANGED <<taskVars, aiMessages>>,
         \A r \in Sessions \ {s} : /\ serviceStatus'[r] = serviceStatus[r]
                                   /\ serviceVersion'[r] = serviceVersion[r]
  PROVE  RowsInv'
<1>1. \A t \in TaskIds :
        /\ status'[t] \in Active => status[t] \in Active
        /\ status'[t] \in {"queued", "running"} => status[t] \in {"queued", "running"}
                                                  /\ taskSession[t] # s
        /\ status'[t] = "none" <=> status[t] = "none"
        /\ status'[t] = "completed" <=> status[t] = "completed"
  BY DEF CancelTasks, ActiveTasks, Active, RowsInv, TypeOK
<1>2. \A t \in TaskIds : status[t] # "none" => taskSession[t] \in Sessions
  BY DEF RowsInv, Ledger, LedgerRow
<1>3. Ledger'
  BY <1>1 DEF RowsInv, Ledger, LedgerRow, taskVars
<1>4. OneActiveTaskPerSession'
  BY <1>1 DEF RowsInv, OneActiveTaskPerSession, taskVars
<1>5. WorkIsCurrent'
  BY <1>1, <1>2 DEF RowsInv, WorkIsCurrent, IsCurrent, taskVars
<1>6. AnsweredOnce'
  BY <1>1 DEF RowsInv, AnsweredOnce
<1> QED BY <1>3, <1>4, <1>5, <1>6 DEF RowsInv

LEMMA SessionStepRows == RowsInv /\ SessionStep => RowsInv'
<1> SUFFICES ASSUME RowsInv, NEW s \in Sessions,
                    \/ InitSession(s) \/ RequestHuman(s) \/ ResumeAi(s)
                    \/ CancelVisitorTask(s)
                    \/ \E r \in Requests : SubmitVisitorMessage(s, r)
                    \/ \E g \in Agents :
                         \/ ClaimSession(s, g) \/ CloseSession(s, g)
                         \/ \E r \in Requests : SendAgentMessage(s, g, r)
             PROVE  RowsInv'
  BY DEF SessionStep
<1>t. TypeOK /\ TypeOK'
  BY SessionStepTypeOK DEF RowsInv, SessionStep
<1>v. ASSUME BumpVersion(s)
      PROVE  \A r \in Sessions \ {s} : serviceVersion'[r] = serviceVersion[r]
  BY <1>v, <1>t DEF BumpVersion, TypeOK
<1>1. CASE InitSession(s)
  <2>1. \A t \in TaskIds : status[t] \in {"queued", "running"} => IsCurrent(t)' /\ IsCurrent(t)
    BY <1>1, <1>t DEF InitSession, RowsInv, WorkIsCurrent, IsCurrent, TypeOK, taskVars
  <2>2. UNCHANGED <<lastTask, status, taskSession, taskVersion, taskRequest, aiMessages>>
    BY <1>1 DEF InitSession, taskVars, messageVars
  <2> QED BY <2>1, <2>2, <1>t DEF RowsInv, Ledger, LedgerRow, OneActiveTaskPerSession, WorkIsCurrent, AnsweredOnce
<1>2. CASE RequestHuman(s)
  BY <1>2, <1>t, <1>v, CancelTasksRows DEF RequestHuman, messageVars, TypeOK
<1>3. CASE ResumeAi(s)
  <2>1. \A t \in TaskIds : status[t] \in {"queued", "running"} => taskSession[t] # s
    BY <1>3 DEF ResumeAi, RowsInv, WorkIsCurrent, IsCurrent
  <2>2. \A t \in TaskIds : status[t] \in {"queued", "running"} => taskSession[t] \in Sessions
    BY DEF RowsInv, Ledger, LedgerRow
  <2>3. UNCHANGED <<lastTask, status, taskSession, taskVersion, taskRequest, aiMessages>>
    BY <1>3 DEF ResumeAi, taskVars, messageVars
  <2>4. \A r \in Sessions \ {s} : serviceStatus'[r] = serviceStatus[r]
    BY <1>3, <1>t DEF ResumeAi, TypeOK
  <2>5. BumpVersion(s)
    BY <1>3 DEF ResumeAi
  <2>6. WorkIsCurrent'
    BY <2>1, <2>2, <2>3, <2>4, <2>5, <1>v DEF RowsInv, WorkIsCurrent, IsCurrent
  <2> QED BY <2>3, <2>6, <1>t DEF RowsInv, Ledger, LedgerRow, OneActiveTaskPerSession, AnsweredOnce
<1>4. CASE CancelVisitorTask(s)
  BY <1>4, <1>t, <1>v, CancelTasksRows DEF CancelVisitorTask, messageVars
<1>5. ASSUME NEW r \in Requests, SubmitVisitorMessage(s, r) PROVE RowsInv'
  <2>1. UNCHANGED <<serviceStatus, serviceVersion, aiMessages>>
    BY <1>5 DEF SubmitVisitorMessage, sessionVars
  <2>2. CASE UNCHANGED <<taskVars, status>>
    BY <2>1, <2>2, <1>t, RowsFrame DEF rowVars, taskVars
  <2>3. CASE /\ serviceStatus[s] = "ai"
             /\ ActiveTasks(s) = {}
             /\ lastTask < MaxTasks
             /\ lastTask' = lastTask + 1
             /\ status' = [status EXCEPT ![lastTask'] = "queued"]
             /\ taskSession' = [taskSession EXCEPT ![lastTask'] = s]
             /\ taskVersion' = [taskVersion EXCEPT ![lastTask'] = serviceVersion[s]]
             /\ taskRequest' = [taskRequest EXCEPT ![lastTask'] = r]
    <3>0. PICK n \in TaskIds : n = lastTask + 1
      BY <2>3, <1>t, ConstantsAssumption DEF TypeOK, TaskIds, ConstantsAssumption
    <3>1. n \in TaskIds /\ ~(n <= lastTask) /\ lastTask' = n
      BY <2>3, <3>0, <1>t DEF TypeOK
    <3>2. /\ status'[n] = "queued" /\ taskSession'[n] = s
          /\ taskVersion'[n] = serviceVersion[s] /\ taskRequest'[n] = r
      BY <2>3, <3>1, <1>t DEF TypeOK
    <3>3. \A t \in TaskIds :
            t # n => /\ status'[t] = status[t] /\ taskSession'[t] = taskSession[t]
                     /\ taskVersion'[t] = taskVersion[t] /\ taskRequest'[t] = taskRequest[t]
                     /\ (t <= lastTask) <=> (t <= lastTask')
      BY <2>3, <3>1, <1>t DEF TypeOK, TaskIds
    <3>4. Ledger'
      <4>1. \A t \in TaskIds : t # n => LedgerRow(t)'
        BY <3>3 DEF RowsInv, Ledger, LedgerRow
      <4>2. n <= lastTask'
        BY <3>1, <1>t DEF TypeOK
      <4>3. LedgerRow(n)'
        BY <4>2, <3>2 DEF LedgerRow
      <4> QED BY <4>1, <4>3 DEF Ledger
    <3>5. OneActiveTaskPerSession'
      <4>1. \A t \in TaskIds : taskSession[t] = s => status[t] \notin Active
        BY <2>3 DEF ActiveTasks
      <4>2. \A t, u \in TaskIds :
              /\ t # n /\ u # n
              /\ status'[t] \in Active /\ status'[u] \in Active
              /\ taskSession'[t] = taskSession'[u]
              => t = u
        BY <3>3 DEF RowsInv, OneActiveTaskPerSession
      <4> QED BY <4>1, <4>2, <3>2, <3>3 DEF OneActiveTaskPerSession
    <3>6. WorkIsCurrent'
      <4>1. IsCurrent(n)'
        BY <2>1, <2>3, <3>2 DEF IsCurrent
      <4>2. \A t \in TaskIds : t # n /\ status'[t] \in {"queued", "running"} => IsCurrent(t)'
        BY <2>1, <3>3 DEF RowsInv, WorkIsCurrent, IsCurrent
      <4> QED BY <4>1, <4>2 DEF WorkIsCurrent
    <3>7. AnsweredOnce'
      <4>1. status[n] = "none"
        BY <3>1 DEF RowsInv, Ledger, LedgerRow
      <4> QED BY <4>1, <2>1, <3>2, <3>3 DEF RowsInv, AnsweredOnce
    <3> QED BY <1>t, <3>4, <3>5, <3>6, <3>7 DEF RowsInv
  <2> QED BY <1>5, <2>2, <2>3 DEF SubmitVisitorMessage
<1>6. ASSUME NEW g \in Agents, ClaimSession(s, g) PROVE RowsInv'
  BY <1>6, <1>t, <1>v, CancelTasksRows DEF ClaimSession, messageVars, TypeOK
<1>7. ASSUME NEW g \in Agents, CloseSession(s, g) PROVE RowsInv'
  BY <1>7, <1>t, <1>v, CancelTasksRows DEF CloseSession, messageVars, TypeOK
<1>8. ASSUME NEW g \in Agents, NEW r \in Requests, SendAgentMessage(s, g, r) PROVE RowsInv'
  BY <1>8, <1>t, RowsFrame DEF SendAgentMessage, rowVars, sessionVars, taskVars
<1> QED BY <1>1, <1>2, <1>3, <1>4, <1>5, <1>6, <1>7, <1>8

LEMMA AppStepRows == RowsInv /\ AppStep => RowsInv'
<1> SUFFICES ASSUME RowsInv, AppStep PROVE RowsInv'
  OBVIOUS
<1>1. UNCHANGED rowVars
  BY DEF AppStep, SetEnabled, SetLimit, rowVars, sessionVars, taskVars, messageVars
<1> QED BY <1>1, AppStepTypeOK, RowsFrame DEF RowsInv

\* takeTasks only moves tasks out of the queue.
LEMMA TakeStatusRows ==
  ASSUME RowsInv, NEW a \in Apps, NEW k \in 0..lastTask, NEW t \in TaskIds
  PROVE  \/ TakeStatus(a, k)[t] = status[t]
         \/ (status[t] = "queued" /\ TakeStatus(a, k)[t] \in {"running", "expired", "cancelled"})
BY DEF TakeStatus, Selected, Eligible, Dropped, TasksOf

LEMMA DrainStepRows == RowsInv /\ DrainStep => RowsInv'
<1> SUFFICES ASSUME RowsInv, DrainStep PROVE RowsInv'
  OBVIOUS
<1>t. TypeOK'
  BY DrainStepTypeOK DEF RowsInv
<1> USE DEF dbVars, sessionVars, taskVars, messageVars, rowVars
<1>1. CASE StartDrain
  BY <1>1, <1>t, RowsFrame DEF StartDrain
<1>2. CASE LoseDispatchLock
  BY <1>2, <1>t, RowsFrame DEF LoseDispatchLock
<1>3. CASE ListQueuedApps
  BY <1>3, <1>t, RowsFrame DEF ListQueuedApps
<1>4. ASSUME NEW a \in Apps, NEW k \in 0..lastTask, TakeTasks(a, k) PROVE RowsInv'
  <2>1. UNCHANGED <<serviceStatus, serviceVersion, taskVars, aiMessages>>
    BY <1>4 DEF TakeTasks
  <2>2. CASE status' = status
    BY <2>1, <2>2, <1>t, RowsFrame
  <2>3. CASE status' = TakeStatus(a, k)
    <3>1. \A t \in TaskIds :
            \/ status'[t] = status[t]
            \/ (status[t] = "queued" /\ status'[t] \in {"running", "expired", "cancelled"})
      BY <2>3, TakeStatusRows
    <3>2. \A t \in TaskIds :
           /\ status'[t] \in {"queued", "running"} => status[t] \in {"queued", "running"}
           /\ status'[t] \in Active => status[t] \in Active
           /\ status'[t] = "none" <=> status[t] = "none"
           /\ status'[t] = "completed" <=> status[t] = "completed"
      BY <3>1 DEF Active
    <3>3. \A t \in TaskIds : aiMessages'[t] = IF status'[t] = "completed" THEN 1 ELSE 0
      BY <3>2, <2>1 DEF RowsInv, AnsweredOnce
    <3> QED BY <2>1, <3>2, <3>3, <1>t, StatusChange
  <2> QED BY <1>4, <2>2, <2>3 DEF TakeTasks
<1>5. CASE RegisterTasks
  BY <1>5, <1>t, RowsFrame DEF RegisterTasks
<1>6. CASE EndDrain
  BY <1>6, <1>t, RowsFrame DEF EndDrain
<1> QED BY <1>1, <1>2, <1>3, <1>4, <1>5, <1>6 DEF DrainStep

\* The finishing transaction: a task that holds a slot ends, with one AI message
\* if it is completed; any other task is left alone.
LEMMA FinishCommitRows ==
  ASSUME RowsInv, TypeOK', NEW t \in TaskIds, FinishCommit(t),
         UNCHANGED <<serviceStatus, serviceVersion, taskVars>>
  PROVE  RowsInv'
<1>1. FinishStatus(t) \in {"completed", "failed", "cancelled"}
  BY DEF FinishStatus
<1>2. CASE status[t] \in Occupied
  <2>1. /\ \A u \in TaskIds : u # t => status'[u] = status[u] /\ aiMessages'[u] = aiMessages[u]
        /\ status'[t] = FinishStatus(t)
        /\ aiMessages'[t] = IF FinishStatus(t) = "completed" THEN aiMessages[t] + 1 ELSE aiMessages[t]
    BY <1>2 DEF FinishCommit, RowsInv, TypeOK
  <2>2. aiMessages[t] = 0 /\ status[t] \in {"running", "cancelling"}
    BY <1>2 DEF RowsInv, AnsweredOnce, Occupied
  <2>3. \A u \in TaskIds :
          /\ status'[u] \in {"queued", "running"} => status[u] \in {"queued", "running"}
          /\ status'[u] \in Active => status[u] \in Active
          /\ status'[u] = "none" <=> status[u] = "none"
    BY <1>1, <2>1, <2>2 DEF Active
  <2>4. \A u \in TaskIds : aiMessages'[u] = IF status'[u] = "completed" THEN 1 ELSE 0
    BY <1>1, <2>1, <2>2 DEF RowsInv, AnsweredOnce
  <2> QED BY <2>3, <2>4, StatusChange
<1>3. CASE status[t] \notin Occupied
  BY <1>3, RowsFrame DEF FinishCommit, rowVars, taskVars
<1> QED BY <1>2, <1>3

LEMMA TaskStepRows == RowsInv /\ TaskStep => RowsInv'
<1> SUFFICES ASSUME RowsInv, NEW t \in TaskIds,
                    \/ AbortTask(t) \/ RetryFinalizer(t) \/ ExecutorStep(t) \/ Timeout(t)
                    \/ MarkTimedOut(t) \/ FinishFails(t) \/ RecoverTask(t)
             PROVE  RowsInv'
  BY DEF TaskStep
<1>t. TypeOK /\ TypeOK'
  BY TaskStepTypeOK DEF RowsInv, TaskStep
<1> USE DEF dbVars, sessionVars, taskVars, messageVars, rowVars
<1>1. CASE AbortTask(t)
  BY <1>1, <1>t, RowsFrame DEF AbortTask
<1>2. CASE RetryFinalizer(t)
  BY <1>2, <1>t, RowsFrame DEF RetryFinalizer
<1>3. CASE ReadAppAndTask(t) \/ ReadSession(t)
  BY <1>3, <1>t, RowsFrame DEF ReadAppAndTask, ReadSession, ReadThen
<1>4. CASE StreamDone(t) \/ ExecuteFails(t)
  BY <1>4, <1>t, RowsFrame DEF StreamDone, ExecuteFails
<1>5. CASE FinishTask(t)
  BY <1>5, <1>t, FinishCommitRows DEF FinishTask
<1>6. CASE Timeout(t)
  BY <1>6, <1>t, RowsFrame DEF Timeout
<1>7. CASE MarkTimedOut(t)
  <2>1. UNCHANGED <<serviceStatus, serviceVersion, taskVars, aiMessages>>
    BY <1>7 DEF MarkTimedOut
  <2>2. \A u \in TaskIds :
          \/ status'[u] = status[u]
          \/ (status[u] = "running" /\ status'[u] = "cancelling")
    BY <1>7, <1>t DEF MarkTimedOut, TypeOK
  <2>3. \A u \in TaskIds :
          /\ status'[u] \in {"queued", "running"} => status[u] \in {"queued", "running"}
          /\ status'[u] \in Active => status[u] \in Active
          /\ status'[u] = "none" <=> status[u] = "none"
          /\ aiMessages'[u] = IF status'[u] = "completed" THEN 1 ELSE 0
    BY <2>1, <2>2 DEF Active, RowsInv, AnsweredOnce
  <2> QED BY <2>1, <2>3, <1>t, StatusChange
<1>8. CASE FinishFails(t)
  <2>1. CASE FinishCommit(t)
    BY <1>8, <2>1, <1>t, FinishCommitRows DEF FinishFails
  <2>2. CASE UNCHANGED <<status, aiMessages>>
    BY <1>8, <2>2, <1>t, RowsFrame DEF FinishFails
  <2> QED BY <1>8, <2>1, <2>2 DEF FinishFails
<1>9. CASE RecoverTask(t)
  <2>1. UNCHANGED <<serviceStatus, serviceVersion, taskVars, aiMessages>>
    BY <1>9 DEF RecoverTask
  <2>2. \A u \in TaskIds :
          \/ status'[u] = status[u]
          \/ (status[u] \in {"running", "cancelling"} /\ status'[u] \in {"failed", "cancelled"})
    BY <1>9, <1>t DEF RecoverTask, RecoveredStatus, TypeOK
  <2>3. \A u \in TaskIds :
          /\ status'[u] \in {"queued", "running"} => status[u] \in {"queued", "running"}
          /\ status'[u] \in Active => status[u] \in Active
          /\ status'[u] = "none" <=> status[u] = "none"
          /\ aiMessages'[u] = IF status'[u] = "completed" THEN 1 ELSE 0
    BY <2>1, <2>2 DEF Active, RowsInv, AnsweredOnce
  <2> QED BY <2>1, <2>3, <1>t, StatusChange
<1> QED BY <1>1, <1>2, <1>3, <1>4, <1>5, <1>6, <1>7, <1>8, <1>9 DEF ExecutorStep

LEMMA ProcessStepRows == RowsInv /\ ProcessStep => RowsInv'
<1> SUFFICES ASSUME RowsInv, ProcessStep PROVE RowsInv'
  OBVIOUS
<1>1. UNCHANGED rowVars
  BY DEF ProcessStep, StartProcess, BecomeReady, Crash, BeginShutdown, AbortAll, Exit,
         dbVars, sessionVars, taskVars, messageVars, rowVars
<1> QED BY <1>1, ProcessStepTypeOK, RowsFrame DEF RowsInv

LEMMA NextRows == RowsInv /\ [Next]_vars => RowsInv'
<1>1. RowsInv /\ UNCHANGED vars => RowsInv'
  <2> SUFFICES ASSUME RowsInv, UNCHANGED vars PROVE RowsInv'
    OBVIOUS
  <2>1. UNCHANGED rowVars
    BY DEF vars, dbVars, sessionVars, taskVars, messageVars, rowVars
  <2> QED BY <2>1, NextTypeOK, RowsFrame DEF RowsInv
<1> QED BY <1>1, SessionStepRows, AppStepRows, DrainStepRows, TaskStepRows, ProcessStepRows DEF Next

LEMMA RowsInvariant == Spec => []RowsInv
BY InitRowsInv, NextRows, PTL DEF Spec

\* No conversation ever has two open questions: submitVisitorMessage sees the
\* cancelling tasks as well.
THEOREM OneActiveTask == Spec => []OneActiveTaskPerSession
BY RowsInvariant, PTL DEF RowsInv

\* What waits or runs still belongs to its conversation: hand-over, cancellation,
\* closing and the way back to the AI never leave an answerable task behind.
THEOREM CurrentWork == Spec => []WorkIsCurrent
BY RowsInvariant, PTL DEF RowsInv

\* The finalizer may run, fail, lose its reply and be retried: a completed task
\* has one AI message, every other task none.
THEOREM OneAnswer == Spec => []AnsweredOnce
BY RowsInvariant, PTL DEF RowsInv

-----------------------------------------------------------------------------
\* Messages and the tasks they make.

requestVars == <<lastTask, taskSession, taskRequest, author>>

\* Where a request id has not been used, no task was made for it.
LEMMA UnusedRequest ==
  ASSUME RowsInv, OneTaskPerRequest, NEW s \in Sessions, NEW r \in Requests, ~Duplicate(s, r)
  PROVE  \A t \in 1..lastTask : ~(taskSession[t] = s /\ taskRequest[t] = r)
BY ConstantsAssumption DEF OneTaskPerRequest, Duplicate, ConstantsAssumption

\* A message stored under a request id that had not been used.
LEMMA SavedMessage ==
  ASSUME RowsInv, OneTaskPerRequest, NEW s \in Sessions, NEW r \in Requests, NEW side,
         ~Duplicate(s, r), SaveMessage(s, r, side)
  PROVE  \A t \in 1..lastTask : author'[taskSession[t]][taskRequest[t]] = "visitor"
<1> SUFFICES ASSUME NEW t \in 1..lastTask
             PROVE  author'[taskSession[t]][taskRequest[t]] = "visitor"
  OBVIOUS
<1>1. taskSession[t] \in Sessions /\ taskRequest[t] \in Requests
  <2>1. t \in TaskIds /\ t <= lastTask
    BY ConstantsAssumption DEF ConstantsAssumption, RowsInv, TypeOK, TaskIds
  <2> QED BY <2>1 DEF RowsInv, Ledger, LedgerRow
<1>2. author[taskSession[t]][taskRequest[t]] = "visitor"
  BY DEF OneTaskPerRequest
<1>3. ~(taskSession[t] = s /\ taskRequest[t] = r)
  BY UnusedRequest
<1> QED BY <1>1, <1>2, <1>3 DEF RowsInv, TypeOK, SaveMessage

LEMMA NextRequests == RowsInv /\ OneTaskPerRequest /\ [Next]_vars => OneTaskPerRequest'
<1> SUFFICES ASSUME RowsInv, OneTaskPerRequest, [Next]_vars PROVE OneTaskPerRequest'
  OBVIOUS
<1> USE DEF vars, dbVars, sessionVars, taskVars, messageVars, requestVars
<1>u. ASSUME UNCHANGED requestVars PROVE OneTaskPerRequest'
  BY <1>u DEF OneTaskPerRequest
<1>1. ASSUME NEW s \in Sessions, NEW r \in Requests, SubmitVisitorMessage(s, r)
      PROVE  OneTaskPerRequest'
  <2>1. \A t \in 1..lastTask : author'[taskSession[t]][taskRequest[t]] = "visitor"
    BY <1>1, SavedMessage DEF SubmitVisitorMessage
  <2>2. CASE UNCHANGED taskVars
    BY <2>1, <2>2 DEF OneTaskPerRequest
  <2>3. CASE /\ lastTask < MaxTasks /\ lastTask' = lastTask + 1
             /\ taskSession' = [taskSession EXCEPT ![lastTask'] = s]
             /\ taskRequest' = [taskRequest EXCEPT ![lastTask'] = r]
    <3>0. lastTask \in Nat /\ MaxTasks \in Nat
      BY ConstantsAssumption DEF RowsInv, TypeOK, ConstantsAssumption
    <3>1. PICK n \in TaskIds : n = lastTask' /\ n = lastTask + 1
      BY <2>3, <3>0 DEF TaskIds
    <3>2. /\ taskSession'[n] = s /\ taskRequest'[n] = r
          /\ \A t \in 1..lastTask : taskSession'[t] = taskSession[t] /\ taskRequest'[t] = taskRequest[t]
      BY <2>3, <3>1 DEF RowsInv, TypeOK
    <3>5. 1..lastTask' = 1..lastTask \cup {n} /\ n \notin 1..lastTask
      BY <3>0, <3>1
    <3>3. author'[s][r] = "visitor"
      BY <1>1 DEF SubmitVisitorMessage, SaveMessage, RowsInv, TypeOK
    <3>4. \A t \in 1..lastTask : ~(taskSession[t] = s /\ taskRequest[t] = r)
      BY <1>1, UnusedRequest DEF SubmitVisitorMessage
    <3> QED BY <2>1, <3>5, <3>2, <3>3, <3>4 DEF OneTaskPerRequest
  <2> QED BY <1>1, <2>2, <2>3 DEF SubmitVisitorMessage
<1>2. ASSUME NEW s \in Sessions, NEW g \in Agents, NEW r \in Requests, SendAgentMessage(s, g, r)
      PROVE  OneTaskPerRequest'
  <2>1. \A t \in 1..lastTask : author'[taskSession[t]][taskRequest[t]] = "visitor"
    BY <1>2, SavedMessage DEF SendAgentMessage
  <2> QED BY <1>2, <2>1 DEF SendAgentMessage, OneTaskPerRequest
<1>3. CASE SessionStep
  BY <1>3, <1>u, <1>1, <1>2 DEF SessionStep, InitSession, RequestHuman, ResumeAi, CancelVisitorTask,
                                ClaimSession, CloseSession
<1>4. CASE AppStep
  BY <1>4, <1>u DEF AppStep, SetEnabled, SetLimit
<1>5. CASE DrainStep
  BY <1>5, <1>u DEF DrainStep, StartDrain, LoseDispatchLock, ListQueuedApps, TakeTasks, RegisterTasks,
                    EndDrain
<1>6. CASE TaskStep
  BY <1>6, <1>u DEF TaskStep, ExecutorStep, AbortTask, RetryFinalizer, ReadAppAndTask, ReadSession,
                    ReadThen, StreamDone, ExecuteFails, FinishTask, Timeout, MarkTimedOut,
                    FinishFails, RecoverTask
<1>7. CASE ProcessStep
  BY <1>7, <1>u DEF ProcessStep, StartProcess, BecomeReady, Crash, BeginShutdown, AbortAll, Exit
<1>8. CASE UNCHANGED vars
  BY <1>8, <1>u
<1> QED BY <1>3, <1>4, <1>5, <1>6, <1>7, <1>8 DEF Next

\* A message sent again makes no second task, and a request id an agent has used in a
\* session makes none, however the two sides interleave.
THEOREM OneTaskEach == Spec => []OneTaskPerRequest
<1>1. Init => OneTaskPerRequest
  BY DEF Init, OneTaskPerRequest
<1> QED BY <1>1, NextRequests, RowsInvariant, PTL DEF Spec

-----------------------------------------------------------------------------
\* Dispatch.

\* A set of task ids that is not empty has a last one.
LEMMA LastOf ==
  ASSUME NEW n \in Nat, NEW T \in SUBSET (1..n), T # {}
  PROVE  \E x \in T : \A y \in T : y <= x
<1> DEFINE R == {ss \in Nat \X Nat : ss[1] < ss[2]}
           D == {n - x : x \in T}
<1>1. IsWellFoundedOn(R, Nat)
  BY NatLessThanWellFounded DEF OpToRel
<1>2. \A x \in T : n - x \in Nat
  OBVIOUS
<1>3. D \subseteq Nat
  BY <1>2
<1>4. D # {}
  OBVIOUS
<1>5. PICK d \in D : \A y \in D : ~(<<y, d>> \in R)
  BY <1>1, <1>3, <1>4, WFMin
<1>6. PICK x \in T : d = n - x
  OBVIOUS
<1>7. ASSUME NEW y \in T PROVE y <= x
  <2>1. n - y \in D /\ n - y \in Nat /\ d \in Nat
    BY <1>2, <1>3
  <2>2. ~(n - y < d)
    BY <1>5, <2>1
  <2> QED BY <1>6, <2>2
<1> QED BY <1>7

\* Of a set of task ids, those that fewer than m older ones precede are at most m.
LEMMA OldestFit ==
  ASSUME NEW n \in Nat, NEW E \in SUBSET (1..n), NEW m \in Nat
  PROVE  LET S == {t \in E : Cardinality({u \in E : u < t}) < m}
         IN  IsFiniteSet(S) /\ Cardinality(S) <= m
<1> DEFINE Before(t) == {u \in E : u < t}
           S == {t \in E : Cardinality(Before(t)) < m}
<1>s. S \in SUBSET E /\ \A t \in S : Cardinality(Before(t)) < m
  OBVIOUS
<1>b. \A t \in E : Before(t) \in SUBSET (1..n) /\ \A u \in E : u < t => u \in Before(t)
  OBVIOUS
<1> SUFFICES IsFiniteSet(S) /\ Cardinality(S) <= m
  OBVIOUS
<1> HIDE DEF Before, S
<1>1. IsFiniteSet(1..n)
  BY FS_Interval
<1>2. ASSUME NEW T \in SUBSET (1..n) PROVE IsFiniteSet(T) /\ Cardinality(T) \in Nat
  BY <1>1, FS_Subset, FS_CardinalityType
<1>3. S \in SUBSET (1..n)
  BY <1>s
<1>4. CASE S = {}
  <2>1. Cardinality(S) = 0
    BY <1>4, FS_EmptySet
  <2> QED BY <1>2, <1>3, <2>1
<1>5. CASE S # {}
  <2>1. PICK x \in S : \A y \in S : y <= x
    BY <1>3, <1>5, LastOf
  <2> DEFINE B == Before(x)
  <2>2. \A y \in S : y \in B \/ y = x
    BY <1>s, <1>b, <2>1
  <2>3. IsFiniteSet(B) /\ Cardinality(B) \in Nat /\ Cardinality(B) < m
    BY <1>2, <1>s, <1>b, <2>1
  <2> HIDE DEF B
  <2>4. /\ IsFiniteSet(B \cup {x})
        /\ Cardinality(B \cup {x}) = IF x \in B THEN Cardinality(B) ELSE Cardinality(B) + 1
    BY <2>3, FS_AddElement
  <2>5. Cardinality(B \cup {x}) <= m
    BY <2>3, <2>4
  <2>6. Cardinality(S) <= Cardinality(B \cup {x})
    <3>1. S \in SUBSET (B \cup {x})
      BY <2>2
    <3> QED BY <2>4, <3>1, FS_Subset
  <2>7. Cardinality(S) \in Nat /\ Cardinality(B \cup {x}) \in Nat
    BY <1>2, <1>3, <2>4, FS_CardinalityType
  <2> QED BY <1>2, <1>3, <2>5, <2>6, <2>7
<1> QED BY <1>4, <1>5

\* The statuses takeTasks leaves.
Takes(a, k) == status' = TakeStatus(a, k) /\ UNCHANGED <<taskVars, limit>>

\* No task begins to hold a slot.
NoNewSlot ==
  \A t \in TaskIds :
    status'[t] \in Occupied => status[t] \in Occupied /\ taskSession'[t] = taskSession[t]

LEMMA NextSlots ==
  ASSUME RowsInv, [Next]_vars
  PROVE  NoNewSlot \/ \E a \in Apps, k \in 0..lastTask : Takes(a, k)
<1>t. TypeOK
  BY DEF RowsInv
<1> USE DEF taskVars, appVars, dbVars
<1>u. ASSUME UNCHANGED <<status, taskSession>> PROVE NoNewSlot
  BY <1>u DEF NoNewSlot
<1>c. ASSUME NEW s \in Sessions, CancelTasks(s), UNCHANGED taskSession PROVE NoNewSlot
  BY <1>c DEF CancelTasks, ActiveTasks, Active, Occupied, NoNewSlot
<1>1. CASE SessionStep
  <2>1. ASSUME NEW s \in Sessions, NEW r \in Requests, SubmitVisitorMessage(s, r) PROVE NoNewSlot
    <3>1. CASE /\ lastTask < MaxTasks /\ lastTask' = lastTask + 1
               /\ status' = [status EXCEPT ![lastTask'] = "queued"]
               /\ taskSession' = [taskSession EXCEPT ![lastTask'] = s]
      BY <3>1, <1>t DEF TypeOK, NoNewSlot, Occupied
    <3> QED BY <2>1, <3>1, <1>u DEF SubmitVisitorMessage
  <2> QED BY <1>1, <1>c, <1>u, <2>1 DEF SessionStep, InitSession, RequestHuman, ResumeAi,
                CancelVisitorTask, ClaimSession, CloseSession, SendAgentMessage
<1>2. CASE AppStep
  BY <1>2, <1>u DEF AppStep, SetEnabled, SetLimit
<1>3. CASE DrainStep
  <2>1. ASSUME NEW a \in Apps, NEW k \in 0..lastTask, TakeTasks(a, k)
        PROVE  UNCHANGED <<status, taskSession>> \/ Takes(a, k)
    BY <2>1 DEF TakeTasks, Takes
  <2> QED BY <1>3, <1>u, <2>1 DEF DrainStep, StartDrain, LoseDispatchLock, ListQueuedApps,
                                  RegisterTasks, EndDrain
<1>4. CASE TaskStep
  <2>1. PICK t \in TaskIds :
          /\ UNCHANGED taskSession
          /\ \/ status' = status \/ FinishCommit(t)
             \/ status' = [status EXCEPT ![t] = IF @ = "running" THEN "cancelling" ELSE @]
             \/ status' = [status EXCEPT ![t] = RecoveredStatus(t)]
    BY <1>4 DEF TaskStep, ExecutorStep, AbortTask, RetryFinalizer, ReadAppAndTask, ReadSession,
                ReadThen, StreamDone, ExecuteFails, FinishTask, Timeout, MarkTimedOut,
                FinishFails, RecoverTask
  <2>2. CASE FinishCommit(t)
    BY <2>1, <2>2, <1>t, <1>u DEF FinishCommit, FinishStatus, NoNewSlot, Occupied, TypeOK
  <2>3. CASE status' = [status EXCEPT ![t] = IF @ = "running" THEN "cancelling" ELSE @]
    BY <2>1, <2>3, <1>t DEF NoNewSlot, Occupied, TypeOK
  <2>4. CASE status' = [status EXCEPT ![t] = RecoveredStatus(t)]
    BY <2>1, <2>4, <1>t DEF NoNewSlot, RecoveredStatus, Occupied, TypeOK
  <2> QED BY <1>u, <2>1, <2>2, <2>3, <2>4
<1>5. CASE ProcessStep
  BY <1>5, <1>u DEF ProcessStep, StartProcess, BecomeReady, Crash, BeginShutdown, AbortAll, Exit
<1>6. CASE UNCHANGED vars
  BY <1>6, <1>u DEF vars
<1> QED BY <1>1, <1>2, <1>3, <1>4, <1>5, <1>6 DEF Next

LEMMA TasksOfFinite ==
  ASSUME TypeOK, NEW a, NEW S
  PROVE  /\ TasksOf(a, S) \in SUBSET (1..lastTask)
         /\ IsFiniteSet(TasksOf(a, S)) /\ Cardinality(TasksOf(a, S)) \in Nat
<1>1. IsFiniteSet(1..lastTask)
  BY FS_Interval DEF TypeOK
<1>2. TasksOf(a, S) \in SUBSET (1..lastTask)
  BY DEF TasksOf
<1> QED BY <1>1, <1>2, FS_Subset, FS_CardinalityType

LEMMA AvailableType == ASSUME TypeOK, NEW a \in Apps PROVE Available(a) \in Nat
<1> DEFINE occupied == Cardinality(TasksOf(a, Occupied))
           max == IF limit[a] = Unlimited THEN MaxTasks ELSE limit[a]
<1>1. occupied \in Nat
  BY TasksOfFinite
<1>2. max \in Nat
  BY ConstantsAssumption DEF ConstantsAssumption, TypeOK
<1>3. Available(a) = IF occupied < max THEN max - occupied ELSE 0
  BY DEF Available
<1> HIDE DEF occupied, max
<1> QED BY <1>1, <1>2, <1>3

\* takeTasks picks no more tasks than there are free slots.
LEMMA SelectedFit ==
  ASSUME TypeOK, NEW a \in Apps, NEW k \in 0..lastTask
  PROVE  /\ IsFiniteSet(Selected(a, k)) /\ Cardinality(Selected(a, k)) <= Available(a)
         /\ Cardinality(Selected(a, k)) \in Nat
<1>1. Eligible(a, k) \in SUBSET (1..lastTask) /\ lastTask \in Nat
  BY DEF Eligible, TasksOf, TypeOK
<1>2. IsFiniteSet(Selected(a, k)) /\ Cardinality(Selected(a, k)) <= Available(a)
  BY <1>1, OldestFit, AvailableType DEF Selected
<1> QED BY <1>2, FS_CardinalityType

\* The tasks that hold a slot of an application after takeTasks.
LEMMA TakenSlots ==
  ASSUME RowsInv, NEW a \in Apps, NEW k \in 0..lastTask, NEW b \in Apps, Takes(a, k)
  PROVE  \A t \in TasksOf(b, Occupied)' :
           t \in TasksOf(b, Occupied) \/ (b = a /\ t \in Selected(a, k))
<1> SUFFICES ASSUME NEW t \in TasksOf(b, Occupied)'
             PROVE  t \in TasksOf(b, Occupied) \/ (b = a /\ t \in Selected(a, k))
  OBVIOUS
<1>1. /\ t \in 1..lastTask /\ t \in TaskIds
      /\ AppOf[taskSession[t]] = b /\ status'[t] \in Occupied
  BY ConstantsAssumption DEF ConstantsAssumption, Takes, TasksOf, taskVars, RowsInv, TypeOK, TaskIds
<1>2. status'[t] = TakeStatus(a, k)[t]
  BY DEF Takes
<1>3. CASE t \in Selected(a, k)
  BY <1>1, <1>3 DEF Selected, Eligible, TasksOf
<1>4. CASE t \notin Selected(a, k)
  <2>1. status'[t] \in {status[t], "expired", "cancelled"}
    BY <1>1, <1>2, <1>4 DEF TakeStatus
  <2> QED BY <1>1, <2>1 DEF TasksOf, Occupied
<1> QED BY <1>3, <1>4

-----------------------------------------------------------------------------
WithinLimit(a) ==
  LET occupied == Cardinality(TasksOf(a, Occupied))
  IN  occupied' > occupied /\ limit[a] # Unlimited => occupied' <= limit[a]

LEMMA TakeWithinLimit ==
  ASSUME RowsInv, NEW a \in Apps, NEW k \in 0..lastTask, NEW b \in Apps, Takes(a, k)
  PROVE  WithinLimit(b)
<1> DEFINE Before == TasksOf(b, Occupied)
           After  == TasksOf(b, Occupied)'
<1>1. IsFiniteSet(Before) /\ Cardinality(Before) \in Nat
  BY TasksOfFinite DEF RowsInv
<1>2. \A t \in After : t \in Before \/ (b = a /\ t \in Selected(a, k))
  BY TakenSlots
<1>3. CASE b # a
  <2>1. After \in SUBSET Before
    BY <1>2, <1>3
  <2>2. Cardinality(After) <= Cardinality(Before) /\ Cardinality(After) \in Nat
    BY <1>1, <2>1, FS_Subset, FS_CardinalityType
  <2> QED BY <1>1, <2>2 DEF WithinLimit
<1>4. CASE b = a /\ limit[a] # Unlimited
  <2> DEFINE free == Available(a)
  <2>1. limit[a] \in Nat
    BY <1>4, ConstantsAssumption DEF ConstantsAssumption, RowsInv, TypeOK
  <2>2. /\ free \in Nat
        /\ free = IF Cardinality(Before) < limit[a] THEN limit[a] - Cardinality(Before) ELSE 0
    BY <1>1, <1>4, <2>1 DEF Available
  <2>3. /\ IsFiniteSet(Selected(a, k)) /\ Cardinality(Selected(a, k)) \in Nat
        /\ Cardinality(Selected(a, k)) <= free
    BY <2>2, SelectedFit DEF RowsInv
  <2> DEFINE Both == Before \cup Selected(a, k)
  <2>4. After \in SUBSET Both
    BY <1>2
  <2>5. IsFiniteSet(Both) /\ Cardinality(Both) <= Cardinality(Before) + Cardinality(Selected(a, k))
    <3>1. IsFiniteSet(Before \cap Selected(a, k)) /\ Cardinality(Before \cap Selected(a, k)) \in Nat
      BY <1>1, FS_Subset, FS_CardinalityType
    <3>2. /\ IsFiniteSet(Both)
          /\ Cardinality(Both) = Cardinality(Before) + Cardinality(Selected(a, k))
                                   - Cardinality(Before \cap Selected(a, k))
      BY <1>1, <2>3, FS_Union
    <3> QED BY <1>1, <2>3, <3>1, <3>2
  <2>6. Cardinality(After) <= Cardinality(Both) /\ Cardinality(After) \in Nat
    BY <2>4, <2>5, FS_Subset, FS_CardinalityType
  <2>7. Cardinality(Both) \in Nat
    BY <2>5, FS_CardinalityType
  <2> HIDE DEF Before, After, Both, free
  <2>8. Cardinality(After) > Cardinality(Before) => Cardinality(After) <= limit[a]
    BY <1>1, <2>1, <2>2, <2>3, <2>5, <2>6, <2>7
  <2> QED BY <1>4, <2>8 DEF WithinLimit, Before, After
<1>5. CASE b = a /\ limit[a] = Unlimited
  BY <1>5 DEF WithinLimit
<1> QED BY <1>3, <1>4, <1>5

LEMMA NextWithinLimit == RowsInv /\ [Next]_vars => \A a \in Apps : WithinLimit(a)
<1> SUFFICES ASSUME RowsInv, [Next]_vars, NEW b \in Apps PROVE WithinLimit(b)
  OBVIOUS
<1>1. CASE NoNewSlot
  <2> DEFINE Before == TasksOf(b, Occupied)
             After  == TasksOf(b, Occupied)'
  <2>1. After \in SUBSET Before
    <3> SUFFICES ASSUME NEW t \in After PROVE t \in Before
      OBVIOUS
    <3>1. t \in TaskIds /\ status'[t] \in Occupied /\ AppOf[taskSession'[t]] = b
      <4>1. TypeOK'
        BY NextTypeOK DEF RowsInv
      <4> QED BY <4>1, ConstantsAssumption DEF ConstantsAssumption, TypeOK, TasksOf, TaskIds
    <3>2. status[t] \in Occupied /\ AppOf[taskSession[t]] = b
      BY <1>1, <3>1 DEF NoNewSlot
    <3>3. t <= lastTask
      BY <3>1, <3>2 DEF RowsInv, Ledger, LedgerRow, Occupied
    <3>4. t \in 1..lastTask
      BY <3>1, <3>3 DEF RowsInv, TypeOK, TaskIds
    <3> QED BY <3>2, <3>4 DEF TasksOf
  <2>2. IsFiniteSet(Before) /\ Cardinality(Before) \in Nat
    BY TasksOfFinite DEF RowsInv
  <2>3. Cardinality(After) <= Cardinality(Before) /\ Cardinality(After) \in Nat
    BY <2>1, <2>2, FS_Subset, FS_CardinalityType
  <2> QED BY <2>2, <2>3 DEF WithinLimit
<1> QED BY <1>1, NextSlots, TakeWithinLimit

\* Whatever administrators do to the limit and visitors to their questions, dispatch
\* never fills more slots than the limit of that moment leaves, cancelling tasks counted.
THEOREM LimitKept == Spec => DispatchWithinLimit
<1>1. RowsInv /\ [Next]_vars => [\A a \in Apps : WithinLimit(a)]_vars
  BY NextWithinLimit
<1>2. Spec => [][\A a \in Apps : WithinLimit(a)]_vars
  BY <1>1, RowsInvariant, PTL DEF Spec
<1> QED BY <1>2 DEF DispatchWithinLimit, WithinLimit

\* No older task of the application is left in the queue when a task starts.
InOrder ==
  \A t, u \in TaskIds :
    /\ status[t] = "queued" /\ status'[t] = "running"
    /\ u < t /\ status[u] = "queued"
    /\ AppOf[taskSession[u]] = AppOf[taskSession[t]]
    => status'[u] # "queued"

LEMMA TakeInOrder ==
  ASSUME RowsInv, NEW a \in Apps, NEW k \in 0..lastTask, Takes(a, k) PROVE InOrder
<1> SUFFICES ASSUME NEW t \in TaskIds, NEW u \in TaskIds,
                    status[t] = "queued", status'[t] = "running", u < t, status[u] = "queued",
                    AppOf[taskSession[u]] = AppOf[taskSession[t]], status'[u] = "queued"
             PROVE  FALSE
  BY DEF InOrder
<1>1. t \in Selected(a, k)
  BY DEF Takes, TakeStatus
<1>2. u \notin Selected(a, k) /\ u \notin Dropped(a, k)
  BY DEF Takes, TakeStatus
<1>3. u \in Eligible(a, k)
  <2>1. u \in 1..lastTask
    <3>1. u <= lastTask
      BY DEF RowsInv, Ledger, LedgerRow
    <3> QED BY <3>1 DEF RowsInv, TypeOK, TaskIds
  <2>2. AppOf[taskSession[t]] = a
    BY <1>1 DEF Selected, Eligible, TasksOf
  <2> QED BY <1>2, <2>1, <2>2 DEF Eligible, TasksOf
<1> DEFINE Older(x) == {v \in Eligible(a, k) : v < x}
<1>4. Older(t) \in SUBSET (1..lastTask) /\ Older(u) \in SUBSET Older(t)
  BY DEF Eligible, TasksOf, TaskIds, RowsInv, TypeOK
<1>5. IsFiniteSet(Older(t)) /\ Cardinality(Older(u)) <= Cardinality(Older(t))
  <2>0. lastTask \in Int
    BY DEF RowsInv, TypeOK
  <2>1. IsFiniteSet(1..lastTask)
    BY <2>0, FS_Interval
  <2> QED BY <1>4, <2>1, FS_Subset
<1>6. Cardinality(Older(t)) < Available(a)
  BY <1>1 DEF Selected
<1>7. Cardinality(Older(u)) < Available(a)
  <2>1. Cardinality(Older(u)) \in Nat /\ Cardinality(Older(t)) \in Nat
    BY <1>4, <1>5, FS_Subset, FS_CardinalityType
  <2>2. Available(a) \in Int
    BY AvailableType DEF RowsInv
  <2> HIDE DEF Older
  <2> QED BY <1>5, <1>6, <2>1, <2>2
<1> QED BY <1>2, <1>3, <1>7 DEF Selected

LEMMA NextInOrder == RowsInv /\ [Next]_vars => InOrder
<1> SUFFICES ASSUME RowsInv, [Next]_vars PROVE InOrder
  OBVIOUS
<1>1. NoNewSlot => InOrder
  BY DEF NoNewSlot, InOrder, Occupied
<1> QED BY <1>1, NextSlots, TakeInOrder

\* First come, first served, whatever is cancelled, expired or handed over meanwhile.
THEOREM ServedInOrder == Spec => FirstComeFirstServed
<1>1. RowsInv /\ [Next]_vars => [InOrder]_vars
  BY NextInOrder
<1>2. Spec => [][InOrder]_vars
  BY <1>1, RowsInvariant, PTL DEF Spec
<1> QED BY <1>2 DEF FirstComeFirstServed, InOrder
=============================================================================
