---------------------- MODULE CustomerRefinementProofs ----------------------
(***************************************************************************)
(* CustomerService implements CustomerConversation, for every value of the *)
(* constants: each step of the service is a step of the conversation, or   *)
(* changes nothing that the conversation sees.                             *)
(***************************************************************************)
EXTENDS CustomerServiceProofs

\* What the abstract specification sees of a state.
modes  == [s \in Sessions |-> Mode(s)]
stages == [t \in TaskIds |-> Stage(t)]
seen   == <<modes, stages, taskSession>>

ConvStep == Conversation!Next \/ UNCHANGED seen

LEMMA SeenVars == UNCHANGED seen <=> UNCHANGED Conversation!vars
BY DEF seen, modes, stages, Conversation!vars

\* Steps that change neither who has a conversation nor a task row.
LEMMA Unseen ==
  UNCHANGED <<serviceStatus, status, taskSession>> => UNCHANGED seen
BY DEF seen, modes, stages, Mode, Stage

LEMMA InitRefines == Init => Conversation!Init
BY DEF Init, Conversation!Init, Mode, Stage

-----------------------------------------------------------------------------
\* Cancelling all open tasks of a session withdraws its questions.
LEMMA CancelWithdraws ==
  ASSUME RowsInv, NEW s \in Sessions, CancelTasks(s), taskSession' = taskSession
  PROVE  Conversation!Withdraw(s)
<1>1. \A t \in TaskIds :
        Stage(t)' = IF taskSession[t] # s THEN Stage(t)
                    ELSE IF Stage(t) = "waiting" THEN "unanswered"
                    ELSE IF Stage(t) = "working" THEN "revoked"
                    ELSE Stage(t)
  BY DEF CancelTasks, ActiveTasks, Active, Stage, Terminal, RowsInv, TypeOK
<1> QED BY <1>1 DEF Conversation!Withdraw

\* A change of one session's status.
LEMMA ModeChange ==
  ASSUME RowsInv, NEW s \in Sessions, NEW m,
         serviceStatus' = [serviceStatus EXCEPT ![s] = m],
         NEW n, n = IF m \in {"waiting_human", "human"} THEN "people" ELSE m
  PROVE  modes' = [modes EXCEPT ![s] = n]
<1>1. \A r \in Sessions : Mode(r)' = IF r = s THEN n ELSE Mode(r)
  BY DEF Mode, RowsInv, TypeOK
<1> QED BY <1>1 DEF modes

LEMMA HandOverRefines ==
  ASSUME RowsInv, NEW s \in Sessions, NEW m \in {"waiting_human", "human", "closed"},
         serviceStatus[s] \notin {"absent", "closed"},
         serviceStatus' = [serviceStatus EXCEPT ![s] = m],
         CancelTasks(s), taskSession' = taskSession
  PROVE  Conversation!Next
<1>1. Conversation!Withdraw(s)
  BY CancelWithdraws
<1>2. PICK n \in {"people", "closed"} : modes' = [modes EXCEPT ![s] = n]
  <2>1. CASE m = "closed"
    BY <2>1, ModeChange
  <2>2. CASE m # "closed"
    BY <2>2, ModeChange
  <2> QED BY <2>1, <2>2
<1>3. modes[s] \in {"ai", "people"}
  BY DEF modes, Mode, RowsInv, TypeOK
<1>4. Conversation!HandOver(s)
  BY <1>1, <1>2, <1>3 DEF Conversation!HandOver, modes
<1> QED BY <1>4 DEF Conversation!Next

LEMMA SessionStepRefines == RowsInv /\ SessionStep => ConvStep
<1> SUFFICES ASSUME RowsInv, NEW s \in Sessions,
                    \/ InitSession(s) \/ RequestHuman(s) \/ ResumeAi(s)
                    \/ CancelVisitorTask(s)
                    \/ \E r \in Requests : SubmitVisitorMessage(s, r)
                    \/ \E g \in Agents :
                         \/ ClaimSession(s, g) \/ CloseSession(s, g)
                         \/ \E r \in Requests : SendAgentMessage(s, g, r)
             PROVE  ConvStep
  BY DEF SessionStep
<1>1. CASE InitSession(s)
  <2>1. modes' = [modes EXCEPT ![s] = "ai"]
    BY <1>1, ModeChange DEF InitSession
  <2>2. stages' = stages /\ taskSession' = taskSession
    BY <1>1 DEF InitSession, taskVars, stages, Stage
  <2>3. Conversation!Begin(s)
    BY <1>1, <2>1, <2>2 DEF InitSession, Conversation!Begin, modes, stages, Mode
  <2> QED BY <2>3 DEF ConvStep, Conversation!Next
<1>2. CASE RequestHuman(s)
  BY <1>2, HandOverRefines DEF RequestHuman, taskVars, ConvStep
<1>3. CASE ResumeAi(s)
  <2>1. modes' = [modes EXCEPT ![s] = "ai"]
    BY <1>3, ModeChange DEF ResumeAi
  <2>2. stages' = stages /\ taskSession' = taskSession
    BY <1>3 DEF ResumeAi, taskVars, stages, Stage
  <2>3. Conversation!Return(s)
    BY <1>3, <2>1, <2>2 DEF ResumeAi, Conversation!Return, modes, stages, Mode
  <2> QED BY <2>3 DEF ConvStep, Conversation!Next
<1>4. CASE CancelVisitorTask(s)
  <2>1. modes' = modes /\ taskSession' = taskSession
    BY <1>4 DEF CancelVisitorTask, taskVars, modes, Mode
  <2>2. Conversation!Cancel(s)
    BY <1>4, <2>1, CancelWithdraws DEF CancelVisitorTask, Conversation!Cancel, modes
  <2> QED BY <2>2 DEF ConvStep, Conversation!Next
<1>5. ASSUME NEW r \in Requests, SubmitVisitorMessage(s, r) PROVE ConvStep
  <2>1. serviceStatus' = serviceStatus
    BY <1>5 DEF SubmitVisitorMessage, sessionVars
  <2>2. CASE UNCHANGED <<taskVars, status>>
    BY <2>1, <2>2, Unseen DEF ConvStep, taskVars
  <2>3. CASE /\ serviceStatus[s] = "ai"
             /\ ActiveTasks(s) = {}
             /\ lastTask < MaxTasks
             /\ lastTask' = lastTask + 1
             /\ status' = [status EXCEPT ![lastTask'] = "queued"]
             /\ taskSession' = [taskSession EXCEPT ![lastTask'] = s]
    <3>0. PICK n \in TaskIds : n = lastTask + 1
      BY <2>3, ConstantsAssumption DEF RowsInv, TypeOK, TaskIds, ConstantsAssumption
    <3>1. status[n] = "none"
      BY <3>0 DEF RowsInv, TypeOK, Ledger, LedgerRow
    <3>2. \A t \in TaskIds : Stage(t)' = IF t = n THEN "waiting" ELSE Stage(t)
      BY <2>3, <3>0 DEF Stage, RowsInv, TypeOK
    <3>3. stages' = [stages EXCEPT ![n] = "waiting"]
      BY <3>2 DEF stages
    <3>4. modes' = modes /\ modes[s] = "ai"
      BY <2>1, <2>3 DEF modes, Mode
    <3>5. stages[n] = "none"
      BY <3>1 DEF stages, Stage
    <3>6. \A p \in TaskIds : taskSession[p] = s => stages[p] \notin {"waiting", "working", "revoked"}
      BY <2>3 DEF ActiveTasks, Active, stages, Stage
    <3>7. Conversation!Ask(s, n)
      BY <2>3, <3>0, <3>3, <3>4, <3>5, <3>6
         DEF Conversation!Ask, Conversation!QuestionsOf, Conversation!Open, modes, stages
    <3> QED BY <3>7 DEF ConvStep, Conversation!Next
  <2> QED BY <1>5, <2>2, <2>3 DEF SubmitVisitorMessage
<1>6. ASSUME NEW g \in Agents, ClaimSession(s, g) PROVE ConvStep
  BY <1>6, HandOverRefines DEF ClaimSession, taskVars, ConvStep
<1>7. ASSUME NEW g \in Agents, CloseSession(s, g) PROVE ConvStep
  BY <1>7, HandOverRefines DEF CloseSession, Assigned, taskVars, ConvStep
<1>8. ASSUME NEW g \in Agents, NEW r \in Requests, SendAgentMessage(s, g, r) PROVE ConvStep
  BY <1>8, Unseen DEF SendAgentMessage, sessionVars, taskVars, ConvStep
<1> QED BY <1>1, <1>2, <1>3, <1>4, <1>5, <1>6, <1>7, <1>8

LEMMA AppStepRefines == AppStep => ConvStep
BY Unseen DEF AppStep, SetEnabled, SetLimit, sessionVars, taskVars, ConvStep

-----------------------------------------------------------------------------
\* Taking tasks up and dropping others is one step of the conversation.
LEMMA TakeRefines ==
  ASSUME RowsInv, NEW a \in Apps, NEW k \in 0..lastTask,
         status' = TakeStatus(a, k), UNCHANGED <<serviceStatus, taskSession>>
  PROVE  Conversation!Next
<1> DEFINE up   == {t \in TaskIds : status[t] = "queued" /\ status'[t] = "running"}
           gone == {t \in TaskIds : status[t] = "queued" /\ status'[t] \in {"expired", "cancelled"}}
<1>1. \A t \in TaskIds :
        \/ status'[t] = status[t]
        \/ (status[t] = "queued" /\ status'[t] \in {"running", "expired", "cancelled"})
  BY TakeStatusRows
<1>2. \A t \in TaskIds : Stage(t)' = IF t \in up THEN "working"
                                     ELSE IF t \in gone THEN "unanswered"
                                     ELSE Stage(t)
  BY <1>1 DEF Stage
<1>3. \A t \in up \cup gone : Stage(t) = "waiting"
  BY DEF Stage
<1>4. modes' = modes
  BY DEF modes, Mode
<1>5. Conversation!Dispatch(up, gone)
  BY <1>2, <1>3, <1>4 DEF Conversation!Dispatch, modes
<1> QED BY <1>5 DEF Conversation!Next

LEMMA DrainStepRefines == RowsInv /\ DrainStep => ConvStep
<1> SUFFICES ASSUME RowsInv, DrainStep PROVE ConvStep
  OBVIOUS
<1>1. ASSUME NEW a \in Apps, NEW k \in 0..lastTask, TakeTasks(a, k) PROVE ConvStep
  <2>1. UNCHANGED <<serviceStatus, taskSession>>
    BY <1>1 DEF TakeTasks, sessionVars, taskVars
  <2>2. CASE status' = status
    BY <2>1, <2>2, Unseen DEF ConvStep
  <2>3. CASE status' = TakeStatus(a, k)
    BY <2>1, <2>3, TakeRefines DEF ConvStep
  <2> QED BY <1>1, <2>2, <2>3 DEF TakeTasks
<1>2. CASE StartDrain \/ LoseDispatchLock \/ ListQueuedApps \/ RegisterTasks \/ EndDrain
  BY <1>2, Unseen DEF StartDrain, LoseDispatchLock, ListQueuedApps, RegisterTasks, EndDrain,
     dbVars, sessionVars, taskVars, ConvStep
<1> QED BY <1>1, <1>2 DEF DrainStep

-----------------------------------------------------------------------------
\* A change of one task's status.
LEMMA StageChange ==
  ASSUME RowsInv, NEW t \in TaskIds, NEW x, NEW y,
         status' = [status EXCEPT ![t] = x],
         y = Stage(t)',
         UNCHANGED <<serviceStatus, taskSession>>
  PROVE  /\ stages' = [stages EXCEPT ![t] = y]
         /\ modes' = modes
         /\ status'[t] = x
<1>1. \A u \in TaskIds : Stage(u)' = IF u = t THEN y ELSE Stage(u)
  BY DEF Stage, RowsInv, TypeOK
<1>2. stages' = [stages EXCEPT ![t] = y]
  BY <1>1 DEF stages
<1> QED BY <1>2 DEF modes, Mode, RowsInv, TypeOK

LEMMA GiveUpRefines ==
  ASSUME RowsInv, NEW t \in TaskIds, status[t] \in Occupied,
         NEW x \in {"cancelled", "failed"},
         status' = [status EXCEPT ![t] = x], UNCHANGED <<serviceStatus, taskSession>>
  PROVE  Conversation!Next
<1>1. status'[t] = x
  BY StageChange
<1>2. Stage(t)' = "unanswered"
  BY <1>1 DEF Stage
<1>3. stages' = [stages EXCEPT ![t] = "unanswered"] /\ modes' = modes
  BY <1>2, StageChange
<1>4. stages[t] \in {"working", "revoked"}
  BY DEF stages, Stage, Occupied
<1>5. Conversation!GiveUp(t)
  BY <1>3, <1>4 DEF Conversation!GiveUp, modes, stages
<1> QED BY <1>5 DEF Conversation!Next

\* The finishing transaction answers or gives up.
LEMMA FinishRefines ==
  ASSUME RowsInv, NEW t \in TaskIds, FinishCommit(t), UNCHANGED <<serviceStatus, taskSession>>
  PROVE  ConvStep
<1>1. CASE status[t] \notin Occupied
  BY <1>1, Unseen DEF FinishCommit, ConvStep
<1>2. CASE status[t] \in Occupied /\ FinishStatus(t) = "completed"
  <2>1. status' = [status EXCEPT ![t] = "completed"]
    BY <1>2 DEF FinishCommit
  <2>2. status[t] = "running" /\ serviceStatus[taskSession[t]] = "ai"
    BY <1>2 DEF FinishStatus, IsCurrent, Occupied
  <2>3. taskSession[t] \in Sessions
    BY <2>2 DEF RowsInv, Ledger, LedgerRow
  <2>4. Stage(t)' = "answered"
    <3>1. status'[t] = "completed"
      BY <2>1, StageChange
    <3> QED BY <3>1 DEF Stage
  <2>5. stages' = [stages EXCEPT ![t] = "answered"] /\ modes' = modes
    BY <2>1, <2>4, StageChange
  <2>6. stages[t] = "working" /\ modes[taskSession[t]] = "ai"
    BY <2>2, <2>3 DEF stages, Stage, modes, Mode
  <2>7. Conversation!Answer(t)
    BY <2>5, <2>6 DEF Conversation!Answer, modes, stages
  <2> QED BY <2>7 DEF ConvStep, Conversation!Next
<1>3. CASE status[t] \in Occupied /\ FinishStatus(t) # "completed"
  <2>1. FinishStatus(t) \in {"cancelled", "failed"}
    BY <1>3 DEF FinishStatus
  <2>2. status' = [status EXCEPT ![t] = FinishStatus(t)]
    BY <1>3 DEF FinishCommit
  <2> QED BY <1>3, <2>1, <2>2, GiveUpRefines DEF ConvStep
<1> QED BY <1>1, <1>2, <1>3

LEMMA TaskStepRefines == RowsInv /\ TaskStep => ConvStep
<1> SUFFICES ASSUME RowsInv, NEW t \in TaskIds,
                    \/ AbortTask(t) \/ RetryFinalizer(t) \/ ExecutorStep(t) \/ Timeout(t)
                    \/ MarkTimedOut(t) \/ FinishFails(t) \/ RecoverTask(t)
             PROVE  ConvStep
  BY DEF TaskStep
<1>1. CASE \/ AbortTask(t) \/ RetryFinalizer(t) \/ Timeout(t)
           \/ ReadAppAndTask(t) \/ ReadSession(t) \/ StreamDone(t) \/ ExecuteFails(t)
  BY <1>1, Unseen DEF AbortTask, RetryFinalizer, Timeout, ReadAppAndTask, ReadSession, ReadThen,
     StreamDone, ExecuteFails, dbVars, sessionVars, taskVars, ConvStep
<1>2. CASE FinishTask(t)
  BY <1>2, FinishRefines DEF FinishTask, sessionVars, taskVars
<1>3. CASE FinishFails(t)
  <2>1. UNCHANGED <<serviceStatus, taskSession>>
    BY <1>3 DEF FinishFails, sessionVars, taskVars
  <2>2. CASE FinishCommit(t)
    BY <2>1, <2>2, FinishRefines
  <2>3. CASE status' = status
    BY <2>1, <2>3, Unseen DEF ConvStep
  <2> QED BY <1>3, <2>2, <2>3 DEF FinishFails
<1>4. CASE MarkTimedOut(t)
  <2>1. UNCHANGED <<serviceStatus, taskSession>>
    BY <1>4 DEF MarkTimedOut, sessionVars, taskVars
  <2>2. CASE status' = status
    BY <2>1, <2>2, Unseen DEF ConvStep
  <2>3. CASE status[t] = "running" /\ status' = [status EXCEPT ![t] = "cancelling"]
    <3>1. Stage(t)' = "revoked"
      <4>1. status'[t] = "cancelling"
        BY <2>1, <2>3, StageChange
      <4> QED BY <4>1 DEF Stage
    <3>2. stages' = [stages EXCEPT ![t] = "revoked"] /\ modes' = modes
      BY <2>1, <2>3, <3>1, StageChange
    <3>3. stages[t] = "working"
      BY <2>3 DEF stages, Stage
    <3>4. Conversation!Revoke(t)
      BY <2>1, <3>2, <3>3 DEF Conversation!Revoke, modes, stages
    <3> QED BY <3>4 DEF ConvStep, Conversation!Next
  <2> QED BY <1>4, <2>2, <2>3 DEF MarkTimedOut, RowsInv, TypeOK
<1>5. CASE RecoverTask(t)
  <2>1. UNCHANGED <<serviceStatus, taskSession>>
    BY <1>5 DEF RecoverTask, sessionVars, taskVars
  <2>2. status' = [status EXCEPT ![t] = RecoveredStatus(t)]
    BY <1>5 DEF RecoverTask
  <2>3. CASE status[t] \in Occupied
    BY <2>1, <2>2, <2>3, GiveUpRefines DEF RecoveredStatus, Occupied, ConvStep
  <2>4. CASE status[t] \notin Occupied
    <3>1. status' = status
      BY <2>2, <2>4 DEF RecoveredStatus, Occupied, RowsInv, TypeOK
    <3> QED BY <2>1, <3>1, Unseen DEF ConvStep
  <2> QED BY <2>3, <2>4
<1> QED BY <1>1, <1>2, <1>3, <1>4, <1>5 DEF ExecutorStep

LEMMA ProcessStepRefines == ProcessStep => ConvStep
<1> SUFFICES ASSUME ProcessStep PROVE UNCHANGED <<serviceStatus, status, taskSession>>
  BY Unseen DEF ConvStep
<1> QED BY DEF ProcessStep, StartProcess, BecomeReady, Crash, BeginShutdown, AbortAll, Exit,
               dbVars, sessionVars, taskVars

LEMMA NextRefines == RowsInv /\ [Next]_vars => [Conversation!Next]_Conversation!vars
<1>1. RowsInv /\ UNCHANGED vars => ConvStep
  BY Unseen DEF vars, dbVars, sessionVars, taskVars, ConvStep
<1>2. RowsInv /\ Next => ConvStep
  BY SessionStepRefines, AppStepRefines, DrainStepRefines, TaskStepRefines, ProcessStepRefines DEF Next
<1> QED BY <1>1, <1>2, SeenVars DEF ConvStep

\* Customer reception keeps the promises of CustomerConversation: through every
\* interleaving, failure, time-out, shutdown and crash, a visitor sees only what
\* the abstract conversation allows.
THEOREM ServiceRefinesConversation == Spec => ImplementsConversation
<1>1. Init => Conversation!Init
  BY InitRefines
<1> QED BY <1>1, RowsInvariant, NextRefines, PTL DEF Spec, ImplementsConversation, Conversation!Spec
=============================================================================
