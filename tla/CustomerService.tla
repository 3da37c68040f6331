-------------------------- MODULE CustomerService --------------------------
(***************************************************************************)
(* Customer reception (server/src/customer-service): visitors ask          *)
(* questions, an in-process dispatcher hands queued questions to an AI     *)
(* executor under a per-application limit, and human agents may take a     *)
(* conversation over at any moment.                                        *)
(*                                                                         *)
(* State comes in two halves that a crash tells apart: rows of the         *)
(* database (sessions, tasks, messages, applications), changed only by     *)
(* transactions that hold the application row, and the memory of the one   *)
(* serving process (the `running' map, pending finalizers, the drain       *)
(* loop).  Every transaction is one step.  What a request handler or the   *)
(* dispatcher does after its commit is another step, so the window between *)
(* the two is in the model.                                                *)
(***************************************************************************)
EXTENDS Integers, FiniteSets

CONSTANTS
  Apps, Sessions, Agents, Requests,   \* Requests: clientMessageId values
  AppOf,            \* the application a session belongs to
  Limits,           \* values maxConcurrentChats may take
  Unlimited,        \* maxConcurrentChats = NULL
  None,
  QueueLimit,       \* QUEUE_LIMIT
  Faults,           \* kinds of database failure that may happen
  MaxTasks, MaxMessages, MaxHandovers, MaxFaults, MaxStops     \* bounds

ASSUME ConstantsAssumption ==
  /\ AppOf \in [Sessions -> Apps]
  /\ IsFiniteSet(Apps) /\ IsFiniteSet(Sessions)
  /\ Limits \subseteq (Nat \ {0}) \cup {Unlimited}
  /\ Unlimited \notin Nat
  /\ None \notin Sessions \cup Agents \cup Requests \cup {"visitor", "agent"} \cup Nat
  /\ QueueLimit \in Nat /\ MaxTasks \in Nat /\ MaxMessages \in Nat /\ MaxHandovers \in Nat
  /\ MaxFaults \in Nat /\ MaxStops \in Nat

TaskIds == 1..MaxTasks

VARIABLES
  serviceStatus, serviceVersion, assignedAgent,           \* session rows
  lastTask, status, taskSession, taskVersion, taskRequest, \* task rows
  author,           \* which side used a request id in a session (the unique index)
  aiMessages,       \* number of AI messages saved for a task
  enabled, limit,                                         \* application rows
  phase,            \* of the process: stopping / ready / lock ownership
  interrupted,      \* tasks recoverInterruptedTasks has still to visit
  draining, retry, awaited, todo, taken,                  \* the drain loop
  exec, publishAllowed, failure, timer,   \* executors, the `running' map
  toAbort,          \* committed cancellations whose abortTasks is to come
  missedAbort,      \* history: cancellations whose commit reply was lost
  handovers, faults, stops                              \* bounded counters

sessionVars == <<serviceStatus, serviceVersion, handovers, assignedAgent>>
taskVars    == <<lastTask, taskSession, taskVersion, taskRequest>>
messageVars == <<author, aiMessages>>
appVars     == <<enabled, limit>>
drainVars   == <<draining, retry, awaited, todo, taken>>
execVars    == <<exec, publishAllowed, failure, timer>>
procVars    == <<phase, interrupted>>
abortVars   == <<toAbort, missedAbort>>
dbVars      == <<sessionVars, taskVars, status, messageVars, appVars>>
memVars     == <<drainVars, execVars, procVars, abortVars>>
vars        == <<dbVars, memVars, faults, stops>>

-----------------------------------------------------------------------------
\* Task and session states.

Active   == {"queued", "running", "cancelling"}       \* ACTIVE_STATUSES
Occupied == {"running", "cancelling"}                 \* hold a slot
Terminal == {"completed", "cancelled", "failed", "expired"}

\* What an entry of the `running' map is doing.  "closing": the stream has
\* ended, the write of markTimedOut is awaited.  From "finishing" on the task
\* is also in pendingFinalizers; in "pending" the attempt to finish failed and
\* the dispatcher has to retry it.
Live      == {"starting", "checked", "streaming"}
ExecPhase == Live \cup {"none", "closing", "finishing", "pending"}

\* Slip: a cancelling task no longer counts as open.
ActiveTasks_NotCancelling(s) ==
  {t \in TaskIds : taskSession[t] = s /\ status[t] \in {"queued", "running"}}

ActiveTasks(s)   == {t \in TaskIds : taskSession[t] = s /\ status[t] \in Active}
TasksOf(a, S)    == {t \in 1..lastTask : AppOf[taskSession[t]] = a /\ status[t] \in S}

\* A task still belongs to the conversation it was asked in.
IsCurrent(t) == /\ serviceStatus[taskSession[t]] = "ai"
                /\ serviceVersion[taskSession[t]] = taskVersion[t]

\* assertReady was checked when a request arrived; its transaction may commit
\* after the process has begun to stop or has lost the dispatch lock.
Serving == phase \in {"ready", "stopping", "aborting", "lost"}

\* One more failure of the given kind, within the bound.
Fault(kind) == /\ kind \in Faults
               /\ faults < MaxFaults
               /\ faults' = faults + 1

-----------------------------------------------------------------------------
\* Visitors and agents: one transaction each, holding the application row.

\* withAppLock without allowDisabled.
AppLock(s) == Serving /\ enabled[AppOf[s]]

\* Slip: retries of a message are not recognised.
Duplicate_Never(s, r) == FALSE

\* findDuplicate: the request id has been used in this session.  Repeating the
\* message is a no-op, another message under it is refused.
Duplicate(s, r) == author[s][r] # None

\* The message of one side is stored under its request id.  At most MaxMessages
\* messages, over all sessions.
SaveMessage(s, r, side) ==
  /\ Cardinality({m \in Sessions \X Requests : author[m[1]][m[2]] # None}) < MaxMessages
  /\ author' = [author EXCEPT ![s][r] = side]

\* Slip: queued tasks are left in the queue.
CancelTasks_RunningOnly(s) ==
  status' = [t \in TaskIds |->
               IF taskSession[t] = s /\ status[t] = "running" THEN "cancelling" ELSE status[t]]

\* Slip: the slot is given back before the executor has settled.
CancelTasks_AtOnce(s) ==
  status' = [t \in TaskIds |->
               IF t \in ActiveTasks(s) THEN "cancelled" ELSE status[t]]

\* cancelInTransaction: queued tasks end, executing ones wait for the executor.
CancelTasks(s) ==
  status' = [t \in TaskIds |->
               IF t \notin ActiveTasks(s) THEN status[t]
               ELSE IF status[t] = "queued" THEN "cancelled" ELSE "cancelling"]

\* Of the cancelled tasks the ones that may have an entry in the `running' map.
Executing(s) == {t \in ActiveTasks(s) : status[t] # "queued"}

\* Slip: a handler forgets abortTasks.
CommitReply_NoAbort(ids) == ids = ids /\ UNCHANGED <<abortVars, faults>>

\* The commit either comes back to the handler, which goes on to abortTasks,
\* or its reply is lost and the handler throws before aborting anything.
CommitReply(ids) ==
  \/ toAbort' = toAbort \cup ids /\ UNCHANGED <<missedAbort, faults>>
  \/ /\ ids # {}
     /\ Fault("handler")
     /\ missedAbort' = missedAbort \cup ids
     /\ UNCHANGED toAbort

\* At most MaxHandovers changes of serviceVersion, over all sessions.
BumpVersion(s) ==
  /\ handovers < MaxHandovers
  /\ handovers' = handovers + 1
  /\ serviceVersion' = [serviceVersion EXCEPT ![s] = @ + 1]

InitSession(s) ==
  /\ phase = "ready"
  /\ serviceStatus[s] = "absent"
  /\ serviceStatus' = [serviceStatus EXCEPT ![s] = "ai"]
  /\ UNCHANGED <<serviceVersion, handovers, assignedAgent, taskVars, status,
                 messageVars, appVars, memVars, faults, stops>>

\* In AI service the message becomes a queued task; with a person (present or
\* awaited) it is only recorded.  A repeated request id changes nothing.
SubmitVisitorMessage(s, r) ==
  /\ AppLock(s)
  /\ ~Duplicate(s, r)
  /\ SaveMessage(s, r, "visitor")
  /\ \/ /\ serviceStatus[s] \in {"waiting_human", "human"}
        /\ UNCHANGED <<taskVars, status>>
     \/ /\ serviceStatus[s] = "ai"
        /\ ActiveTasks(s) = {}
        /\ Cardinality(TasksOf(AppOf[s], {"queued"})) < QueueLimit
        /\ lastTask < MaxTasks
        /\ lastTask' = lastTask + 1
        /\ status' = [status EXCEPT ![lastTask'] = "queued"]
        /\ taskSession' = [taskSession EXCEPT ![lastTask'] = s]
        /\ taskVersion' = [taskVersion EXCEPT ![lastTask'] = serviceVersion[s]]
        /\ taskRequest' = [taskRequest EXCEPT ![lastTask'] = r]
  /\ UNCHANGED <<sessionVars, aiMessages, appVars, memVars, faults, stops>>

RequestHuman(s) ==
  /\ AppLock(s)
  /\ serviceStatus[s] = "ai"
  /\ CancelTasks(s)
  /\ serviceStatus' = [serviceStatus EXCEPT ![s] = "waiting_human"]
  /\ assignedAgent' = [assignedAgent EXCEPT ![s] = None]
  /\ BumpVersion(s)
  /\ CommitReply(Executing(s))
  /\ UNCHANGED <<taskVars, messageVars, appVars, drainVars, execVars,
                 procVars, stops>>

ResumeAi(s) ==
  /\ AppLock(s)
  /\ serviceStatus[s] = "waiting_human"
  /\ serviceStatus' = [serviceStatus EXCEPT ![s] = "ai"]
  /\ BumpVersion(s)
  /\ UNCHANGED <<assignedAgent, taskVars, status, messageVars, appVars,
                 memVars, faults, stops>>

CancelVisitorTask(s) ==
  /\ AppLock(s)
  /\ \E t \in ActiveTasks(s) : status[t] # "cancelling"
  /\ CancelTasks(s)
  /\ BumpVersion(s)
  /\ CommitReply(Executing(s))
  /\ UNCHANGED <<serviceStatus, assignedAgent, taskVars, messageVars, appVars,
                 drainVars, execVars, procVars, stops>>

\* Slip: a claim does not look at who has the session.
ClaimableBy_Anyone(s, g) == ~(assignedAgent[s] = g /\ serviceStatus[s] = "human")

\* Not taken by somebody else, nor by g already.
ClaimableBy(s, g) ==
  /\ assignedAgent[s] \in {None, g}
  /\ ~(assignedAgent[s] = g /\ serviceStatus[s] = "human")

ClaimSession(s, g) ==
  /\ AppLock(s)
  /\ serviceStatus[s] \notin {"absent", "closed"}
  /\ ClaimableBy(s, g)
  /\ CancelTasks(s)
  /\ serviceStatus' = [serviceStatus EXCEPT ![s] = "human"]
  /\ assignedAgent' = [assignedAgent EXCEPT ![s] = g]
  /\ BumpVersion(s)
  /\ CommitReply(Executing(s))
  /\ UNCHANGED <<taskVars, messageVars, appVars, drainVars, execVars,
                 procVars, stops>>

Assigned(s, g) == serviceStatus[s] = "human" /\ assignedAgent[s] = g

SendAgentMessage(s, g, r) ==
  /\ AppLock(s)
  /\ ~Duplicate(s, r)
  /\ Assigned(s, g)
  /\ SaveMessage(s, r, "agent")
  /\ UNCHANGED <<sessionVars, taskVars, status, aiMessages, appVars, memVars,
                 faults, stops>>

\* Allowed for a disabled application too.
CloseSession(s, g) ==
  /\ Serving
  /\ Assigned(s, g)
  /\ CancelTasks(s)
  /\ serviceStatus' = [serviceStatus EXCEPT ![s] = "closed"]
  /\ BumpVersion(s)
  /\ CommitReply(Executing(s))
  /\ UNCHANGED <<assignedAgent, taskVars, messageVars, appVars, drainVars,
                 execVars, procVars, stops>>

\* abortTasks, after the commit of a cancelling request.
AbortTask(t) ==
  /\ t \in toAbort
  /\ toAbort' = toAbort \ {t}
  /\ publishAllowed' = [publishAllowed EXCEPT ![t] = FALSE]
  /\ UNCHANGED <<dbVars, drainVars, exec, failure, timer, procVars,
                 missedAbort, faults, stops>>

\* An administrator edits the application.  enabled also stands for
\* "not deleted": the service treats both alike.
SetEnabled(a) ==
  /\ enabled' = [enabled EXCEPT ![a] = ~@]
  /\ UNCHANGED <<sessionVars, taskVars, status, messageVars, limit, memVars,
                 faults, stops>>

SetLimit(a, n) ==
  /\ n # limit[a]
  /\ limit' = [limit EXCEPT ![a] = n]
  /\ UNCHANGED <<sessionVars, taskVars, status, messageVars, enabled, memVars,
                 faults, stops>>

-----------------------------------------------------------------------------
\* The dispatcher.  At most one drain runs at a time.

\* Slip: finalizers that failed are not retried.
Pending_Forgotten == {}

\* Slip: the queue is listed by task instead of by application.
QueuedApps_Rows == TasksOf(CHOOSE a \in Apps : TRUE, {"queued"})

Pending    == {t \in TaskIds : exec[t] = "pending"}
QueuedApps == {a \in Apps : TasksOf(a, {"queued"}) # {}}

\* The lock check passed.  Finalizers that failed earlier come first; without
\* any the drain goes on to the applications that have queued tasks at once,
\* and a drain that has nothing to do is no step.
StartDrain ==
  /\ phase = "ready" /\ draining = "idle"
  /\ retry' = Pending
  /\ IF Pending # {}
     THEN draining' = "finalizers" /\ UNCHANGED todo
     ELSE QueuedApps # {} /\ draining' = "dispatching" /\ todo' = QueuedApps
  /\ UNCHANGED <<dbVars, awaited, taken, execVars, procVars, abortVars,
                 faults, stops>>

\* The lock check failed: stop serving and abort every execution.
LoseDispatchLock ==
  /\ phase = "ready" /\ draining = "idle"
  /\ Fault("lock")
  /\ phase' = "lost"
  /\ publishAllowed' = [t \in TaskIds |-> FALSE]
  /\ UNCHANGED <<dbVars, drainVars, exec, failure, timer, interrupted,
                 abortVars, stops>>

RetryFinalizer(t) ==
  /\ draining = "finalizers" /\ awaited = None
  /\ exec[t] = "pending"
  /\ exec' = [exec EXCEPT ![t] = "finishing"]
  /\ awaited' = t
  /\ UNCHANGED <<dbVars, draining, retry, todo, taken, publishAllowed,
                 failure, timer, procVars, abortVars, faults, stops>>

ListQueuedApps ==
  /\ draining = "finalizers" /\ awaited = None
  /\ retry \cap Pending = {}
  /\ retry' = {}
  /\ draining' = "dispatching"
  /\ todo' = QueuedApps
  /\ UNCHANGED <<dbVars, awaited, taken, execVars, procVars, abortVars,
                 faults, stops>>

\* Slip: cancelling tasks do not count against the limit.
Available_RunningOnly(a) ==
  LET running == Cardinality(TasksOf(a, {"running"}))
      max     == IF limit[a] = Unlimited THEN MaxTasks ELSE limit[a]
  IN  IF running < max THEN max - running ELSE 0

\* (maxConcurrentChats ?? Infinity) - occupied, at least 0; no more than
\* MaxTasks tasks exist, so MaxTasks stands for Infinity.
Available(a) ==
  LET occupied == Cardinality(TasksOf(a, Occupied))
      max      == IF limit[a] = Unlimited THEN MaxTasks ELSE limit[a]
  IN  IF occupied < max THEN max - occupied ELSE 0

\* Tasks queued for more than QUEUE_TIMEOUT_MS: the ones created up to k.
Dropped(a, k) ==
  {t \in TasksOf(a, {"queued"}) : ~enabled[a] \/ ~IsCurrent(t) \/ t <= k}

Eligible(a, k) == TasksOf(a, {"queued"}) \ Dropped(a, k)

\* Slip: the newest tasks first.
Selected_Newest(a, k) ==
  {t \in Eligible(a, k) :
     Cardinality({u \in Eligible(a, k) : u > t}) < Available(a)}

\* The oldest eligible tasks, as many as there are free slots.
Selected(a, k) ==
  {t \in Eligible(a, k) :
     Cardinality({u \in Eligible(a, k) : u < t}) < Available(a)}

TakeStatus(a, k) ==
  [t \in TaskIds |->
     IF t \in Selected(a, k) THEN "running"
     ELSE IF t \in Dropped(a, k)
          THEN IF t <= k THEN "expired" ELSE "cancelled"
     ELSE status[t]]

\* The transaction of takeTasks.  If its reply is lost, or it fails, the drain
\* ends: nothing is registered, and later applications wait for the next one.
TakeTasks(a, k) ==
  /\ draining = "dispatching" /\ phase # "stopping" /\ a \in todo
  /\ \/ /\ status' = TakeStatus(a, k)
        /\ taken' = Selected(a, k)
        /\ draining' = "registering"
        /\ todo' = todo \ {a}
        /\ UNCHANGED faults
     \/ /\ Fault("take")
        /\ status' \in {status, TakeStatus(a, k)}
        /\ draining' = "idle"
        /\ todo' = {}
        /\ UNCHANGED taken
  /\ UNCHANGED <<sessionVars, taskVars, messageVars, appVars, retry, awaited,
                 execVars, procVars, abortVars, stops>>

\* The reply arrived: enter the tasks into the `running' map and start execute,
\* which gives up at once when the process is stopping.
RegisterTasks ==
  LET stopping == phase = "stopping" IN
  /\ draining = "registering"
  /\ draining' = "dispatching"
  /\ taken' = {}
  /\ exec' = [t \in TaskIds |->
       IF t \in taken THEN IF stopping THEN "finishing" ELSE "starting" ELSE exec[t]]
  /\ publishAllowed' = [t \in TaskIds |-> IF t \in taken THEN ~stopping ELSE publishAllowed[t]]
  /\ failure' = [t \in TaskIds |-> IF t \in taken THEN stopping ELSE failure[t]]
  /\ timer' = [t \in TaskIds |-> IF t \in taken /\ ~stopping THEN "armed" ELSE timer[t]]
  /\ UNCHANGED <<dbVars, retry, awaited, todo, procVars, abortVars, faults, stops>>

EndDrain ==
  /\ draining = "dispatching"
  /\ todo = {} \/ phase = "stopping"
  /\ draining' = "idle"
  /\ todo' = {}
  /\ UNCHANGED <<dbVars, retry, awaited, taken, execVars, procVars, abortVars,
                 faults, stops>>

-----------------------------------------------------------------------------
\* An executor (execute): it reads application, task and session one after the
\* other, outside any transaction, then streams the answer.

\* The stream or a read before it is over.  A timer that fired is awaited, else
\* it is cleared and the finalizer is registered and tried at once.
Close(t, failed, publish) ==
  LET marking == timer[t] = "marking" IN
  /\ exec' = [exec EXCEPT ![t] = IF marking THEN "closing" ELSE "finishing"]
  /\ failure' = [failure EXCEPT ![t] = failed]
  /\ publishAllowed' = [publishAllowed EXCEPT ![t] = publish]
  /\ timer' = [timer EXCEPT ![t] = IF marking THEN @ ELSE "off"]

Proceed(t, next) ==
  /\ exec' = [exec EXCEPT ![t] = next]
  /\ UNCHANGED <<publishAllowed, failure, timer>>

\* Go on if the rows just read are as they should be, else give up and be silent.
ReadThen(t, ok, next) ==
  /\ IF ok THEN Proceed(t, next) ELSE Close(t, TRUE, FALSE)
  /\ UNCHANGED <<dbVars, drainVars, procVars, abortVars, faults, stops>>

ReadAppAndTask(t) ==
  /\ exec[t] = "starting"
  /\ ReadThen(t, enabled[AppOf[taskSession[t]]] /\ status[t] = "running", "checked")

ReadSession(t) ==
  /\ exec[t] = "checked"
  /\ ReadThen(t, IsCurrent(t), "streaming")

\* askStream delivered `done'.  writeEvent drops it once publishing is off.
StreamDone(t) ==
  /\ exec[t] = "streaming"
  /\ publishAllowed[t]
  /\ Close(t, FALSE, TRUE)
  /\ UNCHANGED <<dbVars, drainVars, procVars, abortVars, faults, stops>>

\* A read failed, the AI failed, or askStream threw because it was aborted.
ExecuteFails(t) ==
  /\ exec[t] \in Live
  /\ Close(t, TRUE, publishAllowed[t])
  /\ UNCHANGED <<dbVars, drainVars, procVars, abortVars, faults, stops>>

\* EXECUTION_TIMEOUT_MS passed before the stream ended.
Timeout(t) ==
  /\ exec[t] \in Live /\ timer[t] = "armed"
  /\ timer' = [timer EXCEPT ![t] = "marking"]
  /\ publishAllowed' = [publishAllowed EXCEPT ![t] = FALSE]
  /\ UNCHANGED <<dbVars, drainVars, exec, failure, procVars, abortVars, faults,
                 stops>>

\* The transaction of markTimedOut, whose failure is only logged.  A stream that
\* has ended meanwhile was waiting for it.
MarkTimedOut(t) ==
  /\ timer[t] = "marking"
  /\ timer' = [timer EXCEPT ![t] = "off"]
  /\ exec' = [exec EXCEPT ![t] = IF @ = "closing" THEN "finishing" ELSE @]
  /\ \/ /\ status' = [status EXCEPT ![t] = IF @ = "running" THEN "cancelling" ELSE @]
        /\ UNCHANGED faults
     \/ Fault("mark") /\ UNCHANGED status
  /\ UNCHANGED <<sessionVars, taskVars, messageVars, appVars, drainVars,
                 publishAllowed, failure, procVars, abortVars, stops>>

\* Slip: the outcome is taken without looking at what happened meanwhile.
FinishStatus_Late(t) == IF failure[t] THEN "failed" ELSE "completed"

FinishStatus(t) ==
  IF ~publishAllowed[t] \/ status[t] = "cancelling" \/ ~IsCurrent(t)
  THEN "cancelled"
  ELSE IF failure[t] THEN "failed" ELSE "completed"

\* Slip: a retried finalizer does not look whether it has committed before.
FinishCommit_Again(t) ==
  /\ status' = [status EXCEPT ![t] = FinishStatus(t)]
  /\ aiMessages' = [aiMessages EXCEPT
                      ![t] = IF FinishStatus(t) = "completed" THEN @ + 1 ELSE @]

\* The transaction of `finish'.  It does nothing to a task already terminal.
FinishCommit(t) ==
  IF status[t] \in Occupied
  THEN /\ status' = [status EXCEPT ![t] = FinishStatus(t)]
       /\ aiMessages' = [aiMessages EXCEPT
                           ![t] = IF FinishStatus(t) = "completed" THEN @ + 1 ELSE @]
  ELSE UNCHANGED <<status, aiMessages>>

\* finishTask with its reply: finalizer and `running' entry go, a drain that
\* waited goes on.  An abort that comes later finds no entry.
FinishTask(t) ==
  /\ exec[t] = "finishing"
  /\ FinishCommit(t)
  /\ exec' = [exec EXCEPT ![t] = "none"]
  /\ publishAllowed' = [publishAllowed EXCEPT ![t] = FALSE]
  /\ failure' = [failure EXCEPT ![t] = FALSE]
  /\ awaited' = IF awaited = t THEN None ELSE awaited
  /\ toAbort' = toAbort \ {t} /\ missedAbort' = missedAbort \ {t}
  /\ UNCHANGED <<sessionVars, taskVars, author, appVars, draining, retry, todo,
                 taken, timer, procVars, faults, stops>>

\* The transaction fails, or commits and its reply is lost.  The finalizer stays
\* for the next drain; a drain that was waiting for it ends.
FinishFails(t) ==
  /\ exec[t] = "finishing"
  /\ Fault("finish")
  /\ FinishCommit(t) \/ UNCHANGED <<status, aiMessages>>
  /\ Proceed(t, "pending")
  /\ IF awaited = t
     THEN draining' = "idle" /\ awaited' = None /\ retry' = {}
     ELSE UNCHANGED <<draining, awaited, retry>>
  /\ UNCHANGED <<sessionVars, taskVars, author, appVars, todo, taken, procVars,
                 abortVars, stops>>

-----------------------------------------------------------------------------
\* The process.

EmptyMemory ==
  /\ draining' = "idle" /\ retry' = {} /\ awaited' = None
  /\ todo' = {} /\ taken' = {}
  /\ exec' = [t \in TaskIds |-> "none"]
  /\ publishAllowed' = [t \in TaskIds |-> FALSE]
  /\ failure' = [t \in TaskIds |-> FALSE]
  /\ timer' = [t \in TaskIds |-> "off"]
  /\ toAbort' = {} /\ missedAbort' = {}

\* Slip: recovery overlooks tasks that were being cancelled.
Interrupted_RunningOnly == {t \in TaskIds : status[t] = "running"}

Interrupted == {t \in TaskIds : status[t] \in Occupied}

\* Slip: recovery fails every task, cancelled or not.
RecoveredStatus_AllFailed(t) == IF status[t] \in Occupied THEN "failed" ELSE status[t]

\* Slip: recovery asks the question again.
RecoveredStatus_Replay(t) ==
  IF status[t] = "cancelling" THEN "cancelled"
  ELSE IF status[t] = "running" THEN "queued" ELSE status[t]

RecoveredStatus(t) ==
  IF status[t] = "cancelling" THEN "cancelled"
  ELSE IF status[t] = "running" THEN "failed" ELSE status[t]

\* GET_LOCK succeeded; recoverInterruptedTasks lists what to recover.
StartProcess ==
  /\ phase = "down"
  /\ phase' = "recovering"
  /\ interrupted' = Interrupted
  /\ UNCHANGED <<dbVars, drainVars, execVars, abortVars, faults, stops>>

RecoverTask(t) ==
  /\ phase = "recovering" /\ t \in interrupted
  /\ interrupted' = interrupted \ {t}
  /\ status' = [status EXCEPT ![t] = RecoveredStatus(t)]
  /\ UNCHANGED <<sessionVars, taskVars, messageVars, appVars, drainVars,
                 execVars, phase, abortVars, faults, stops>>

BecomeReady ==
  /\ phase = "recovering" /\ interrupted = {}
  /\ phase' = "ready"
  /\ UNCHANGED <<dbVars, drainVars, execVars, interrupted, abortVars, faults,
                 stops>>

\* A crash at any point, recovery included (where a failed transaction also
\* makes the start fail and release the lock).
Crash ==
  /\ phase # "down"
  /\ stops < MaxStops
  /\ stops' = stops + 1
  /\ phase' = "down" /\ interrupted' = {}
  /\ EmptyMemory
  /\ UNCHANGED <<dbVars, faults>>

\* shutdown: stop dispatching, wait for the drain, abort, wait for executions.
BeginShutdown ==
  /\ phase \in {"ready", "lost"}
  /\ stops < MaxStops
  /\ stops' = stops + 1
  /\ phase' = "stopping"
  /\ UNCHANGED <<dbVars, drainVars, execVars, interrupted, abortVars, faults>>

AbortAll ==
  /\ phase = "stopping" /\ draining = "idle"
  /\ phase' = "aborting"
  /\ publishAllowed' = [t \in TaskIds |-> FALSE]
  /\ UNCHANGED <<dbVars, drainVars, exec, failure, timer, interrupted,
                 abortVars, faults, stops>>

\* Every execution has settled; one whose finishing failed leaves its task to
\* the next start.
Exit ==
  /\ phase = "aborting"
  /\ \A t \in TaskIds : exec[t] \in {"none", "pending"}
  /\ phase' = "down" /\ interrupted' = {}
  /\ EmptyMemory
  /\ UNCHANGED <<dbVars, faults, stops>>

-----------------------------------------------------------------------------
Init ==
  /\ serviceStatus = [s \in Sessions |-> "absent"]
  /\ serviceVersion = [s \in Sessions |-> 0]
  /\ assignedAgent = [s \in Sessions |-> None]
  /\ lastTask = 0
  /\ status = [t \in TaskIds |-> "none"]
  /\ taskSession = [t \in TaskIds |-> None]
  /\ taskVersion = [t \in TaskIds |-> 0]
  /\ taskRequest = [t \in TaskIds |-> None]
  /\ author = [s \in Sessions |-> [r \in Requests |-> None]]
  /\ aiMessages = [t \in TaskIds |-> 0]
  /\ enabled = [a \in Apps |-> TRUE]
  /\ limit \in [Apps -> Limits]
  /\ phase = "down" /\ interrupted = {}
  /\ draining = "idle" /\ retry = {} /\ awaited = None /\ todo = {} /\ taken = {}
  /\ exec = [t \in TaskIds |-> "none"]
  /\ publishAllowed = [t \in TaskIds |-> FALSE]
  /\ failure = [t \in TaskIds |-> FALSE]
  /\ timer = [t \in TaskIds |-> "off"]
  /\ toAbort = {} /\ missedAbort = {}
  /\ handovers = 0 /\ faults = 0 /\ stops = 0

SessionStep ==
  \E s \in Sessions :
    \/ InitSession(s)
    \/ RequestHuman(s)
    \/ ResumeAi(s)
    \/ CancelVisitorTask(s)
    \/ \E r \in Requests : SubmitVisitorMessage(s, r)
    \/ \E g \in Agents :
         \/ ClaimSession(s, g)
         \/ CloseSession(s, g)
         \/ \E r \in Requests : SendAgentMessage(s, g, r)

AppStep == \E a \in Apps : SetEnabled(a) \/ \E n \in Limits : SetLimit(a, n)

DrainStep ==
  \/ StartDrain
  \/ LoseDispatchLock
  \/ ListQueuedApps
  \/ \E a \in Apps, k \in 0..lastTask : TakeTasks(a, k)
  \/ RegisterTasks
  \/ EndDrain

ExecutorStep(t) ==
  \/ ReadAppAndTask(t) \/ ReadSession(t)
  \/ StreamDone(t) \/ ExecuteFails(t)
  \/ FinishTask(t)

TaskStep ==
  \E t \in TaskIds :
    \/ AbortTask(t)
    \/ RetryFinalizer(t)
    \/ ExecutorStep(t)
    \/ Timeout(t)
    \/ MarkTimedOut(t)
    \/ FinishFails(t)
    \/ RecoverTask(t)

ProcessStep ==
  StartProcess \/ BecomeReady \/ Crash \/ BeginShutdown \/ AbortAll \/ Exit

Next == SessionStep \/ AppStep \/ DrainStep \/ TaskStep \/ ProcessStep

Spec == Init /\ [][Next]_vars
-----------------------------------------------------------------------------
\* Safety.

\* Every variable holds a value its column, map or field can hold.
TypeOK ==
  /\ serviceStatus \in [Sessions -> {"absent", "ai", "waiting_human", "human", "closed"}]
  /\ serviceVersion \in [Sessions -> Nat]
  /\ assignedAgent \in [Sessions -> Agents \cup {None}]
  /\ lastTask \in 0..MaxTasks
  /\ status \in [TaskIds -> Active \cup Terminal \cup {"none"}]
  /\ taskSession \in [TaskIds -> Sessions \cup {None}]
  /\ taskVersion \in [TaskIds -> Nat]
  /\ taskRequest \in [TaskIds -> Requests \cup {None}]
  /\ author \in [Sessions -> [Requests -> {"visitor", "agent", None}]]
  /\ aiMessages \in [TaskIds -> Nat]
  /\ enabled \in [Apps -> BOOLEAN]
  /\ limit \in [Apps -> Limits]
  /\ phase \in {"down", "recovering", "ready", "lost", "stopping", "aborting"}
  /\ interrupted \subseteq TaskIds
  /\ draining \in {"idle", "finalizers", "dispatching", "registering"}
  /\ retry \subseteq TaskIds
  /\ awaited \in TaskIds \cup {None}
  /\ todo \subseteq Apps
  /\ taken \subseteq TaskIds
  /\ exec \in [TaskIds -> ExecPhase]
  /\ publishAllowed \in [TaskIds -> BOOLEAN]
  /\ failure \in [TaskIds -> BOOLEAN]
  /\ timer \in [TaskIds -> {"off", "armed", "marking"}]
  /\ toAbort \subseteq TaskIds
  /\ missedAbort \subseteq TaskIds
  /\ handovers \in 0..MaxHandovers
  /\ faults \in 0..MaxFaults
  /\ stops \in 0..MaxStops

\* A conversation never has two open questions, although the visitor may hand
\* over, come back to the AI and ask again while the old executor still winds
\* down (activeTask counts cancelling tasks).
OneActiveTaskPerSession ==
  \A t, u \in TaskIds :
    status[t] \in Active /\ status[u] \in Active /\ taskSession[t] = taskSession[u]
      => t = u

\* A task that waits or runs belongs to a conversation in AI service, at the
\* version it was asked in: no way out of AI service, and no version bump,
\* leaves a task behind that could still be answered.
WorkIsCurrent ==
  \A t \in TaskIds : status[t] \in {"queued", "running"} => IsCurrent(t)

\* The slot of a task is held until its executor settles (class comment): as
\* long as AI work goes on for it, its row is running or cancelling, whatever
\* the visitor, the agent, the timer or the administrator did meanwhile.
SlotHeldWhileExecuting ==
  \A t \in TaskIds : exec[t] \in Live \cup {"closing"} => status[t] \in Occupied

\* The converse, while the process serves: a task that holds a slot has an
\* executor or finalizer that will give it back, or is on its way to one.
SlotHasExecutor ==
  Serving => \A t \in TaskIds :
    status[t] \in Occupied => exec[t] # "none" \/ t \in taken

\* Once a cancellation or hand-over has reached abortTasks, the executor can
\* publish nothing more: a stream that may still publish belongs to a running
\* task, up to the window between commit and abort.
SilentAfterHandover ==
  \A t \in TaskIds :
    exec[t] = "streaming" /\ publishAllowed[t] /\ status[t] # "running"
      => t \in toAbort \cup missedAbort

\* A completed task has exactly one AI message and every other task has none,
\* however often its finalizer is retried.
AnsweredOnce ==
  \A t \in TaskIds : aiMessages[t] = IF status[t] = "completed" THEN 1 ELSE 0

\* One visitor request id makes at most one task of its session, and no task
\* exists without its visitor message.
OneTaskPerRequest ==
  \A t \in 1..lastTask :
    /\ author[taskSession[t]][taskRequest[t]] = "visitor"
    /\ \A u \in 1..lastTask :
         taskSession[t] = taskSession[u] /\ taskRequest[t] = taskRequest[u] => t = u

-----------------------------------------------------------------------------
\* What a step may never do.

\* A step that occupies more slots of an application ends within the limit in
\* force at that moment, cancelling tasks counted.
DispatchWithinLimit ==
  [][\A a \in Apps :
       LET occupied == Cardinality(TasksOf(a, Occupied))
       IN  occupied' > occupied /\ limit[a] # Unlimited
             => occupied' <= limit[a]]_vars

\* First come, first served: when a task starts running, no older task of its
\* application stays behind in the queue.
FirstComeFirstServed ==
  [][\A t, u \in TaskIds :
       /\ status[t] = "queued" /\ status'[t] = "running"
       /\ u < t /\ status[u] = "queued"
       /\ AppOf[taskSession[u]] = AppOf[taskSession[t]]
       => status'[u] # "queued"]_vars

\* Cancellation wins every race: a task once cancelling ends cancelled, also
\* when the AI finishes at the same time or the process restarts in between;
\* and what has ended, a cancelled question above all, never comes back.
CancellationWins ==
  [][\A t \in TaskIds :
       /\ status[t] = "cancelling" => status'[t] \in {"cancelling", "cancelled"}
       /\ status[t] \in Terminal => status'[t] = status[t]]_vars

\* An AI message appears only in a conversation that is in AI service and has
\* not changed hands since the question was asked.
NoLateAnswer ==
  [][\A t \in TaskIds :
       aiMessages'[t] # aiMessages[t] => IsCurrent(t) /\ publishAllowed[t]]_vars

\* A conversation a person has taken stays with that person until it is closed,
\* whoever else tries to claim it and whatever the visitor asks for.
AgentKeepsSession ==
  [][\A s \in Sessions :
       serviceStatus[s] = "human" =>
         /\ serviceStatus'[s] \in {"human", "closed"}
         /\ assignedAgent'[s] = assignedAgent[s]]_vars

-----------------------------------------------------------------------------
\* The conversation a visitor sees: the refinement mapping to the abstract
\* specification.

Mode(s) == IF serviceStatus[s] \in {"waiting_human", "human"} THEN "people"
           ELSE serviceStatus[s]

Stage(t) == IF status[t] = "queued" THEN "waiting"
            ELSE IF status[t] = "running" THEN "working"
            ELSE IF status[t] = "cancelling" THEN "revoked"
            ELSE IF status[t] = "completed" THEN "answered"
            ELSE IF status[t] = "none" THEN "none"
            ELSE "unanswered"

Conversation == INSTANCE CustomerConversation WITH
  Questions <- TaskIds,
  mode      <- [s \in Sessions |-> Mode(s)],
  stage     <- [t \in TaskIds |-> Stage(t)],
  askedIn   <- taskSession

\* Customer reception keeps the promises of CustomerConversation through
\* concurrent requests, database failures, timeouts, shutdowns and crashes.
ImplementsConversation == Conversation!Spec

-----------------------------------------------------------------------------
\* Fairness.  The drain timer fires every two seconds, so a drain that has work
\* starts and goes on; handlers, timers and executors that have begun go on; an
\* AI call ends, at the latest by honouring the abort; a stopped process is
\* started again.
Fairness ==
  /\ WF_vars(StartDrain) /\ WF_vars(ListQueuedApps)
  /\ WF_vars(RegisterTasks) /\ WF_vars(EndDrain)
  /\ \A a \in Apps : WF_vars(\E k \in 0..lastTask : TakeTasks(a, k))
  /\ \A t \in TaskIds :
       /\ WF_vars(AbortTask(t)) /\ WF_vars(RetryFinalizer(t))
       /\ WF_vars(ExecutorStep(t)) /\ WF_vars(MarkTimedOut(t))
       /\ WF_vars(RecoverTask(t))
  /\ WF_vars(StartProcess) /\ WF_vars(BecomeReady)
  /\ WF_vars(AbortAll) /\ WF_vars(Exit)

FairSpec == Spec /\ Fairness

\* Every question accepted for the AI ends: answered, failed, expired or
\* cancelled, however requests, failures and a restart interleave, so no visitor
\* waits for ever and no slot is lost.
EveryTaskEnds ==
  \A t \in TaskIds : status[t] \in Active ~> status[t] \in Terminal
=============================================================================
