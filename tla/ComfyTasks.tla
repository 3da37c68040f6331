------------------------------ MODULE ComfyTasks ------------------------------
(***************************************************************************)
(* Generation tasks of a ComfyUI service                                   *)
(* (server/src/comfyui/comfy-tasks.service.ts): one worker takes the rows  *)
(* of a table one after the other, submits each to a remote service,       *)
(* watches the remote queue and archives the outputs, while users create,  *)
(* cancel, retry and remove tasks and administrators disable or delete     *)
(* connections.  The process may stop anywhere and start again.            *)
(*                                                                         *)
(* A repeated request id returns the task it created and changes nothing.  *)
(* Parameters, material library and stages shown to the user are left out. *)
(***************************************************************************)
EXTENDS Integers, FiniteSets, Functions

CONSTANTS
  MaxTasks, Conns, NumOutputs, None,
  MaxAttempts,          \* bound on the executions users ask for, over all tasks
  MaxFaults,            \* bound on failures, stops and crashes
  MaxOps                \* bound on the requests under way

ASSUME ComfyAssumption ==
  /\ MaxTasks \in Nat /\ MaxAttempts \in Nat \ {0}
  /\ MaxFaults \in Nat
  /\ NumOutputs \in Nat \ {0} /\ MaxOps \in Nat /\ None \notin Conns

VARIABLES
  status, connOf, promptId, deleted,  \* task rows
  outputs,                            \* how many output rows a task has
  connState,                          \* rows of connections
  submitted,                          \* how often the service accepted a task
  remote,                             \* what the service has accepted and not ended
  ops,                                \* requests that have passed their check
  phase, pc, current, prompt, seen, left, verdict, \* the process and its worker
  attempts, torn,                     \* history: user's attempts, archives that lost outputs
  faults                              \* bounds

rowVars    == <<status, connOf, promptId, deleted, outputs>>
workerVars == <<pc, current, prompt, seen, left, verdict>>
serviceVars == <<submitted, remote>>
histVars   == <<attempts, torn>>
vars == <<rowVars, connState, serviceVars, ops, phase, workerVars, histVars, faults>>

Tasks == 1..MaxTasks

Active == {"submitting", "queued", "running", "archiving"}
Over   == {"succeeded", "failed", "cancelled", "unknown"}

Fault == faults < MaxFaults /\ faults' = faults + 1

\* tasks.update(id, { status }) whatever the row says.
SetStatus(t, s) == status' = [status EXCEPT ![t] = s]

Rest == /\ pc' = "idle" /\ current' = 0 /\ prompt' = 0
        /\ seen' = "queued" /\ left' = 0 /\ verdict' = "failed"

At(p) == phase # "down" /\ pc = p

Goto(p) == pc' = p /\ UNCHANGED <<current, prompt, seen, left, verdict>>

\* An exception of the try block, or a verdict of the service: failTask is next.
Fails(v) == pc' = "failing" /\ verdict' = v /\ UNCHANGED <<current, prompt, seen, left>>

-----------------------------------------------------------------------------
\* The bound on what users ask for.
MayAsk == FoldFunction(+, 0, attempts) + Cardinality({op \in ops : op[1] = "retry"}) < MaxAttempts

\* Users.  cancel, retry and remove read the row, and write it later.

Create(t, c) ==
  /\ phase # "down"
  /\ status[t] = "absent" /\ \A u \in 1..(t - 1) : status[u] # "absent"
  /\ connState[c] = "enabled" /\ MayAsk
  /\ SetStatus(t, "pending")
  /\ connOf' = [connOf EXCEPT ![t] = c]
  /\ attempts' = [attempts EXCEPT ![t] = 1]
  /\ UNCHANGED <<promptId, deleted, outputs, connState, serviceVars, ops, phase, workerVars, torn,
                 faults>>

Passes(op, t) ==
  /\ phase # "down" /\ t \notin deleted /\ Cardinality(ops) < MaxOps
  /\ ops' = ops \cup {<<op, t>>}
  /\ UNCHANGED <<rowVars, connState, serviceVars, phase, workerVars, histVars, faults>>

CancelCheck(t) == status[t] = "pending" /\ Passes("cancel", t)

RetryCheck(t) ==
  /\ status[t] = "failed" /\ connState[connOf[t]] = "enabled"
  /\ MayAsk
  /\ Passes("retry", t)

RemoveCheck(t) == status[t] \in Over /\ Passes("remove", t)

Commits(op, t) ==
  /\ <<op, t>> \in ops
  /\ UNCHANGED <<connOf, connState, serviceVars, phase, workerVars, faults>>

CancelCommit(t) ==
  /\ Commits("cancel", t)
  /\ SetStatus(t, "cancelled")
  /\ ops' = ops \ {<<"cancel", t>>}
  /\ UNCHANGED <<promptId, deleted, outputs, histVars>>

\* Slip: the outputs of the failed execution stay.
RetryCommit_KeepsOutputs(t) ==
  /\ Commits("retry", t)
  /\ IF status[t] = "failed"
     THEN /\ SetStatus(t, "pending")
          /\ promptId' = [promptId EXCEPT ![t] = 0]
          /\ UNCHANGED outputs
          /\ attempts' = [attempts EXCEPT ![t] = @ + 1]
          /\ torn' = torn \ {t}
     ELSE UNCHANGED <<status, promptId, outputs, histVars>>
  /\ ops' = ops \ {<<"retry", t>>}
  /\ UNCHANGED deleted

\* The transaction finds out whether the task is still failed.
RetryCommit(t) ==
  /\ Commits("retry", t)
  /\ IF status[t] = "failed"
     THEN /\ SetStatus(t, "pending")
          /\ promptId' = [promptId EXCEPT ![t] = 0]
          /\ outputs' = [outputs EXCEPT ![t] = 0]
          /\ attempts' = [attempts EXCEPT ![t] = @ + 1]
          /\ torn' = torn \ {t}
     ELSE UNCHANGED <<status, promptId, outputs, histVars>>
  /\ ops' = ops \ {<<"retry", t>>}
  /\ UNCHANGED deleted

RemoveCommit(t) ==
  /\ Commits("remove", t)
  /\ deleted' = deleted \cup {t}
  /\ ops' = (ops \ {<<"remove", t>>}) \cup {<<"removeOutputs", t>>}
  /\ UNCHANGED <<status, promptId, outputs, histVars>>

\* If the worker saves the task meanwhile (SavePrompt), it loses outputs, not its row.
RemoveOutputs(t) ==
  /\ Commits("removeOutputs", t)
  /\ outputs' = [outputs EXCEPT ![t] = 0]
  /\ ops' = ops \ {<<"removeOutputs", t>>}
  /\ torn' = IF t \in deleted THEN torn ELSE torn \cup {t}
  /\ UNCHANGED <<status, promptId, deleted, attempts>>

\* update and remove of a connection.  Removal asks for workflows that use it,
\* not for tasks.
SetConnection(c, s) ==
  /\ phase # "down" /\ connState[c] # "deleted" /\ s # connState[c]
  /\ connState' = [connState EXCEPT ![c] = s]
  /\ UNCHANGED <<rowVars, serviceVars, ops, phase, workerVars, histVars, faults>>

-----------------------------------------------------------------------------
\* The worker.  Each action is what happens between two awaits.

Candidates(S) == {t \in Tasks : status[t] \in S /\ t \notin deleted}

\* Slip: a waiting task is taken whether or not one is being executed.
NextTask_Pending(t) == t \in Candidates({"pending"}) /\ \A u \in Candidates({"pending"}) : t <= u

\* findExecutionTask: what is being executed first, then what waits, by id.
NextTask(t) ==
  LET ready == IF Candidates(Active) # {} THEN Candidates(Active) ELSE Candidates({"pending"})
  IN  t \in ready /\ \A u \in ready : t <= u

Tick(t) ==
  /\ phase = "up" /\ pc = "idle"
  /\ NextTask(t)
  /\ current' = t /\ prompt' = promptId[t] /\ left' = 0 /\ verdict' = "failed"
  /\ IF status[t] = "pending"
     THEN pc' = "starting" /\ seen' = "queued"
     ELSE pc' = "resuming" /\ seen' = status[t]
  /\ UNCHANGED <<rowVars, connState, serviceVars, ops, phase, histVars, faults>>

\* Slip: what had been handed to the service, or not, is handed to it again.
Resumed_Again ==
  IF seen = "submitting" \/ prompt = 0 THEN Goto("starting")
  ELSE IF connState[connOf[current]] = "deleted" THEN Fails("failed")
  ELSE Goto(IF seen = "archiving" /\ outputs[current] > 0 THEN "finishing" ELSE "polling")

\* Slip: a submission whose result is unknown is passed over.
Resumed_PassesOver ==
  IF seen = "submitting" /\ prompt = 0 THEN Rest
  ELSE IF prompt = 0 \/ connState[connOf[current]] = "deleted" THEN Fails("failed")
  ELSE Goto(IF seen = "archiving" /\ outputs[current] > 0 THEN "finishing" ELSE "polling")

\* resumeOrProcess up to its first write.
Resumed ==
  IF seen = "submitting" /\ prompt = 0 THEN Fails("unknown")
  ELSE IF prompt = 0 \/ connState[connOf[current]] = "deleted" THEN Fails("failed")
  ELSE Goto(IF seen = "archiving" /\ outputs[current] > 0 THEN "finishing" ELSE "polling")

Resume ==
  /\ At("resuming")
  /\ Resumed
  /\ UNCHANGED <<rowVars, connState, serviceVars, ops, phase, histVars, faults>>

\* A connection that is gone throws out of process, and the row stays as it is.
ReadConnection ==
  /\ At("starting")
  /\ LET s == connState[connOf[current]] IN
       IF s = "enabled" THEN Goto("preparing") ELSE IF s = "disabled" THEN Fails("failed") ELSE Rest
  /\ UNCHANGED <<rowVars, connState, serviceVars, ops, phase, histVars, faults>>

\* applyBindings, and the update to submitting.
Prepare ==
  /\ At("preparing")
  /\ \/ SetStatus(current, "submitting") /\ Goto("submitting") /\ UNCHANGED faults
     \/ Fault /\ Fails("failed") /\ UNCHANGED status
  /\ UNCHANGED <<connOf, promptId, deleted, outputs, connState, serviceVars, ops, phase, histVars>>

\* submitPrompt: accepted, refused, or accepted with the reply lost.  The prompt id is
\* the number of the submission.
Submit ==
  LET n == submitted[current] + 1
      Accepted == /\ submitted' = [submitted EXCEPT ![current] = n]
                  /\ remote' = remote \cup {<<current, n>>}
  IN /\ At("submitting")
     /\ \/ /\ Accepted /\ pc' = "saving" /\ prompt' = n
           /\ UNCHANGED <<current, seen, left, verdict, faults>>
        \/ Fault /\ Fails("failed") /\ (Accepted \/ UNCHANGED serviceVars)
     /\ UNCHANGED <<rowVars, connState, ops, phase, histVars>>

\* save writes every column of the entity in memory that differs from the row, the
\* mark of deletion included.
SavePrompt ==
  /\ At("saving")
  /\ \/ /\ SetStatus(current, "queued")
        /\ promptId' = [promptId EXCEPT ![current] = prompt]
        /\ deleted' = deleted \ {current}
        /\ pc' = "polling" /\ seen' = "queued"
        /\ UNCHANGED <<current, prompt, left, verdict, faults>>
     \/ Fault /\ Fails("failed") /\ UNCHANGED <<status, promptId, deleted>>
  /\ UNCHANGED <<connOf, outputs, connState, serviceVars, ops, phase, histVars>>

\* History and queue say that the job waits or runs; a job they do not know counts
\* as waiting, and the service may lose its queue and its history.
Watch ==
  /\ At("polling") /\ phase = "up"
  /\ \E s \in {"queued", "running"} \ {seen} :
       /\ s = "running" => <<current, prompt>> \in remote
       /\ SetStatus(current, s) /\ seen' = s
  /\ UNCHANGED <<connOf, promptId, deleted, outputs, connState, serviceVars, ops, phase, pc, current,
                 prompt, left, verdict, histVars, faults>>

\* The service reports an error of the job, or a query fails.
WatchFails ==
  /\ At("polling") /\ phase = "up"
  /\ Fault
  /\ Fails("failed")
  /\ UNCHANGED <<rowVars, connState, serviceVars, ops, phase, histVars>>

Deadline ==
  /\ At("polling") /\ phase = "up"
  /\ Fails("unknown")
  /\ UNCHANGED <<rowVars, connState, serviceVars, ops, phase, histVars, faults>>

\* The loop ends without a word when the service stops.
StopWatching ==
  /\ At("polling") /\ phase = "stopping"
  /\ Rest
  /\ UNCHANGED <<rowVars, connState, serviceVars, ops, phase, histVars, faults>>

\* The history has the job.  archive, first update: its outputs, if the workflow
\* version names any.
StartArchive ==
  /\ At("polling") /\ phase = "up" /\ <<current, prompt>> \notin remote
  /\ SetStatus(current, "archiving")
  /\ \/ pc' = "archiving" /\ left' = NumOutputs /\ UNCHANGED <<current, prompt, seen, verdict>>
     \/ Fails("failed")
  /\ UNCHANGED <<connOf, promptId, deleted, outputs, connState, serviceVars, ops, phase, histVars,
                 faults>>

\* Slip: an output that cannot be downloaded is skipped.
ArchiveOutput_Skips ==
  /\ At("archiving") /\ left > 0
  /\ left' = left - 1
  /\ \/ outputs' = [outputs EXCEPT ![current] = @ + 1] /\ UNCHANGED faults
     \/ Fault /\ UNCHANGED outputs
  /\ UNCHANGED <<status, connOf, promptId, deleted, connState, serviceVars, ops, phase, pc, current,
                 prompt, seen, verdict, histVars>>

ArchiveOutput ==
  /\ At("archiving") /\ left > 0
  /\ \/ /\ outputs' = [outputs EXCEPT ![current] = @ + 1]
        /\ left' = left - 1
        /\ UNCHANGED <<pc, current, prompt, seen, verdict, faults>>
     \/ Fault /\ Fails("failed") /\ UNCHANGED outputs
  /\ UNCHANGED <<status, connOf, promptId, deleted, connState, serviceVars, ops, phase, histVars>>

Succeed ==
  /\ At("finishing") \/ (At("archiving") /\ left = 0)
  /\ \/ SetStatus(current, "succeeded") /\ Rest /\ UNCHANGED faults
     \/ Fault /\ Fails("failed") /\ UNCHANGED status
  /\ UNCHANGED <<connOf, promptId, deleted, outputs, connState, serviceVars, ops, phase, histVars>>

\* The archives that end with the worker.
Broken == IF pc = "archiving" \/ (pc = "failing" /\ status[current] = "archiving")
          THEN torn \cup {current} ELSE torn

\* failTask; if it fails as well, the next tick resumes the task.
FailTask ==
  /\ At("failing")
  /\ Rest
  /\ \/ SetStatus(current, verdict) /\ UNCHANGED <<torn, faults>>
     \/ Fault /\ torn' = Broken /\ UNCHANGED status
  /\ UNCHANGED <<connOf, promptId, deleted, outputs, connState, serviceVars, ops, phase, attempts>>

-----------------------------------------------------------------------------
\* The service ends a job, with or without outputs, or loses it.
JobEnds ==
  /\ \E job \in remote : remote' = remote \ {job}
  /\ UNCHANGED <<rowVars, connState, submitted, ops, phase, workerVars, histVars, faults>>

\* The process.

BeginStop ==
  /\ phase = "up"
  /\ Fault
  /\ phase' = "stopping"
  /\ UNCHANGED <<rowVars, connState, serviceVars, ops, workerVars, histVars>>

\* The process ends, after onModuleDestroy or by a crash: nothing is waited for.
Exit ==
  /\ \/ phase = "stopping" /\ UNCHANGED faults
     \/ phase = "up" /\ Fault
  /\ phase' = "down"
  /\ ops' = {}
  /\ torn' = Broken
  /\ Rest
  /\ UNCHANGED <<rowVars, connState, serviceVars, attempts>>

Start ==
  /\ phase = "down"
  /\ phase' = "up"
  /\ UNCHANGED <<rowVars, connState, serviceVars, ops, workerVars, histVars, faults>>

-----------------------------------------------------------------------------
Init ==
  /\ status = [t \in Tasks |-> "absent"] /\ connOf = [t \in Tasks |-> None]
  /\ promptId = [t \in Tasks |-> 0] /\ deleted = {}
  /\ outputs = [t \in Tasks |-> 0]
  /\ connState = [c \in Conns |-> "enabled"]
  /\ submitted = [t \in Tasks |-> 0] /\ remote = {}
  /\ ops = {} /\ phase = "up"
  /\ pc = "idle" /\ current = 0 /\ prompt = 0 /\ seen = "queued" /\ left = 0 /\ verdict = "failed"
  /\ attempts = [t \in Tasks |-> 0] /\ torn = {}
  /\ faults = 0

UserStep ==
  \E t \in Tasks :
    \/ CancelCheck(t) \/ RetryCheck(t) \/ RemoveCheck(t)
    \/ \E c \in Conns : Create(t, c)

CommitStep ==
  \E t \in Tasks : CancelCommit(t) \/ RetryCommit(t) \/ RemoveCommit(t) \/ RemoveOutputs(t)

AdminStep == \E c \in Conns, s \in {"enabled", "disabled", "deleted"} : SetConnection(c, s)

WorkerStep ==
  \/ \E t \in Tasks : Tick(t)
  \/ Resume \/ ReadConnection \/ Prepare \/ Submit \/ SavePrompt
  \/ Watch \/ WatchFails \/ StopWatching \/ StartArchive
  \/ ArchiveOutput
  \/ Succeed \/ FailTask

Next ==
  \/ UserStep \/ CommitStep \/ AdminStep \/ WorkerStep \/ Deadline \/ JobEnds
  \/ BeginStop \/ Exit \/ Start

Spec == Init /\ [][Next]_vars

\* The timer ticks and an execution goes on; the observation of a job has a time
\* limit; a process told to stop exits, and is started again.  Users, administrators,
\* failures, crashes and the service itself owe nothing.
Fairness ==
  /\ WF_vars(WorkerStep) /\ WF_vars(Deadline)
  /\ WF_vars(phase = "stopping" /\ Exit) /\ WF_vars(Start)

FairSpec == Spec /\ Fairness
-----------------------------------------------------------------------------
TypeOK ==
  /\ status \in [Tasks -> Active \cup Over \cup {"absent", "pending"}]
  /\ connOf \in [Tasks -> Conns \cup {None}]
  /\ promptId \in [Tasks -> Nat]
  /\ deleted \subseteq Tasks
  /\ outputs \in [Tasks -> 0..NumOutputs]
  /\ connState \in [Conns -> {"enabled", "disabled", "deleted"}]
  /\ submitted \in [Tasks -> Nat] /\ remote \subseteq Tasks \X Nat
  /\ ops \subseteq {"cancel", "retry", "remove", "removeOutputs"} \X Tasks
  /\ phase \in {"up", "stopping", "down"}
  /\ pc \in {"idle", "starting", "resuming", "preparing", "submitting", "saving", "polling",
             "archiving", "finishing", "failing"}
  /\ current \in Tasks \cup {0} /\ (pc = "idle" <=> current = 0)
  /\ prompt \in Nat /\ seen \in Active /\ left \in 0..NumOutputs
  /\ verdict \in {"failed", "unknown"}
  /\ attempts \in [Tasks -> Nat] /\ torn \subseteq Tasks
  /\ faults \in 0..MaxFaults

\* A task is handed to the service once for every time a user asked for it, whatever
\* replies are lost and however often the process starts again.
SubmittedOncePerAttempt == \A t \in Tasks : submitted[t] <= attempts[t]

\* No row waits any more for the job: its task has ended without the service having
\* said that the job has, was asked for again, or was removed.
GivenUp(job) ==
  LET t == job[1] IN
    \/ status[t] \in {"failed", "unknown", "cancelled"} \/ t \in deleted
    \/ status[t] = "pending" \/ job[2] < submitted[t]

\* The service is given one job after the other, also across restarts: it has two at
\* the same time only if one of them was given up, and none that counts as succeeded.
\* The design keeps the slot of a job that was given up until its end is confirmed
\* (ComfyUI design, 7.3); the code does not, hence the exception.
OneJobAtATime ==
  \A a, b \in remote : a # b => GivenUp(a) \/ GivenUp(b)

\* A task that has succeeded has all the outputs of its job, unless the process
\* ended in the middle of its archive or a removal met the worker.
SucceededIsComplete ==
  \A t \in Tasks \ (deleted \cup torn) : status[t] = "succeeded" => outputs[t] = NumOutputs

\* A waiting task whose connection was deleted stops the worker.
Blocked == \E t \in Candidates({"pending"}) : connState[connOf[t]] = "deleted"

\* Every task that is not removed ends, unless a deleted connection stops the worker.
EveryTaskEnds ==
  \A t \in Tasks : status[t] \in Active \cup {"pending"} ~> status[t] \in Over \/ t \in deleted \/ Blocked

\* The answer of cancel: a task that is cancelled was never handed to the service.
CancelledNotExecuted ==
  \A t \in Tasks : status[t] = "cancelled" => submitted[t] = 0
=============================================================================
