# FullstackSeed in TLA+

FullstackSeed is a NestJS server with a Vue administration, a customer H5 page
and a set of background workers around AI services. This directory models the
parts of it that decide something concurrently. Paths below are relative to the
repository root, those without a directory to `server/src/`.

## 1. The system

| Component | State | Operations | Hard behaviour |
|---|---|---|---|
| Customer reception (`customer-service/`) | rows: session (`serviceStatus`, `serviceVersion`, agent), task, message; memory: `running`, `pendingFinalizers`, drain loop | init, ask, request a person, return to the AI, cancel, claim, agent message, close; drain, take, execute, time out, finish; start, recover, shut down | hand-over against a running answer, slots, retried finalizers, lost replies, restart |
| Dispatch lock (same file) | MySQL `GET_LOCK` on one connection per process | initialize, shutdown, ownership check | a second process, a lost connection |
| Snapshots, SSE, H5 client (`customer-service-h5/js`) | last snapshot, open stream, unsent message | merge by `serviceVersion`, reconnect, resend | stale callbacks, reordered snapshots |
| ComfyUI tasks (`comfyui/comfy-tasks.service.ts`) | task rows, outputs; remote queue | create, cancel, retry, remove; tick: submit, poll, archive, resume | check-then-act cancel, uncertain submission, crash while archiving |
| Content generation (`content-articles/content-generation.service.ts`) | task rows with lease and cover state | submit, adopt, tick, run, cover | late results, version conflicts |
| Agent workspace (`agent-apps/`) | executions, pending actions, messages | send, stop, confirm, reconcile, recover | leases, write confirmed twice, stop against finish |
| AI materials, managed files (`ai-materials/`, `managed-files/`) | tasks, files, references | submit, run, attach, remove; stage, reference, release, clean up | late results, deletion against reference, crash while deleting |
| Hot topics (`hot-topics/`) | runs with heartbeat | submit, schedule, execute | deadline, lease, late candidates |
| Task queue, knowledge bases (`task-queue/`, `knowledge-bases/`) | in-memory queue; document state | add, drain; parse, chunk, index, resume | restart loses the queue |
| The rest | configuration, users, logs | CRUD | none that crosses requests |

Visitors and agents reach reception by HTTP. It shares the session row with
`knowledge-ai-chat`, whose `askStream` it calls as the executor of a task, and
reads `external_apps` for the limit. The other workers poll their own tables
(`tick`) and call remote services; they share no state with reception, and little
with each other: a generated article belongs to `content-articles`, whose version
it checks, an agent writes SKUs into the product catalogue, and AI materials own
their files through `managed-files`.

`PROJECT.json` lists every component with what is modelled of it, and every
hazard found in the code at its line, with the properties aimed at it or the
reason why there is none.

## 2. Modules

| Module | Models |
|---|---|
| `CustomerService` | reception in one serving process: rows, dispatcher, executors, requests, failures, restart |
| `CustomerConversation` | what reception promises to a conversation, without queues, slots, failures and restarts |
| `MCCustomerService` | instances for TLC: one application, two sessions |
| `CustomerServiceProofs` | types, the invariant of the rows, repeated requests, limit and order of dispatch, proved |
| `CustomerExecutorProofs` | rows against memory, and the step properties, proved |
| `CustomerRefinementProofs` | `CustomerService` implements `CustomerConversation`, proved |
| `CustomerDispatchLock` | several processes on one database: the lock, start, recovery, shutdown, crash, lost connection |
| `MCCustomerDispatchLock` | instances of it for TLC |
| `CustomerDispatchLockProofs` | its safety properties, proved |
| `ComfyTasks`, `MCComfyTasks` | the ComfyUI worker, its task table, users' requests and the remote queue; one connection, two tasks |
| `ContentGeneration`, `MCContentGeneration` | generated texts and covers: leases, processes, adoption; one article, two processes |
| `PaidGeneration` | what content generation promises, without processes, leases, versions and failures |
| `ContentGenerationProofs` | types, its safety properties, and that `ContentGeneration` implements `PaidGeneration`, proved |
| `AgentActions`, `MCAgentActions` | an agent's action that writes a SKU: chat, edits, confirmation, stop, recovery; one action, two keys |
| `AiMaterials`, `MCAiMaterials` | a material, its generation tasks and its managed files: leases, attach, references, cleanup; two processes |
| `ComfyTasksProofs`, `AgentActionsProofs`, `AiMaterialsProofs` | types and all safety properties of these modules, proved |

### CustomerService and the code

The variables are the columns and the fields that the decisions depend on.
*Database*: `serviceStatus`, `serviceVersion`, `assignedAgent` (session);
`status`, `taskSession`, `taskVersion`, `taskRequest` (task, numbered in the
order of its id, which is also the order of the queue); `author[s][r]` is the row of
the unique index over session and `clientMessageId`, with the side (visitor or agent)
that wrote it, as `findDuplicate` compares it; `aiMessages[t]` counts the
`role = 'ai'` messages of a task; `enabled`, `limit` are the application.
*Memory*: `exec`, `publishAllowed`, `failure`, `timer` are one entry of
`running` with what its `execute` is doing; a task in `exec = "finishing"` or
`"pending"` is in `pendingFinalizers`, in `"finishing"` also in `finishing`;
`draining`, `retry`, `awaited`, `todo`, `taken` are the drain loop; `phase`
stands for `ready`, `stopping` and the dispatch lock. `toAbort` are
cancellations that have committed and whose `abortTasks` is still to come.
`missedAbort`, `handovers`, `faults`, `stops` are not in the code: the first is
a history variable, the others are bounds.

Every transaction is one action: all of them lock the application row first
(`withAppLock`), and each writes only rows of that application, so they are
serialised. What the handler or the loop does after its commit is another
action. Actions carry the names of the methods; `execute` is `ReadAppAndTask`,
`ReadSession`, `StreamDone`, `ExecuteFails`, `Timeout`, `MarkTimedOut`,
`FinishTask` and `FinishFails`, and `drain` is `StartDrain`, `RetryFinalizer`,
`ListQueuedApps`, `TakeTasks`, `RegisterTasks` and `EndDrain`. A request that changes
nothing (a repeated message, a refused claim) is a stuttering step.

Failures are kinds in the constant `Faults`, each at most `MaxFaults` times: the
reply of a cancelling handler is lost (`"handler"`: rows changed, nothing
aborted), takeTasks fails or commits without a reply (`"take"`), the finishing
transaction fails or commits without a reply (`"finish"`), marking a time-out
fails (`"mark"`), the dispatch lock is found lost (`"lock"`). `Crash` empties the
memory at any point; `BeginShutdown`, `AbortAll`, `Exit` are the orderly end.

Time is left out: the 180 s timer may fire at any moment of an execution, and a
task may have waited 15 minutes at any scan. As ids grow with creation time, the
expired ones are an initial part of the queue (the parameter `k` of `TakeTasks`).

Left out of this module: message texts, answer checkpoints (they write the
`answer` column of a running task and nothing reads it for a decision), the SSE
events, the read side, and the checks of tokens and permissions.

### CustomerConversation

A conversation is with the AI, with people, or closed. A question waits, is
being worked on, may be revoked, and ends answered or unanswered; it can only be
answered while it is being worked on and the conversation is with the AI.
`CustomerService` implements it (`ImplementsConversation`) with `Mode` and
`Stage` as refinement mapping: `running` is *working*, `cancelling` is *revoked*,
and the rest of the state is hidden.

### CustomerDispatchLock and the code

`CustomerService` is one process that may find the lock lost. This module has
several, and keeps of each what decides who may work: `stage` is how far
`initialize` or `shutdown` has come (`locking`, `locked`, `recovering`, `ready`,
`lost` after a failed ownership check, `draining`, `aborting`, `releasing`,
`released`), `stopping` and `ready` are the fields of that name, `interrupted` is
the list that `recoverInterruptedTasks` walks through, `drain` and `taken` are
the drain loop, `entry` and `publish` are `running` and `pendingFinalizers`. `CheckLock`
goes to `lost` in two cases that the code treats alike: the answer that another connection owns the
lock, and a query that fails although nothing is lost; in the second one the process keeps the lock. `holder` is the
process whose connection owns the MySQL lock. A lock dies with its process
(`Crash`) or with its connection while the process lives (`LoseConnection`).

The actions follow the awaits: `GET_LOCK` (`Acquire`, `Refused`), the select of
interrupted tasks, one transaction per recovered task, `RELEASE_LOCK`; the
ownership check (`CheckLock`), each finalizer, the select of the queue,
`takeTasks`, the registration of what it returned; in `shutdown` the end of the
drain, the abort of executions, their end, the release. Tasks are reduced to
their status: which of them is taken, versions and time-outs are decided in
`CustomerService`, and which applications there are makes no difference to the lock.

### ComfyTasks and the code

The rows are `status`, `connOf` (the connection of the workflow), `promptId`,
`deleted`, and the number of `outputs`; `submitted` counts what the remote service
has accepted, `remote` are the jobs of these that it has not ended (`JobEnds`, external); a
job's success is only seen when it has ended, and a deadline passes whether it has or not. `pc`, `current`, `prompt`, `seen`, `left`, `verdict` are the one
worker inside `tick`: the entity that it read, how many outputs are to be
archived, and what `failTask` will write. `cancel`, `retry` and `remove` read the
row and write it later, so each is a check (`CancelCheck`, ...) that puts an entry
into `ops` and a commit; `remove` writes twice. The retry is the only one whose
transaction looks at the row again. The worker's actions follow `resumeOrProcess`,
`process`, `waitAndArchive`, `archive` and `failTask` from await to await; the
entity it saves (`SavePrompt`) brings back a row that was removed. `Submit`
separates what the service accepted from what its client learned.
`attempts` and `torn` are history: what users asked for, and archives that lost
outputs.

### ContentGeneration and the code

A task row has the status of its text and of its cover; `active` are the rows with
`activeArticleId` and `activeUserId`, whose unique indices admit one task per user.
`lease[t]` is the worker id and the lease together: a process, `orphan` when that
process is gone, `expired` when time is over. Each process goes through `tick`
(both expiries and the search), the conditional claim, the check of the article, the
provider, and the conditional write-back (`Claim`, `Ask`, `Answer`, `Write`), for a
text or a cover; `Claim` and `Write` may fail with or without their effect. Users
submit, edit, remove and adopt. `calls`, `edits`, `base` are history: what was paid
for, how the article changed, and what a task was based on.

`PaidGeneration` is the order behind it: a text and perhaps a cover, each asked for once
when its turn has come, delivered only if it was asked for and nobody was told before that
it is over, and adopted only into an article that is as it was. One order of a user is open at a
time. `ContentGeneration` implements it (`ImplementsPaidGeneration`): `status` is the order's
`text`, `edits` its `content`; processes, leases, versions and the unique indices are hidden. Both
expiries of a tick are one `GiveUp`; a removal, a lost claim and a refused write-back are
stuttering steps.

### AgentActions and the code

`pending`, `version`, `data` are the `agent_pending_actions` row (data are numbered in the order
they are written; equal versions may have different data), `shown` the drafts that clients may
have on screen, `seen[r]` the one that the user of a confirmation saw and `copy[r]` the one in the
entity that the request holds. A confirmation carries the version of what was seen, and the code
compares nothing else (`Confirm`). `exec` the executions (one
per idempotency key and per chat message), `stale` those whose lease is over, `skus`
the SKUs by operation key. A confirmation is a transaction (`Confirm`), the call of
the product catalogue (`Write`), the update of the execution (`MarkSucceeded`,
`MarkFailed`) and the save of the action (`SaveAction`), each a statement of its own
after the transaction; `Reconcile` is the repair that a repeated confirmation or a query
makes. A chat message reads the action (`ChatRead`), reserves its execution, prepares
and saves the entity that it read (`ChatSave`); applications with other tools do that in a
transaction with checks (`ChatSaveChecked`). `Stop`, `LeaseOver`, `Recover` end
executions from outside. `lost`, `overtaken` and `torn` are history: a submission was let go while somebody
still wrote for it; an entity read before was saved over a draft shown since; a repair was cut off.

### AiMaterials and the code

`version`, `shown` (`generationStatus`), `current`, `source` are columns of the
material, `task`, `tver`, `tsource` the tasks with what their snapshots name, `stale` those
whose lease is over; `file`, `object`, `ref` are the rows of `managed_files`, the stored
objects, and the live rows of `managed_file_references`. Attaching a result, changing a
source and removing a material are transactions over material, references and files;
`Replace`, `Release` and `Unreferenced` are the helpers of `managed-files` that they
share. A process goes through the statements of `tick` and `run`: the claim, the
status shown, the provider, `storing` in the task and then in the material, the file,
the attaching transaction, and in the catch block the task and then the material. The last
two are not one transaction, nor are they in `expireLeases` (`Expire`, `ShowFailed`).
`stageAndStore` is one step, because nobody looks at a file before its object has been
stored; its failures leave the row and the object in every combination. An edit that
brings no file is one step as well: when the version has changed between its read and its
transaction it is refused. `torn` and `cutOff` are history: a failure left the material showing a task
when nobody was left to change that; the files whose cleanup was cut off.

## 3. Runs

| Run | Instance | Shows |
|---|---|---|
| `customer_dispatch` | 2 sessions, 2 agents, 2 request ids, 2 tasks, limits 1 and none, 2 version changes, no failures | interleavings of requests, dispatcher and executors; 0.4 million states |
| `customer_recovery` | 1 agent, limit 1, one version change, one failure of any kind, one stop | failures and restarts; 0.4 million states; the refinement |
| `customer_liveness` | as before with fewer kinds of failure, without symmetry, fair | every question ends |
| `customer_lost_take` | one failure of `takeTasks` | violated: finding 1 |
| `customer_lock` | 2 processes, 2 tasks, limit 1, one lost connection, one stop or crash, one failing statement, fair | who may work, recovery, takeover with its two exceptions; 0.2 million states |
| `customer_lock_lost` | as before, no stop and no failing statement | violated: finding 2 |
| `comfy_tasks` | 2 tasks, 2 attempts, 2 outputs, 1 connection, one request at a time, 2 faults, fair | nothing is submitted twice, one job at the service unless one was given up, complete archives, every task ends; 0.8 million states |
| `comfy_cancel` | 1 task, no faults | violated: finding 3 |
| `content_generation` | 1 article, 2 tasks, 2 processes, 2 versions, one fault, fair | leases, late answers, adoption, every task ends; the refinement; 0.3 million states |
| `agent_actions` | 2 keys, 2 requests, 1 chat message, 1 form edit, one fault, fair | one SKU, what ends may change, whether what was shown is written, nothing stays active; 1.0 million states |
| `agent_receipt` | 1 key, 1 request, 1 chat message, no faults | violated: finding 4 |
| `ai_materials` | 2 tasks, 2 processes, 2 files, 2 versions, an edit with a new source, one fault, fair | files in use are kept, which objects may be forgotten, late results, every generation ends; 0.6 million states |

Bounds. Two tasks in two sessions of one application are what competition for a
slot, overtaking in the queue, and a second question in the same session need;
two tasks with limit 1 reach both the full and the free limit, and lowering the
limit from none to 1 with two tasks executing is reached too. Two version
changes let a visitor hand over and come back while the old executor winds
down. Two agents are needed for a contested claim and two request ids for a
repeated and a new message. One failure and one stop, together, reach each
recovery path; a failure during recovery is the same as a crash there.
`QueueLimit` = 2 cannot overflow with two tasks and stands for 200.
`MaxMessages` bounds the stored messages of visitors and agents (2, and 3 in
`customer_recovery`): two are needed for two questions, for a question and an agent's answer,
and for a message repeated after another one. In the lock runs two processes
are a former holder and its successor, and the one lost connection, one stop and one failing
statement can all happen in one behaviour, in any order; two tasks are one that
executes and one that waits for its slot.
The workers need two tasks, one that lingers and its successor, and two processes where
the code has a lease: one that is late and one that goes on. Two versions are one edit between the
read and the use of a row. Two executions in `comfy_tasks` are two tasks or one task and its
retry, and two outputs an archive that can break between them; two faults are a lost
reply and a crash. In `agent_actions` two keys are two confirmations, or one that is
repeated, against one chat message; `MaxConcurrentRuns` = 1 reaches the limit.
In `ai_materials` the first file is the source or the image of the initial state
(two initial states), the second one belongs to whoever comes first, an edit or a
result. In all of them a fault is a failed statement, a
lost reply, a stop or a crash, at each place where the module has such a branch: every
statement whose failure the code handles or whose loss leaves something behind. One form edit and one chat
message in `agent_actions` are what gives one version two data.
Sessions, agents and request ids are interchangeable, so the safety runs use
symmetry. Deadlock is not checked in the `customer_dispatch`, `customer_recovery`,
`customer_liveness` and `customer_lost_take` runs: when all tasks are used up and no
version change is left, the system rests; the four workers rest too, and so do the processes of
`customer_lock` when one keeps the lock without serving, the other waits for it, and no stop is
left to restart them. It is checked in `customer_lock_lost`.

Fairness (`customer_liveness`). The drain timer fires every two seconds, so
`StartDrain` and the steps of a drain are weakly fair; so are the steps of a
handler that has committed (`AbortTask`), of an executor (`ExecutorStep`: its
model call ends, at the latest through the abort of the 180 s timer, provided the
provider's client honours the signal), of `markTimedOut`, of the recovery at
start, and of a supervisor that starts the process again. Requests, time-outs,
failures, crashes, shutdowns and administrators are not fair. The failures
`"take"` and `"lock"` are excluded from this run: the first loses tasks until a
restart (finding 1), the second makes the process refuse service until it is
restarted by hand.

Fairness (`customer_lock`). A supervisor starts processes again and `initialize`
goes on (`InitStep`); drains, executions and the steps of `shutdown` go on.
Requests, stops, crashes, losses and failures are not fair. `StandbyTakesOver`
names two exceptions, each of which the run needs (without it the property fails).
`WaitsForRestart`: the query for the owner of the lock fails while the connection owns it; the
process serves no more and keeps the lock, no standby gets it, and only a restart of that
process helps. `SlotLost`: after a lost lock the former holder may take a task after its successor
has listed what to recover; if that former holder then stops or fails to finish it, the task is
`running` with nobody to end it, and its slot is gone until some process starts again.

Fairness (workers). A timer ticks every two or three seconds and every call to a
database, a store or a provider ends, the last ones by a time limit: the steps of a
worker are weakly fair, in `ai_materials` for each process, in `content_generation`
for the processes together. Time passes, so that a lease is over at last. Users, messages, administrators,
faults and those who clean up files owe nothing. Leases may end at any moment, also
while their owner works: the code lets them outlive the time limit of the provider by a
margin, but not a process that is stalled.

### What the properties say

`OneActiveTaskPerSession`, `WorkIsCurrent`, `OneTaskPerRequest`, `AnsweredOnce`
are about rows alone and are true after any failure. `SlotHeldWhileExecuting` and
`SlotHasExecutor` relate rows to memory in both directions: the first keeps the
number of model calls within the limit, the second says that no slot is lost.
`SilentAfterHandover` makes the window between commit and abort explicit.
`DispatchWithinLimit`, `FirstComeFirstServed`, `CancellationWins`,
`NoLateAnswer` and `AgentKeepsSession` are about steps. In the lock module,
`LockGuardsWork` says that whoever recovers, serves, drains or executes holds the
lock, across start, shutdown and crash; `RecoversOnlyOrphans` that recovery
never ends what is executed; both presume that no lock connection died, which
`NoDoubleExecution` does not: even then no task is executed by two processes. 
`SubmittedOncePerAttempt` and `OneJobAtATime` count at the remote service, not in the rows:
the second one admits two jobs at a time if one of them was given up, which the design forbids
(section 4).
`SucceededIsComplete` and `EveryTaskEnds` of `ComfyTasks` name what they exclude:
archives that were cut off and are then declared complete, and a deleted connection that
stops the worker. `HeldWhileUnfinished` is an equation, because an article that is released too
early is paid for twice and one that is never released is locked for its user;
`PaidOnce` is what leases are for, and
`ImplementsPaidGeneration` adds that what has been told to be over stays so, whatever answer is late
(`OverIsFinal` states that part alone). `OneSkuUnlessLost` says what a confirmation promises as long as no submission is let
go (`lost`). `WritesWhatIsShown` has two parts with an exception each: the data written are those
that the user saw, unless an older entity was saved over a later draft (`overtaken`); and nobody
edits, cancels or confirms in between, unless `lost`. `EndChangesOnlyToSuccess` does not say that ends
are final: a failed or a cancelled execution may still become a success, when its SKU exists, and
nothing else. `FilesAccounted` has three parts: files that a material names exist and are out of
the reach of cleanup, an active task of the current version finds its source (one that an edit has
overtaken may lose it), and no stored object is forgotten, except one whose own cleanup was cut off. `OnlyTimelyResults` and `EveryGenerationEnds` are about late workers.

Each property of a passing run
is violated by a mutant of the model ("Slip" definitions), a mistake a
programmer could make at that place.

## 4. Findings

1. `drain` registers only what `takeTasks` returned. If the commit succeeds and
   its reply is lost, the selected tasks are `running` without an executor: slot
   and conversation are blocked until the process restarts (run
   `customer_lost_take`).
2. Ownership of the lock is checked at the start of a drain and not at
   `takeTasks`; between drains nothing checks it. When the connection dies in
   between, a second process recovers tasks the first one is executing and gives
   their slots away, against the comments of the class and of the lock (run
   `customer_lock_lost`). What cannot happen even then is proved: a second
   execution of the same task.

3. `cancel` of a ComfyUI task reads `pending` and then writes `cancelled` whatever
   the row has become; the worker that had found the task pending does not look
   again before `submitPrompt`. A task that is answered as cancelled is executed,
   against the message of `cancel` itself and the design (run `comfy_cancel`).
4. `processWritePreparation` saves an action that was read before the message's
   execution was reserved. If the action was confirmed in between, the receipt
   is a draft again and can be confirmed once more, against the design (run
   `agent_receipt`).

Observed while modelling, each reached by the models and excluded by name where a
property would otherwise be false:

* A crash between two outputs of a ComfyUI archive: the next start finds one output
  and declares the task succeeded (`torn` in `SucceededIsComplete`). A pending task
  whose connection was deleted throws before the `try` block of `process` and
  stops all tasks behind it (`Blocked`).
* The next ComfyUI task is submitted as soon as the row of the one before it is over, although
  the service may still execute that: after a deadline (`unknown`), a lost reply (`failed`), or a
  cancellation under the worker followed by a crash. The design
  (`src/MD/ComfyUI本机工作流接入设计方案.md:202`, 206) wants the slot kept until the end is
  confirmed (`GivenUp` in `OneJobAtATime`).
* `drain` treats a failed `IS_USED_LOCK` query like a lost lock: it stops serving, but releases
  nothing, so that a lock that is still owned stays with a process that does not serve
  (`WaitsForRestart`).
* `stopExecution` cancels an execution whose SKU may have been written (the design,
  `src/MD/内部Agent应用改造计划.md:133`, says that what was submitted must not be shown as
  cancelled). A request that comes afterwards does not reconcile it; one that had read the execution
  before the stop does, and saves `succeeded` over `cancelled` without a condition
  (`EndChangesOnlyToSuccess` admits that). After a stop, a recovery, or a lost reply of
  `createSku`, the action may be confirmed with a new key, which writes a second SKU (`lost`). A
  failure between the update of the execution and the save of the action leaves the action
  `submitting` for good (`torn`).
* A form edit and the save of a chat message that has read the row before it both write
  the version after the one that was read. A user who has seen the first and confirms its version passes
  the check of `confirmPendingAction`, and the SKU gets the data of the second (`overtaken` in
  `WritesWhatIsShown`); the design (lines 73, 129 and 208 of the same file) says that an edit
  makes older confirmations invalid.
* A crash in `cleanup` after a file was marked `deleting`, or a failure of the statement that
  should note a failed deletion, leaves a row that no later cleanup selects (`cutOff` in
  `NoObjectForgotten`), against `src/MD/AI素材生成与存储清理设计方案.md:135` and 220. Cleanup
  asks for references and not for tasks: the old source of an active task whose material was edited
  since may be deleted after the retention time, and the task then fails (line 219 of that file
  wants files of active tasks protected; `SnapshotHasSource` covers the present version only).
* A failure between the end of a generation task and the update of its material leaves
  the material `running` or `storing` until the next generation (`torn` in
  `EveryGenerationEnds`).

## 5. Proofs

All theorems hold for any sets of processes, users, agents, messages and request ids, any
finite sets of applications, sessions and tasks, any limits and any values of the bounds,
under the assumption of each module (`ConstantsAssumption`, `LockAssumption`,
`ContentAssumption`, `MaterialAssumption`, `AgentAssumption`, `ComfyAssumption`), which only say
of what kind the constants are and that names of different kinds differ. Every invariant
and action property of a passing run is the subject of a theorem. Each
proof module has an inductive invariant whose parts TLC has checked on the instance of the run.

* `CustomerServiceProofs`. `TypeCorrect`: one lemma per group of actions.
  `OneActiveTask`, `CurrentWork`, `OneAnswer`: the invariant of the rows, `RowsInv`.
  None of its parts is inductive alone. `WorkIsCurrent` needs to know that ids beyond
  `lastTask` are unused (`Ledger`); `ResumeAi` and `InitSession` keep it because no
  waiting or running task can belong to a conversation that is not with the AI,
  which is `WorkIsCurrent` itself. The steps that only move statuses are
  covered by one lemma, `StatusChange`, the cancelling requests by another,
  `CancelTasksRows`, and the steps that touch no row by `RowsFrame`.
  `OneTaskEach`: which request a task was made for is read off the rows of messages, and a
  task is only made together with its row; unused ids have no request.
  `LimitKept` needs a counting argument: `takeTasks` takes a queued task if fewer than *m*
  older ones are ahead of it, *m* being the free slots, and at most *m* tasks are so
  (`OldestFit`: all the others are ahead of the last of them, `LastOf`). Both it and
  `ServedInOrder` split the steps by whether slots are filled (`NextSlots`): only
  `TakeTasks` fills any, lost reply or not.
* `CustomerRefinementProofs`. `ServiceRefinesConversation`: initial states map to
  initial states, and each action to a step or a stutter of `CustomerConversation`. The mapped
  steps need `RowsInv`: without `WorkIsCurrent` a hand-over would revoke too little,
  and an answer could be given outside AI service.
* `CustomerExecutorProofs`. `ExecInv` relates the two halves of the state: the
  phase of an executor, its permission to publish, its timer and the drain's `taken`
  against the status of its row. From it follow `SlotHeld` and `SilentExecutor`, and
  the step properties `CancellationFinal`, `NoAnswerTooLate` and `AgentExclusive`. `SlotsHaveExecutors`
  adds `SlotInv` and the assumption `"take" \notin Faults`, the one that finding 1 needs.
* `CustomerDispatchLockProofs`. `LockInv`: besides the properties it
  says which stages may still drain or execute (`Quiet`), that what a process owns has
  left the queue (`OwnedHasLeft`, the reason why nothing is executed twice), and that
  what has been taken and not yet registered counts as executed
  (`HeldUntilSettled`, stronger than `RecoversOnlyOrphans`).
* `ContentGenerationProofs`. `Inv`: a cover waits or runs only under a text that
  succeeded (`Shape`, without which one expiry could end two things of a task); the
  right to ask a provider (`Pays`): nothing was asked while its row still waits, a
  process that checks has a row that does not wait any more, and no two processes
  check the same thing, so that asking uses the right up; a process that waits for an
  answer or stores a success has asked for it (`Answered`); and an article that has the
  version of a task has its contents (`Dated`). Two lemmas split the steps once,
  by what they do to the rows (`Rows`) and to the processes that check (`Checkers`).
  `ImplementsOrder` maps each action to a step or a stutter of `PaidGeneration`:
  a submission needs `HeldWhileUnfinished` (the unique indices say that no order is open),
  asking needs `Pays`, a stored success `Answered`, and an adoption `Dated`.
* `ComfyTasksProofs`. `Inv` has four parts besides the types. `Executing`: the task that the worker has
  taken is the only one with an active status, whatever cancel, retry and remove write to its row
  between check and commit. `Jobs`: a job at the service was submitted, and one whose task counts as
  succeeded has ended; with `Executing`, two jobs that nobody has given up would be two active
  tasks, hence `OneJob`. `Attempted`: what waits, or has been found waiting
  and is not handed over yet, was handed over less often than it was asked for; that
  a retry is refused unless the row has ended is what keeps it. `Archived` counts outputs: none
  before the archive begins, stored and left together make up the job while it goes on,
  and a task found in the middle of its archive is `torn`. `TypeOK` gives the counters
  the type `Nat`: that they are bounded is a guard of the model, on a sum.
* `AgentActionsProofs`. `Submission`, as long as nothing was `lost`: at most one key is used (it
  has given a SKU or its writer goes on), its action is not open for another confirmation, and
  whoever writes holds the draft of the action. `Unambiguous`, as long as nothing was
  `overtaken`: no draft that was shown is later than the row, the only one of its version is the
  row's, and whoever writes has the draft that its user saw. `OneSku` and `WritesShown` follow.
  `Reserving` says that a chat message reserves an execution nobody has begun, which
  `EndsOnlyToSuccess` needs.
* `AiMaterialsProofs`. `FilesAccounted` is inductive together with `AtWork` (an actor at work has
  a task or a file), `Dated` (no task has seen a version that is still to come, hence after an
  edit none is current) and `Stored` (what is about to be attached is stored as long as nobody has
  taken its row: otherwise cleanup between storing and attaching would leave a reference
  to nothing). Replacing and releasing a reference are lemmas of their own, shared by attach,
  edit and removal.

Only model-checked: the liveness properties (`EveryTaskEnds` of three modules, `StandbyTakesOver`,
`EveryExecutionEnds`, `EveryGenerationEnds`). They rest on fairness, hence on `ENABLED`, which
the provers do not handle.

## 6. Plan

1. `CustomerService` with its abstract specification and proofs: done.
2. `CustomerDispatchLock` with its proofs: done.
3. `ComfyTasks`, `ContentGeneration` with its abstract specification, `AgentActions`,
   `AiMaterials`: modelled and checked, their safety proved.
4. Abstract specifications of `ComfyTasks` and `AiMaterials`, with their refinement proofs.
5. `ReceptionClient`: snapshots merged by version, with the server's read side.
6. Hot topics and the task queue, as far as they differ from `ContentGeneration`.

### Not modelled

* Snapshots, SSE and the H5 client: read side, nothing in reception waits for it (5).
* Hot topics: one run with heartbeat and deadline, whose end is one conditional update (6).
  Task queue and knowledge-base jobs: sequential in one process; what they parse and index is text (6).
* Retrieval and prompts of the AI chat, model endpoints, parsers, the protocols
  of providers: computations and I/O whose only effect here is that they answer,
  fail or are late.
* Users, roles, menus, settings, logs, the catalogue besides the creation of a SKU, and the web
  administration: requests of one statement or one transaction, with no protocol between them.
  They are most of the repository's lines.
