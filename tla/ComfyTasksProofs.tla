---------------------------- MODULE ComfyTasksProofs ----------------------------
(***************************************************************************)
(* Proofs about ComfyTasks: the types of its variables, that a task is     *)
(* submitted at most once for every time a user asked for it, that the     *)
(* service has one job at a time but for those given up, and that a task   *)
(* that has succeeded has all its outputs, for every number of tasks,      *)
(* connections, outputs, requests under way, stops and crashes.            *)
(***************************************************************************)
EXTENDS ComfyTasks, TLAPS

\* No two rows are being executed.
OneActiveTask == \A t, u \in Candidates(Active) : t = u

\* The task the worker has taken, whatever a request writes to its row meanwhile, is
\* being executed or waits or was cancelled; no other task is being executed.
Executing ==
  /\ OneActiveTask
  /\ pc # "idle" => /\ status[current] \in Active \cup {"pending", "cancelled"}
                    /\ \A t \in Candidates(Active) : t = current
  /\ pc \notin {"idle", "starting", "preparing", "failing"} => status[current] # "pending"

\* A task that waits, or that the worker has not handed over yet, was handed over
\* less often than users asked for it.
Attempted ==
  /\ SubmittedOncePerAttempt
  /\ \A t \in Tasks : status[t] = "absent" => submitted[t] = 0
  /\ \A t \in Tasks : status[t] = "pending" => submitted[t] < attempts[t]
  /\ pc \in {"starting", "preparing", "submitting"} => submitted[current] < attempts[current]

\* Outputs appear while the worker archives, and one archive is not mixed with another:
\* a task found in the middle of its archive has been torn.
Archived ==
  /\ \A t \in Tasks :
       status[t] \in {"absent", "pending", "submitting", "queued", "running"} => outputs[t] = 0
  /\ pc \in {"starting", "preparing", "submitting", "saving", "polling"} => outputs[current] = 0
  /\ pc = "resuming" => IF seen = "archiving" THEN current \in torn ELSE outputs[current] = 0
  /\ pc = "finishing" => current \in torn
  /\ pc = "archiving" => /\ status[current] \in {"archiving", "cancelled"}
                         /\ outputs[current] + left <= NumOutputs
                         /\ current \notin deleted \cup torn => outputs[current] + left = NumOutputs
  /\ \A t \in Tasks \ (deleted \cup torn) :
       status[t] = "archiving" => t = current /\ pc \in {"archiving", "failing"}
  /\ SucceededIsComplete

\* The prompt id of a row, and of the worker, is that of the last submission; a task is
\* archived, or has succeeded, only when the job of that submission has ended.
Jobs ==
  /\ \A job \in remote : job[2] > 0 /\ job[2] <= submitted[job[1]]
  /\ \A t \in Tasks : /\ promptId[t] \in {0, submitted[t]}
                      /\ status[t] \in {"absent", "pending"} => promptId[t] = 0
                      /\ status[t] \in {"archiving", "succeeded"} => <<t, submitted[t]>> \notin remote
  /\ pc \in {"starting", "preparing", "submitting"} => promptId[current] = 0
  /\ pc \in {"starting", "preparing", "submitting", "saving"} => status[current] # "archiving"
  /\ pc \in {"saving", "polling", "archiving", "finishing"} => prompt = submitted[current]
  /\ pc = "resuming" => prompt \in {0, submitted[current]}
  /\ pc \in {"archiving", "finishing"} \/ (pc = "resuming" /\ seen = "archiving") =>
       <<current, submitted[current]>> \notin remote

Inv == TypeOK /\ Executing /\ Attempted /\ Archived /\ Jobs

-----------------------------------------------------------------------------
LEMMA Working == ASSUME TypeOK, pc # "idle" PROVE current \in Tasks
BY DEF TypeOK

LEMMA NoTask == 0 \notin Tasks
BY DEF Tasks

LEMMA FaultCounts == ASSUME TypeOK, Fault PROVE faults' \in 0..MaxFaults
BY ComfyAssumption DEF TypeOK, Fault

\* Requests that pass their check, administrators, the beginning of a stop and the
\* start of the process leave alone what the invariants relate.
Calm == UNCHANGED <<rowVars, serviceVars, workerVars, histVars>>

CalmMoves ==
  \/ \E t \in Tasks : CancelCheck(t) \/ RetryCheck(t) \/ RemoveCheck(t)
  \/ AdminStep \/ BeginStop \/ Start

LEMMA CalmStep == ASSUME Inv, CalmMoves PROVE Inv'
<1> USE DEF rowVars, serviceVars, workerVars, histVars
<1> DEFINE Types == /\ connState' \in [Conns -> {"enabled", "disabled", "deleted"}]
                    /\ ops' \subseteq {"cancel", "retry", "remove", "removeOutputs"} \X Tasks
                    /\ phase' \in {"up", "stopping", "down"}
                    /\ faults' \in 0..MaxFaults
<1>1. Calm /\ Types
  <2>1. ASSUME NEW t \in Tasks, CancelCheck(t) \/ RetryCheck(t) \/ RemoveCheck(t)
        PROVE  Calm /\ Types
    <3>1. \E op \in {"cancel", "retry", "remove"} : Passes(op, t)
      BY <2>1 DEF CancelCheck, RetryCheck, RemoveCheck
    <3> QED BY <3>1 DEF Passes, Calm, Inv, TypeOK
  <2>2. ASSUME AdminStep PROVE Calm /\ Types
    BY <2>2 DEF AdminStep, SetConnection, Calm, Inv, TypeOK
  <2>3. ASSUME BeginStop PROVE Calm /\ Types
    BY <2>3, FaultCounts DEF BeginStop, Calm, Inv, TypeOK
  <2>4. ASSUME Start PROVE Calm /\ Types
    BY <2>4 DEF Start, Calm, Inv, TypeOK
  <2> QED BY <2>1, <2>2, <2>3, <2>4 DEF CalmMoves
<1>2. TypeOK'
  BY <1>1 DEF Inv, TypeOK, Calm
<1>3. Executing'
  BY <1>1 DEF Inv, Executing, OneActiveTask, Candidates, Calm
<1>4. Attempted'
  BY <1>1 DEF Inv, Attempted, SubmittedOncePerAttempt, Calm
<1>5. Archived'
  BY <1>1 DEF Inv, Archived, SucceededIsComplete, Calm
<1>6. Jobs'
  BY <1>1 DEF Inv, Jobs, Calm
<1> QED BY <1>2, <1>3, <1>4, <1>5, <1>6 DEF Inv

-----------------------------------------------------------------------------
\* Users.
LEMMA CreateStep == ASSUME Inv, NEW t \in Tasks, NEW c \in Conns, Create(t, c) PROVE Inv'
<1> USE DEF rowVars, serviceVars, workerVars, histVars
<1>1. TypeOK'
  BY DEF Create, SetStatus, Inv, TypeOK
<1>2. Executing'
  BY DEF Create, SetStatus, Inv, Executing, OneActiveTask, Candidates, Active
<1>3. Attempted'
  BY DEF Create, SetStatus, Inv, TypeOK, Attempted, SubmittedOncePerAttempt
<1>4. Archived'
  BY DEF Create, SetStatus, Inv, Archived, SucceededIsComplete
<1>5. Jobs'
  BY DEF Create, SetStatus, Inv, TypeOK, Jobs
<1> QED BY <1>1, <1>2, <1>3, <1>4, <1>5 DEF Inv

LEMMA CancelCommitStep == ASSUME Inv, NEW t \in Tasks, CancelCommit(t) PROVE Inv'
<1> USE DEF rowVars, serviceVars, workerVars, histVars
<1>1. TypeOK'
  BY DEF CancelCommit, Commits, SetStatus, Inv, TypeOK, Over
<1>2. Executing'
  BY DEF CancelCommit, Commits, SetStatus, Inv, Executing, OneActiveTask, Candidates, Active
<1>3. Attempted'
  BY DEF CancelCommit, Commits, SetStatus, Inv, Attempted, SubmittedOncePerAttempt
<1>4. Archived'
  BY DEF CancelCommit, Commits, SetStatus, Inv, Archived, SucceededIsComplete
<1>5. Jobs'
  BY DEF CancelCommit, Commits, SetStatus, Inv, TypeOK, Jobs
<1> QED BY <1>1, <1>2, <1>3, <1>4, <1>5 DEF Inv

LEMMA RetryCommitStep == ASSUME Inv, NEW t \in Tasks, RetryCommit(t) PROVE Inv'
<1> USE DEF rowVars, serviceVars, workerVars, histVars
<1>1. TypeOK'
  BY ComfyAssumption DEF RetryCommit, Commits, SetStatus, Inv, TypeOK
<1>2. Executing'
  BY DEF RetryCommit, Commits, SetStatus, Inv, TypeOK, Executing, OneActiveTask, Candidates, Active
<1>3. Attempted'
  BY DEF RetryCommit, Commits, SetStatus, Inv, TypeOK, Attempted, SubmittedOncePerAttempt
<1>4. Archived'
  BY DEF RetryCommit, Commits, SetStatus, Inv, TypeOK, Executing, Archived, SucceededIsComplete,
         Active
<1>5. Jobs'
  BY DEF Commits, RetryCommit, SetStatus, Inv, TypeOK, Jobs
<1> QED BY <1>1, <1>2, <1>3, <1>4, <1>5 DEF Inv

LEMMA RemoveCommitStep == ASSUME Inv, NEW t \in Tasks, RemoveCommit(t) PROVE Inv'
<1> USE DEF rowVars, serviceVars, workerVars, histVars
<1>1. TypeOK'
  BY DEF RemoveCommit, Commits, Inv, TypeOK
<1>2. Executing'
  BY DEF RemoveCommit, Commits, Inv, Executing, OneActiveTask, Candidates
<1>3. Attempted'
  BY DEF RemoveCommit, Commits, Inv, Attempted, SubmittedOncePerAttempt
<1>4. Archived'
  BY DEF RemoveCommit, Commits, Inv, Archived, SucceededIsComplete
<1>5. Jobs'
  BY DEF Commits, RemoveCommit, Inv, TypeOK, Jobs
<1> QED BY <1>1, <1>2, <1>3, <1>4, <1>5 DEF Inv

LEMMA RemoveOutputsStep == ASSUME Inv, NEW t \in Tasks, RemoveOutputs(t) PROVE Inv'
<1> USE DEF rowVars, serviceVars, workerVars, histVars
<1>1. TypeOK'
  BY ComfyAssumption DEF RemoveOutputs, Commits, Inv, TypeOK
<1>2. Executing'
  BY DEF RemoveOutputs, Commits, Inv, Executing, OneActiveTask, Candidates
<1>3. Attempted'
  BY DEF RemoveOutputs, Commits, Inv, Attempted, SubmittedOncePerAttempt
<1>4. Archived'
  BY DEF RemoveOutputs, Commits, Inv, TypeOK, Archived, SucceededIsComplete
<1>5. Jobs'
  BY DEF Commits, RemoveOutputs, Inv, TypeOK, Jobs
<1> QED BY <1>1, <1>2, <1>3, <1>4, <1>5 DEF Inv

-----------------------------------------------------------------------------
\* The worker.
LEMMA TickStep == ASSUME Inv, NEW t \in Tasks, Tick(t) PROVE Inv'
<1> USE DEF rowVars, serviceVars, workerVars, histVars
<1>1. TypeOK'
  BY NoTask, ComfyAssumption DEF Tick, NextTask, Candidates, Inv, TypeOK, Active
<1>2. Executing'
  BY DEF Tick, NextTask, Candidates, Inv, Executing, OneActiveTask
<1>3. Attempted'
  BY DEF Tick, Inv, Attempted, SubmittedOncePerAttempt
<1>4. Archived'
  BY DEF Tick, NextTask, Candidates, Inv, Archived, SucceededIsComplete, Active
<1>5. Jobs'
  BY DEF NextTask, Tick, Inv, TypeOK, Jobs
<1> QED BY <1>1, <1>2, <1>3, <1>4, <1>5 DEF Inv

LEMMA ResumeStep == ASSUME Inv, Resume PROVE Inv'
<1> USE DEF rowVars, serviceVars, workerVars, histVars
<1>1. TypeOK'
  BY DEF Resume, Resumed, Goto, Fails, At, Inv, TypeOK
<1>2. Executing'
  BY DEF Resume, Resumed, Goto, Fails, At, Inv, Executing, OneActiveTask, Candidates
<1>3. Attempted'
  BY DEF Resume, Resumed, Goto, Fails, Inv, Attempted, SubmittedOncePerAttempt
<1>4. Archived'
  BY DEF Resume, Resumed, Goto, Fails, At, Inv, TypeOK, Archived, SucceededIsComplete
<1>5. Jobs'
  BY DEF At, Fails, Goto, Resume, Resumed, Inv, TypeOK, Jobs
<1> QED BY <1>1, <1>2, <1>3, <1>4, <1>5 DEF Inv

LEMMA ReadConnectionStep == ASSUME Inv, ReadConnection PROVE Inv'
<1> USE DEF rowVars, serviceVars, workerVars, histVars
<1>1. TypeOK'
  BY ComfyAssumption DEF ReadConnection, Goto, Fails, Rest, At, Inv, TypeOK, Active
<1>2. Executing'
  BY DEF ReadConnection, Goto, Fails, Rest, At, Inv, Executing, OneActiveTask, Candidates
<1>3. Attempted'
  BY DEF ReadConnection, Goto, Fails, Rest, At, Inv, Attempted, SubmittedOncePerAttempt
<1>4. Archived'
  BY DEF ReadConnection, Goto, Fails, Rest, At, Inv, Archived, SucceededIsComplete
<1>5. Jobs'
  BY DEF At, Fails, Goto, ReadConnection, Rest, Inv, TypeOK, Jobs
<1> QED BY <1>1, <1>2, <1>3, <1>4, <1>5 DEF Inv

LEMMA PrepareStep == ASSUME Inv, Prepare PROVE Inv'
<1> USE DEF rowVars, serviceVars, workerVars, histVars
<1>1. TypeOK'
  BY FaultCounts DEF Prepare, Goto, Fails, SetStatus, At, Inv, TypeOK, Active
<1>2. Executing'
  BY DEF Prepare, Goto, Fails, SetStatus, At, Inv, TypeOK, Executing, OneActiveTask, Candidates,
         Active
<1>3. Attempted'
  BY DEF Prepare, Goto, Fails, SetStatus, At, Inv, TypeOK, Attempted, SubmittedOncePerAttempt
<1>4. Archived'
  BY DEF Prepare, Goto, Fails, SetStatus, At, Inv, TypeOK, Archived, SucceededIsComplete
<1>5. Jobs'
  BY DEF At, Fails, Goto, Prepare, SetStatus, Inv, TypeOK, Jobs
<1> QED BY <1>1, <1>2, <1>3, <1>4, <1>5 DEF Inv

LEMMA SubmitStep == ASSUME Inv, Submit PROVE Inv'
<1> USE DEF rowVars, serviceVars, workerVars, histVars
<1>1. TypeOK'
  BY FaultCounts DEF Submit, Fails, At, Inv, TypeOK
<1>2. Executing'
  BY DEF Submit, Fails, At, Inv, Executing, OneActiveTask, Candidates
<1>3. Attempted'
  BY DEF Submit, Fails, At, Inv, TypeOK, Executing, Attempted, SubmittedOncePerAttempt, Active
<1>4. Archived'
  BY DEF Submit, Fails, At, Inv, Archived, SucceededIsComplete
<1>5. Jobs'
  <2>1. /\ current \in Tasks /\ submitted \in [Tasks -> Nat] /\ pc = "submitting"
        /\ promptId[current] = 0 /\ status[current] \notin {"archiving", "succeeded"}
    BY Working DEF Submit, At, Inv, TypeOK, Jobs, Executing, Active
  <2>2. UNCHANGED <<status, promptId, current, seen>> /\ pc' \in {"saving", "failing"}
    BY DEF Submit, Fails
  <2>3. ASSUME UNCHANGED serviceVars PROVE Jobs'
    BY <2>1, <2>2, <2>3 DEF Submit, Fails, Inv, Jobs
  <2>4. ASSUME /\ submitted' = [submitted EXCEPT ![current] = submitted[current] + 1]
               /\ remote' = remote \cup {<<current, submitted[current] + 1>>}
        PROVE  Jobs'
    <3>1. /\ submitted'[current] = submitted[current] + 1 /\ submitted[current] \in Nat
          /\ \A t \in Tasks \ {current} : submitted'[t] = submitted[t]
      BY <2>1, <2>4
    <3>2. pc' = "saving" => prompt' = submitted'[current]
      BY <2>1, <3>1 DEF Submit, Fails
    <3>3. \A job \in remote' : job[2] > 0 /\ job[2] <= submitted'[job[1]]
      <4> SUFFICES ASSUME NEW job \in remote' PROVE job[2] > 0 /\ job[2] <= submitted'[job[1]]
        OBVIOUS
      <4>1. CASE job \in remote
        <5>1. /\ job[1] \in Tasks /\ job[2] \in Nat /\ job[2] > 0 /\ job[2] <= submitted[job[1]]
              /\ submitted[job[1]] \in Nat
          BY <2>1, <4>1 DEF Inv, TypeOK, Jobs
        <5> QED BY <3>1, <5>1
      <4>2. CASE job = <<current, submitted[current] + 1>>
        BY <3>1, <4>2
      <4> QED BY <2>4, <4>1, <4>2
    <3>4. \A t \in Tasks : /\ promptId[t] \in {0, submitted'[t]}
                           /\ status[t] \in {"archiving", "succeeded"} =>
                                <<t, submitted'[t]>> \notin remote'
      BY <2>1, <2>4, <3>1 DEF Inv, Jobs
    <3>5. \A t \in Tasks : status[t] \in {"absent", "pending"} => promptId[t] = 0
      BY DEF Inv, Jobs
    <3>6. /\ UNCHANGED <<status, promptId, current>> /\ pc' \in {"saving", "failing"}
          /\ promptId[current] = 0 /\ status[current] # "archiving"
      BY <2>1, <2>2
    <3>7. \A t \in Tasks : /\ promptId'[t] \in {0, submitted'[t]}
                           /\ status'[t] \in {"absent", "pending"} => promptId'[t] = 0
                           /\ status'[t] \in {"archiving", "succeeded"} =>
                                <<t, submitted'[t]>> \notin remote'
      BY <3>4, <3>5, <3>6
    <3> QED BY <3>2, <3>3, <3>6, <3>7 DEF Jobs
  <2> QED BY <2>3, <2>4 DEF Submit
<1> QED BY <1>1, <1>2, <1>3, <1>4, <1>5 DEF Inv

LEMMA SavePromptStep == ASSUME Inv, SavePrompt PROVE Inv'
<1> USE DEF rowVars, serviceVars, workerVars, histVars
<1>1. TypeOK'
  BY FaultCounts DEF SavePrompt, Fails, SetStatus, At, Inv, TypeOK, Active
<1>2. Executing'
  BY DEF SavePrompt, Fails, SetStatus, At, Inv, TypeOK, Executing, OneActiveTask, Candidates, Active
<1>3. Attempted'
  BY DEF SavePrompt, Fails, SetStatus, Inv, TypeOK, Attempted, SubmittedOncePerAttempt
<1>4. Archived'
  BY DEF SavePrompt, Fails, SetStatus, At, Inv, TypeOK, Archived, SucceededIsComplete
<1>5. Jobs'
  BY DEF At, Fails, SavePrompt, SetStatus, Inv, TypeOK, Jobs
<1> QED BY <1>1, <1>2, <1>3, <1>4, <1>5 DEF Inv

LEMMA WatchStep == ASSUME Inv, Watch PROVE Inv'
<1> USE DEF rowVars, serviceVars, workerVars, histVars
<1>1. TypeOK'
  BY DEF Watch, SetStatus, Inv, TypeOK, Active
<1>2. Executing'
  BY NoTask DEF Watch, SetStatus, Inv, TypeOK, Executing, OneActiveTask, Candidates, Active
<1>3. Attempted'
  BY DEF Watch, SetStatus, Inv, Attempted, SubmittedOncePerAttempt
<1>4. Archived'
  BY DEF Watch, SetStatus, At, Inv, Archived, SucceededIsComplete
<1>5. Jobs'
  BY DEF At, SetStatus, Watch, Inv, TypeOK, Jobs
<1> QED BY <1>1, <1>2, <1>3, <1>4, <1>5 DEF Inv

LEMMA EndWatchStep == ASSUME Inv, WatchFails \/ Deadline \/ StopWatching PROVE Inv'
<1> USE DEF rowVars, serviceVars, workerVars, histVars
<1>1. TypeOK'
  BY FaultCounts, ComfyAssumption
     DEF WatchFails, Deadline, StopWatching, Fails, Rest, At, Inv, TypeOK, Active
<1>2. Executing'
  BY DEF WatchFails, Deadline, StopWatching, Fails, Rest, At, Inv, Executing, OneActiveTask,
         Candidates
<1>3. Attempted'
  BY DEF WatchFails, Deadline, StopWatching, Fails, Rest, Inv, Attempted, SubmittedOncePerAttempt
<1>4. Archived'
  BY DEF WatchFails, Deadline, StopWatching, Fails, Rest, At, Inv, Archived, SucceededIsComplete
<1>5. Jobs'
  BY DEF At, Deadline, Fails, Rest, StopWatching, WatchFails, Inv, TypeOK, Jobs
<1> QED BY <1>1, <1>2, <1>3, <1>4, <1>5 DEF Inv

LEMMA StartArchiveStep == ASSUME Inv, StartArchive PROVE Inv'
<1> USE DEF rowVars, serviceVars, workerVars, histVars
<1>1. TypeOK'
  BY ComfyAssumption DEF StartArchive, Fails, SetStatus, At, Inv, TypeOK, Active
<1>2. Executing'
  BY DEF StartArchive, Fails, SetStatus, At, Inv, Executing, OneActiveTask, Candidates, Active
<1>3. Attempted'
  BY DEF StartArchive, Fails, SetStatus, Inv, Attempted, SubmittedOncePerAttempt
<1>4. Archived'
  BY ComfyAssumption
     DEF StartArchive, Fails, SetStatus, At, Inv, TypeOK, Archived, SucceededIsComplete
<1>5. Jobs'
  BY DEF At, Fails, SetStatus, StartArchive, Inv, TypeOK, Jobs
<1> QED BY <1>1, <1>2, <1>3, <1>4, <1>5 DEF Inv

LEMMA ArchiveOutputStep == ASSUME Inv, ArchiveOutput PROVE Inv'
<1> USE DEF rowVars, serviceVars, workerVars, histVars
<1>c. /\ current \in Tasks /\ pc = "archiving" /\ left > 0
      /\ outputs[current] \in Nat /\ left \in Nat /\ NumOutputs \in Nat
      /\ outputs[current] + left <= NumOutputs
  BY ComfyAssumption DEF ArchiveOutput, At, Inv, TypeOK, Archived
<1>o. \/ /\ outputs' = [outputs EXCEPT ![current] = @ + 1] /\ left' = left - 1 /\ pc' = pc
         /\ UNCHANGED <<verdict, faults>>
      \/ pc' = "failing" /\ verdict' = "failed" /\ UNCHANGED <<outputs, left>> /\ Fault
  BY <1>c DEF ArchiveOutput, Fails
<1>u. UNCHANGED <<status, connOf, promptId, deleted, connState, serviceVars, ops, phase, current,
                  prompt, seen, histVars>>
  BY DEF ArchiveOutput, Fails
<1>1. TypeOK'
  <2>1. outputs' \in [Tasks -> 0..NumOutputs] /\ left' \in 0..NumOutputs
    <3>1. outputs[current] + 1 \in 0..NumOutputs /\ left - 1 \in 0..NumOutputs
      BY <1>c
    <3> QED BY <1>o, <3>1 DEF Inv, TypeOK
  <2>2. faults' \in 0..MaxFaults
    BY <1>o, FaultCounts DEF Inv, TypeOK
  <2>3. verdict' \in {"failed", "unknown"} /\ pc' \in {"archiving", "failing"} /\ current # 0
    BY <1>o, <1>c DEF Inv, TypeOK
  <2> QED BY <2>1, <2>2, <2>3, <1>u DEF Inv, TypeOK
<1>2. Executing'
  BY <1>c, <1>o, <1>u DEF Inv, Executing, OneActiveTask, Candidates
<1>3. Attempted'
  BY <1>c, <1>o, <1>u DEF Inv, Attempted, SubmittedOncePerAttempt
<1>4. Archived'
  <2>1. status[current] \in {"archiving", "cancelled"}
    BY <1>c DEF Inv, Archived
  <2>2. \A t \in Tasks : t # current => outputs'[t] = outputs[t]
    BY <1>c, <1>o DEF Inv, TypeOK
  <2>3. pc' = "archiving" => outputs'[current] + left' = outputs[current] + left
    BY <1>c, <1>o DEF Inv, TypeOK
  <2> QED BY <1>c, <1>o, <1>u, <2>1, <2>2, <2>3 DEF Inv, Archived, SucceededIsComplete
<1>5. Jobs'
  BY <1>c, <1>o, <1>u DEF Inv, Jobs
<1> QED BY <1>1, <1>2, <1>3, <1>4, <1>5 DEF Inv

LEMMA SucceedStep == ASSUME Inv, Succeed PROVE Inv'
<1> USE DEF rowVars, serviceVars, workerVars, histVars
<1>1. TypeOK'
  BY FaultCounts, ComfyAssumption DEF Succeed, Fails, Rest, SetStatus, At, Inv, TypeOK, Active, Over
<1>2. Executing'
  BY DEF Succeed, Fails, Rest, SetStatus, At, Inv, TypeOK, Executing, OneActiveTask, Candidates, Active
<1>3. Attempted'
  BY DEF Succeed, Fails, Rest, SetStatus, At, Inv, TypeOK, Attempted, SubmittedOncePerAttempt
<1>4. Archived'
  BY DEF Succeed, Fails, Rest, SetStatus, At, Inv, TypeOK, Archived, SucceededIsComplete
<1>5. Jobs'
  BY DEF Succeed, Fails, Rest, SetStatus, At, Inv, TypeOK, Jobs
<1> QED BY <1>1, <1>2, <1>3, <1>4, <1>5 DEF Inv

LEMMA FailTaskStep == ASSUME Inv, FailTask PROVE Inv'
<1> USE DEF rowVars, serviceVars, workerVars, histVars
<1>1. TypeOK'
  BY FaultCounts, ComfyAssumption DEF FailTask, Broken, Rest, SetStatus, Inv, TypeOK, Active, Over
<1>2. Executing'
  BY NoTask DEF FailTask, Rest, SetStatus, Inv, TypeOK, Executing, OneActiveTask, Candidates
<1>3. Attempted'
  BY DEF FailTask, Rest, SetStatus, Inv, TypeOK, Attempted, SubmittedOncePerAttempt
<1>4. Archived'
  BY DEF FailTask, Broken, Rest, SetStatus, Inv, TypeOK, Archived, SucceededIsComplete
<1>5. Jobs'
  BY DEF FailTask, Rest, SetStatus, Inv, TypeOK, Jobs
<1> QED BY <1>1, <1>2, <1>3, <1>4, <1>5 DEF Inv

LEMMA ExitStep == ASSUME Inv, Exit PROVE Inv'
<1> USE DEF rowVars, serviceVars, workerVars, histVars
<1>1. TypeOK'
  BY FaultCounts, ComfyAssumption DEF Exit, Broken, Rest, Inv, TypeOK, Active
<1>2. Executing'
  BY DEF Exit, Rest, Inv, Executing, OneActiveTask, Candidates
<1>3. Attempted'
  BY DEF Exit, Rest, Inv, Attempted, SubmittedOncePerAttempt
<1>4. Archived'
  BY DEF Exit, Broken, Rest, Inv, Archived, SucceededIsComplete
<1>5. Jobs'
  BY DEF Exit, Rest, Inv, TypeOK, Jobs
<1> QED BY <1>1, <1>2, <1>3, <1>4, <1>5 DEF Inv

\* The service only ends jobs.
LEMMA JobEndsStep == ASSUME Inv, JobEnds PROVE Inv'
<1> USE DEF rowVars, workerVars, histVars
<1>1. TypeOK'
  BY DEF JobEnds, Inv, TypeOK
<1>2. Executing'
  BY DEF JobEnds, Inv, Executing, OneActiveTask, Candidates
<1>3. Attempted'
  BY DEF JobEnds, Inv, Attempted, SubmittedOncePerAttempt
<1>4. Archived'
  BY DEF JobEnds, Inv, Archived, SucceededIsComplete
<1>5. Jobs'
  BY DEF JobEnds, Inv, Jobs
<1> QED BY <1>1, <1>2, <1>3, <1>4, <1>5 DEF Inv

-----------------------------------------------------------------------------
LEMMA InvInit == Init => Inv
<1> SUFFICES ASSUME Init PROVE Inv
  OBVIOUS
<1>1. TypeOK
  BY ComfyAssumption DEF Init, TypeOK, Active
<1>2. Executing
  BY DEF Init, Executing, OneActiveTask, Candidates, Active
<1>3. Attempted
  BY DEF Init, Attempted, SubmittedOncePerAttempt
<1>4. Archived
  BY DEF Init, Archived, SucceededIsComplete
<1>5. Jobs
  BY DEF Init, Jobs
<1> QED BY <1>1, <1>2, <1>3, <1>4, <1>5 DEF Inv

LEMMA InvNext == ASSUME Inv, Next PROVE Inv'
<1>1. ASSUME UserStep PROVE Inv'
  BY <1>1, CalmStep, CreateStep DEF UserStep, CalmMoves
<1>2. ASSUME CommitStep PROVE Inv'
  BY <1>2, CancelCommitStep, RetryCommitStep, RemoveCommitStep, RemoveOutputsStep DEF CommitStep
<1>3. ASSUME AdminStep \/ BeginStop \/ Start PROVE Inv'
  BY <1>3, CalmStep DEF CalmMoves
<1>4. ASSUME WorkerStep \/ Deadline PROVE Inv'
  BY <1>4, TickStep, ResumeStep, ReadConnectionStep, PrepareStep, SubmitStep, SavePromptStep,
     WatchStep, EndWatchStep, StartArchiveStep, ArchiveOutputStep, SucceedStep, FailTaskStep
     DEF WorkerStep
<1>5. ASSUME Exit \/ JobEnds PROVE Inv'
  BY <1>5, ExitStep, JobEndsStep
<1> QED BY <1>1, <1>2, <1>3, <1>4, <1>5 DEF Next

LEMMA InvStutter == ASSUME Inv, UNCHANGED vars PROVE Inv'
<1> USE DEF vars, rowVars, serviceVars, workerVars, histVars
<1>1. TypeOK'
  BY DEF Inv, TypeOK
<1>2. Executing'
  BY DEF Inv, Executing, OneActiveTask, Candidates
<1>3. Attempted'
  BY DEF Inv, Attempted, SubmittedOncePerAttempt
<1>4. Archived'
  BY DEF Inv, Archived, SucceededIsComplete
<1>5. Jobs'
  BY DEF Inv, TypeOK, Jobs
<1> QED BY <1>1, <1>2, <1>3, <1>4, <1>5 DEF Inv

LEMMA Invariance == Spec => []Inv
<1>1. Inv /\ [Next]_vars => Inv'
  BY InvNext, InvStutter
<1> QED BY InvInit, <1>1, PTL DEF Spec

\* In every reachable state the variables have their types: in particular an archive
\* never stores more outputs than the job has, on the first execution or on a retry.
THEOREM ComfyTypeCorrect == Spec => []TypeOK
<1>1. Inv => TypeOK
  BY DEF Inv
<1> QED BY Invariance, <1>1, PTL

\* A task is handed to the service at most once for every time a user asked for it,
\* whatever replies are lost, whoever cancels meanwhile and wherever the process ends.
THEOREM SubmittedOnce == Spec => []SubmittedOncePerAttempt
<1>1. Inv => SubmittedOncePerAttempt
  BY DEF Inv, Attempted
<1> QED BY Invariance, <1>1, PTL

\* A job that nobody has given up belongs to a row that is being executed.
LEMMA Attended ==
  ASSUME Inv, NEW job \in remote, ~GivenUp(job)
  PROVE  job[1] \in Candidates(Active) /\ job = <<job[1], submitted[job[1]]>>
<1> DEFINE t == job[1]
<1>1. t \in Tasks /\ job[2] \in Nat /\ job = <<t, job[2]>> /\ submitted[t] \in Nat
  BY DEF Inv, TypeOK
<1>2. job[2] = submitted[t] /\ submitted[t] > 0
  BY <1>1 DEF Inv, Jobs, GivenUp
<1>3. status[t] \notin {"absent", "pending", "archiving", "succeeded", "failed", "unknown", "cancelled"}
  BY <1>1, <1>2 DEF Inv, Jobs, Attempted, GivenUp
<1>4. status[t] \in Active /\ t \notin deleted
  BY <1>1, <1>3 DEF Inv, TypeOK, Over, GivenUp
<1> QED BY <1>1, <1>2, <1>4 DEF Candidates

\* The service has two jobs of this program at the same time only if a row has given
\* one of them up: ended as failed, unknown or cancelled, asked for again, or removed.
THEOREM OneJob == Spec => []OneJobAtATime
<1>1. Inv => OneJobAtATime
  BY Attended DEF OneJobAtATime, Inv, Executing, OneActiveTask
<1> QED BY Invariance, <1>1, PTL

\* A task marked succeeded has all the outputs of its job, unless its archive was cut
\* off by the end of the process or a removal met the worker.
THEOREM SucceededComplete == Spec => []SucceededIsComplete
<1>1. Inv => SucceededIsComplete
  BY DEF Inv, Archived
<1> QED BY Invariance, <1>1, PTL
=============================================================================
