---------------------------- MODULE AgentActions ----------------------------
(***************************************************************************)
(* A product SKU recorded through an agent                                 *)
(* (server/src/agent-apps/agent-workspace.service.ts and                   *)
(* agent-execution-runtime.service.ts): chat messages change the action    *)
(* that waits for confirmation, the user edits, cancels, confirms and      *)
(* stops, and a timer fails executions whose lease is over.                *)
(*                                                                         *)
(* One action that asks for a SKU, in an application whose messages are    *)
(* not classified first.  A refused request changes nothing and is left    *)
(* out.  A confirmation names the version under which its user saw the     *)
(* action, and is refused if the row has another; the same version need    *)
(* not mean the same data.  Message rows are left out.                     *)
(***************************************************************************)
EXTENDS Integers, FiniteSets

CONSTANTS
  Msgs,               \* chat messages: one execution each
  MaxConcurrentRuns,
  MaxKeys, MaxCalls,  \* bounds on idempotency keys, and on requests at a time
  MaxEdits,           \* bound on edits of the form
  MaxFaults           \* bound on failed statements, lost replies and crashes

ASSUME AgentAssumption ==
  /\ Msgs \cap Nat = {}
  /\ MaxConcurrentRuns \in Nat \ {0} /\ MaxKeys \in Nat /\ MaxCalls \in Nat
  /\ MaxEdits \in Nat /\ MaxFaults \in Nat

VARIABLES
  pending, version, data,  \* the action; its data are the number of the edit they come from
  edits, shown,            \* data written so far; the drafts that clients may show
  exec, stale,             \* executions; stale are the active ones whose lease is over
  skus,                    \* SKUs by operation key
  pc, key, copy, seen,     \* requests; the draft in the entity they hold, and its user's
  chat, chatCopy,          \* messages
  lost, overtaken, torn,   \* history
  faults                   \* bound

draftVars == <<version, data, edits, shown>>
actVars  == <<pending, draftVars>>
execVars == <<exec, stale>>
reqVars  == <<pc, key, copy, seen>>
chatVars == <<chat, chatCopy>>
histVars == <<lost, overtaken, torn>>
vars == <<actVars, execVars, skus, reqVars, chatVars, histVars, faults>>

Keys     == 1..MaxKeys   \* of confirmations, by their first use: one execution each
Requests == 1..MaxCalls  \* of confirmPendingAction and findExecutionByRequest
Execs    == Keys \cup Msgs
Active   == {"running", "submitting"}  \* queued and verifying are never set
Over     == {"succeeded", "failed", "cancelled"}

Fault == faults < MaxFaults /\ faults' = faults + 1

\* A request may still write the SKU of the key.
Writing(k) == \E r \in Requests : key[r] = k /\ pc[r] = "writing"

Editable == pending \in {"collecting", "pending_confirmation", "failed"}

\* Somebody still writes for an action that is not being submitted any more, or the
\* action of a SKU is open again.
Detached ==
  \/ pending # "submitting" /\ \E k \in Keys : Writing(k)
  \/ Editable /\ \E k \in Keys : skus[k] > 0

\* History: a stop, a recovery or a save of a stale entity came in between.
Track == lost' = (lost \/ Detached')

\* History: the execution is over, and its action is left to itself.
Tear == torn' = (torn \/ pending = "submitting")

Draft == <<version, data>>

\* Data that nobody has written before, under a version: a client may show them from now on.
NewData(v) ==
  /\ version' = v /\ data' = edits + 1 /\ edits' = edits + 1
  /\ shown' = shown \cup {Draft'}

\* An entity read before is saved, although its version, or a later one, was shown with
\* other data.
Overtakes ==
  overtaken' = (overtaken \/ \E draft \in shown : draft[1] >= version' /\ draft # Draft')

\* Slip: a lease outlives its execution.
Set_KeepsLease(e, s) == exec' = [exec EXCEPT ![e] = s] /\ stale' = stale

\* An execution is created with a lease, and needs none when it is over.
Set(e, s) == exec' = [exec EXCEPT ![e] = s] /\ stale' = stale \ {e}

-----------------------------------------------------------------------------
\* The action, changed by the user's form.

\* Slip: an edit keeps the version.
Update_SameVersion ==
  /\ Editable /\ edits < MaxEdits
  /\ pending' \in {"collecting", "pending_confirmation"}
  /\ NewData(version)
  /\ UNCHANGED <<execVars, skus, reqVars, chatVars, histVars, faults>>

\* updatePendingAction, whose transaction repeats the checks; fields may be missing.
Update ==
  /\ Editable /\ edits < MaxEdits
  /\ pending' \in {"collecting", "pending_confirmation"}
  /\ NewData(version + 1)
  /\ UNCHANGED <<execVars, skus, reqVars, chatVars, histVars, faults>>

CancelAction ==
  /\ Editable
  /\ pending' = "cancelled" /\ version' = version + 1
  /\ UNCHANGED <<data, edits, shown, execVars, skus, reqVars, chatVars, histVars, faults>>

-----------------------------------------------------------------------------
\* Confirmation.

\* assertConcurrencyAvailable: an execution whose lease is over does not count.
Available ==
  Cardinality({e \in Execs : exec[e] \in Active /\ e \notin stale}) < MaxConcurrentRuns

Goto(r, s) == pc' = [pc EXCEPT ![r] = s]

\* The request ends.
Rest(r) ==
  /\ Goto(r, "idle")
  /\ key' = [key EXCEPT ![r] = 0]
  /\ copy' = [copy EXCEPT ![r] = <<0, 0>>] /\ seen' = [seen EXCEPT ![r] = <<0, 0>>]

\* Slip: a submission that goes on may be confirmed once more.
Confirmable_Submitting == pending \in {"pending_confirmation", "failed", "submitting"}

Confirmable == pending \in {"pending_confirmation", "failed"}

\* A new request.
Begins(r) == pc[r] = "idle" /\ \A q \in Requests : q < r => pc[q] # "idle"

\* The transaction of confirmPendingAction for a key that has no execution: the version
\* that the user saw is compared, not the data.
Confirm(r, k) ==
  /\ Begins(r) /\ exec[k] = "absent" /\ \A j \in Keys : j < k => exec[j] # "absent"
  /\ Available /\ Confirmable
  /\ Set(k, "submitting")
  /\ pending' = "submitting"
  /\ Goto(r, "writing")
  /\ key' = [key EXCEPT ![r] = k] /\ copy' = [copy EXCEPT ![r] = Draft]
  /\ \E draft \in shown : draft[1] = version /\ seen' = [seen EXCEPT ![r] = draft]
  /\ UNCHANGED <<draftVars, skus, chatVars, histVars, faults>>

\* A repeated confirmation, or a query by request id; any other status is answered.
Ask(r, k) ==
  /\ Begins(r) /\ exec[k] \in {"submitting", "failed"}
  /\ Goto(r, "checking") /\ key' = [key EXCEPT ![r] = k]
  /\ UNCHANGED <<actVars, execVars, skus, copy, seen, chatVars, histVars, faults>>

\* createSkuFromAgent, a transaction that finds the SKU of the key or inserts it; it may
\* be refused, and its reply may be lost.
Write(r) ==
  /\ pc[r] = "writing"
  /\ seen' = [seen EXCEPT ![r] = <<0, 0>>]
  /\ \/ /\ skus' = [skus EXCEPT ![key[r]] = IF @ = 0 THEN 1 ELSE @]
        /\ \/ Goto(r, "marking") /\ UNCHANGED faults
           \/ Goto(r, "failing") /\ Fault
     \/ Goto(r, "failing") /\ UNCHANGED <<skus, faults>>
  /\ UNCHANGED <<actVars, execVars, key, copy, chatVars, histVars>>

\* confirmResult: an execution that is over is looked at again.
Recheck(r) ==
  IF exec[key[r]] = "failed"
  THEN Goto(r, "checking") /\ copy' = [copy EXCEPT ![r] = <<0, 0>>] /\ UNCHANGED <<key, seen>>
  ELSE Rest(r)

\* The conditional update to succeeded; it may fail, with or without its effect.
MarkSucceeded(r) ==
  /\ pc[r] = "marking"
  /\ \/ /\ exec[key[r]] = "submitting"
        /\ Set(key[r], "succeeded") /\ Goto(r, "saving")
        /\ UNCHANGED <<key, copy, seen, torn, faults>>
     \/ exec[key[r]] # "submitting" /\ Recheck(r) /\ UNCHANGED <<execVars, torn, faults>>
     \/ /\ Fault
        /\ Goto(r, "failing") /\ UNCHANGED <<key, copy, seen>>
        /\ \/ UNCHANGED <<execVars, torn>>
           \/ exec[key[r]] = "submitting" /\ Set(key[r], "succeeded") /\ Tear
  /\ UNCHANGED <<actVars, skus, chatVars, lost, overtaken>>

\* Slip: the failure is written whatever the execution has become.
MarkFailed_Always(r) ==
  /\ pc[r] = "failing"
  /\ Set(key[r], "failed") /\ Goto(r, "savingFailed")
  /\ UNCHANGED <<actVars, skus, key, copy, seen, chatVars, histVars, faults>>

\* The catch block: the conditional update to failed.
MarkFailed(r) ==
  /\ pc[r] = "failing"
  /\ \/ /\ exec[key[r]] = "submitting"
        /\ Set(key[r], "failed") /\ Goto(r, "savingFailed")
        /\ UNCHANGED <<key, copy, seen>>
     \/ exec[key[r]] # "submitting" /\ Recheck(r) /\ UNCHANGED execVars
  /\ UNCHANGED <<actVars, skus, chatVars, histVars, faults>>

\* Saves of an entity read before: all its columns are put back.
SaveAction(r) ==
  /\ \/ pc[r] = "saving" /\ pending' = "submitted"
     \/ pc[r] = "savingFailed" /\ pending' = "failed"
  /\ version' = copy[r][1] /\ data' = copy[r][2]
  /\ Rest(r)
  /\ UNCHANGED <<edits, shown, execVars, skus, chatVars, torn, faults>>
  /\ Track /\ Overtakes

\* reconcileWriteExecution: its entity was read before, its save is unconditional.
Reconcile(r) ==
  /\ pc[r] = "checking"
  /\ IF skus[key[r]] > 0
     THEN Set(key[r], "succeeded") /\ Goto(r, "reading") /\ UNCHANGED <<key, copy, seen>>
     ELSE Rest(r) /\ UNCHANGED execVars
  /\ UNCHANGED <<actVars, skus, chatVars, histVars, faults>>

ReadAction(r) ==
  /\ pc[r] = "reading"
  /\ Goto(r, "saving") /\ copy' = [copy EXCEPT ![r] = Draft]
  /\ UNCHANGED <<actVars, execVars, skus, key, seen, chatVars, histVars, faults>>

\* A statement fails where nothing is repaired, or the process dies.  (A failed save
\* after success leads to the catch block, which finds an execution that has succeeded.)
Drop(r) ==
  /\ pc[r] # "idle"
  /\ Fault
  /\ IF pc[r] \in {"reading", "saving", "savingFailed"} THEN Tear ELSE UNCHANGED torn
  /\ Rest(r)
  /\ UNCHANGED <<actVars, execVars, skus, chatVars, lost, overtaken>>

-----------------------------------------------------------------------------
\* Messages that ask to change the action.

\* findActivePendingAction, before the transaction that reserves the execution.
ChatRead(m) ==
  /\ chat[m] = "idle" /\ exec[m] = "absent" /\ Editable
  /\ chat' = [chat EXCEPT ![m] = "reserving"] /\ chatCopy' = [chatCopy EXCEPT ![m] = version]
  /\ UNCHANGED <<actVars, execVars, skus, reqVars, histVars, faults>>

\* The entity that was read is of no more use once it is saved or given up.
ChatGoto(m, s) ==
  /\ chat' = [chat EXCEPT ![m] = s]
  /\ chatCopy' = [chatCopy EXCEPT ![m] = IF s \in {"completing", "done"} THEN 0 ELSE @]

\* A client's message id is used once; otherwise the earlier answer is returned.
ChatReserve(m) ==
  /\ chat[m] = "reserving" /\ Available
  /\ Set(m, "running")
  /\ chat' = [chat EXCEPT ![m] = "working"]
  /\ UNCHANGED <<actVars, skus, reqVars, chatCopy, histVars, faults>>

\* The last check that the execution is running; products were searched before it.
ChatPrepare(m) ==
  /\ chat[m] = "working"
  /\ ChatGoto(m, IF exec[m] = "running" THEN "saving" ELSE "done")
  /\ UNCHANGED <<actVars, execVars, skus, reqVars, histVars, faults>>

\* processWritePreparation: the entity read first is saved, whatever became of the row.
ChatSave(m) ==
  /\ chat[m] = "saving"
  /\ pending' \in {"collecting", "pending_confirmation"}
  /\ NewData(chatCopy[m] + 1)
  /\ ChatGoto(m, "completing")
  /\ UNCHANGED <<execVars, skus, reqVars, torn, faults>>
  /\ Track /\ Overtakes

\* completeRunningExecution.
ChatComplete(m) ==
  /\ chat[m] = "completing"
  /\ ChatGoto(m, "done")
  /\ IF exec[m] = "running" THEN Set(m, "waiting") ELSE UNCHANGED execVars
  /\ UNCHANGED <<actVars, skus, reqVars, histVars, faults>>

\* processBusinessAction, for an application with other tools: one transaction that
\* repeats the checks, and completes the execution.
ChatSaveChecked(m) ==
  /\ chat[m] = "saving"
  /\ exec[m] = "running" /\ Editable /\ version = chatCopy[m]
  /\ pending' \in {"collecting", "pending_confirmation"} /\ Set(m, "waiting")
  /\ NewData(version + 1)
  /\ ChatGoto(m, "done")
  /\ UNCHANGED <<skus, reqVars, histVars, faults>>

\* The work fails, or takes too long: then what was begun still goes on.
ChatFail(m) ==
  /\ exec[m] = "running" /\ chat[m] \in {"working", "saving", "completing"}
  /\ Set(m, "failed")
  /\ \E s \in {"done", chat[m]} : ChatGoto(m, s)
  /\ UNCHANGED <<actVars, skus, reqVars, histVars, faults>>

-----------------------------------------------------------------------------
\* stopExecution cancels the action too, even one that somebody else is submitting.
Stop(e) ==
  /\ exec[e] \in Active \cup {"waiting"}
  /\ Set(e, "cancelled")
  /\ IF pending \notin {"submitted", "cancelled"}
     THEN pending' = "cancelled" /\ version' = version + 1 /\ UNCHANGED <<data, edits, shown>>
     ELSE UNCHANGED actVars
  /\ UNCHANGED <<skus, reqVars, chatVars, overtaken, torn, faults>>
  /\ Track

\* Time passes: the lease is the time limit and some grace; nothing renews it.
LeaseOver(e) ==
  /\ exec[e] \in Active /\ e \notin stale
  /\ stale' = stale \cup {e}
  /\ UNCHANGED <<actVars, exec, skus, reqVars, chatVars, histVars, faults>>

\* Slip: only executions of messages are recovered.
Recover_Messages(e) ==
  /\ e \in Msgs \cap stale
  /\ Set(e, "failed")
  /\ UNCHANGED <<actVars, skus, reqVars, chatVars, histVars, faults>>

\* recoverOne: only the status is compared once more, and the action is taken to be
\* this execution's.
Recover(e) ==
  /\ e \in stale
  /\ Set(e, "failed")
  /\ pending' = (IF pending = "submitting" THEN "failed" ELSE pending)
  /\ UNCHANGED <<draftVars, skus, reqVars, chatVars, overtaken, torn, faults>>
  /\ Track

-----------------------------------------------------------------------------
Init ==
  /\ pending = "pending_confirmation" /\ version = 1 /\ data = 0 /\ edits = 0 /\ shown = {Draft}
  /\ exec = [e \in Execs |-> "absent"] /\ stale = {}
  /\ skus = [k \in Keys |-> 0]
  /\ pc = [r \in Requests |-> "idle"] /\ key = [r \in Requests |-> 0]
  /\ copy = [r \in Requests |-> <<0, 0>>] /\ seen = [r \in Requests |-> <<0, 0>>]
  /\ chat = [m \in Msgs |-> "idle"] /\ chatCopy = [m \in Msgs |-> 0]
  /\ lost = FALSE /\ overtaken = FALSE /\ torn = FALSE /\ faults = 0

RequestStep(r) ==
  \/ Write(r) \/ MarkSucceeded(r) \/ MarkFailed(r) \/ SaveAction(r)
  \/ Reconcile(r) \/ ReadAction(r)

ChatStep(m) ==
  \/ ChatRead(m) \/ ChatReserve(m) \/ ChatPrepare(m) \/ ChatSave(m) \/ ChatComplete(m)
  \/ ChatSaveChecked(m) \/ ChatFail(m)

Next ==
  \/ Update \/ CancelAction
  \/ \E r \in Requests, k \in Keys : Confirm(r, k) \/ Ask(r, k)
  \/ \E r \in Requests : RequestStep(r) \/ Drop(r)
  \/ \E m \in Msgs : ChatStep(m)
  \/ \E e \in Execs : Stop(e) \/ LeaseOver(e) \/ Recover(e)

Spec == Init /\ [][Next]_vars

\* A call to the database answers or fails, so that each request that is not lost goes
\* on; time passes, and the recovery timer ticks.  Users and messages owe nothing.  (Each
\* of these steps changes the variable named, so that the rest need not be compared.)
Fairness ==
  /\ \A r \in Requests : WF_pc(RequestStep(r))
  /\ WF_stale(\E e \in Execs : LeaseOver(e))
  /\ WF_stale(\E e \in Execs : Recover(e))

FairSpec == Spec /\ Fairness
-----------------------------------------------------------------------------
TypeOK ==
  /\ pending \in {"collecting", "pending_confirmation", "submitting", "submitted", "failed",
                  "cancelled"}
  /\ version \in Nat /\ data \in Nat /\ edits \in Nat /\ shown \subseteq Nat \X Nat
  /\ copy \in [Requests -> Nat \X Nat] /\ seen \in [Requests -> Nat \X Nat]
  /\ chatCopy \in [Msgs -> Nat]
  /\ exec \in [Execs -> Active \cup Over \cup {"absent", "waiting"}]
  /\ stale \subseteq {e \in Execs : exec[e] \in Active}
  /\ skus \in [Keys -> 0..1]
  /\ pc \in [Requests -> {"idle", "writing", "marking", "failing", "saving", "savingFailed",
                          "checking", "reading"}]
  /\ key \in [Requests -> Keys \cup {0}]
  /\ \A r \in Requests : pc[r] = "idle" <=> key[r] = 0
  /\ chat \in [Msgs -> {"idle", "reserving", "working", "saving", "completing", "done"}]
  /\ lost \in BOOLEAN /\ overtaken \in BOOLEAN /\ torn \in BOOLEAN
  /\ faults \in 0..MaxFaults

\* What an execution has ended with changes in one way only: the SKU of its key exists,
\* and it becomes a success.  No late result and no recovery brings it back otherwise.
\* A failure is reconciled so, and a cancellation too: a reconciliation that had read
\* the execution before the user stopped it saves it without a condition.
EndChangesOnlyToSuccess ==
  [][\A e \in Execs :
       exec[e] \in Over /\ exec'[e] # exec[e] =>
         /\ exec[e] # "succeeded" /\ exec'[e] = "succeeded"
         /\ e \in Keys /\ skus[e] > 0]_vars

\* However often it is confirmed, with the same key or others, an action gives one SKU,
\* unless a submission that has written, or still may, was let go.
OneSkuUnlessLost == lost \/ Cardinality({k \in Keys : skus[k] > 0}) <= 1

\* The SKU gets the data that its user saw when confirming, with one exception: an
\* entity read before was saved over a draft shown since (overtaken), so that a version
\* has two different data, and a confirmation, which names the version only, passes.  Nobody
\* edits, cancels or confirms the action before its SKU is written, unless a stop, a
\* recovery or a stale save let the submission go (lost).
WritesWhatIsShown ==
  [][\A r \in Requests :
       pc[r] = "writing" /\ skus'[key[r]] # skus[key[r]] =>
         /\ overtaken \/ seen[r] = copy[r]
         /\ lost \/ (pending = "submitting" /\ Draft = copy[r])]_vars

\* What was begun ends: no execution stays active, and no action stays locked by a
\* submission, unless what was left between two statements cannot be completed.
EveryExecutionEnds ==
  []<>((\A e \in Execs : exec[e] \notin Active) /\ (pending # "submitting" \/ torn))

\* Contradicted by the code: an action that was submitted stays a receipt.
SubmittedIsFinal == [][pending = "submitted" => pending' = "submitted"]_pending
=============================================================================
