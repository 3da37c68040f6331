------------------------ MODULE CustomerDispatchLock ------------------------
(***************************************************************************)
(* The dispatch lock of customer reception (initialize, shutdown and the   *)
(* ownership check of drain in server/src/customer-service): several       *)
(* server processes on one database, of which one may recover, dispatch    *)
(* and execute tasks.  The lock is a named lock of MySQL that lives as     *)
(* long as the connection that took it, so it disappears with its process  *)
(* or when the connection dies under a living process.                     *)
(*                                                                         *)
(* Tasks are reduced to their status; sessions, versions and time-outs are *)
(* the subject of CustomerService.  One application.                       *)
(***************************************************************************)
EXTENDS Integers, FiniteSets

CONSTANTS
  Procs, Tasks, None,
  Limit,                          \* maxConcurrentChats
  MaxLosses, MaxStops, MaxFails   \* bounds

ASSUME LockAssumption ==
  /\ None \notin Procs
  /\ IsFiniteSet(Tasks)
  /\ Limit \in Nat /\ MaxLosses \in Nat /\ MaxStops \in Nat /\ MaxFails \in Nat

VARIABLES
  holder,       \* the process whose connection holds the named lock
  stage,        \* where initialize, serving or shutdown of a process stands
  stopping,     \* processes told to shut down
  interrupted,  \* tasks a recovery has still to visit
  drain, taken, \* the drain loop of a process
  entry,        \* its `running' map: a task executes, or its finalizer failed
  publish,      \* the entries with publishAllowed
  status,       \* task rows
  losses, stops, fails     \* bounded counters

procVars  == <<stage, stopping, interrupted>>
drainVars == <<drain, taken>>
runVars   == <<entry, publish>>
boundVars == <<losses, stops, fails>>
vars      == <<holder, procVars, drainVars, runVars, status, boundVars>>

Occupied == {"running", "cancelling"}
Ended    == {"completed", "failed", "cancelled"}

Queued == {t \in Tasks : status[t] = "queued"}

Fail == fails < MaxFails /\ fails' = fails + 1 /\ UNCHANGED <<losses, stops>>

\* Slip: a wait for the lock that timed out is taken for success.
LockFree_Always == TRUE

LockFree == holder = None

\* RELEASE_LOCK acts only on a lock of this connection.
Unlocked(p) == IF holder = p THEN None ELSE holder

\* What remains in memory of a process that has ended.
Forget(p) ==
  /\ stage' = [stage EXCEPT ![p] = "down"]
  /\ stopping' = stopping \ {p}
  /\ interrupted' = [interrupted EXCEPT ![p] = {}]
  /\ drain' = [drain EXCEPT ![p] = "idle"]
  /\ taken' = [taken EXCEPT ![p] = {}]
  /\ entry' = [entry EXCEPT ![p] = [t \in Tasks |-> "none"]]
  /\ publish' = [publish EXCEPT ![p] = {}]

-----------------------------------------------------------------------------
\* initialize

Enter(p, next) == stage' = [stage EXCEPT ![p] = next]

\* A step of initialize failed, or shutdown has been asked for: the catch
\* block releases what was acquired.
GiveUp(p) == Enter(p, "releasing") /\ UNCHANGED <<stopping, interrupted>>

Start(p) ==
  /\ stage[p] = "down"
  /\ Enter(p, "locking")
  /\ UNCHANGED <<holder, stopping, interrupted, drainVars, runVars, status, boundVars>>

\* GET_LOCK returned 1.
Acquire(p) ==
  /\ stage[p] = "locking"
  /\ LockFree
  /\ holder' = p
  /\ IF p \in stopping THEN GiveUp(p) ELSE Enter(p, "locked") /\ UNCHANGED <<stopping, interrupted>>
  /\ UNCHANGED <<drainVars, runVars, status, boundVars>>

\* GET_LOCK timed out, or failed: the process does not start.
Refused(p) ==
  /\ stage[p] = "locking"
  /\ (~LockFree /\ UNCHANGED boundVars) \/ Fail
  /\ Forget(p)
  /\ UNCHANGED <<holder, status>>

\* Slip: a recovery that looks for running tasks only.
ListInterrupted_Running(p) ==
  /\ stage[p] = "locked"
  /\ \/ /\ Enter(p, "recovering")
        /\ interrupted' = [interrupted EXCEPT ![p] = {t \in Tasks : status[t] = "running"}]
        /\ UNCHANGED <<stopping, boundVars>>
     \/ Fail /\ GiveUp(p)
  /\ UNCHANGED <<holder, drainVars, runVars, status>>

ListInterrupted(p) ==
  /\ stage[p] = "locked"
  /\ \/ /\ Enter(p, "recovering")
        /\ interrupted' = [interrupted EXCEPT ![p] = {t \in Tasks : status[t] \in Occupied}]
        /\ UNCHANGED <<stopping, boundVars>>
     \/ Fail /\ GiveUp(p)
  /\ UNCHANGED <<holder, drainVars, runVars, status>>

\* Slip: what was running is asked again.
RecoveredStatus_Requeued(t) ==
  IF status[t] = "running" THEN "queued"
  ELSE IF status[t] = "cancelling" THEN "cancelled" ELSE status[t]

RecoveredStatus(t) ==
  IF status[t] = "running" THEN "failed"
  ELSE IF status[t] = "cancelling" THEN "cancelled" ELSE status[t]

RecoverTask(p, t) ==
  /\ stage[p] = "recovering" /\ t \in interrupted[p]
  /\ \/ /\ status' = [status EXCEPT ![t] = RecoveredStatus(t)]
        /\ interrupted' = [interrupted EXCEPT ![p] = @ \ {t}]
        /\ UNCHANGED <<stage, stopping, boundVars>>
     \/ Fail /\ GiveUp(p) /\ UNCHANGED status
  /\ UNCHANGED <<holder, drainVars, runVars>>

BecomeReady(p) ==
  /\ stage[p] = "recovering" /\ interrupted[p] = {}
  /\ IF p \in stopping THEN GiveUp(p) ELSE Enter(p, "ready") /\ UNCHANGED <<stopping, interrupted>>
  /\ UNCHANGED <<holder, drainVars, runVars, status, boundVars>>

\* RELEASE_LOCK at the end of shutdown or of a start that failed.
Release(p) ==
  /\ stage[p] = "releasing"
  /\ holder' = Unlocked(p)
  /\ Enter(p, "released")
  /\ UNCHANGED <<stopping, interrupted, drainVars, runVars, status, boundVars>>

Exit(p) ==
  /\ stage[p] = "released"
  /\ Forget(p)
  /\ UNCHANGED <<holder, status, boundVars>>

-----------------------------------------------------------------------------
\* shutdown, crash, and the death of the connection that holds the lock.

Stop == stops < MaxStops /\ stops' = stops + 1 /\ UNCHANGED <<losses, fails>>

\* During initialize, shutdown waits for it to end.
BeginShutdown(p) ==
  /\ stage[p] # "down" /\ p \notin stopping
  /\ Stop
  /\ stopping' = stopping \cup {p}
  /\ stage' = [stage EXCEPT ![p] = IF @ \in {"ready", "lost"} THEN "draining" ELSE @]
  /\ UNCHANGED <<holder, interrupted, drainVars, runVars, status>>

\* The drain has ended: abort what still executes.
AbortAll(p) ==
  /\ stage[p] = "draining" /\ drain[p] = "idle"
  /\ Enter(p, "aborting")
  /\ publish' = [publish EXCEPT ![p] = {}]
  /\ UNCHANGED <<holder, stopping, interrupted, drainVars, entry, status, boundVars>>

\* Slip: shutdown does not wait for aborted executions.
Settled_AtOnce(p) == p = p

\* Promise.allSettled(executions): a failed finalizer counts as settled.
Settled(p) == \A t \in Tasks : entry[p][t] # "working"

EndShutdown(p) ==
  /\ stage[p] = "aborting"
  /\ Settled(p)
  /\ Enter(p, "releasing")
  /\ UNCHANGED <<holder, stopping, interrupted, drainVars, runVars, status, boundVars>>

Crash(p) ==
  /\ stage[p] # "down"
  /\ Stop
  /\ holder' = Unlocked(p)
  /\ Forget(p)
  /\ UNCHANGED status

\* MySQL drops the session and with it the lock; the process does not know yet.
LoseConnection(p) ==
  /\ holder = p
  /\ losses < MaxLosses
  /\ losses' = losses + 1
  /\ holder' = None
  /\ UNCHANGED <<procVars, drainVars, runVars, status, stops, fails>>

-----------------------------------------------------------------------------
\* drain

\* IS_USED_LOCK(..) = CONNECTION_ID().  A process that has lost the lock, or could
\* not find out, stops serving and aborts what it executes, but lives on until it
\* is restarted; a lock that it still holds it keeps.
CheckLock(p) ==
  /\ stage[p] = "ready" /\ drain[p] = "idle"
  /\ \/ /\ holder = p
        /\ drain' = [drain EXCEPT ![p] = "finalizers"]
        /\ UNCHANGED <<stage, publish, boundVars>>
     \/ /\ (holder # p /\ UNCHANGED boundVars) \/ Fail
        /\ Enter(p, "lost")
        /\ publish' = [publish EXCEPT ![p] = {}]
        /\ UNCHANGED drain
  /\ UNCHANGED <<holder, stopping, interrupted, taken, entry, status>>

\* The transaction of `finish': a task already ended stays as it ended.
FinishCommit(p, t) ==
  \E outcome \in {"completed", "failed"} :
    status' = [status EXCEPT ![t] =
                 IF @ \notin Occupied THEN @
                 ELSE IF @ = "cancelling" \/ t \notin publish[p] THEN "cancelled"
                 ELSE outcome]

\* Slip: the entry goes, its permission to publish stays.
RemoveEntry_KeepPublish(p, t) ==
  entry' = [entry EXCEPT ![p][t] = "none"] /\ UNCHANGED publish

RemoveEntry(p, t) ==
  /\ entry' = [entry EXCEPT ![p][t] = "none"]
  /\ publish' = [publish EXCEPT ![p] = @ \ {t}]

\* A failed finalizer ends the drain.
RetryFinalizer(p, t) ==
  /\ drain[p] = "finalizers" /\ entry[p][t] = "pending"
  /\ \/ FinishCommit(p, t) /\ RemoveEntry(p, t) /\ UNCHANGED <<drain, boundVars>>
     \/ Fail /\ drain' = [drain EXCEPT ![p] = "idle"] /\ UNCHANGED <<status, runVars>>
  /\ UNCHANGED <<holder, procVars, taken>>

Dispatch(p) ==
  /\ drain[p] = "finalizers" /\ \A t \in Tasks : entry[p][t] # "pending"
  /\ drain' = [drain EXCEPT ![p] = "dispatching"]
  /\ UNCHANGED <<holder, procVars, taken, runVars, status, boundVars>>

Available ==
  LET occupied == Cardinality({t \in Tasks : status[t] \in Occupied})
  IN  IF occupied < Limit THEN Limit - occupied ELSE 0

\* As many queued tasks as there are free slots; which ones is left to
\* CustomerService.  The lock is not checked again.
TakeTasks(p) ==
  /\ drain[p] = "dispatching" /\ p \notin stopping
  /\ \E S \in SUBSET Queued :
       /\ Cardinality(S) <= Available
       /\ Cardinality(S) = Available \/ S = Queued
       /\ status' = [t \in Tasks |-> IF t \in S THEN "running" ELSE status[t]]
       /\ taken' = [taken EXCEPT ![p] = S]
  /\ drain' = [drain EXCEPT ![p] = "registering"]
  /\ UNCHANGED <<holder, procVars, runVars, boundVars>>

Register(p) ==
  /\ drain[p] = "registering"
  /\ entry' = [entry EXCEPT ![p] = [t \in Tasks |-> IF t \in taken[p] THEN "working" ELSE @[t]]]
  /\ publish' = [publish EXCEPT ![p] = IF p \in stopping THEN @ ELSE @ \cup taken[p]]
  /\ taken' = [taken EXCEPT ![p] = {}]
  /\ drain' = [drain EXCEPT ![p] = "idle"]
  /\ UNCHANGED <<holder, procVars, status, boundVars>>

\* Shutdown ends the loop, a failed query or transaction does as well.  A commit of
\* takeTasks whose reply is lost is the subject of CustomerService.
EndDrain(p) ==
  /\ drain[p] = "dispatching"
  /\ (p \in stopping /\ UNCHANGED boundVars) \/ Fail
  /\ drain' = [drain EXCEPT ![p] = "idle"]
  /\ UNCHANGED <<holder, procVars, taken, runVars, status>>

-----------------------------------------------------------------------------
\* Executions and requests.

Finish(p, t) ==
  /\ entry[p][t] = "working"
  /\ FinishCommit(p, t)
  /\ RemoveEntry(p, t)
  /\ UNCHANGED <<holder, procVars, drainVars, boundVars>>

FinishFails(p, t) ==
  /\ entry[p][t] = "working"
  /\ Fail
  /\ entry' = [entry EXCEPT ![p][t] = "pending"]
  /\ UNCHANGED <<holder, procVars, drainVars, publish, status>>

\* A request that passed assertReady may still commit while its process stops.
Serving(p) == stage[p] \in {"ready", "lost", "draining", "aborting"}

SubmitVisitorMessage(p, t) ==
  /\ Serving(p)
  /\ status[t] = "none"
  /\ status' = [status EXCEPT ![t] = "queued"]
  /\ UNCHANGED <<holder, procVars, drainVars, runVars, boundVars>>

\* The rows change for every process, abortTasks finds only its own entries.
CancelTask(p, t) ==
  /\ Serving(p)
  /\ status[t] \in {"queued", "running"}
  /\ status' = [status EXCEPT ![t] = IF @ = "queued" THEN "cancelled" ELSE "cancelling"]
  /\ publish' = [publish EXCEPT ![p] = @ \ {t}]
  /\ UNCHANGED <<holder, procVars, drainVars, entry, boundVars>>

-----------------------------------------------------------------------------
Init ==
  /\ holder = None
  /\ stage = [p \in Procs |-> "down"] /\ stopping = {}
  /\ interrupted = [p \in Procs |-> {}]
  /\ drain = [p \in Procs |-> "idle"] /\ taken = [p \in Procs |-> {}]
  /\ entry = [p \in Procs |-> [t \in Tasks |-> "none"]]
  /\ publish = [p \in Procs |-> {}]
  /\ status = [t \in Tasks |-> "none"]
  /\ losses = 0 /\ stops = 0 /\ fails = 0

InitStep(p) ==
  \/ Start(p) \/ Acquire(p) \/ Refused(p) \/ ListInterrupted(p)
  \/ \E t \in Tasks : RecoverTask(p, t)
  \/ BecomeReady(p) \/ Release(p) \/ Exit(p)

StopStep(p) ==
  BeginShutdown(p) \/ AbortAll(p) \/ EndShutdown(p) \/ Crash(p) \/ LoseConnection(p)

DrainStep(p) ==
  \/ CheckLock(p) \/ Dispatch(p) \/ TakeTasks(p) \/ Register(p) \/ EndDrain(p)
  \/ \E t \in Tasks : RetryFinalizer(p, t)

WorkStep(p) ==
  \E t \in Tasks :
    Finish(p, t) \/ FinishFails(p, t) \/ SubmitVisitorMessage(p, t) \/ CancelTask(p, t)

Next == \E p \in Procs : InitStep(p) \/ StopStep(p) \/ DrainStep(p) \/ WorkStep(p)

Spec == Init /\ [][Next]_vars

\* A supervisor starts processes again, initialize, drains and executions go on;
\* requests, failures, shutdowns and losses may or may not happen.
Fairness ==
  \A p \in Procs :
    /\ WF_vars(InitStep(p)) /\ WF_vars(DrainStep(p))
    /\ WF_vars(AbortAll(p) \/ EndShutdown(p))
    /\ \A t \in Tasks : WF_vars(Finish(p, t))

FairSpec == Spec /\ Fairness
-----------------------------------------------------------------------------
\* Every variable has its type, and only an entry of `running' may publish.
TypeOK ==
  /\ holder \in Procs \cup {None}
  /\ stage \in [Procs -> {"down", "locking", "locked", "recovering", "ready", "lost",
                          "draining", "aborting", "releasing", "released"}]
  /\ stopping \subseteq Procs
  /\ interrupted \in [Procs -> SUBSET Tasks]
  /\ drain \in [Procs -> {"idle", "finalizers", "dispatching", "registering"}]
  /\ taken \in [Procs -> SUBSET Tasks]
  /\ entry \in [Procs -> [Tasks -> {"none", "working", "pending"}]]
  /\ publish \in [Procs -> SUBSET Tasks]
  /\ status \in [Tasks -> Occupied \cup Ended \cup {"none", "queued"}]
  /\ losses \in 0..MaxLosses /\ stops \in 0..MaxStops /\ fails \in 0..MaxFails
  /\ \A p \in Procs : \A t \in publish[p] : entry[p][t] # "none"

Works(p) == \/ stage[p] \notin {"down", "locking", "released"}
            \/ drain[p] # "idle"
            \/ \E t \in Tasks : entry[p][t] = "working"

Owns(p, t) == entry[p][t] # "none" \/ t \in taken[p]

\* A process that recovers, serves, dispatches or executes holds the lock, from
\* GET_LOCK to the end of shutdown, unless a lock connection has died: two
\* processes never work at the same time (the purpose of the lock, initialize).
LockGuardsWork ==
  losses = 0 => \A p \in Procs : Works(p) => holder = p

\* No task is executed, or about to be, by two processes, whatever becomes of the
\* lock: recovery ends tasks and never hands them out again.
NoDoubleExecution ==
  \A p, q \in Procs, t \in Tasks : Owns(p, t) /\ Owns(q, t) => p = q

\* While no lock connection has died, nobody ends a task that a process still
\* executes: what a starting process recovers are orphans.
RecoversOnlyOrphans ==
  losses = 0 => \A p \in Procs, t \in Tasks :
    entry[p][t] = "working" => status[t] \in Occupied

\* The comment of the class: a slot is held until the executor has settled.
SlotHeldUntilSettled ==
  \A p \in Procs, t \in Tasks :
    entry[p][t] = "working" => status[t] \in Occupied

\* A process that has put itself out of service and still holds the lock.
WaitsForRestart == \E p \in Procs : stage[p] = "lost" /\ holder = p

\* After a lost lock: a task that its former holder took behind the back of its
\* successor's recovery holds a slot, and nobody who would end it is left.
SlotLost ==
  losses > 0 /\ \E t \in Tasks :
    /\ status[t] \in Occupied
    /\ \A p \in Procs : /\ entry[p][t] # "working" /\ t \notin taken[p]
                        /\ entry[p][t] = "pending" => stage[p] = "lost"

\* The service outlives a crash, a shutdown, a failed start and the loss of the
\* lock by a living process: some process gets the lock and takes what waits.
\* Not so, for ever, where only a restart helps: a process that could not ask
\* whether it owns the lock keeps it, and serves no more; or a lost slot is missing.
StandbyTakesOver ==
  \A t \in Tasks :
    status[t] = "queued" ~> (status[t] # "queued" \/ []WaitsForRestart \/ []SlotLost)
=============================================================================
