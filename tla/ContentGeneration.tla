------------------------- MODULE ContentGeneration -------------------------
(***************************************************************************)
(* Generated articles                                                      *)
(* (server/src/content-articles/content-generation.service.ts): users edit *)
(* articles and submit them; every server process takes waiting tasks from *)
(* one table, under a lease, and asks a paid provider first for a text and *)
(* then for a cover; the user may adopt the text of an article that has    *)
(* not changed.                                                            *)
(*                                                                         *)
(* A repeated request id returns the task it created.  Clocks of processes *)
(* agree.  An adopted text differs from the text it replaces.              *)
(***************************************************************************)
EXTENDS Integers, FiniteSets

CONSTANTS
  Articles, Users, Owner, Procs, None,
  MaxTasks, MaxFaults,  \* bounds; failures, stops and crashes are faults
  MaxVersion            \* bound on the versions users make by editing and submitting

ASSUME ContentAssumption ==
  /\ Owner \in [Articles -> Users] /\ None \notin Articles \cup Procs
  /\ MaxTasks \in Nat /\ MaxVersion \in Nat /\ MaxFaults \in Nat

\* lease: the process whose worker id and unexpired lease the row has; `orphan', if that
\* process has ended (a new one has another id); `none', if it does not matter any more.
VARIABLES
  status, cover, active, lease, artOf, articleVersion, \* task rows
  version, gone,                                       \* article rows
  phase, pc, job, kind, outcome,                       \* processes
  edits, base, calls,                                  \* history
  faults                                               \* bound

taskVars  == <<status, cover, active, lease, artOf, articleVersion>>
artVars   == <<version, gone, edits>>
procVars  == <<phase, pc, job, kind, outcome>>
vars == <<taskVars, artVars, procVars, base, calls, faults>>

Tasks == 1..MaxTasks

\* needs_input counts as failed, and so does a cover that is skipped; a cover that was
\* not asked for is `none'.
TextOver  == {"failed", "interrupted"}
CoverOver == {"succeeded", "failed", "interrupted"}

Fault == faults < MaxFaults /\ faults' = faults + 1

\* What is paid for, and not over yet.
Unfinished(t) ==
  \/ status[t] \in {"pending", "running"}
  \/ status[t] = "succeeded" /\ cover[t] \in {"pending", "running"}

-----------------------------------------------------------------------------
\* Users.

\* The unique indices on activeArticleId and activeUserId.
Free(a) == \A t \in active : Owner[artOf[t]] # Owner[a]

\* submitWithManager: other preferences than the article's are saved with it, as a
\* new version, which is the version of the task.
Submit(t, a, changed) ==
  /\ status[t] = "absent" /\ \A u \in 1..(t - 1) : status[u] # "absent"
  /\ a \notin gone /\ Free(a) /\ (changed => version[a] < MaxVersion)
  /\ version' = IF changed THEN [version EXCEPT ![a] = @ + 1] ELSE version
  /\ articleVersion' = [articleVersion EXCEPT ![t] = version'[a]]
  /\ status' = [status EXCEPT ![t] = "pending"]
  /\ artOf' = [artOf EXCEPT ![t] = a]
  /\ active' = active \cup {t}
  /\ base' = [base EXCEPT ![t] = edits[a]]
  /\ UNCHANGED <<cover, lease, gone, edits, procVars, calls, faults>>

\* An update that names the current version; any other is refused.
Edit(a) ==
  /\ a \notin gone /\ version[a] < MaxVersion
  /\ version' = [version EXCEPT ![a] = @ + 1]
  /\ edits' = [edits EXCEPT ![a] = @ + 1]
  /\ UNCHANGED <<taskVars, gone, procVars, base, calls, faults>>

RemoveArticle(a) ==
  /\ a \notin gone
  /\ gone' = gone \cup {a}
  /\ UNCHANGED <<taskVars, version, edits, procVars, base, calls, faults>>

\* Slip: the client's version is compared, the task's is not.
Adoptable_Current(t) == status[t] = "succeeded" /\ ~Unfinished(t) /\ artOf[t] \notin gone

Adoptable(t) ==
  /\ status[t] = "succeeded" /\ ~Unfinished(t)
  /\ artOf[t] \notin gone /\ version[artOf[t]] = articleVersion[t]

\* adopt, in one transaction; save gives the article its next version.
Adopt(t) ==
  /\ Adoptable(t)
  /\ status' = [status EXCEPT ![t] = "adopted"]
  /\ version' = [version EXCEPT ![artOf[t]] = @ + 1]
  /\ edits' = [edits EXCEPT ![artOf[t]] = @ + 1]
  /\ UNCHANGED <<cover, active, lease, artOf, articleVersion, gone, procVars, base, calls,
                 faults>>

-----------------------------------------------------------------------------
\* The processes.  Each action is one statement, or what happens between two awaits.

At(p, s) == phase[p] # "down" /\ pc[p] = s

Goto(p, s) == pc' = [pc EXCEPT ![p] = s]

\* Slip: a failure leaves the process draining.
Rest_Draining(p) ==
  /\ UNCHANGED pc /\ job' = [job EXCEPT ![p] = 0]
  /\ kind' = [kind EXCEPT ![p] = "text"] /\ outcome' = [outcome EXCEPT ![p] = "failed"]

Rest(p) ==
  /\ Goto(p, "idle") /\ job' = [job EXCEPT ![p] = 0]
  /\ kind' = [kind EXCEPT ![p] = "text"] /\ outcome' = [outcome EXCEPT ![p] = "failed"]

\* The two updates of expired leases, which concern different tasks.
Expire ==
  LET texts  == {t \in Tasks : status[t] = "running" /\ lease[t] = "expired"}
      covers == {t \in Tasks : cover[t] = "running" /\ lease[t] = "expired"}
  IN /\ status' = [t \in Tasks |-> IF t \in texts THEN "interrupted" ELSE status[t]]
     /\ cover' = [t \in Tasks |-> IF t \in covers THEN "interrupted" ELSE cover[t]]
     /\ lease' = [t \in Tasks |-> IF t \in texts \cup covers THEN "none" ELSE lease[t]]
     /\ active' = active \ (texts \cup covers)

Waiting(k) ==
  IF k = "cover" THEN {t \in Tasks : status[t] = "succeeded" /\ cover[t] = "pending"}
  ELSE {t \in Tasks : status[t] = "pending"}

\* The oldest cover that waits, otherwise the oldest text.
Found(p) ==
  LET k == IF Waiting("cover") # {} THEN "cover" ELSE "text"
  IN IF Waiting(k) = {} THEN UNCHANGED <<pc, job, kind>>
     ELSE \E t \in Waiting(k) :
            /\ \A u \in Waiting(k) : t <= u
            /\ Goto(p, "claiming")
            /\ job' = [job EXCEPT ![p] = t] /\ kind' = [kind EXCEPT ![p] = k]

Tick(p) ==
  /\ phase[p] = "up" /\ pc[p] = "idle"
  /\ Expire /\ Found(p)
  /\ UNCHANGED <<artOf, articleVersion, artVars, phase, outcome, base, calls, faults>>

Taken(p) ==
  /\ IF kind[p] = "text" THEN status' = [status EXCEPT ![job[p]] = "running"] /\ UNCHANGED cover
     ELSE cover' = [cover EXCEPT ![job[p]] = "running"] /\ UNCHANGED status
  /\ lease' = [lease EXCEPT ![job[p]] = p]

\* Slip: the task is taken whatever has become of it since it was found.
Claim_Again(p) ==
  /\ At(p, "claiming")
  /\ Taken(p) /\ Goto(p, "checking")
  /\ UNCHANGED <<active, artOf, articleVersion, artVars, phase, job, kind, outcome, base, calls,
                 faults>>

\* The conditional update: another process may have been faster; the statement may
\* fail, with or without its effect.
Claim(p) ==
  /\ At(p, "claiming")
  /\ \/ /\ job[p] \in Waiting(kind[p])
        /\ Taken(p) /\ Goto(p, "checking")
        /\ UNCHANGED <<job, kind, outcome, faults>>
     \/ /\ job[p] \notin Waiting(kind[p])
        /\ Rest(p)
        /\ UNCHANGED <<status, cover, lease, faults>>
     \/ /\ Fault
        /\ Rest(p)
        /\ IF job[p] \in Waiting(kind[p]) THEN Taken(p) \/ UNCHANGED <<status, cover, lease>>
           ELSE UNCHANGED <<status, cover, lease>>
  /\ UNCHANGED <<active, artOf, articleVersion, artVars, phase, base, calls>>

Ends(p, o) == Goto(p, "writing") /\ outcome' = [outcome EXCEPT ![p] = o]

\* The article must still exist, and the process go on, before the provider is asked.
Ask(p) ==
  /\ At(p, "checking")
  /\ IF phase[p] = "stopping" THEN Ends(p, "interrupted") /\ UNCHANGED calls
     ELSE IF artOf[job[p]] \in gone THEN Ends(p, "failed") /\ UNCHANGED calls
     ELSE /\ Goto(p, "asking") /\ UNCHANGED outcome
          /\ calls' = [calls EXCEPT ![job[p]][kind[p]] = @ + 1]
  /\ UNCHANGED <<taskVars, artVars, phase, job, kind, base, faults>>

\* The provider answers or fails, the time is over, or the process stops: then
\* whatever came is thrown away.
Answer(p) ==
  /\ At(p, "asking")
  /\ IF phase[p] = "stopping" THEN Ends(p, "interrupted")
     ELSE \/ \E o \in {"succeeded", "failed"} : Ends(p, o)
          \/ kind[p] = "cover" /\ Ends(p, "interrupted")
  /\ UNCHANGED <<taskVars, artVars, phase, job, kind, base, calls, faults>>

\* Slip: a text is stored although its lease is over.
Holds_Running(p) ==
  LET t == job[p] IN
    IF kind[p] = "text" THEN status[t] # "pending" ELSE status[t] = "succeeded" /\ cover[t] = "running"

\* The lease a result is stored under.
Holds(p) ==
  LET t == job[p] IN
    /\ lease[t] = p
    /\ IF kind[p] = "text" THEN status[t] = "running"
       ELSE status[t] = "succeeded" /\ cover[t] = "running"

\* Slip: the article is released although its cover is to be made.
Stored_Releases(p) ==
  LET t == job[p] IN
    /\ IF kind[p] = "cover"
       THEN cover' = [cover EXCEPT ![t] = outcome[p]] /\ UNCHANGED status
       ELSE /\ status' = [status EXCEPT ![t] = outcome[p]]
            /\ cover' = [cover EXCEPT ![t] = IF outcome[p] = "succeeded" THEN "pending" ELSE "none"]
    /\ active' = active \ {t}
    /\ lease' = [lease EXCEPT ![t] = "none"]

\* A stored text whose task asked for a cover waits for it and keeps its article; all
\* else releases it.
Stored(p) ==
  \E coverRequested \in BOOLEAN :
  LET t == job[p]
      goesOn == kind[p] = "text" /\ outcome[p] = "succeeded" /\ coverRequested
  IN /\ IF kind[p] = "cover"
        THEN cover' = [cover EXCEPT ![t] = outcome[p]] /\ UNCHANGED status
        ELSE /\ status' = [status EXCEPT ![t] = outcome[p]]
             /\ cover' = [cover EXCEPT ![t] = IF goesOn THEN "pending" ELSE "none"]
     /\ active' = IF goesOn THEN active ELSE active \ {t}
     /\ lease' = [lease EXCEPT ![t] = "none"]

Write(p) ==
  /\ At(p, "writing")
  /\ \/ Holds(p) /\ Stored(p) /\ UNCHANGED faults
     \/ ~Holds(p) /\ UNCHANGED <<status, cover, active, lease, faults>>
     \/ Fault /\ UNCHANGED <<status, cover, active, lease>>
  /\ Rest(p)
  /\ UNCHANGED <<artOf, articleVersion, artVars, phase, base, calls>>

\* Slip: time stands still for a task whose process is gone.
LeaseExpires_Live(t) ==
  /\ lease[t] \in Procs
  /\ lease' = [lease EXCEPT ![t] = "expired"]
  /\ UNCHANGED <<status, cover, active, artOf, articleVersion, artVars, procVars, base,
                 calls, faults>>

\* The lease outlives the time a process waits for the provider, but not a process
\* that is stalled or dead.
LeaseExpires(t) ==
  /\ lease[t] \in Procs \cup {"orphan"}
  /\ lease' = [lease EXCEPT ![t] = "expired"]
  /\ UNCHANGED <<status, cover, active, artOf, articleVersion, artVars, procVars, base,
                 calls, faults>>

BeginStop(p) ==
  /\ phase[p] = "up"
  /\ Fault
  /\ phase' = [phase EXCEPT ![p] = "stopping"]
  /\ UNCHANGED <<taskVars, artVars, pc, job, kind, outcome, base, calls>>

\* The process ends, stopped or crashed; nobody has its worker id any more.
Exit(p) ==
  /\ \/ phase[p] = "stopping" /\ UNCHANGED faults
     \/ phase[p] = "up" /\ Fault
  /\ phase' = [phase EXCEPT ![p] = "down"]
  /\ lease' = [t \in Tasks |-> IF lease[t] = p THEN "orphan" ELSE lease[t]]
  /\ Rest(p)
  /\ UNCHANGED <<status, cover, active, artOf, articleVersion, artVars, base, calls>>

Start(p) ==
  /\ phase[p] = "down"
  /\ phase' = [phase EXCEPT ![p] = "up"]
  /\ UNCHANGED <<taskVars, artVars, pc, job, kind, outcome, base, calls, faults>>

-----------------------------------------------------------------------------
Init ==
  /\ status = [t \in Tasks |-> "absent"] /\ cover = [t \in Tasks |-> "none"] /\ active = {}
  /\ lease = [t \in Tasks |-> "none"]
  /\ artOf = [t \in Tasks |-> None] /\ articleVersion = [t \in Tasks |-> 0]
  /\ version = [a \in Articles |-> 1] /\ gone = {}
  /\ phase = [p \in Procs |-> "up"] /\ pc = [p \in Procs |-> "idle"]
  /\ job = [p \in Procs |-> 0] /\ kind = [p \in Procs |-> "text"]
  /\ outcome = [p \in Procs |-> "failed"]
  /\ edits = [a \in Articles |-> 0] /\ base = [t \in Tasks |-> 0]
  /\ calls = [t \in Tasks |-> [k \in {"text", "cover"} |-> 0]]
  /\ faults = 0

UserStep ==
  \/ \E t \in Tasks, a \in Articles, changed \in BOOLEAN : Submit(t, a, changed)
  \/ \E t \in Tasks : Adopt(t)
  \/ \E a \in Articles : Edit(a) \/ RemoveArticle(a)

ProcStep(p) == Tick(p) \/ Claim(p) \/ Ask(p) \/ Answer(p) \/ Write(p)

Next ==
  \/ UserStep
  \/ \E t \in Tasks : LeaseExpires(t)
  \/ \E p \in Procs : ProcStep(p) \/ BeginStop(p) \/ Exit(p) \/ Start(p)

Spec == Init /\ [][Next]_vars

\* Time passes, and as long as a process has something to do, some process goes on: a
\* timer ticks, a call has a time limit, a process that stops ends and is started again.
\* No single process is required to, and users and failures owe nothing.
Fairness ==
  /\ WF_vars(\E p \in Procs : ProcStep(p) \/ (phase[p] = "stopping" /\ Exit(p)) \/ Start(p))
  /\ WF_vars(\E t \in Tasks : LeaseExpires(t))

FairSpec == Spec /\ Fairness
-----------------------------------------------------------------------------
TypeOK ==
  /\ status \in [Tasks -> TextOver \cup {"absent", "pending", "running", "succeeded", "adopted"}]
  /\ cover \in [Tasks -> CoverOver \cup {"none", "pending", "running"}]
  /\ active \subseteq Tasks
  /\ lease \in [Tasks -> Procs \cup {"none", "orphan", "expired"}]
  /\ artOf \in [Tasks -> Articles \cup {None}]
  /\ articleVersion \in [Tasks -> Nat]
  /\ version \in [Articles -> Nat] /\ gone \subseteq Articles
  /\ phase \in [Procs -> {"up", "stopping", "down"}]
  /\ pc \in [Procs -> {"idle", "claiming", "checking", "asking", "writing"}]
  /\ job \in [Procs -> Tasks \cup {0}]
  /\ \A p \in Procs : pc[p] \in {"claiming", "checking", "asking", "writing"} => job[p] # 0
  /\ kind \in [Procs -> {"text", "cover"}]
  /\ outcome \in [Procs -> TextOver \cup CoverOver]
  /\ edits \in [Articles -> Nat] /\ base \in [Tasks -> Nat]
  /\ calls \in [Tasks -> [{"text", "cover"} -> Nat]]
  /\ faults \in 0..MaxFaults

\* The article and the user are held by a task exactly as long as it is unfinished:
\* released too early, two tasks of a user are paid for at once; never released, the user
\* can submit nothing any more.
HeldWhileUnfinished == active = {t \in Tasks : Unfinished(t)}

\* No provider is asked twice for the same thing: not by two processes that found the
\* same task, and not after a lost lease, a lost reply or a restart.
PaidOnce == \A t \in Tasks, k \in {"text", "cover"} : calls[t][k] <= 1

\* What the user was told of an ended text or cover stays true: an answer that comes
\* after the lease is over changes nothing.
OverIsFinal ==
  [][\A t \in Tasks :
       /\ status[t] \in TextOver \cup {"adopted"} => status'[t] = status[t]
       /\ cover[t] \in CoverOver => cover'[t] = cover[t]]_vars

\* A text is adopted only into the article it was written for: nothing was edited, and
\* no other text adopted, since it was submitted.
AdoptKeepsEdits ==
  [][\A t \in Tasks :
       status'[t] = "adopted" /\ status[t] # "adopted" => edits[artOf[t]] = base[t]]_vars

\* Seen from outside it is an order for a text and a cover (PaidGeneration): whatever the
\* processes find, lose and take over, a thing is asked for once, delivered only if it was
\* asked for and nobody was told before that it is over, and adopted only into an article
\* that is as it was.
Promise == INSTANCE PaidGeneration WITH text <- status, content <- edits

ImplementsPaidGeneration == Promise!Spec

\* Every submitted task ends, its cover included.
EveryTaskEnds == \A t \in Tasks : status[t] = "pending" ~> ~Unfinished(t)
=============================================================================
