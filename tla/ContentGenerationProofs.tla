----------------------- MODULE ContentGenerationProofs -----------------------
(***************************************************************************)
(* Theorems about ContentGeneration: for any articles, users and           *)
(* processes, any number of tasks and of faults.                           *)
(***************************************************************************)
EXTENDS ContentGeneration, TLAPS

Statuses == TextOver \cup {"absent", "pending", "running", "succeeded", "adopted"}
Covers   == CoverOver \cup {"none", "pending", "running"}
Leases   == Procs \cup {"none", "orphan", "expired"}

\* A cover belongs to a text that was made; every submitted task has an article.
Shape ==
  \A t \in Tasks :
    /\ status[t] \notin {"succeeded", "adopted"} => cover[t] = "none"
    /\ status[t] = "adopted" => cover[t] \notin {"pending", "running"}
    /\ status[t] # "absent" => artOf[t] \in Articles

\* Nobody has been asked for it yet, and nobody is about to.
Before(t, k) ==
  IF k = "text" THEN status[t] \in {"absent", "pending"} ELSE cover[t] \in {"none", "pending"}

\* The right to ask: it is taken from the row by the conditional update, by one process,
\* and used up by asking.
Pays ==
  /\ \A t \in Tasks, k \in {"text", "cover"} : Before(t, k) => calls[t][k] = 0
  /\ \A p \in Procs :
       pc[p] = "checking" => calls[job[p]][kind[p]] = 0 /\ ~Before(job[p], kind[p])
  /\ \A p, q \in Procs :
       pc[p] = "checking" /\ pc[q] = "checking" /\ job[p] = job[q] /\ kind[p] = kind[q] => p = q

\* As long as an article has the version of a task, nobody changed it since.
Dated ==
  \A t \in Tasks :
    status[t] # "absent" =>
      /\ version[artOf[t]] >= articleVersion[t]
      /\ version[artOf[t]] = articleVersion[t] => edits[artOf[t]] = base[t]

\* A process that waits for an answer, or is about to store one, has asked for it.
Answered ==
  \A p \in Procs :
    pc[p] = "asking" \/ (pc[p] = "writing" /\ outcome[p] = "succeeded")
      => calls[job[p]][kind[p]] = 1

\* The inductive invariant.
Inv == TypeOK /\ Shape /\ HeldWhileUnfinished /\ Pays /\ PaidOnce /\ Answered /\ Dated

-----------------------------------------------------------------------------
LEMMA InitTypeOK == Init => TypeOK
BY ContentAssumption DEF ContentAssumption, Init, TypeOK, TextOver, CoverOver

\* What a process that is done leaves behind has its type.
LEMMA RestType ==
  ASSUME TypeOK, NEW p \in Procs, Rest(p)
  PROVE  /\ pc' \in [Procs -> {"idle", "claiming", "checking", "asking", "writing"}]
         /\ job' \in [Procs -> Tasks \cup {0}]
         /\ kind' \in [Procs -> {"text", "cover"}]
         /\ outcome' \in [Procs -> TextOver \cup CoverOver]
         /\ \A q \in Procs :
              pc'[q] \in {"claiming", "checking", "asking", "writing"} => job'[q] # 0
BY DEF TypeOK, Rest, Goto, TextOver

LEMMA TakenType ==
  ASSUME TypeOK, NEW p \in Procs, job[p] \in Tasks, Taken(p)
  PROVE  status' \in [Tasks -> Statuses] /\ cover' \in [Tasks -> Covers] /\ lease' \in [Tasks -> Leases]
BY DEF TypeOK, Taken, Statuses, Covers, Leases

LEMMA StoredType ==
  ASSUME TypeOK, NEW p \in Procs, job[p] \in Tasks, Stored(p)
  PROVE  /\ status' \in [Tasks -> Statuses] /\ cover' \in [Tasks -> Covers]
         /\ lease' \in [Tasks -> Leases] /\ active' \subseteq Tasks
<1> PICK c \in BOOLEAN :
      LET t == job[p]
          goesOn == kind[p] = "text" /\ outcome[p] = "succeeded" /\ c
      IN /\ IF kind[p] = "cover"
            THEN cover' = [cover EXCEPT ![t] = outcome[p]] /\ UNCHANGED status
            ELSE /\ status' = [status EXCEPT ![t] = outcome[p]]
                 /\ cover' = [cover EXCEPT ![t] = IF goesOn THEN "pending" ELSE "none"]
         /\ active' = IF goesOn THEN active ELSE active \ {t}
         /\ lease' = [lease EXCEPT ![t] = "none"]
  BY DEF Stored
<1>1. outcome[p] \in Statuses /\ outcome[p] \in Covers
  BY DEF TypeOK, Statuses, Covers, TextOver, CoverOver
<1>2. status' \in [Tasks -> Statuses]
  BY <1>1 DEF TypeOK, Statuses
<1>3. cover' \in [Tasks -> Covers]
  BY <1>1 DEF TypeOK, Covers
<1>4. lease' \in [Tasks -> Leases] /\ active' \subseteq Tasks
  BY DEF TypeOK, Leases
<1> QED BY <1>2, <1>3, <1>4

LEMMA ExpireType ==
  ASSUME TypeOK, Expire
  PROVE  /\ status' \in [Tasks -> Statuses] /\ cover' \in [Tasks -> Covers]
         /\ lease' \in [Tasks -> Leases] /\ active' \subseteq Tasks
<1>1. status' \in [Tasks -> Statuses]
  BY DEF TypeOK, Expire, Statuses, TextOver
<1>2. cover' \in [Tasks -> Covers]
  BY DEF TypeOK, Expire, Covers, CoverOver
<1>3. lease' \in [Tasks -> Leases] /\ active' \subseteq Tasks
  BY DEF TypeOK, Expire, Leases
<1> QED BY <1>1, <1>2, <1>3

LEMMA NextTypeOK == TypeOK /\ [Next]_vars => TypeOK'
<1> SUFFICES ASSUME TypeOK, Next PROVE TypeOK'
  BY DEF TypeOK, vars, taskVars, artVars, procVars
<1> USE DEF taskVars, artVars, procVars
<1>f. Fault => faults' \in 0..MaxFaults
  BY ContentAssumption DEF Fault, ContentAssumption, TypeOK
<1>j. ASSUME NEW p \in Procs, pc[p] # "idle" PROVE job[p] \in Tasks
  BY <1>j DEF TypeOK
<1>1. ASSUME NEW t \in Tasks, NEW a \in Articles, NEW changed \in BOOLEAN, Submit(t, a, changed)
      PROVE  TypeOK'
  <2>1. version' \in [Articles -> Nat]
    BY <1>1 DEF Submit, TypeOK
  <2>2. /\ status' \in [Tasks -> Statuses] /\ artOf' \in [Tasks -> Articles \cup {None}]
        /\ articleVersion' \in [Tasks -> Nat] /\ base' \in [Tasks -> Nat]
        /\ active' \subseteq Tasks
    BY <1>1, <2>1 DEF Submit, TypeOK, Statuses
  <2>3. UNCHANGED <<cover, lease, gone, edits, procVars, calls, faults>>
    BY <1>1 DEF Submit
  <2> QED BY <2>1, <2>2, <2>3 DEF TypeOK, Statuses
<1>2. ASSUME NEW t \in Tasks, Adopt(t) PROVE TypeOK'
  <2>1. /\ version' \in [Articles -> Nat] /\ edits' \in [Articles -> Nat]
        /\ status' \in [Tasks -> Statuses]
    <3>1. status' \in [Tasks -> Statuses]
      BY <1>2 DEF Adopt, TypeOK, Statuses
    <3>2. CASE artOf[t] \in Articles
      BY <1>2, <3>1, <3>2 DEF Adopt, TypeOK
    <3>3. CASE artOf[t] \notin Articles
      <4>1. version' = version /\ edits' = edits
        BY <1>2, <3>3 DEF Adopt, TypeOK
      <4> QED BY <3>1, <4>1 DEF TypeOK
    <3> QED BY <3>2, <3>3
  <2>2. UNCHANGED <<cover, active, lease, artOf, articleVersion, gone, procVars, base, calls,
                    faults>>
    BY <1>2 DEF Adopt
  <2> QED BY <2>1, <2>2 DEF TypeOK, Statuses
<1>3. ASSUME NEW a \in Articles, Edit(a) \/ RemoveArticle(a) PROVE TypeOK'
  BY <1>3 DEF Edit, RemoveArticle, TypeOK
<1>4. ASSUME NEW t \in Tasks, LeaseExpires(t) PROVE TypeOK'
  BY <1>4 DEF LeaseExpires, TypeOK
<1>5. ASSUME NEW p \in Procs, Tick(p) PROVE TypeOK'
  <2>1. /\ pc' \in [Procs -> {"idle", "claiming", "checking", "asking", "writing"}]
        /\ job' \in [Procs -> Tasks \cup {0}] /\ kind' \in [Procs -> {"text", "cover"}]
        /\ \A q \in Procs :
             pc'[q] \in {"claiming", "checking", "asking", "writing"} => job'[q] # 0
    <3> DEFINE k == IF Waiting("cover") # {} THEN "cover" ELSE "text"
    <3>1. CASE Waiting(k) = {}
      BY <1>5, <3>1 DEF Tick, Found, TypeOK
    <3>2. CASE Waiting(k) # {}
      <4>1. PICK t \in Waiting(k) :
              Goto(p, "claiming") /\ job' = [job EXCEPT ![p] = t] /\ kind' = [kind EXCEPT ![p] = k]
        BY <1>5, <3>2 DEF Tick, Found
      <4>2. t \in Tasks
        BY <4>1 DEF Waiting
      <4> QED BY <4>1, <4>2 DEF Goto, TypeOK, Tasks
    <3> QED BY <3>1, <3>2
  <2> QED BY <1>5, <2>1, ExpireType DEF Tick, TypeOK, Statuses, Covers, Leases
<1>6. ASSUME NEW p \in Procs, Claim(p) PROVE TypeOK'
  <2>1. job[p] \in Tasks
    BY <1>6, <1>j DEF Claim, At
  <2>2. status' \in [Tasks -> Statuses] /\ cover' \in [Tasks -> Covers] /\ lease' \in [Tasks -> Leases]
    <3>1. CASE Taken(p)
      BY <2>1, <3>1, TakenType
    <3>2. CASE UNCHANGED <<status, cover, lease>>
      BY <3>2 DEF TypeOK, Statuses, Covers, Leases
    <3> QED BY <1>6, <3>1, <3>2 DEF Claim
  <2>3. /\ pc' \in [Procs -> {"idle", "claiming", "checking", "asking", "writing"}]
        /\ job' \in [Procs -> Tasks \cup {0}] /\ kind' \in [Procs -> {"text", "cover"}]
        /\ outcome' \in [Procs -> TextOver \cup CoverOver]
        /\ \A q \in Procs :
             pc'[q] \in {"claiming", "checking", "asking", "writing"} => job'[q] # 0
    <3>1. CASE Rest(p)
      BY <3>1, RestType
    <3>2. CASE Goto(p, "checking") /\ UNCHANGED <<job, kind, outcome>>
      BY <2>1, <3>2 DEF Goto, TypeOK, Tasks
    <3> QED BY <1>6, <3>1, <3>2 DEF Claim
  <2>4. faults' \in 0..MaxFaults
    BY <1>6, <1>f DEF Claim, TypeOK
  <2> QED BY <1>6, <2>2, <2>3, <2>4 DEF Claim, TypeOK, Statuses, Covers, Leases
<1>7. ASSUME NEW p \in Procs, Ask(p) \/ Answer(p) PROVE TypeOK'
  <2>1. job[p] \in Tasks
    BY <1>7, <1>j DEF Ask, Answer, At
  <2>2. \A o \in {"interrupted", "failed", "succeeded"} :
          Ends(p, o) => /\ outcome' \in [Procs -> TextOver \cup CoverOver]
                        /\ pc' = [pc EXCEPT ![p] = "writing"]
    BY DEF Ends, Goto, TypeOK, TextOver, CoverOver
  <2>3. CASE Answer(p)
    <3>1. \E o \in {"interrupted", "failed", "succeeded"} : Ends(p, o)
      BY <2>3 DEF Answer
    <3>2. outcome' \in [Procs -> TextOver \cup CoverOver] /\ pc' = [pc EXCEPT ![p] = "writing"]
      BY <2>2, <3>1
    <3>3. /\ pc' \in [Procs -> {"idle", "claiming", "checking", "asking", "writing"}]
          /\ \A q \in Procs :
               pc'[q] \in {"claiming", "checking", "asking", "writing"} => job[q] # 0
      BY <2>3, <3>2 DEF Answer, At, TypeOK
    <3>4. UNCHANGED <<taskVars, artVars, phase, job, kind, base, calls, faults>>
      BY <2>3 DEF Answer
    <3> QED BY <3>2, <3>3, <3>4 DEF TypeOK
  <2>4. CASE Ask(p)
    <3>1. calls' \in [Tasks -> [{"text", "cover"} -> Nat]]
      BY <2>1, <2>4 DEF Ask, TypeOK
    <3>2. \/ \E o \in {"interrupted", "failed", "succeeded"} : Ends(p, o)
          \/ Goto(p, "asking") /\ UNCHANGED outcome
      BY <2>4 DEF Ask
    <3>3. /\ outcome' \in [Procs -> TextOver \cup CoverOver]
          /\ \E s \in {"writing", "asking"} : pc' = [pc EXCEPT ![p] = s]
      BY <2>2, <3>2 DEF Goto, TypeOK
    <3>4. /\ pc' \in [Procs -> {"idle", "claiming", "checking", "asking", "writing"}]
          /\ \A q \in Procs :
               pc'[q] \in {"claiming", "checking", "asking", "writing"} => job[q] # 0
      BY <2>4, <3>3 DEF Ask, At, TypeOK
    <3>5. UNCHANGED <<taskVars, artVars, phase, job, kind, base, faults>>
      BY <2>4 DEF Ask
    <3> QED BY <3>1, <3>3, <3>4, <3>5 DEF TypeOK
  <2> QED BY <1>7, <2>3, <2>4
<1>8. ASSUME NEW p \in Procs, Write(p) PROVE TypeOK'
  <2>1. job[p] \in Tasks
    BY <1>8, <1>j DEF Write, At
  <2>2. /\ status' \in [Tasks -> Statuses] /\ cover' \in [Tasks -> Covers]
        /\ lease' \in [Tasks -> Leases] /\ active' \subseteq Tasks
    <3>1. CASE Stored(p)
      BY <2>1, <3>1, StoredType
    <3>2. CASE UNCHANGED <<status, cover, active, lease>>
      BY <3>2 DEF TypeOK, Statuses, Covers, Leases
    <3> QED BY <1>8, <3>1, <3>2 DEF Write
  <2>3. faults' \in 0..MaxFaults
    BY <1>8, <1>f DEF Write, TypeOK
  <2>4. Rest(p)
    BY <1>8 DEF Write
  <2> QED BY <1>8, <2>2, <2>3, <2>4, RestType DEF Write, TypeOK, Statuses, Covers, Leases
<1>9. ASSUME NEW p \in Procs, BeginStop(p) \/ Start(p) PROVE TypeOK'
  BY <1>9, <1>f DEF BeginStop, Start, TypeOK
<1>10. ASSUME NEW p \in Procs, Exit(p) PROVE TypeOK'
  <2>1. lease' \in [Tasks -> Leases] /\ phase' \in [Procs -> {"up", "stopping", "down"}]
    BY <1>10 DEF Exit, TypeOK, Leases
  <2>2. faults' \in 0..MaxFaults
    BY <1>10, <1>f DEF Exit, TypeOK
  <2>3. Rest(p)
    BY <1>10 DEF Exit
  <2> QED BY <1>10, <2>1, <2>2, <2>3, RestType DEF Exit, TypeOK, Leases
<1> QED BY <1>1, <1>2, <1>3, <1>4, <1>5, <1>6, <1>7, <1>8, <1>9, <1>10
        DEF Next, UserStep, ProcStep

\* Every variable keeps its type, and a process that is at work has a task.
THEOREM ContentTypeCorrect == Spec => []TypeOK
BY InitTypeOK, NextTypeOK, PTL DEF Spec

-----------------------------------------------------------------------------
\* What a step does to the rows of the tasks, apart from their leases.
Untouched == UNCHANGED <<status, cover, active, artOf>>

Takes(p) ==
  /\ pc[p] = "claiming" /\ job[p] \in Tasks /\ job[p] \in Waiting(kind[p])
  /\ Taken(p) /\ UNCHANGED <<active, artOf>>

Stores(p) ==
  /\ pc[p] = "writing" /\ job[p] \in Tasks /\ Holds(p)
  /\ Stored(p) /\ UNCHANGED artOf

\* Six things can happen to the rows: this is where the proofs below split.
LEMMA Rows ==
  ASSUME TypeOK, Next
  PROVE  \/ Untouched
         \/ \E t \in Tasks, a \in Articles, changed \in BOOLEAN : Submit(t, a, changed)
         \/ \E t \in Tasks : Adopt(t)
         \/ Expire /\ UNCHANGED artOf
         \/ \E p \in Procs : Takes(p)
         \/ \E p \in Procs : Stores(p)
<1> USE DEF taskVars
<1>j. ASSUME NEW p \in Procs, pc[p] # "idle" PROVE job[p] \in Tasks
  BY <1>j DEF TypeOK
<1>1. ASSUME NEW a \in Articles, Edit(a) \/ RemoveArticle(a) PROVE Untouched
  BY <1>1 DEF Edit, RemoveArticle, Untouched
<1>2. ASSUME NEW t \in Tasks, LeaseExpires(t) PROVE Untouched
  BY <1>2 DEF LeaseExpires, Untouched
<1>3. ASSUME NEW p \in Procs, Ask(p) \/ Answer(p) \/ BeginStop(p) \/ Exit(p) \/ Start(p)
      PROVE  Untouched
  BY <1>3 DEF Ask, Answer, BeginStop, Exit, Start, Untouched
<1>4. ASSUME NEW p \in Procs, Tick(p) PROVE Expire /\ UNCHANGED artOf
  BY <1>4 DEF Tick
<1>5. ASSUME NEW p \in Procs, Claim(p) PROVE Untouched \/ Takes(p)
  BY <1>5, <1>j DEF Claim, At, Untouched, Takes
<1>6. ASSUME NEW p \in Procs, Write(p) PROVE Untouched \/ Stores(p)
  BY <1>6, <1>j DEF Write, At, Untouched, Stores
<1> QED BY <1>1, <1>2, <1>3, <1>4, <1>5, <1>6 DEF Next, UserStep, ProcStep

\* What storing a result does to its own row: the three things it can be.
LEMMA StoresRow ==
  ASSUME TypeOK, NEW p \in Procs, Stores(p)
  PROVE  LET t == job[p] IN
         /\ t \in Tasks
         /\ \/ /\ kind[p] = "cover" /\ status[t] = "succeeded" /\ cover[t] = "running"
               /\ status' = status
               /\ cover' = [cover EXCEPT ![t] = outcome[p]] /\ active' = active \ {t}
            \/ /\ kind[p] = "text" /\ status[t] = "running" /\ outcome[p] = "succeeded"
               /\ status' = [status EXCEPT ![t] = "succeeded"]
               /\ cover' = [cover EXCEPT ![t] = "pending"] /\ active' = active
            \/ /\ kind[p] = "text" /\ status[t] = "running"
               /\ status' = [status EXCEPT ![t] = outcome[p]]
               /\ cover' = [cover EXCEPT ![t] = "none"] /\ active' = active \ {t}
         /\ outcome[p] \in {"succeeded", "failed", "interrupted"}
<1>1. kind[p] \in {"text", "cover"} /\ outcome[p] \in {"succeeded", "failed", "interrupted"}
  BY DEF TypeOK, TextOver, CoverOver
<1>2. job[p] \in Tasks
  BY DEF Stores
<1> QED BY <1>1, <1>2 DEF Stores, Stored, Holds

LEMMA ShapeStep == TypeOK /\ Shape /\ Next => Shape'
<1> SUFFICES ASSUME TypeOK, Shape, Next PROVE Shape'
  OBVIOUS
<1>1. CASE Untouched
  BY <1>1 DEF Untouched, Shape
<1>2. ASSUME NEW t \in Tasks, NEW a \in Articles, NEW changed \in BOOLEAN, Submit(t, a, changed)
      PROVE  Shape'
  BY <1>2 DEF Submit, Shape, TypeOK
<1>3. ASSUME NEW t \in Tasks, Adopt(t) PROVE Shape'
  <2>1. status' = [status EXCEPT ![t] = "adopted"] /\ UNCHANGED <<cover, artOf>>
    BY <1>3 DEF Adopt
  <2>2. status[t] = "succeeded" /\ cover[t] \notin {"pending", "running"}
    BY <1>3 DEF Adopt, Adoptable, Unfinished
  <2> QED BY <2>1, <2>2 DEF Shape, TypeOK
<1>4. CASE Expire /\ UNCHANGED artOf
  BY <1>4 DEF Expire, Shape, TypeOK
<1>5. ASSUME NEW p \in Procs, Takes(p) PROVE Shape'
  BY <1>5 DEF Takes, Taken, Waiting, Shape, TypeOK
<1>6. ASSUME NEW p \in Procs, Stores(p) PROVE Shape'
  <2>1. UNCHANGED artOf
    BY <1>6 DEF Stores
  <2> QED BY <1>6, <2>1, StoresRow DEF Shape, TypeOK
<1> QED BY <1>1, <1>2, <1>3, <1>4, <1>5, <1>6, Rows

LEMMA HeldStep == TypeOK /\ Shape /\ HeldWhileUnfinished /\ Next => HeldWhileUnfinished'
<1> SUFFICES ASSUME TypeOK, Shape, HeldWhileUnfinished, Next PROVE HeldWhileUnfinished'
  OBVIOUS
<1>1. CASE Untouched
  BY <1>1 DEF Untouched, HeldWhileUnfinished, Unfinished
<1>2. ASSUME NEW t \in Tasks, NEW a \in Articles, NEW changed \in BOOLEAN, Submit(t, a, changed)
      PROVE  HeldWhileUnfinished'
  BY <1>2 DEF Submit, HeldWhileUnfinished, Unfinished, TypeOK
<1>3. ASSUME NEW t \in Tasks, Adopt(t) PROVE HeldWhileUnfinished'
  <2>1. status' = [status EXCEPT ![t] = "adopted"] /\ UNCHANGED <<cover, active>>
    BY <1>3 DEF Adopt
  <2>2. ~Unfinished(t)
    BY <1>3 DEF Adopt, Adoptable
  <2> QED BY <2>1, <2>2 DEF HeldWhileUnfinished, Unfinished, TypeOK
<1>4. CASE Expire /\ UNCHANGED artOf
  BY <1>4 DEF Expire, HeldWhileUnfinished, Unfinished, Shape, TypeOK
<1>5. ASSUME NEW p \in Procs, Takes(p) PROVE HeldWhileUnfinished'
  BY <1>5 DEF Takes, Taken, Waiting, HeldWhileUnfinished, Unfinished, TypeOK
<1>6. ASSUME NEW p \in Procs, Stores(p) PROVE HeldWhileUnfinished'
  BY <1>6, StoresRow DEF HeldWhileUnfinished, Unfinished, TypeOK
<1> QED BY <1>1, <1>2, <1>3, <1>4, <1>5, <1>6, Rows

\* What was over stays so.
Final ==
  \A t \in Tasks :
    /\ status[t] \in TextOver \cup {"adopted"} => status'[t] = status[t]
    /\ cover[t] \in CoverOver => cover'[t] = cover[t]

LEMMA FinalStep == TypeOK /\ Shape /\ Next => Final
<1> SUFFICES ASSUME TypeOK, Shape, Next PROVE Final
  OBVIOUS
<1> USE DEF TextOver, CoverOver
<1>1. CASE Untouched
  BY <1>1 DEF Untouched, Final
<1>2. ASSUME NEW t \in Tasks, NEW a \in Articles, NEW changed \in BOOLEAN, Submit(t, a, changed)
      PROVE  Final
  BY <1>2 DEF Submit, Final, TypeOK
<1>3. ASSUME NEW t \in Tasks, Adopt(t) PROVE Final
  <2>1. status' = [status EXCEPT ![t] = "adopted"] /\ UNCHANGED <<cover, active>>
    BY <1>3 DEF Adopt
  <2>2. status[t] = "succeeded"
    BY <1>3 DEF Adopt, Adoptable
  <2> QED BY <2>1, <2>2 DEF Final, TypeOK
<1>4. CASE Expire /\ UNCHANGED artOf
  BY <1>4 DEF Expire, Final, TypeOK
<1>5. ASSUME NEW p \in Procs, Takes(p) PROVE Final
  BY <1>5 DEF Takes, Taken, Waiting, Final, TypeOK
<1>6. ASSUME NEW p \in Procs, Stores(p) PROVE Final
  BY <1>6, StoresRow DEF Final, Shape, TypeOK
<1> QED BY <1>1, <1>2, <1>3, <1>4, <1>5, <1>6, Rows

-----------------------------------------------------------------------------
\* Nothing goes back to where it may be asked for.
LEMMA BeforeStep ==
  ASSUME TypeOK, Shape, Next, NEW t \in Tasks, NEW k \in {"text", "cover"}, Before(t, k)'
  PROVE  Before(t, k)
<1> USE DEF Before
<1>1. CASE Untouched
  BY <1>1 DEF Untouched
<1>2. ASSUME NEW u \in Tasks, NEW a \in Articles, NEW changed \in BOOLEAN, Submit(u, a, changed)
      PROVE  Before(t, k)
  BY <1>2 DEF Submit, TypeOK
<1>3. ASSUME NEW u \in Tasks, Adopt(u) PROVE Before(t, k)
  <2>1. status' = [status EXCEPT ![u] = "adopted"] /\ UNCHANGED cover
    BY <1>3 DEF Adopt
  <2> QED BY <2>1 DEF TypeOK
<1>4. CASE Expire /\ UNCHANGED artOf
  BY <1>4 DEF Expire, TypeOK
<1>5. ASSUME NEW p \in Procs, Takes(p) PROVE Before(t, k)
  BY <1>5 DEF Takes, Taken, Waiting, TypeOK
<1>6. ASSUME NEW p \in Procs, Stores(p) PROVE Before(t, k)
  BY <1>6, StoresRow DEF Shape, TypeOK
<1> QED BY <1>1, <1>2, <1>3, <1>4, <1>5, <1>6, Rows

\* Nobody begins to check, and nobody asks.
Quiet ==
  /\ UNCHANGED calls
  /\ \A q \in Procs :
       pc'[q] = "checking" => pc[q] = "checking" /\ job'[q] = job[q] /\ kind'[q] = kind[q]

LEMMA Checkers ==
  ASSUME TypeOK, Next
  PROVE  \/ Quiet
         \/ \E p \in Procs : /\ Takes(p) /\ pc' = [pc EXCEPT ![p] = "checking"]
                             /\ UNCHANGED <<job, kind, calls>>
         \/ \E p \in Procs : /\ pc[p] = "checking" /\ pc' = [pc EXCEPT ![p] = "asking"]
                             /\ calls' = [calls EXCEPT ![job[p]][kind[p]] = @ + 1]
                             /\ UNCHANGED <<status, cover, job, kind>>
<1> USE DEF taskVars, procVars, Quiet
<1>j. ASSUME NEW p \in Procs, pc[p] # "idle" PROVE job[p] \in Tasks
  BY <1>j DEF TypeOK
<1>r. ASSUME NEW p \in Procs, Rest(p), UNCHANGED calls PROVE Quiet
  BY <1>r DEF Rest, Goto, TypeOK
<1>1. ASSUME UserStep PROVE Quiet
  BY <1>1 DEF UserStep, Submit, Adopt, Edit, RemoveArticle
<1>2. ASSUME NEW t \in Tasks, LeaseExpires(t) PROVE Quiet
  BY <1>2 DEF LeaseExpires
<1>3. ASSUME NEW p \in Procs, BeginStop(p) \/ Start(p) PROVE Quiet
  BY <1>3 DEF BeginStop, Start
<1>4. ASSUME NEW p \in Procs, Exit(p) \/ Write(p) PROVE Quiet
  BY <1>4, <1>r DEF Exit, Write
<1>5. ASSUME NEW p \in Procs, Tick(p) PROVE Quiet
  BY <1>5 DEF Tick, Found, Goto, TypeOK
<1>6. ASSUME NEW p \in Procs, Answer(p) PROVE Quiet
  BY <1>6 DEF Answer, Ends, Goto, TypeOK
<1>7. ASSUME NEW p \in Procs, Claim(p)
      PROVE  \/ Quiet
             \/ /\ Takes(p) /\ pc' = [pc EXCEPT ![p] = "checking"]
                /\ UNCHANGED <<job, kind, calls>>
  BY <1>7, <1>j, <1>r DEF Claim, At, Takes, Goto
<1>8. ASSUME NEW p \in Procs, Ask(p)
      PROVE  \/ Quiet
             \/ /\ pc[p] = "checking" /\ pc' = [pc EXCEPT ![p] = "asking"]
                /\ calls' = [calls EXCEPT ![job[p]][kind[p]] = @ + 1]
                /\ UNCHANGED <<status, cover, job, kind>>
  BY <1>8 DEF Ask, At, Ends, Goto, TypeOK
<1> QED BY <1>1, <1>2, <1>3, <1>4, <1>5, <1>6, <1>7, <1>8 DEF Next, ProcStep

LEMMA PaysStep == TypeOK /\ Shape /\ Pays /\ PaidOnce /\ Next => Pays' /\ PaidOnce'
<1> SUFFICES ASSUME TypeOK, Shape, Pays, PaidOnce, Next PROVE Pays' /\ PaidOnce'
  OBVIOUS
<1>b. \A t \in Tasks, k \in {"text", "cover"} : Before(t, k)' => Before(t, k)
  BY BeforeStep
<1>j. \A q \in Procs : pc[q] = "checking" => job[q] \in Tasks /\ kind[q] \in {"text", "cover"}
  BY DEF TypeOK
<1>1. CASE Quiet
  <2>1. \A t \in Tasks, k \in {"text", "cover"} : Before(t, k)' => calls'[t][k] = 0
    BY <1>1, <1>b DEF Quiet, Pays
  <2>2. \A q \in Procs :
          pc'[q] = "checking" => calls'[job'[q]][kind'[q]] = 0 /\ ~Before(job[q], kind[q])'
    <3> SUFFICES ASSUME NEW q \in Procs, pc'[q] = "checking"
                 PROVE  calls'[job'[q]][kind'[q]] = 0 /\ ~Before(job[q], kind[q])'
      OBVIOUS
    <3>1. pc[q] = "checking" /\ job'[q] = job[q] /\ kind'[q] = kind[q] /\ calls' = calls
      BY <1>1 DEF Quiet
    <3>2. calls[job[q]][kind[q]] = 0 /\ ~Before(job[q], kind[q])
      BY <3>1 DEF Pays
    <3> QED BY <1>b, <1>j, <3>1, <3>2 DEF Before
  <2>3. PaidOnce'
    BY <1>1 DEF Quiet, PaidOnce
  <2> QED BY <1>1, <2>1, <2>2, <2>3 DEF Quiet, Pays
<1>2. ASSUME NEW p \in Procs, Takes(p), pc' = [pc EXCEPT ![p] = "checking"],
             UNCHANGED <<job, kind, calls>>
      PROVE  Pays' /\ PaidOnce'
  <2>1. job[p] \in Tasks /\ kind[p] \in {"text", "cover"} /\ Before(job[p], kind[p])
    BY <1>2 DEF Takes, Waiting, Before, TypeOK
  <2>2. ~Before(job[p], kind[p])'
    BY <1>2, <2>1 DEF Takes, Taken, Before, TypeOK
  <2>3. calls[job[p]][kind[p]] = 0
    BY <2>1 DEF Pays
  <2>4. \A q \in Procs : pc[q] = "checking" => job[q] # job[p] \/ kind[q] # kind[p]
    BY <2>1 DEF Pays
  <2>5. \A q \in Procs : q # p => pc'[q] = pc[q]
    BY <1>2 DEF TypeOK
  <2>6. \A t \in Tasks, k \in {"text", "cover"} : Before(t, k)' => calls'[t][k] = 0
    BY <1>2, <1>b DEF Pays
  <2>7. \A q \in Procs :
          pc'[q] = "checking" => calls'[job'[q]][kind'[q]] = 0 /\ ~Before(job[q], kind[q])'
    <3> SUFFICES ASSUME NEW q \in Procs, q # p, pc[q] = "checking"
                 PROVE  calls[job[q]][kind[q]] = 0 /\ ~Before(job[q], kind[q])'
      BY <1>2, <2>2, <2>3, <2>5
    <3>1. calls[job[q]][kind[q]] = 0 /\ ~Before(job[q], kind[q])
      BY DEF Pays
    <3> QED BY <1>2, <1>b, <1>j, <3>1 DEF Before
  <2>8. PaidOnce'
    BY <1>2 DEF PaidOnce
  <2> QED BY <1>2, <2>4, <2>5, <2>6, <2>7, <2>8 DEF Pays
<1>3. ASSUME NEW p \in Procs, pc[p] = "checking", pc' = [pc EXCEPT ![p] = "asking"],
             calls' = [calls EXCEPT ![job[p]][kind[p]] = @ + 1],
             UNCHANGED <<status, cover, job, kind>>
      PROVE  Pays' /\ PaidOnce'
  <2>1. calls[job[p]][kind[p]] = 0 /\ ~Before(job[p], kind[p])
    BY <1>3 DEF Pays
  <2>2. job[p] \in Tasks /\ kind[p] \in {"text", "cover"}
    BY <1>3, <1>j
  <2>3. \A t \in Tasks, k \in {"text", "cover"} :
          calls'[t][k] = IF t = job[p] /\ k = kind[p] THEN 1 ELSE calls[t][k]
    BY <1>3, <2>1, <2>2 DEF TypeOK
  <2>4. \A q \in Procs : pc'[q] = "checking" => pc[q] = "checking" /\ q # p
    BY <1>3 DEF TypeOK
  <2>5. \A t \in Tasks, k \in {"text", "cover"} : Before(t, k)' = Before(t, k)
    BY <1>3 DEF Before
  <2>6. PaidOnce'
    BY <2>3 DEF PaidOnce
  <2>7. \A t \in Tasks, k \in {"text", "cover"} : Before(t, k)' => calls'[t][k] = 0
    BY <2>1, <2>3, <2>5 DEF Pays
  <2>8. \A q \in Procs :
          pc'[q] = "checking" => calls'[job'[q]][kind'[q]] = 0 /\ ~Before(job[q], kind[q])'
    <3> SUFFICES ASSUME NEW q \in Procs, pc'[q] = "checking"
                 PROVE  calls'[job[q]][kind[q]] = 0 /\ ~Before(job[q], kind[q])'
      BY <1>3
    <3>1. pc[q] = "checking" /\ (job[q] # job[p] \/ kind[q] # kind[p])
      BY <1>3, <2>4 DEF Pays
    <3>2. calls[job[q]][kind[q]] = 0 /\ ~Before(job[q], kind[q])
      BY <3>1 DEF Pays
    <3> QED BY <1>3, <1>j, <2>3, <3>1, <3>2 DEF Before
  <2> QED BY <1>3, <2>4, <2>6, <2>7, <2>8 DEF Pays
<1> QED BY <1>1, <1>2, <1>3, Checkers

\* Whoever is asking has just asked or was asking before, and a result is a success only
\* if a provider answered.
LEMMA Askers ==
  ASSUME TypeOK, Next, NEW q \in Procs,
         pc'[q] = "asking" \/ (pc'[q] = "writing" /\ outcome'[q] = "succeeded")
  PROVE  /\ job'[q] = job[q] /\ kind'[q] = kind[q]
         /\ \/ pc[q] = "asking"
            \/ pc[q] = "writing" /\ outcome[q] = "succeeded"
            \/ pc[q] = "checking" /\ calls' = [calls EXCEPT ![job[q]][kind[q]] = @ + 1]
<1> DEFINE Same == /\ job'[q] = job[q] /\ kind'[q] = kind[q]
                   /\ pc'[q] = pc[q] /\ outcome'[q] = outcome[q]
           Goal == /\ job'[q] = job[q] /\ kind'[q] = kind[q]
                   /\ \/ pc[q] = "asking"
                      \/ pc[q] = "writing" /\ outcome[q] = "succeeded"
                      \/ pc[q] = "checking" /\ calls' = [calls EXCEPT ![job[q]][kind[q]] = @ + 1]
<1> USE DEF procVars
<1>s. Same => Goal
  OBVIOUS
<1>r. ASSUME NEW p \in Procs, Rest(p) PROVE Same
  BY <1>r DEF Rest, Goto, TypeOK
<1> HIDE DEF Goal
<1>1. ASSUME UserStep PROVE Goal
  BY <1>1, <1>s DEF UserStep, Submit, Adopt, Edit, RemoveArticle
<1>2. ASSUME NEW t \in Tasks, LeaseExpires(t) PROVE Goal
  BY <1>2, <1>s DEF LeaseExpires
<1>3. ASSUME NEW p \in Procs, BeginStop(p) \/ Start(p) PROVE Goal
  BY <1>3, <1>s DEF BeginStop, Start
<1>4. ASSUME NEW p \in Procs, Exit(p) \/ Write(p) PROVE Goal
  BY <1>4, <1>r, <1>s DEF Exit, Write
<1>5. ASSUME NEW p \in Procs, Tick(p) PROVE Goal
  BY <1>5, <1>s DEF Tick, Found, Goto, TypeOK
<1>6. ASSUME NEW p \in Procs, Claim(p) PROVE Goal
  BY <1>6, <1>r, <1>s DEF Claim, Goto, TypeOK
<1>7. ASSUME NEW p \in Procs, Ask(p) PROVE Goal
  BY <1>7, <1>s DEF Ask, At, Ends, Goto, TypeOK, Goal
<1>8. ASSUME NEW p \in Procs, Answer(p) PROVE Goal
  BY <1>8, <1>s DEF Answer, At, Ends, Goto, TypeOK, Goal
<1>9. Goal
  BY <1>1, <1>2, <1>3, <1>4, <1>5, <1>6, <1>7, <1>8 DEF Next, ProcStep
<1> QED BY <1>9 DEF Goal

LEMMA AnsweredStep == TypeOK /\ Pays /\ Answered /\ Next => Answered'
<1> SUFFICES ASSUME TypeOK, Pays, Answered, Next,
                    NEW q \in Procs,
                    pc'[q] = "asking" \/ (pc'[q] = "writing" /\ outcome'[q] = "succeeded")
             PROVE  calls'[job'[q]][kind'[q]] = 1
  BY DEF Answered
<1>1. job'[q] = job[q] /\ kind'[q] = kind[q]
  BY Askers
<1>2. \/ pc[q] = "asking"
      \/ pc[q] = "writing" /\ outcome[q] = "succeeded"
      \/ pc[q] = "checking" /\ calls' = [calls EXCEPT ![job[q]][kind[q]] = @ + 1]
  BY Askers
<1>3. job[q] \in Tasks /\ kind[q] \in {"text", "cover"} /\ calls[job[q]][kind[q]] \in Nat
  BY <1>2 DEF TypeOK
<1>4. CASE pc[q] = "checking" /\ calls' = [calls EXCEPT ![job[q]][kind[q]] = @ + 1]
  BY <1>1, <1>3, <1>4 DEF Pays, TypeOK
<1>5. CASE pc[q] = "asking" \/ (pc[q] = "writing" /\ outcome[q] = "succeeded")
  <2>1. calls[job[q]][kind[q]] = 1
    BY <1>5 DEF Answered
  <2>2. calls' = calls \/ \E p \in Procs : pc[p] = "checking"
                                         /\ calls' = [calls EXCEPT ![job[p]][kind[p]] = @ + 1]
    BY Checkers DEF Quiet
  <2>3. \A p \in Procs : pc[p] = "checking" => calls[job[p]][kind[p]] = 0
    BY DEF Pays
  <2>4. ASSUME NEW p \in Procs, pc[p] = "checking",
               calls' = [calls EXCEPT ![job[p]][kind[p]] = @ + 1]
        PROVE  calls'[job[q]][kind[q]] = calls[job[q]][kind[q]]
    <3>1. job[p] # job[q] \/ kind[p] # kind[q]
      BY <2>1, <2>3, <2>4
    <3> QED BY <1>3, <2>4, <3>1 DEF TypeOK
  <2> QED BY <1>1, <2>1, <2>2, <2>4
<1> QED BY <1>2, <1>4, <1>5

-----------------------------------------------------------------------------
\* Only Adopt makes a task adopted.
LEMMA AdoptsOnlySo ==
  ASSUME TypeOK, Next, NEW t \in Tasks, status'[t] = "adopted", status[t] # "adopted"
  PROVE  Adopt(t)
<1>1. CASE Untouched
  BY <1>1 DEF Untouched
<1>2. ASSUME NEW u \in Tasks, NEW a \in Articles, NEW changed \in BOOLEAN, Submit(u, a, changed)
      PROVE  Adopt(t)
  BY <1>2 DEF Submit, TypeOK
<1>3. ASSUME NEW u \in Tasks, Adopt(u) PROVE Adopt(t)
  <2>1. status' = [status EXCEPT ![u] = "adopted"]
    BY <1>3 DEF Adopt
  <2> QED BY <1>3, <2>1 DEF TypeOK
<1>4. CASE Expire /\ UNCHANGED artOf
  BY <1>4 DEF Expire, TypeOK
<1>5. ASSUME NEW p \in Procs, Takes(p) PROVE Adopt(t)
  BY <1>5 DEF Takes, Taken, TypeOK
<1>6. ASSUME NEW p \in Procs, Stores(p) PROVE Adopt(t)
  BY <1>6, StoresRow DEF TypeOK
<1> QED BY <1>1, <1>2, <1>3, <1>4, <1>5, <1>6, Rows

\* Nobody submits an absent task but Submit.
LEMMA SubmitsOnlySo ==
  ASSUME TypeOK, Next, NEW t \in Tasks, status[t] = "absent", status'[t] # "absent"
  PROVE  \E a \in Articles, changed \in BOOLEAN : Submit(t, a, changed)
<1>1. CASE Untouched
  BY <1>1 DEF Untouched
<1>2. ASSUME NEW u \in Tasks, NEW a \in Articles, NEW changed \in BOOLEAN, Submit(u, a, changed)
      PROVE  \E b \in Articles, c \in BOOLEAN : Submit(t, b, c)
  <2>1. status' = [status EXCEPT ![u] = "pending"]
    BY <1>2 DEF Submit
  <2>2. u = t
    BY <2>1 DEF TypeOK
  <2> QED BY <1>2, <2>2
<1>3. ASSUME NEW u \in Tasks, Adopt(u) PROVE FALSE
  <2>1. status' = [status EXCEPT ![u] = "adopted"] /\ status[u] = "succeeded"
    BY <1>3 DEF Adopt, Adoptable
  <2> QED BY <2>1 DEF TypeOK
<1>4. CASE Expire /\ UNCHANGED artOf
  BY <1>4 DEF Expire, TypeOK
<1>5. ASSUME NEW p \in Procs, Takes(p) PROVE FALSE
  BY <1>5 DEF Takes, Taken, Waiting, TypeOK
<1>6. ASSUME NEW p \in Procs, Stores(p) PROVE FALSE
  BY <1>6, StoresRow DEF TypeOK
<1> QED BY <1>1, <1>2, <1>3, <1>4, <1>5, <1>6, Rows

\* The article of a task, and what it was written for, never change: articles only get
\* younger, and every edit makes them so.
LEMMA DatedStep == TypeOK /\ Shape /\ Dated /\ Next => Dated'
<1> SUFFICES ASSUME TypeOK, Shape, Dated, Next PROVE Dated'
  OBVIOUS
<1> USE DEF taskVars, artVars
<1>1. ASSUME NEW t \in Tasks, NEW a \in Articles, NEW changed \in BOOLEAN, Submit(t, a, changed)
      PROVE  Dated'
  <2>1. /\ \A b \in Articles : version'[b] >= version[b]
        /\ \A b \in Articles : version'[b] = version[b] \/ version'[b] > version[b]
        /\ edits' = edits
    BY <1>1 DEF Submit, TypeOK
  <2>2. /\ artOf'[t] = a /\ articleVersion'[t] = version'[a] /\ base'[t] = edits[a]
        /\ version'[a] \in Nat
    BY <1>1 DEF Submit, TypeOK
  <2>3. \A u \in Tasks :
          u # t => /\ status'[u] = status[u] /\ artOf'[u] = artOf[u]
                   /\ articleVersion'[u] = articleVersion[u] /\ base'[u] = base[u]
    BY <1>1 DEF Submit, TypeOK
  <2>4. ASSUME NEW u \in Tasks, u # t, status[u] # "absent"
        PROVE  /\ version'[artOf[u]] >= articleVersion[u]
               /\ version'[artOf[u]] = articleVersion[u] => edits[artOf[u]] = base[u]
    <3>1. artOf[u] \in Articles /\ version[artOf[u]] \in Nat /\ version'[artOf[u]] \in Nat
          /\ articleVersion[u] \in Nat
      BY <1>1, <2>4 DEF Shape, TypeOK, Submit
    <3> QED BY <2>1, <2>4, <3>1 DEF Dated
  <2> QED BY <2>1, <2>2, <2>3, <2>4 DEF Dated
<1>2. ASSUME NEW a \in Articles,
             version' = [version EXCEPT ![a] = @ + 1], edits' = [edits EXCEPT ![a] = @ + 1],
             \A t \in Tasks : status'[t] # "absent" => status[t] # "absent",
             UNCHANGED <<artOf, articleVersion, base>>
      PROVE  Dated'
  <2> SUFFICES ASSUME NEW t \in Tasks, status[t] # "absent"
               PROVE  /\ version'[artOf[t]] >= articleVersion[t]
                      /\ version'[artOf[t]] = articleVersion[t] => edits'[artOf[t]] = base[t]
    BY <1>2 DEF Dated
  <2>1. artOf[t] \in Articles /\ version[artOf[t]] \in Nat /\ articleVersion[t] \in Nat
    BY DEF Shape, TypeOK
  <2>2. CASE artOf[t] = a
    BY <1>2, <2>1, <2>2 DEF Dated, TypeOK
  <2>3. CASE artOf[t] # a
    BY <1>2, <2>1, <2>3 DEF Dated, TypeOK
  <2> QED BY <2>2, <2>3
<1>3. ASSUME UNCHANGED <<artOf, articleVersion, version, edits, base>>,
             \A t \in Tasks : status'[t] # "absent" => status[t] # "absent"
      PROVE  Dated'
  BY <1>3 DEF Dated
<1>4. CASE \E t \in Tasks, a \in Articles, changed \in BOOLEAN : Submit(t, a, changed)
  BY <1>1, <1>4
<1>5. CASE ~\E t \in Tasks, a \in Articles, changed \in BOOLEAN : Submit(t, a, changed)
  <2>1. \A t \in Tasks : status'[t] # "absent" => status[t] # "absent"
    BY <1>5, SubmitsOnlySo
  <2>2. ASSUME NEW t \in Tasks, Adopt(t) PROVE Dated'
    <3>1. artOf[t] \in Articles
      BY <2>2 DEF Adopt, Adoptable, Shape
    <3> QED BY <1>2, <2>1, <2>2, <3>1 DEF Adopt
  <2>3. ASSUME NEW a \in Articles, Edit(a) PROVE Dated'
    BY <1>2, <2>1, <2>3 DEF Edit
  <2>4. ASSUME NEW a \in Articles, RemoveArticle(a) PROVE Dated'
    BY <1>3, <2>1, <2>4 DEF RemoveArticle
  <2>5. ASSUME NEW t \in Tasks, LeaseExpires(t) PROVE Dated'
    BY <1>3, <2>1, <2>5 DEF LeaseExpires
  <2>6. ASSUME NEW p \in Procs, ProcStep(p) \/ BeginStop(p) \/ Exit(p) \/ Start(p) PROVE Dated'
    BY <1>3, <2>1, <2>6 DEF ProcStep, Tick, Claim, Ask, Answer, Write, BeginStop, Exit, Start
  <2> QED BY <1>5, <2>2, <2>3, <2>4, <2>5, <2>6 DEF Next, UserStep
<1> QED BY <1>4, <1>5

-----------------------------------------------------------------------------
LEMMA InitInv == Init => Inv
<1> SUFFICES ASSUME Init PROVE Inv
  OBVIOUS
<1>1. TypeOK
  BY InitTypeOK
<1>2. Shape
  BY DEF Init, Shape
<1>3. HeldWhileUnfinished
  BY DEF Init, HeldWhileUnfinished, Unfinished
<1>4. Pays /\ PaidOnce
  BY DEF Init, Pays, PaidOnce, Before
<1>5. Dated /\ Answered
  BY DEF Init, Dated, Answered
<1> QED BY <1>1, <1>2, <1>3, <1>4, <1>5 DEF Inv

LEMMA NextInv == Inv /\ [Next]_vars => Inv'
<1> SUFFICES ASSUME Inv, [Next]_vars PROVE Inv'
  OBVIOUS
<1>1. CASE Next
  BY <1>1, NextTypeOK, ShapeStep, HeldStep, PaysStep, AnsweredStep, DatedStep DEF Inv
<1>2. CASE UNCHANGED vars
  <2> USE <1>2 DEF Inv, vars, taskVars, artVars, procVars
  <2>1. TypeOK'
    BY NextTypeOK
  <2>2. Shape' /\ HeldWhileUnfinished'
    BY DEF Shape, HeldWhileUnfinished, Unfinished
  <2>3. Pays' /\ PaidOnce'
    BY DEF Pays, PaidOnce, Before
  <2>4. Dated' /\ Answered'
    BY DEF Dated, Answered
  <2> QED BY <2>1, <2>2, <2>3, <2>4
<1> QED BY <1>1, <1>2

LEMMA InvHolds == Spec => []Inv
BY InitInv, NextInv, PTL DEF Spec

\* An article and its user are held exactly as long as a task of theirs is unfinished,
\* through failures of submission, expired leases, crashes and stops.
THEOREM HeldCorrect == Spec => []HeldWhileUnfinished
<1>1. Inv => HeldWhileUnfinished
  BY DEF Inv
<1> QED BY InvHolds, <1>1, PTL

\* Whatever the processes find, lose and take over, no provider is asked twice for the
\* same text or the same cover.
THEOREM PaidOnceCorrect == Spec => []PaidOnce
<1>1. Inv => PaidOnce
  BY DEF Inv
<1> QED BY InvHolds, <1>1, PTL

\* A text that has failed, was interrupted or adopted, and a cover that is over, stay as
\* they are: an answer that comes late is not stored.
THEOREM OverStaysOver == Spec => OverIsFinal
<1>1. Inv /\ [Next]_vars => [Final]_vars
  BY FinalStep DEF Inv
<1>2. [Final]_vars <=>
        [\A t \in Tasks :
           /\ status[t] \in TextOver \cup {"adopted"} => status'[t] = status[t]
           /\ cover[t] \in CoverOver => cover'[t] = cover[t]]_vars
  BY DEF Final
<1> QED BY InvHolds, <1>1, <1>2, PTL DEF Spec, OverIsFinal

\* A text is adopted only while its article is what it was when the task was submitted:
\* the versions the code compares stand for the contents.
THEOREM AdoptKeepsEditsCorrect == Spec => AdoptKeepsEdits
<1>1. ASSUME Inv, [Next]_vars
      PROVE  [\A t \in Tasks :
                status'[t] = "adopted" /\ status[t] # "adopted" => edits[artOf[t]] = base[t]]_vars
  <2>1. ASSUME Next, NEW t \in Tasks, status'[t] = "adopted", status[t] # "adopted"
        PROVE  edits[artOf[t]] = base[t]
    <3>1. Adopt(t)
      BY <1>1, <2>1, AdoptsOnlySo DEF Inv
    <3>2. status[t] = "succeeded" /\ version[artOf[t]] = articleVersion[t]
      BY <3>1 DEF Adopt, Adoptable
    <3> QED BY <1>1, <3>2 DEF Inv, Dated
  <2> QED BY <1>1, <2>1
<1> QED BY InvHolds, <1>1, PTL DEF Spec, AdoptKeepsEdits
-----------------------------------------------------------------------------
\* ContentGeneration implements PaidGeneration.

\* What the abstract specification sees of a state.
seen == <<status, cover, calls, artOf, base, edits>>

LEMMA OpenTasks == \A t \in Tasks : Promise!Open(t) <=> Unfinished(t)
BY DEF Promise!Open, Unfinished

LEMMA InitPromise == Init => Promise!Init
BY DEF Init, Promise!Init

LEMMA UserPromise == Inv /\ UserStep => Promise!Next \/ UNCHANGED seen
<1> SUFFICES ASSUME Inv, UserStep PROVE Promise!Next \/ UNCHANGED seen
  OBVIOUS
<1> USE DEF taskVars, artVars
<1>1. ASSUME NEW t \in Tasks, NEW a \in Articles, NEW changed \in BOOLEAN, Submit(t, a, changed)
      PROVE  Promise!Next
  <2>1. \A u \in Tasks : Promise!Open(u) => Owner[artOf[u]] # Owner[a]
    BY <1>1, OpenTasks DEF Submit, Free, Inv, HeldWhileUnfinished
  <2>2. Promise!Submit(t, a)
    BY <1>1, <2>1 DEF Submit, Promise!Submit
  <2> QED BY <2>2 DEF Promise!Next
<1>2. ASSUME NEW t \in Tasks, Adopt(t) PROVE Promise!Next
  <2>1. edits[artOf[t]] = base[t]
    BY <1>2 DEF Adopt, Adoptable, Inv, Dated
  <2>2. Promise!Adopt(t)
    BY <1>2, <2>1, OpenTasks DEF Adopt, Adoptable, Promise!Adopt
  <2> QED BY <2>2 DEF Promise!Next
<1>3. ASSUME NEW a \in Articles, Edit(a) PROVE Promise!Next
  BY <1>3 DEF Edit, Promise!Edit, Promise!Next
<1>4. ASSUME NEW a \in Articles, RemoveArticle(a) PROVE UNCHANGED seen
  BY <1>4 DEF RemoveArticle, seen
<1> QED BY <1>1, <1>2, <1>3, <1>4 DEF UserStep

LEMMA TakesPromise ==
  ASSUME Inv, NEW p \in Procs, Takes(p), UNCHANGED <<calls, artOf, base, edits>>
  PROVE  Promise!Next
<1>1. job[p] \in Tasks
  BY DEF Takes
<1>2. CASE kind[p] = "text"
  <2>1. Promise!TakeText(job[p])
    BY <1>2 DEF Takes, Taken, Waiting, Promise!TakeText
  <2> QED BY <1>1, <2>1 DEF Promise!Next
<1>3. CASE kind[p] = "cover"
  <2>1. Promise!TakeCover(job[p])
    BY <1>3 DEF Takes, Taken, Waiting, Promise!TakeCover
  <2> QED BY <1>1, <2>1 DEF Promise!Next
<1> QED BY <1>2, <1>3 DEF Inv, TypeOK

\* A success is stored only by a process that asked, and under a lease that kept
\* everybody from saying that the task is over.
LEMMA StoresPromise ==
  ASSUME Inv, NEW p \in Procs, Stores(p), UNCHANGED <<calls, artOf, base, edits>>
  PROVE  Promise!Next
<1> DEFINE t == job[p]
<1>1. t \in Tasks /\ outcome[p] \in {"succeeded", "failed", "interrupted"}
  BY StoresRow DEF Inv
<1>2. outcome[p] = "succeeded" => calls[t][kind[p]] = 1
  BY DEF Stores, Inv, Answered
<1>3. CASE /\ kind[p] = "cover" /\ cover[t] = "running" /\ status' = status
           /\ cover' = [cover EXCEPT ![t] = outcome[p]]
  <2>1. Promise!EndCover(t)
    BY <1>1, <1>2, <1>3 DEF Promise!EndCover
  <2> QED BY <1>1, <2>1 DEF Promise!Next
<1>4. CASE /\ kind[p] = "text" /\ status[t] = "running" /\ outcome[p] = "succeeded"
           /\ status' = [status EXCEPT ![t] = "succeeded"]
           /\ \E c \in {"none", "pending"} : cover' = [cover EXCEPT ![t] = c]
  <2>1. Promise!EndText(t)
    BY <1>2, <1>4 DEF Promise!EndText
  <2> QED BY <1>1, <2>1 DEF Promise!Next
<1>5. CASE /\ kind[p] = "text" /\ status[t] = "running" /\ outcome[p] # "succeeded"
           /\ status' = [status EXCEPT ![t] = outcome[p]]
           /\ cover' = [cover EXCEPT ![t] = "none"]
  <2>1. cover' = cover
    BY <1>1, <1>5 DEF Inv, Shape, TypeOK
  <2>2. Promise!EndText(t)
    BY <1>1, <1>5, <2>1 DEF Promise!EndText
  <2> QED BY <1>1, <2>2 DEF Promise!Next
<1> QED BY <1>1, <1>3, <1>4, <1>5, StoresRow DEF Inv

LEMMA ProcPromise ==
  ASSUME Inv, NEW p \in Procs, ProcStep(p) PROVE Promise!Next \/ UNCHANGED seen
<1> USE DEF taskVars, artVars
<1>j. ASSUME pc[p] # "idle" PROVE job[p] \in Tasks
  BY <1>j DEF Inv, TypeOK
<1>1. CASE Tick(p)
  <2> DEFINE texts  == {t \in Tasks : status[t] = "running" /\ lease[t] = "expired"}
             covers == {t \in Tasks : cover[t] = "running" /\ lease[t] = "expired"}
  <2>1. Promise!GiveUp(texts, covers)
    BY <1>1 DEF Tick, Expire, Promise!GiveUp
  <2>2. texts \in SUBSET Tasks /\ covers \in SUBSET Tasks
    OBVIOUS
  <2> HIDE DEF texts, covers
  <2> QED BY <2>1, <2>2 DEF Promise!Next
<1>2. CASE Claim(p)
  <2>1. Takes(p) \/ UNCHANGED <<status, cover>>
    BY <1>2, <1>j DEF Claim, At, Takes
  <2>2. UNCHANGED <<calls, artOf, base, edits>>
    BY <1>2 DEF Claim
  <2> QED BY <2>1, <2>2, TakesPromise DEF seen
<1>3. CASE Ask(p)
  <2>1. UNCHANGED <<status, cover, artOf, base, edits>>
    BY <1>3 DEF Ask
  <2>2. pc[p] = "checking" /\ job[p] \in Tasks /\ kind[p] \in {"text", "cover"}
    BY <1>3, <1>j DEF Ask, At, Inv, TypeOK
  <2>3. CASE calls' = [calls EXCEPT ![job[p]][kind[p]] = @ + 1]
    <3>1. calls[job[p]][kind[p]] = 0 /\ ~Before(job[p], kind[p])
      BY <2>2 DEF Inv, Pays
    <3>2. calls' = [calls EXCEPT ![job[p]][kind[p]] = 1]
      BY <2>2, <2>3, <3>1 DEF Inv, TypeOK
    <3>3. Promise!Ask(job[p], kind[p])
      BY <2>1, <2>2, <3>1, <3>2 DEF Before, Promise!Ask
    <3> QED BY <2>2, <3>3 DEF Promise!Next
  <2> QED BY <1>3, <2>1, <2>3 DEF Ask, seen
<1>4. CASE Answer(p)
  BY <1>4 DEF Answer, seen
<1>5. CASE Write(p)
  <2>1. Stores(p) \/ UNCHANGED <<status, cover>>
    BY <1>5, <1>j DEF Write, At, Stores
  <2>2. UNCHANGED <<calls, artOf, base, edits>>
    BY <1>5 DEF Write
  <2> QED BY <2>1, <2>2, StoresPromise DEF seen, Stores
<1> QED BY <1>1, <1>2, <1>3, <1>4, <1>5 DEF ProcStep

LEMMA NextPromise == Inv /\ [Next]_vars => [Promise!Next]_seen
<1> SUFFICES ASSUME Inv, [Next]_vars PROVE Promise!Next \/ UNCHANGED seen
  OBVIOUS
<1>1. CASE UserStep
  BY <1>1, UserPromise
<1>2. ASSUME NEW p \in Procs, ProcStep(p) PROVE Promise!Next \/ UNCHANGED seen
  BY <1>2, ProcPromise
<1>3. ASSUME NEW t \in Tasks, LeaseExpires(t) PROVE UNCHANGED seen
  BY <1>3 DEF LeaseExpires, seen, artVars
<1>4. ASSUME NEW p \in Procs, BeginStop(p) \/ Exit(p) \/ Start(p) PROVE UNCHANGED seen
  BY <1>4 DEF BeginStop, Exit, Start, seen, taskVars, artVars
<1>5. CASE UNCHANGED vars
  BY <1>5 DEF vars, taskVars, artVars, seen
<1> QED BY <1>1, <1>2, <1>3, <1>4, <1>5 DEF Next

\* Every behaviour of the processes is one of the order for a text and a cover: taking,
\* asking and storing, however they interleave, fail and are given up, are steps of the
\* order or change nothing that it promises.
THEOREM ImplementsOrder == Spec => ImplementsPaidGeneration
<1>1. Inv /\ [Next]_vars => [Promise!Next]_Promise!vars
  BY NextPromise DEF seen, Promise!vars
<1> QED BY InvHolds, InitPromise, <1>1, PTL DEF Spec, ImplementsPaidGeneration, Promise!Spec
=============================================================================
