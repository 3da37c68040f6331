-------------------------- MODULE AgentActionsProofs --------------------------
(***************************************************************************)
(* Theorems about AgentActions: for any messages, any number of keys,      *)
(* requests, edits and faults, and any limit of concurrent runs.           *)
(***************************************************************************)
EXTENDS AgentActions, FiniteSetTheorems, TLAPS

States  == Active \cup Over \cup {"absent", "waiting"}
Pendings == {"collecting", "pending_confirmation", "submitting", "submitted", "failed", "cancelled"}
Places  == {"idle", "writing", "marking", "failing", "saving", "savingFailed", "checking", "reading"}

\* A message reserves an execution that nobody has begun.
Reserving == \A m \in Msgs : chat[m] = "reserving" => exec[m] = "absent"

\* A key that has given a SKU, or still may.
Used(k) == Writing(k) \/ skus[k] > 0

\* As long as no submission was let go: one key is used, its action is not open, and
\* whoever writes has the version of the action.
Submission ==
  ~lost =>
    /\ ~Detached
    /\ \A j, k \in Keys : Used(j) /\ Used(k) => j = k
    /\ \A r \in Requests : pc[r] = "writing" => copy[r] = Draft

\* As long as no entity read before was saved over a later draft: no draft that was shown
\* is later than the row, the only one of its version is the row's, and whoever writes
\* has the draft that its user saw.
Unambiguous ==
  ~overtaken =>
    /\ \A draft \in shown : draft[1] <= version /\ (draft[1] = version => draft = Draft)
    /\ \A r \in Requests : pc[r] = "writing" => seen[r] = copy[r]

\* The inductive invariant.
Inv == TypeOK /\ Reserving /\ Submission /\ Unambiguous

-----------------------------------------------------------------------------
ActionOK ==
  /\ pending \in Pendings
  /\ version \in Nat /\ data \in Nat /\ edits \in Nat /\ shown \subseteq Nat \X Nat

ExecsOK ==
  /\ exec \in [Execs -> States] /\ stale \subseteq {e \in Execs : exec[e] \in Active}

RequestsOK ==
  /\ pc \in [Requests -> Places] /\ key \in [Requests -> Keys \cup {0}]
  /\ copy \in [Requests -> Nat \X Nat] /\ seen \in [Requests -> Nat \X Nat]
  /\ \A r \in Requests : pc[r] = "idle" <=> key[r] = 0

ChatOK ==
  /\ chat \in [Msgs -> {"idle", "reserving", "working", "saving", "completing", "done"}]
  /\ chatCopy \in [Msgs -> Nat]

HistoryOK == lost \in BOOLEAN /\ overtaken \in BOOLEAN /\ torn \in BOOLEAN

SkusOK == skus \in [Keys -> 0..1]

FaultsOK == faults \in 0..MaxFaults

LEMMA Parts ==
  TypeOK <=> ActionOK /\ ExecsOK /\ RequestsOK /\ ChatOK /\ HistoryOK /\ SkusOK /\ FaultsOK
BY DEF TypeOK, ActionOK, ExecsOK, RequestsOK, ChatOK, HistoryOK, SkusOK, FaultsOK, Pendings,
       States, Places

LEMMA Constants == 0 \notin Keys /\ Keys \cap Msgs = {} /\ Keys \subseteq Execs /\ Msgs \subseteq Execs
BY AgentAssumption DEF AgentAssumption, Keys, Execs

LEMMA SetOK ==
  ASSUME ExecsOK, NEW e \in Execs, NEW s \in States, Set(e, s)
  PROVE  ExecsOK'
BY DEF ExecsOK, Set

LEMMA RestOK == ASSUME RequestsOK, NEW r \in Requests, Rest(r) PROVE RequestsOK'
BY DEF RequestsOK, Rest, Goto, Places

LEMMA GotoOK ==
  ASSUME RequestsOK, NEW r \in Requests, NEW s \in Places \ {"idle"}, Goto(r, s),
         key'[r] # 0, \A q \in Requests : q # r => key'[q] = key[q],
         key' \in [Requests -> Keys \cup {0}], copy' \in [Requests -> Nat \X Nat],
         seen' \in [Requests -> Nat \X Nat]
  PROVE  RequestsOK'
BY DEF RequestsOK, Goto

LEMMA FaultOK == ASSUME FaultsOK, Fault PROVE FaultsOK'
BY AgentAssumption DEF FaultsOK, Fault, AgentAssumption

LEMMA RecheckOK ==
  ASSUME RequestsOK, NEW r \in Requests, key[r] # 0, Recheck(r)
  PROVE  RequestsOK'
<1>1. CASE Goto(r, "checking") /\ copy' = [copy EXCEPT ![r] = <<0, 0>>] /\ UNCHANGED <<key, seen>>
  <2>1. copy' \in [Requests -> Nat \X Nat]
    BY <1>1 DEF RequestsOK
  <2> QED BY <1>1, <2>1, GotoOK DEF Places, RequestsOK
<1>2. CASE Rest(r)
  BY <1>2, RestOK
<1> QED BY <1>1, <1>2 DEF Recheck

LEMMA InitTypes == Init => TypeOK
<1> SUFFICES ASSUME Init
             PROVE  ActionOK /\ ExecsOK /\ RequestsOK /\ ChatOK /\ HistoryOK /\ SkusOK /\ FaultsOK
  BY Parts
<1> USE DEF Init
<1>1. ActionOK /\ ExecsOK
  BY DEF ActionOK, ExecsOK, Draft, Pendings, States
<1>2. RequestsOK
  BY DEF RequestsOK, Places
<1>3. ChatOK /\ SkusOK
  BY DEF ChatOK, SkusOK
<1>4. HistoryOK
  BY DEF HistoryOK
<1>5. FaultsOK
  BY AgentAssumption DEF FaultsOK, AgentAssumption
<1> QED BY <1>1, <1>2, <1>3, <1>4, <1>5

LEMMA NextTypes == TypeOK /\ [Next]_vars => TypeOK'
<1> DEFINE Types ==
      ActionOK /\ ExecsOK /\ RequestsOK /\ ChatOK /\ HistoryOK /\ SkusOK /\ FaultsOK
<1>p. Types' => TypeOK'
  BY DEF TypeOK, ActionOK, ExecsOK, RequestsOK, ChatOK, HistoryOK, SkusOK, FaultsOK, Pendings,
         States, Places
<1> SUFFICES ASSUME Types, [Next]_vars PROVE Types'
  BY <1>p, Parts
<1>a. UNCHANGED actVars => ActionOK'
  BY DEF actVars, draftVars, ActionOK
<1>e. UNCHANGED execVars => ExecsOK'
  BY DEF execVars, ExecsOK
<1>r. UNCHANGED reqVars => RequestsOK'
  BY DEF reqVars, RequestsOK
<1>c. UNCHANGED chatVars => ChatOK'
  BY DEF chatVars, ChatOK
<1>h. UNCHANGED histVars => HistoryOK'
  BY DEF histVars, HistoryOK
<1>l. Track /\ (Overtakes \/ UNCHANGED overtaken) /\ UNCHANGED torn => HistoryOK'
  BY DEF HistoryOK, Track, Overtakes
<1>s. UNCHANGED skus => SkusOK'
  BY DEF SkusOK
<1>f. UNCHANGED faults => FaultsOK'
  BY DEF FaultsOK
<1>k. \A r \in Requests : pc[r] # "idle" => key[r] \in Keys /\ key[r] \in Execs /\ key[r] # 0
  BY Constants DEF RequestsOK
<1>d. \A v \in Nat : NewData(v) => /\ version' \in Nat /\ data' \in Nat /\ edits' \in Nat
                                  /\ shown' \subseteq Nat \X Nat
  BY DEF NewData, Draft, ActionOK
<1>1. CASE UNCHANGED vars
  BY <1>1, <1>a, <1>e, <1>r, <1>c, <1>h, <1>s, <1>f DEF vars
<1>2. ASSUME Update \/ CancelAction PROVE Types'
  <2>1. ActionOK'
    BY <1>2, <1>d DEF Update, CancelAction, ActionOK, Pendings
  <2> QED BY <1>2, <1>e, <1>r, <1>c, <1>h, <1>s, <1>f, <2>1 DEF Update, CancelAction
<1>3. ASSUME NEW r \in Requests, NEW k \in Keys, Confirm(r, k) PROVE Types'
  <2>1. ActionOK'
    BY <1>3 DEF Confirm, ActionOK, draftVars, Pendings
  <2>2. ExecsOK'
    BY <1>3, Constants, SetOK DEF Confirm, States, Active
  <2>3. RequestsOK'
    BY <1>3, Constants, GotoOK DEF Confirm, RequestsOK, ActionOK, Draft, Places
  <2> QED BY <1>3, <1>c, <1>h, <1>s, <1>f, <2>1, <2>2, <2>3 DEF Confirm
<1>4. ASSUME NEW r \in Requests, NEW k \in Keys, Ask(r, k) PROVE Types'
  <2>1. RequestsOK'
    BY <1>4, Constants, GotoOK DEF Ask, RequestsOK, Places
  <2> QED BY <1>4, <1>a, <1>e, <1>c, <1>h, <1>s, <1>f, <2>1 DEF Ask
<1>5. ASSUME NEW r \in Requests, Write(r) PROVE Types'
  <2>1. RequestsOK'
    BY <1>5, <1>k, GotoOK DEF Write, RequestsOK, Places
  <2>2. SkusOK'
    BY <1>5, <1>s, <1>k DEF Write, SkusOK
  <2>3. FaultsOK'
    BY <1>5, <1>f, FaultOK DEF Write
  <2> QED BY <1>5, <1>a, <1>e, <1>c, <1>h, <2>1, <2>2, <2>3 DEF Write
<1>6. ASSUME NEW r \in Requests, MarkSucceeded(r) PROVE Types'
  <2>1. RequestsOK'
    <3>1. CASE \E t \in {"saving", "failing"} : Goto(r, t) /\ UNCHANGED <<key, copy, seen>>
      BY <1>6, <3>1, <1>k, GotoOK DEF MarkSucceeded, RequestsOK, Places
    <3>2. CASE Recheck(r)
      BY <1>6, <3>2, <1>k, RecheckOK DEF MarkSucceeded
    <3> QED BY <1>6, <3>1, <3>2 DEF MarkSucceeded
  <2>2. ExecsOK'
    BY <1>6, <1>e, <1>k, SetOK DEF MarkSucceeded, States, Over
  <2>3. FaultsOK'
    BY <1>6, <1>f, FaultOK DEF MarkSucceeded
  <2>4. HistoryOK'
    BY <1>6 DEF MarkSucceeded, Tear, HistoryOK
  <2> QED BY <1>6, <1>a, <1>c, <1>s, <2>1, <2>2, <2>3, <2>4 DEF MarkSucceeded
<1>7. ASSUME NEW r \in Requests, MarkFailed(r) PROVE Types'
  <2>1. RequestsOK'
    <3>1. CASE Goto(r, "savingFailed") /\ UNCHANGED <<key, copy, seen>>
      BY <1>7, <3>1, <1>k, GotoOK DEF MarkFailed, RequestsOK, Places
    <3>2. CASE Recheck(r)
      BY <1>7, <3>2, <1>k, RecheckOK DEF MarkFailed
    <3> QED BY <1>7, <3>1, <3>2 DEF MarkFailed
  <2>2. ExecsOK'
    BY <1>7, <1>e, <1>k, SetOK DEF MarkFailed, States, Over
  <2> QED BY <1>7, <1>a, <1>c, <1>h, <1>s, <1>f, <2>1, <2>2 DEF MarkFailed
<1>8. ASSUME NEW r \in Requests, SaveAction(r) PROVE Types'
  <2>1. ActionOK'
    BY <1>8 DEF SaveAction, ActionOK, RequestsOK, Pendings
  <2> QED BY <1>8, <1>e, <1>c, <1>l, <1>s, <1>f, <2>1, RestOK DEF SaveAction
<1>9. ASSUME NEW r \in Requests, Reconcile(r) PROVE Types'
  <2>1. RequestsOK'
    BY <1>9, <1>k, GotoOK, RestOK DEF Reconcile, RequestsOK, Places
  <2>2. ExecsOK'
    BY <1>9, <1>e, <1>k, SetOK DEF Reconcile, States, Over
  <2> QED BY <1>9, <1>a, <1>c, <1>h, <1>s, <1>f, <2>1, <2>2 DEF Reconcile
<1>10. ASSUME NEW r \in Requests, ReadAction(r) PROVE Types'
  <2>1. RequestsOK'
    BY <1>10, <1>k, GotoOK DEF ReadAction, RequestsOK, ActionOK, Draft, Places
  <2> QED BY <1>10, <1>a, <1>e, <1>c, <1>h, <1>s, <1>f, <2>1 DEF ReadAction
<1>11. ASSUME NEW r \in Requests, Drop(r) PROVE Types'
  <2>1. HistoryOK'
    BY <1>11 DEF Drop, Tear, HistoryOK
  <2> QED BY <1>11, <1>a, <1>e, <1>c, <1>s, <2>1, RestOK, FaultOK DEF Drop
<1>12. ASSUME NEW m \in Msgs, ChatStep(m) PROVE Types'
  <2>1. ActionOK'
    BY <1>12, <1>a, <1>d DEF ChatStep, ChatRead, ChatReserve, ChatPrepare, ChatSave, ChatComplete,
                       ChatSaveChecked, ChatFail, ActionOK, ChatOK, Pendings
  <2>2. ExecsOK'
    BY <1>12, <1>e, Constants, SetOK DEF ChatStep, ChatRead, ChatReserve, ChatPrepare, ChatSave,
                       ChatComplete, ChatSaveChecked, ChatFail, States, Active, Over
  <2>3. ChatOK'
    <3>1. CASE \E s \in {"saving", "completing", "done", chat[m]} : ChatGoto(m, s)
      BY <3>1 DEF ChatGoto, ChatOK
    <3>2. CASE ChatRead(m) \/ ChatReserve(m)
      BY <3>2 DEF ChatRead, ChatReserve, ActionOK, ChatOK
    <3> QED BY <1>12, <3>1, <3>2 DEF ChatStep, ChatPrepare, ChatSave, ChatComplete,
                                     ChatSaveChecked, ChatFail
  <2>4. HistoryOK'
    BY <1>12, <1>h, <1>l DEF ChatStep, ChatRead, ChatReserve, ChatPrepare, ChatSave, ChatComplete,
                       ChatSaveChecked, ChatFail
  <2>5. UNCHANGED <<reqVars, skus, faults>>
    BY <1>12 DEF ChatStep, ChatRead, ChatReserve, ChatPrepare, ChatSave, ChatComplete,
                 ChatSaveChecked, ChatFail
  <2> QED BY <1>r, <1>s, <1>f, <2>1, <2>2, <2>3, <2>4, <2>5
<1>13. ASSUME NEW e \in Execs, Stop(e) \/ Recover(e) PROVE Types'
  <2>1. ActionOK'
    BY <1>13, <1>a DEF Stop, Recover, ActionOK, draftVars, Pendings
  <2>2. ExecsOK'
    BY <1>13, SetOK DEF Stop, Recover, States, Over
  <2> QED BY <1>13, <1>r, <1>c, <1>l, <1>s, <1>f, <2>1, <2>2 DEF Stop, Recover
<1>14. ASSUME NEW e \in Execs, LeaseOver(e) PROVE Types'
  <2>1. ExecsOK'
    BY <1>14 DEF LeaseOver, ExecsOK
  <2> QED BY <1>14, <1>a, <1>r, <1>c, <1>h, <1>s, <1>f, <2>1 DEF LeaseOver
<1> HIDE DEF Types
<1> QED BY <1>1, <1>2, <1>3, <1>4, <1>5, <1>6, <1>7, <1>8, <1>9, <1>10, <1>11, <1>12, <1>13, <1>14
        DEF Next, RequestStep

-----------------------------------------------------------------------------
\* What a step does to the executions: the five things it can be.
Confirms(k) ==
  exec[k] = "absent" /\ exec' = [exec EXCEPT ![k] = "submitting"] /\ UNCHANGED chat

Reserves(m) ==
  /\ chat[m] = "reserving" /\ chat' = [chat EXCEPT ![m] = "working"]
  /\ exec' = [exec EXCEPT ![m] = "running"]

\* An execution that is active, or waits for its user, goes on or ends.
Settles(e) ==
  /\ exec[e] \in Active \cup {"waiting"}
  /\ \E s \in Over \cup {"waiting"} : exec' = [exec EXCEPT ![e] = s]
  /\ \A m \in Msgs : chat'[m] = "reserving" => chat[m] = "reserving"

\* The SKU of a key is found.
FindsSku(k) == skus[k] > 0 /\ exec' = [exec EXCEPT ![k] = "succeeded"] /\ UNCHANGED chat

Rests ==
  /\ UNCHANGED exec
  /\ \A m \in Msgs : chat'[m] = "reserving" => chat[m] = "reserving" \/ exec[m] = "absent"

LEMMA ExecMoves ==
  ASSUME TypeOK, Next
  PROVE  \/ Rests
         \/ \E k \in Keys : Confirms(k) \/ FindsSku(k)
         \/ \E m \in Msgs : Reserves(m)
         \/ \E e \in Execs : Settles(e)
<1> USE DEF execVars, chatVars, Set
<1>k. \A r \in Requests : pc[r] # "idle" => key[r] \in Keys /\ key[r] \in Execs
  BY Constants DEF TypeOK
<1>m. \A m \in Msgs : m \in Execs
  BY Constants
<1>1. ASSUME Update \/ CancelAction PROVE Rests
  BY <1>1 DEF Update, CancelAction, Rests
<1>2. ASSUME NEW r \in Requests, NEW k \in Keys, Confirm(r, k) PROVE Confirms(k)
  BY <1>2 DEF Confirm, Confirms
<1>3. ASSUME NEW r \in Requests, NEW k \in Keys, Ask(r, k) PROVE Rests
  BY <1>3 DEF Ask, Rests
<1>4. ASSUME NEW r \in Requests, Write(r) \/ SaveAction(r) \/ ReadAction(r) \/ Drop(r) PROVE Rests
  BY <1>4 DEF Write, SaveAction, ReadAction, Drop, Rests
<1>5. ASSUME NEW r \in Requests, MarkSucceeded(r) \/ MarkFailed(r)
      PROVE  Rests \/ \E e \in Execs : Settles(e)
  <2>1. key[r] \in Execs
    BY <1>5, <1>k DEF MarkSucceeded, MarkFailed
  <2>2. UNCHANGED chat
    BY <1>5 DEF MarkSucceeded, MarkFailed
  <2>3. \/ UNCHANGED exec
        \/ /\ exec[key[r]] = "submitting"
           /\ \E s \in {"succeeded", "failed"} : exec' = [exec EXCEPT ![key[r]] = s]
    BY <1>5 DEF MarkSucceeded, MarkFailed
  <2> QED BY <2>1, <2>2, <2>3 DEF Rests, Settles, Active, Over
<1>6. ASSUME NEW r \in Requests, Reconcile(r) PROVE Rests \/ \E k \in Keys : FindsSku(k)
  <2>1. key[r] \in Keys
    BY <1>6, <1>k DEF Reconcile
  <2> QED BY <1>6, <2>1 DEF Reconcile, Rests, FindsSku
<1>7. ASSUME NEW m \in Msgs, ChatReserve(m) PROVE Reserves(m)
  BY <1>7 DEF ChatReserve, Reserves
<1>8. ASSUME NEW m \in Msgs, ChatRead(m) \/ ChatPrepare(m) \/ ChatSave(m) PROVE Rests
  BY <1>8 DEF ChatRead, ChatPrepare, ChatSave, ChatGoto, Rests, TypeOK
<1>9. ASSUME NEW m \in Msgs, ChatComplete(m) \/ ChatSaveChecked(m) \/ ChatFail(m)
      PROVE  Rests \/ Settles(m)
  <2>1. \A n \in Msgs : chat'[n] = "reserving" => chat[n] = "reserving"
    BY <1>9 DEF ChatComplete, ChatSaveChecked, ChatFail, ChatGoto, TypeOK
  <2>2. \/ UNCHANGED exec
        \/ exec[m] = "running" /\ \E s \in {"waiting", "failed"} : exec' = [exec EXCEPT ![m] = s]
    BY <1>9 DEF ChatComplete, ChatSaveChecked, ChatFail
  <2> QED BY <2>1, <2>2 DEF Rests, Settles, Active, Over
<1>10. ASSUME NEW e \in Execs, Stop(e) \/ Recover(e) PROVE Settles(e)
  BY <1>10 DEF Stop, Recover, Settles, TypeOK, Over
<1>11. ASSUME NEW e \in Execs, LeaseOver(e) PROVE Rests
  BY <1>11 DEF LeaseOver, Rests
<1> QED BY <1>1, <1>2, <1>3, <1>4, <1>5, <1>6, <1>7, <1>8, <1>9, <1>10, <1>11, <1>m
        DEF Next, RequestStep, ChatStep

LEMMA ReservingStep == TypeOK /\ Reserving /\ Next => Reserving'
<1> SUFFICES ASSUME TypeOK, Reserving, Next PROVE Reserving'
  OBVIOUS
<1>1. ASSUME Rests PROVE Reserving'
  BY <1>1 DEF Rests, Reserving
<1>2. ASSUME NEW k \in Keys, Confirms(k) \/ FindsSku(k) PROVE Reserving'
  <2>1. \A m \in Msgs : exec'[m] = exec[m]
    BY <1>2, Constants DEF Confirms, FindsSku, TypeOK
  <2> QED BY <1>2, <2>1 DEF Confirms, FindsSku, Reserving
<1>3. ASSUME NEW m \in Msgs, Reserves(m) PROVE Reserving'
  BY <1>3, Constants DEF Reserves, Reserving, TypeOK
<1>4. ASSUME NEW e \in Execs, Settles(e) PROVE Reserving'
  BY <1>4, Constants DEF Settles, Reserving, TypeOK, Active
<1> QED BY <1>1, <1>2, <1>3, <1>4, ExecMoves

\* What an execution has ended with.
EndsOnce ==
  \A e \in Execs :
    exec[e] \in Over /\ exec'[e] # exec[e] =>
      /\ exec[e] # "succeeded" /\ exec'[e] = "succeeded"
      /\ e \in Keys /\ skus[e] > 0

LEMMA EndsStep == TypeOK /\ Reserving /\ Next => EndsOnce
<1> SUFFICES ASSUME TypeOK, Reserving, Next PROVE EndsOnce
  OBVIOUS
<1>1. ASSUME Rests PROVE EndsOnce
  BY <1>1 DEF Rests, EndsOnce
<1>2. ASSUME NEW k \in Keys, Confirms(k) \/ FindsSku(k) PROVE EndsOnce
  BY <1>2, Constants DEF Confirms, FindsSku, EndsOnce, TypeOK, Over
<1>3. ASSUME NEW m \in Msgs, Reserves(m) PROVE EndsOnce
  BY <1>3, Constants DEF Reserves, Reserving, EndsOnce, TypeOK, Over
<1>4. ASSUME NEW e \in Execs, Settles(e) PROVE EndsOnce
  BY <1>4 DEF Settles, EndsOnce, TypeOK, Active, Over
<1> QED BY <1>1, <1>2, <1>3, <1>4, ExecMoves

-----------------------------------------------------------------------------
\* No new writer, and the action as it was.
NoNewWriter ==
  \A q \in Requests :
    pc'[q] = "writing" =>
      pc[q] = "writing" /\ key'[q] = key[q] /\ copy'[q] = copy[q] /\ seen'[q] = seen[q]

Calm == NoNewWriter /\ UNCHANGED <<actVars, skus, lost, overtaken>>

\* What the draft becomes, and the drafts that were shown.
DraftMoves ==
  \/ UNCHANGED <<draftVars, overtaken>>
  \/ version' = version + 1 /\ shown' \subseteq shown \cup {Draft'} /\ UNCHANGED overtaken
  \/ Overtakes /\ shown' \subseteq shown \cup {Draft'}

\* The action is changed by somebody who tracks whom it is taken away from.
Overrides ==
  /\ NoNewWriter /\ UNCHANGED skus /\ Track /\ DraftMoves
  /\ UNCHANGED draftVars \/ pending' # "submitting"

\* An open action is edited or cancelled.
Edits ==
  /\ Editable /\ pending' # "submitting" /\ DraftMoves
  /\ UNCHANGED <<pc, key, copy, seen, skus, lost>>

LEMMA ActionMoves ==
  ASSUME TypeOK, Next
  PROVE  \/ Calm \/ Overrides \/ Edits
         \/ \E r \in Requests, k \in Keys : Confirm(r, k)
         \/ \E r \in Requests : Write(r)
<1> USE DEF reqVars, histVars
<1>n. ASSUME UNCHANGED <<pc, key, copy, seen>> PROVE NoNewWriter
  BY <1>n DEF NoNewWriter
<1>g. ASSUME NEW r \in Requests, NEW s \in {"saving", "failing", "savingFailed", "checking", "reading"},
             Goto(r, s),
             \A q \in Requests : q # r => key'[q] = key[q] /\ copy'[q] = copy[q] /\ seen'[q] = seen[q]
      PROVE  NoNewWriter
  BY <1>g DEF Goto, NoNewWriter, TypeOK
<1>r. ASSUME NEW r \in Requests, Rest(r) PROVE NoNewWriter
  BY <1>r DEF Rest, Goto, NoNewWriter, TypeOK
<1>c. ASSUME NEW r \in Requests, Recheck(r) PROVE NoNewWriter
  <2>1. CASE Goto(r, "checking") /\ copy' = [copy EXCEPT ![r] = <<0, 0>>] /\ UNCHANGED <<key, seen>>
    <3>1. \A q \in Requests : q # r => copy'[q] = copy[q]
      BY <2>1 DEF TypeOK
    <3> QED BY <2>1, <3>1, <1>g
  <2> QED BY <1>c, <1>r, <2>1 DEF Recheck
<1>1. ASSUME Update \/ CancelAction PROVE Edits
  BY <1>1 DEF Update, CancelAction, Edits, DraftMoves, NewData
<1>2. ASSUME NEW r \in Requests, NEW k \in Keys, Ask(r, k) PROVE Calm
  <2>1. NoNewWriter
    BY <1>2, <1>g DEF Ask, TypeOK
  <2> QED BY <1>2, <2>1 DEF Ask, Calm
<1>3. ASSUME NEW r \in Requests, MarkSucceeded(r) \/ MarkFailed(r) PROVE Calm
  <2>1. NoNewWriter
    BY <1>3, <1>g, <1>c DEF MarkSucceeded, MarkFailed
  <2> QED BY <1>3, <2>1 DEF MarkSucceeded, MarkFailed, Calm
<1>4. ASSUME NEW r \in Requests, Reconcile(r) \/ ReadAction(r) \/ Drop(r) PROVE Calm
  <2>1. NoNewWriter
    BY <1>4, <1>g, <1>r DEF Reconcile, ReadAction, Drop, TypeOK
  <2> QED BY <1>4, <2>1 DEF Reconcile, ReadAction, Drop, Calm
<1>5. ASSUME NEW r \in Requests, SaveAction(r) PROVE Overrides
  BY <1>5, <1>r DEF SaveAction, Overrides, DraftMoves
<1>6. ASSUME NEW m \in Msgs,
             ChatRead(m) \/ ChatReserve(m) \/ ChatPrepare(m) \/ ChatComplete(m) \/ ChatFail(m)
      PROVE  Calm
  BY <1>6, <1>n DEF ChatRead, ChatReserve, ChatPrepare, ChatComplete, ChatFail, Calm
<1>7. ASSUME NEW m \in Msgs, ChatSave(m) PROVE Overrides
  BY <1>7, <1>n DEF ChatSave, Overrides, DraftMoves, NewData
<1>8. ASSUME NEW m \in Msgs, ChatSaveChecked(m) PROVE Edits
  BY <1>8 DEF ChatSaveChecked, Edits, DraftMoves, NewData
<1>9. ASSUME NEW e \in Execs, Stop(e) \/ Recover(e) PROVE Overrides
  BY <1>9, <1>n DEF Stop, Recover, Overrides, DraftMoves, draftVars, actVars
<1>10. ASSUME NEW e \in Execs, LeaseOver(e) PROVE Calm
  BY <1>10, <1>n DEF LeaseOver, Calm
<1> QED BY <1>1, <1>2, <1>3, <1>4, <1>5, <1>6, <1>7, <1>8, <1>9, <1>10
        DEF Next, RequestStep, ChatStep

LEMMA SubmissionStep == TypeOK /\ Submission /\ Next => Submission'
<1> SUFFICES ASSUME TypeOK, Submission, Next PROVE Submission'
  OBVIOUS
<1>m. \/ Calm \/ Overrides \/ Edits
      \/ \E r \in Requests, k \in Keys : Confirm(r, k)
      \/ \E r \in Requests : Write(r)
  BY ActionMoves
<1>l. lost => lost'
  <2>1. ASSUME Track, lost PROVE lost'
    BY <2>1 DEF Track
  <2>2. ASSUME NEW r \in Requests, NEW k \in Keys, Confirm(r, k) PROVE lost' = lost
    BY <2>2 DEF Confirm, histVars
  <2>3. ASSUME NEW r \in Requests, Write(r) PROVE lost' = lost
    BY <2>3 DEF Write, histVars
  <2>4. ASSUME Calm \/ Edits PROVE lost' = lost
    BY <2>4 DEF Calm, Edits
  <2>5. ASSUME Overrides PROVE Track
    BY <2>5 DEF Overrides
  <2> QED BY <1>m, <2>1, <2>2, <2>3, <2>4, <2>5
<1> SUFFICES ASSUME ~lost, ~lost'
             PROVE  /\ ~Detached'
                    /\ \A j, k \in Keys : Used(j)' /\ Used(k)' => j = k
                    /\ \A r \in Requests : pc'[r] = "writing" => copy'[r] = Draft'
  BY <1>l DEF Submission
<1>s. /\ ~Detached
      /\ \A j, k \in Keys : Used(j) /\ Used(k) => j = k
      /\ \A r \in Requests : pc[r] = "writing" => copy[r] = Draft
  BY DEF Submission
<1>w. NoNewWriter => \A k \in Keys : Writing(k)' => Writing(k)
  BY DEF NoNewWriter, Writing
<1>k. \A r \in Requests : pc[r] = "writing" => key[r] \in Keys /\ Writing(key[r])
  BY DEF TypeOK, Writing
<1>o. Editable => \A k \in Keys : ~Used(k)
  BY <1>s DEF Detached, Editable, Used
<1> DEFINE Goal == /\ ~Detached'
                   /\ \A j, k \in Keys : Used(j)' /\ Used(k)' => j = k
                   /\ \A r \in Requests : pc'[r] = "writing" => copy'[r] = Draft'
<1>1. ASSUME Calm PROVE Goal
  <2>1. \A k \in Keys : Used(k)' => Used(k)
    BY <1>1, <1>w DEF Calm, Used
  <2>2. ~Detached'
    BY <1>1, <1>s, <1>w DEF Calm, actVars, Detached, Editable
  <2> QED BY <1>1, <1>s, <2>1, <2>2 DEF Calm, NoNewWriter, actVars, draftVars, Draft
<1>2. ASSUME Overrides PROVE Goal
  <2>1. ~Detached'
    BY <1>2 DEF Overrides, Track
  <2>2. \A k \in Keys : Used(k)' => Used(k)
    BY <1>2, <1>w DEF Overrides, Used
  <2>3. ASSUME NEW r \in Requests, pc'[r] = "writing" PROVE copy'[r] = Draft'
    <3>1. pc[r] = "writing" /\ key'[r] = key[r] /\ copy'[r] = copy[r]
      BY <1>2, <2>3 DEF Overrides, NoNewWriter
    <3>2. \E k \in Keys : Writing(k)'
      BY <1>k, <2>3, <3>1 DEF Writing
    <3>3. pending' = "submitting"
      BY <2>1, <3>2 DEF Detached
    <3> QED BY <1>2, <1>s, <3>1, <3>3 DEF Overrides, draftVars, Draft
  <2> QED BY <1>s, <2>1, <2>2, <2>3
<1>3. ASSUME Edits PROVE Goal
  <2>1. \A k \in Keys : ~Used(k) /\ ~Used(k)'
    BY <1>3, <1>o DEF Edits, Used, Writing
  <2>2. \A r \in Requests : pc[r] # "writing"
    BY <1>k, <2>1 DEF Used
  <2> QED BY <1>3, <2>1, <2>2 DEF Edits, Detached, Used
<1>4. ASSUME NEW r \in Requests, NEW k \in Keys, Confirm(r, k) PROVE Goal
  <2>1. Editable
    BY <1>4 DEF Confirm, Confirmable, Editable
  <2>2. \A q \in Requests : pc'[q] = "writing" => q = r
    BY <1>4, <1>k, <1>o, <2>1 DEF Confirm, Goto, Used, TypeOK
  <2>3. key'[r] = k /\ copy'[r] = Draft /\ pending' = "submitting" /\ UNCHANGED <<version, data, skus>>
    BY <1>4 DEF Confirm, TypeOK, draftVars
  <2>4. \A j \in Keys : Used(j)' => j = k
    BY <1>o, <2>1, <2>2, <2>3 DEF Used, Writing
  <2> QED BY <2>2, <2>3, <2>4 DEF Detached, Editable, Draft
<1>5. ASSUME NEW r \in Requests, Write(r) PROVE Goal
  <2>1. key[r] \in Keys /\ Used(key[r]) /\ pending = "submitting"
    BY <1>5, <1>k, <1>s DEF Write, Used, Detached
  <2>2. \A q \in Requests : pc'[q] = "writing" => pc[q] = "writing"
    BY <1>5 DEF Write, Goto, TypeOK
  <2>3. UNCHANGED <<key, copy, pending, version, data>>
    BY <1>5 DEF Write, actVars, draftVars
  <2>4. \A k \in Keys : skus'[k] > 0 => skus[k] > 0 \/ k = key[r]
    BY <1>5, <2>1 DEF Write, TypeOK
  <2>5. \A k \in Keys : Used(k)' => Used(k)
    BY <2>1, <2>2, <2>3, <2>4 DEF Used, Writing
  <2> QED BY <1>s, <2>1, <2>2, <2>3, <2>5 DEF Detached, Editable, Draft
<1> QED BY <1>1, <1>2, <1>3, <1>4, <1>5, ActionMoves

LEMMA UnambiguousStep == TypeOK /\ Unambiguous /\ Next => Unambiguous'
<1> DEFINE Goal ==
      /\ \A draft \in shown' : draft[1] <= version' /\ (draft[1] = version' => draft = Draft')
      /\ \A r \in Requests : pc'[r] = "writing" => seen'[r] = copy'[r]
<1> SUFFICES ASSUME TypeOK, Unambiguous, Next, ~overtaken' PROVE Goal
  BY DEF Unambiguous
<1>t. version \in Nat /\ data \in Nat /\ shown \subseteq Nat \X Nat
  BY DEF TypeOK
<1>n. TypeOK'
  BY NextTypes
<1>m. \/ Calm \/ Overrides \/ Edits
      \/ \E r \in Requests, k \in Keys : Confirm(r, k)
      \/ \E r \in Requests : Write(r)
  BY ActionMoves
<1>d. DraftMoves
  BY <1>m DEF Calm, Overrides, Edits, Confirm, Write, DraftMoves, actVars, histVars
<1>o. ~overtaken
  BY <1>d DEF DraftMoves, Overtakes
<1>s. /\ \A draft \in shown : draft[1] <= version /\ (draft[1] = version => draft = Draft)
      /\ \A r \in Requests : pc[r] = "writing" => seen[r] = copy[r]
  BY <1>o DEF Unambiguous
<1>1. \A draft \in shown' : draft[1] <= version' /\ (draft[1] = version' => draft = Draft')
  <2>1. CASE UNCHANGED draftVars
    BY <1>s, <2>1 DEF draftVars, Draft
  <2>2. CASE version' = version + 1 /\ shown' \subseteq shown \cup {Draft'}
    BY <1>s, <1>t, <2>2 DEF Draft
  <2>3. CASE Overtakes /\ shown' \subseteq shown \cup {Draft'}
    <3>1. version' \in Nat
      BY <1>n DEF TypeOK
    <3>2. \A draft \in shown : draft[1] >= version' => draft = Draft'
      BY <2>3 DEF Overtakes
    <3> QED BY <1>t, <2>3, <3>1, <3>2 DEF Draft
  <2> QED BY <1>d, <2>1, <2>2, <2>3 DEF DraftMoves
<1>2. ASSUME NEW q \in Requests, pc'[q] = "writing" PROVE seen'[q] = copy'[q]
  <2>1. CASE Calm \/ Overrides
    BY <1>2, <1>s, <2>1 DEF Calm, Overrides, NoNewWriter
  <2>2. CASE Edits
    BY <1>2, <1>s, <2>2 DEF Edits
  <2>3. ASSUME NEW r \in Requests, NEW k \in Keys, Confirm(r, k) PROVE seen'[q] = copy'[q]
    <3>1. CASE q = r
      <4>1. PICK draft \in shown : draft[1] = version /\ seen' = [seen EXCEPT ![r] = draft]
        BY <2>3 DEF Confirm
      <4>2. copy' = [copy EXCEPT ![r] = Draft] /\ draft = Draft
        BY <2>3, <1>s, <4>1 DEF Confirm
      <4> QED BY <3>1, <4>1, <4>2 DEF TypeOK
    <3>2. CASE q # r
      <4>1. pc[q] = "writing" /\ seen'[q] = seen[q] /\ copy'[q] = copy[q]
        BY <1>2, <2>3, <3>2 DEF Confirm, Goto, TypeOK
      <4> QED BY <1>s, <4>1
    <3> QED BY <3>1, <3>2
  <2>4. ASSUME NEW r \in Requests, Write(r) PROVE seen'[q] = copy'[q]
    <3>1. q # r /\ pc[q] = "writing" /\ seen'[q] = seen[q] /\ copy'[q] = copy[q]
      BY <1>2, <2>4 DEF Write, Goto, TypeOK
    <3> QED BY <1>s, <3>1
  <2> QED BY <1>m, <2>1, <2>2, <2>3, <2>4
<1> QED BY <1>1, <1>2

-----------------------------------------------------------------------------
LEMMA InitInv == Init => Inv
<1> SUFFICES ASSUME Init PROVE Inv
  OBVIOUS
<1>1. TypeOK
  BY InitTypes
<1>2. Reserving
  BY DEF Init, Reserving
<1>3. Submission
  BY DEF Init, Submission, Detached, Editable, Used, Writing
<1>4. Unambiguous
  BY DEF Init, Unambiguous, Draft
<1> QED BY <1>1, <1>2, <1>3, <1>4 DEF Inv

LEMMA NextInv == Inv /\ [Next]_vars => Inv'
<1> SUFFICES ASSUME Inv, [Next]_vars PROVE Inv'
  OBVIOUS
<1>1. CASE Next
  BY <1>1, NextTypes, ReservingStep, SubmissionStep, UnambiguousStep DEF Inv
<1>2. CASE UNCHANGED vars
  <2>1. TypeOK'
    BY NextTypes DEF Inv
  <2>2. Reserving'
    BY <1>2 DEF Inv, Reserving, vars, execVars, chatVars
  <2>3. Submission'
    BY <1>2 DEF Inv, Submission, Detached, Editable, Used, Writing, Draft, vars, actVars,
               draftVars, reqVars, histVars
  <2>4. Unambiguous'
    BY <1>2 DEF Inv, Unambiguous, Draft, vars, actVars, draftVars, reqVars, histVars
  <2> QED BY <2>1, <2>2, <2>3, <2>4 DEF Inv
<1> QED BY <1>1, <1>2

LEMMA InvHolds == Spec => []Inv
BY InitInv, NextInv, PTL DEF Spec

\* Every variable keeps its type: a request has a key as long as it goes on, and a lease
\* is only over for an active execution.
THEOREM AgentTypeCorrect == Spec => []TypeOK
<1>1. Inv => TypeOK
  BY DEF Inv
<1> QED BY InvHolds, <1>1, PTL

\* At most one key has a SKU: what the set of such keys has in common.
LEMMA OneKey ==
  ASSUME \A j, k \in Keys : Used(j) /\ Used(k) => j = k
  PROVE  Cardinality({k \in Keys : skus[k] > 0}) <= 1
<1> DEFINE K == {k \in Keys : skus[k] > 0}
<1>1. CASE K = {}
  BY <1>1, FS_EmptySet
<1>2. CASE K # {}
  <2>1. PICK k : k \in K
    BY <1>2
  <2>2. K = {k}
    BY <2>1 DEF Used
  <2> QED BY <2>2, FS_Singleton
<1> QED BY <1>1, <1>2

\* However often and with however many keys an action is confirmed, it gives one SKU,
\* unless a submission that has written, or still may, was let go.
THEOREM OneSku == Spec => []OneSkuUnlessLost
<1>1. Inv => OneSkuUnlessLost
  BY OneKey DEF Inv, Submission, OneSkuUnlessLost
<1> QED BY InvHolds, <1>1, PTL

\* An execution that has ended changes only from a failure, or a cancellation, to a
\* success, when the SKU of its key is found.
THEOREM EndsOnlyToSuccess == Spec => EndChangesOnlyToSuccess
<1>1. Inv /\ [Next]_vars => [EndsOnce]_vars
  BY EndsStep DEF Inv
<1>2. [EndsOnce]_vars <=>
        [\A e \in Execs :
           exec[e] \in Over /\ exec'[e] # exec[e] =>
             /\ exec[e] # "succeeded" /\ exec'[e] = "succeeded"
             /\ e \in Keys /\ skus[e] > 0]_vars
  BY DEF EndsOnce
<1> QED BY InvHolds, <1>1, <1>2, PTL DEF Spec, EndChangesOnlyToSuccess

\* The SKU gets the data that its user saw when confirming, unless an entity read before
\* was saved over a draft shown since (overtaken); and nobody edits, cancels or confirms
\* the action before its SKU is written, unless its submission was let go (lost).
THEOREM WritesShown == Spec => WritesWhatIsShown
<1> DEFINE Shown ==
      \A r \in Requests :
        pc[r] = "writing" /\ skus'[key[r]] # skus[key[r]] =>
          /\ overtaken \/ seen[r] = copy[r]
          /\ lost \/ (pending = "submitting" /\ Draft = copy[r])
<1>1. ASSUME Inv, NEW r \in Requests, pc[r] = "writing"
      PROVE  /\ overtaken \/ seen[r] = copy[r]
             /\ lost \/ (pending = "submitting" /\ Draft = copy[r])
  <2>1. key[r] \in Keys /\ Writing(key[r])
    BY <1>1 DEF Inv, TypeOK, Writing
  <2>2. overtaken \/ seen[r] = copy[r]
    BY <1>1 DEF Inv, Unambiguous
  <2>3. lost \/ (pending = "submitting" /\ Draft = copy[r])
    BY <1>1, <2>1 DEF Inv, Submission, Detached
  <2> QED BY <2>2, <2>3
<1>2. Inv /\ [Next]_vars => [Shown]_vars
  BY <1>1
<1> QED BY InvHolds, <1>2, PTL DEF Spec, WritesWhatIsShown
=============================================================================
