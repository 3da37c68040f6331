------------------------ MODULE CustomerConversation ------------------------
(***************************************************************************)
(* What customer reception promises, without queues, limits, executors,    *)
(* transactions, failures or restarts: a conversation is with the AI, with *)
(* people, or closed; each question asked of the AI ends answered or       *)
(* unanswered, and it can only be answered while the conversation is still *)
(* with the AI and nobody has revoked the question.                        *)
(*                                                                         *)
(* CustomerService implements this specification.                          *)
(***************************************************************************)
CONSTANTS Sessions, Questions, None

VARIABLES
  mode,       \* who has the conversation
  stage,      \* how far a question has come
  askedIn     \* the conversation a question was asked in

vars == <<mode, stage, askedIn>>

Open(q)        == stage[q] \in {"waiting", "working", "revoked"}
QuestionsOf(s) == {q \in Questions : askedIn[q] = s}

Begin(s) ==
  /\ mode[s] = "absent"
  /\ mode' = [mode EXCEPT ![s] = "ai"]
  /\ UNCHANGED <<stage, askedIn>>

Ask(s, q) ==
  /\ mode[s] = "ai"
  /\ \A p \in QuestionsOf(s) : ~Open(p)
  /\ stage[q] = "none"
  /\ stage' = [stage EXCEPT ![q] = "waiting"]
  /\ askedIn' = [askedIn EXCEPT ![q] = s]
  /\ UNCHANGED mode

\* All open questions of a conversation are withdrawn at once: a waiting one is
\* over, one being worked on can no longer be answered.
Withdraw(s) ==
  stage' = [q \in Questions |->
              IF askedIn[q] # s THEN stage[q]
              ELSE IF stage[q] = "waiting" THEN "unanswered"
              ELSE IF stage[q] = "working" THEN "revoked"
              ELSE stage[q]]

\* The visitor cancels, or asks for a person; a person comes, or closes.
Cancel(s) == Withdraw(s) /\ UNCHANGED <<mode, askedIn>>

HandOver(s) ==
  /\ mode[s] \in {"ai", "people"}
  /\ \E m \in {"people", "closed"} : mode' = [mode EXCEPT ![s] = m]
  /\ Withdraw(s)
  /\ UNCHANGED askedIn

Return(s) ==
  /\ mode[s] = "people"
  /\ mode' = [mode EXCEPT ![s] = "ai"]
  /\ UNCHANGED <<stage, askedIn>>

\* Some waiting questions are taken up, some are given up.
Dispatch(up, gone) ==
  /\ \A q \in up \cup gone : stage[q] = "waiting"
  /\ stage' = [q \in Questions |->
                 IF q \in up THEN "working"
                 ELSE IF q \in gone THEN "unanswered"
                 ELSE stage[q]]
  /\ UNCHANGED <<mode, askedIn>>

Revoke(q) ==
  /\ stage[q] = "working"
  /\ stage' = [stage EXCEPT ![q] = "revoked"]
  /\ UNCHANGED <<mode, askedIn>>

Answer(q) ==
  /\ stage[q] = "working"
  /\ mode[askedIn[q]] = "ai"
  /\ stage' = [stage EXCEPT ![q] = "answered"]
  /\ UNCHANGED <<mode, askedIn>>

GiveUp(q) ==
  /\ stage[q] \in {"working", "revoked"}
  /\ stage' = [stage EXCEPT ![q] = "unanswered"]
  /\ UNCHANGED <<mode, askedIn>>

Init ==
  /\ mode = [s \in Sessions |-> "absent"]
  /\ stage = [q \in Questions |-> "none"]
  /\ askedIn = [q \in Questions |-> None]

Next ==
  \/ \E s \in Sessions :
       Begin(s) \/ Cancel(s) \/ HandOver(s) \/ Return(s) \/ \E q \in Questions : Ask(s, q)
  \/ \E up, gone \in SUBSET Questions : Dispatch(up, gone)
  \/ \E q \in Questions : Revoke(q) \/ Answer(q) \/ GiveUp(q)

Spec == Init /\ [][Next]_vars
=============================================================================
