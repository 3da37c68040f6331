--------------------------- MODULE PaidGeneration ---------------------------
(***************************************************************************)
(* What content generation promises, without processes, leases, versions,  *)
(* stops and crashes: a user has one order open at a time; a text, and     *)
(* then its cover, is asked for at most once, when its turn has come; it   *)
(* is delivered only if it was asked for and has not been given up, once   *)
(* and for all; and it is adopted only into the article it was ordered     *)
(* for, if nobody has changed that since.                                  *)
(*                                                                         *)
(* ContentGeneration implements this specification.                        *)
(***************************************************************************)
EXTENDS Naturals

CONSTANTS Tasks, Articles, Owner, None

VARIABLES
  text, cover,   \* how far the text and the cover of a task have come
  calls,         \* how often each was asked for
  artOf, base,   \* the article of a task, and what was in it at submission
  content        \* what is in an article

vars == <<text, cover, calls, artOf, base, content>>

Open(t) ==
  \/ text[t] \in {"pending", "running"}
  \/ text[t] = "succeeded" /\ cover[t] \in {"pending", "running"}

Submit(t, a) ==
  /\ text[t] = "absent"
  /\ \A u \in Tasks : Open(u) => Owner[artOf[u]] # Owner[a]
  /\ text' = [text EXCEPT ![t] = "pending"]
  /\ artOf' = [artOf EXCEPT ![t] = a]
  /\ base' = [base EXCEPT ![t] = content[a]]
  /\ UNCHANGED <<cover, calls, content>>

TakeText(t) ==
  /\ text[t] = "pending"
  /\ text' = [text EXCEPT ![t] = "running"]
  /\ UNCHANGED <<cover, calls, artOf, base, content>>

TakeCover(t) ==
  /\ text[t] = "succeeded" /\ cover[t] = "pending"
  /\ cover' = [cover EXCEPT ![t] = "running"]
  /\ UNCHANGED <<text, calls, artOf, base, content>>

\* Once its turn has come, even if it has been given up in the meantime.
Ask(t, k) ==
  /\ IF k = "text" THEN text[t] \notin {"absent", "pending"}
     ELSE cover[t] \notin {"none", "pending"}
  /\ calls[t][k] = 0
  /\ calls' = [calls EXCEPT ![t][k] = 1]
  /\ UNCHANGED <<text, cover, artOf, base, content>>

\* A text that is delivered may have a cover still to come.
EndText(t) ==
  /\ text[t] = "running"
  /\ \/ /\ calls[t]["text"] = 1
        /\ text' = [text EXCEPT ![t] = "succeeded"]
        /\ \E c \in {"none", "pending"} : cover' = [cover EXCEPT ![t] = c]
     \/ /\ \E o \in {"failed", "interrupted"} : text' = [text EXCEPT ![t] = o]
        /\ UNCHANGED cover
  /\ UNCHANGED <<calls, artOf, base, content>>

EndCover(t) ==
  /\ cover[t] = "running"
  /\ \E o \in {"succeeded", "failed", "interrupted"} :
       /\ o = "succeeded" => calls[t]["cover"] = 1
       /\ cover' = [cover EXCEPT ![t] = o]
  /\ UNCHANGED <<text, calls, artOf, base, content>>

\* Texts and covers nobody seems to be working on any more.
GiveUp(texts, covers) ==
  /\ \A t \in texts : text[t] = "running"
  /\ \A t \in covers : cover[t] = "running"
  /\ text' = [t \in Tasks |-> IF t \in texts THEN "interrupted" ELSE text[t]]
  /\ cover' = [t \in Tasks |-> IF t \in covers THEN "interrupted" ELSE cover[t]]
  /\ UNCHANGED <<calls, artOf, base, content>>

Edit(a) ==
  /\ content' = [content EXCEPT ![a] = @ + 1]
  /\ UNCHANGED <<text, cover, calls, artOf, base>>

Adopt(t) ==
  /\ text[t] = "succeeded" /\ ~Open(t)
  /\ content[artOf[t]] = base[t]
  /\ text' = [text EXCEPT ![t] = "adopted"]
  /\ content' = [content EXCEPT ![artOf[t]] = @ + 1]
  /\ UNCHANGED <<cover, calls, artOf, base>>

Init ==
  /\ text = [t \in Tasks |-> "absent"] /\ cover = [t \in Tasks |-> "none"]
  /\ calls = [t \in Tasks |-> [k \in {"text", "cover"} |-> 0]]
  /\ artOf = [t \in Tasks |-> None] /\ base = [t \in Tasks |-> 0]
  /\ content = [a \in Articles |-> 0]

Next ==
  \/ \E t \in Tasks :
       \/ \E a \in Articles : Submit(t, a)
       \/ \E k \in {"text", "cover"} : Ask(t, k)
       \/ TakeText(t) \/ TakeCover(t) \/ EndText(t) \/ EndCover(t) \/ Adopt(t)
  \/ \E texts, covers \in SUBSET Tasks : GiveUp(texts, covers)
  \/ \E a \in Articles : Edit(a)

Spec == Init /\ [][Next]_vars
=============================================================================
