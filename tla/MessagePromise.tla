--------------------------- MODULE MessagePromise ---------------------------
(***************************************************************************)
(* What a session promises of the messages of its server.  They are taken  *)
(* in the order they were sent, each once; of one the program is told      *)
(* nothing, because its date is wrong, or what is due, of which an answer  *)
(* depends on what was told before.  What it has been told stays.  Nothing *)
(* is promised about when, nor of what stands behind an item that is       *)
(* misread.                                                                *)
(***************************************************************************)
EXTENDS Items

CONSTANT Messages

VARIABLES
  sent,  \* the messages, in order
  told   \* of each of the first of them what the program was told

vars == <<sent, told>>

Init == sent = <<>> /\ told = <<>>

Send(m) == sent' = Append(sent, m) /\ UNCHANGED told

Taken(t) ==
  /\ Len(told) < Len(sent)
  /\ told' = Append(told, t)
  /\ UNCHANGED sent

Discard == Taken(<<>>)

\* The queries of which the program has been told no answer.
Unanswered == {id \in DOMAIN Queries : \A j \in DOMAIN told : \A i \in DOMAIN told[j] : told[j][i].id # id}
Tell ==
  /\ Len(told') > Len(told)
  /\ LET t == told'[Len(told) + 1]
     IN Taken(t) /\ Truly(t, Unanswered, sent[Len(told) + 1])

Next == (\E m \in Messages : Send(m)) \/ Discard \/ Tell
Spec == Init /\ [][Next]_vars
=============================================================================
