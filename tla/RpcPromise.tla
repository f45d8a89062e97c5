----------------------------- MODULE RpcPromise -----------------------------
(***************************************************************************)
(* What the RPC layer promises to the Api above it: a query is issued once,*)
(* the server executes it at most once, and the handlers of the query are  *)
(* told at most once, and told what the server really did.  Nothing is     *)
(* promised about when: a query may stay without an answer.                *)
(***************************************************************************)
CONSTANTS Queries, Outcomes

VARIABLES
  issued,    \* the queries handed to a session
  executed,  \* what the server did: <<>>, or <<outcome>>
  told       \* what the handlers were told: <<>>, or <<outcome>>

vars == <<issued, executed, told>>

Init ==
  /\ issued = {}
  /\ executed = [q \in Queries |-> <<>>]
  /\ told = [q \in Queries |-> <<>>]

Issue(q) ==
  /\ q \notin issued
  /\ issued' = issued \cup {q}
  /\ UNCHANGED <<executed, told>>

Execute(q, o) ==
  /\ q \in issued /\ executed[q] = <<>>
  /\ executed' = [executed EXCEPT ![q] = <<o>>]
  /\ UNCHANGED <<issued, told>>

Tell(q) ==
  /\ executed[q] # <<>> /\ told[q] = <<>>
  /\ told' = [told EXCEPT ![q] = executed[q]]
  /\ UNCHANGED <<issued, executed>>

Next == \E q \in Queries : Issue(q) \/ Tell(q) \/ \E o \in Outcomes : Execute(q, o)

Spec == Init /\ [][Next]_vars
=============================================================================
