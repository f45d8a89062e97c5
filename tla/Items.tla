------------------------------- MODULE Items --------------------------------
(***************************************************************************)
(* The items of messages as both sides see them, without bytes: what the   *)
(* program is to be told of a message.                                     *)
(***************************************************************************)
EXTENDS Integers, Sequences

CONSTANTS
  TL_RpcError, TL_NewSessionCreated, TL_UpdateShortMessage, TL_Updates, TL_UpdatesCombined,
  Queries         \* the queries sent: id -> [op, fields, reads], where fields is the
                  \* type of the answer op and reads what onAnswer fetches of it

DirectOps == {TL_NewSessionCreated, TL_UpdateShortMessage, TL_Updates, TL_UpdatesCombined}
IsAnswer(item) == item.form \in {"result", "packedResult"}
NoQuery == 0

\* The handlers that do not read just what was sent: that of updatesCombined reads
\* an update more, and some onAnswer leave the last fields of an answer unread,
\* which matters unless the answer is in an archive of its own.
Misread(item) ==
  IF IsAnswer(item)
    THEN item.form = "result" /\ item.op # TL_RpcError
         /\ Queries[item.id].reads # Queries[item.id].fields
    ELSE item.op = TL_UpdatesCombined
Misreads(m) == \E i \in DOMAIN m : Misread(m[i])

\* Of the queries asked those that no item in front of the i-th of m answers.
StillAsked(asked, m, i) ==
  {id \in asked : \A j \in 1..(i - 1) : IsAnswer(m[j]) => m[j].id # id}
\* Is the program to be told the i-th item.
IsDue(asked, m, i) ==
  /\ \A j \in 1..(i - 1) : ~Misread(m[j])
  /\ IF IsAnswer(m[i]) THEN m[i].id \in StillAsked(asked, m, i) ELSE m[i].op \in DirectOps
Due(asked, m) ==
  LET due[i \in 0..Len(m)] ==
        IF i = 0 THEN <<>> ELSE IF IsDue(asked, m, i) THEN Append(due[i - 1], m[i]) ELSE due[i - 1]
  IN due[Len(m)]
Tells(told, item) ==
  /\ told.op = item.op
  /\ told.got = SubSeq(item.values, 1, Len(told.got))
  /\ IF IsAnswer(item)
       THEN told.id = item.id /\ (item.op # TL_RpcError => Len(told.got) = Len(Queries[item.id].reads))
       ELSE told.id = NoQuery /\ Len(told.got) = Len(item.values)

\* What the program was told, t, holds what is due of m, as it was sent, and more only
\* behind an item that is misread.
Truly(t, asked, m) ==
  LET due == Due(asked, m) IN
  /\ Len(t) >= Len(due) /\ \A i \in DOMAIN due : Tells(t[i], due[i])
  /\ Len(t) > Len(due) => Misreads(m)
=============================================================================
