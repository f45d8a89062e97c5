----------------------------- MODULE MCPackets ------------------------------
(***************************************************************************)
(* Packets with bytes 0..15 and words of two bytes, so that strings of 14  *)
(* bytes are long, and messages of 7 words have a header of four bytes.    *)
(***************************************************************************)
EXTENDS Packets

TheQueries ==
  (1 :> [op |-> 60, fields |-> <<"string">>, reads |-> <<"string">>]) @@
  \* auth.sentCode: the timeout of the call and isPassword stay unread
  (2 :> [op |-> 61, fields |-> <<"int", "string", "int", "int">>, reads |-> <<"int", "string">>])

\* The fields stand in the order TLC keeps them in, since its workers share these values.
Text(n) == SubSeq(<<1, 2, 3, 4, 5, 6, 7, 8, 9, 10, 11, 12, 13, 14>>, 1, n)
Direct(op, values) == [op |-> op, values |-> values, form |-> "direct", id |-> NoQuery]
Result(id, values) == [op |-> TheQueries[id].op, values |-> values, form |-> "result", id |-> id]
InArchive(item) == [item EXCEPT !.form = IF IsAnswer(item) THEN "packedResult" ELSE "packed"]

Session1 == Direct(45, <<7, 8, 9>>)
Message(n) == Direct(46, <<1, 2, Text(n), 3, 4, 5>>)
Invite(n) == Result(1, <<Text(n)>>)
SentCode == Result(2, <<1, Text(2), 60, 61>>)
Failed == [op |-> 43, values |-> <<99, Text(3)>>, form |-> "result", id |-> 1]

TheMessages ==
  { <<Message(13)>>,
    <<Invite(14), Direct(47, <<<<50>>, 1, 2>>)>>,
    <<InArchive(Invite(5)), Direct(49, <<7>>), Session1>>,
    <<InArchive(SentCode), Session1>>,
    <<Failed, InArchive(Session1)>>,
    <<SentCode, Session1>>,
    <<Session1, Direct(48, <<<<51>>, 1, 2, 3>>), Session1>> }
ThePayloads == {Envelope(m) : m \in TheMessages}
=============================================================================
