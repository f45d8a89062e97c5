----------------------------- MODULE Connection -----------------------------
(***************************************************************************)
(* The socket under a session or a key exchange:                           *)
(* src/src/core/connection.cpp.  The abridged protocol puts before every   *)
(* message its length in words: one byte, or the byte Escape (0x7f) and    *)
(* three bytes, least significant first.  onReadyRead cuts the bytes that  *)
(* have arrived into messages and queues each for processRpcAnswer.        *)
(*                                                                         *)
(* The server and TCP are the environment: the server writes messages from *)
(* Payloads, TCP delivers the bytes in order and in pieces of any size.    *)
(* One pass of the loop of onReadyRead is one ReadOnce; no other event is  *)
(* handled while reading is TRUE, and no byte arrives.                     *)
(*                                                                         *)
(* A definition marked "Mistake" is a plausible bug of the code modelled by*)
(* the definition that follows it; no other definition uses it.            *)
(***************************************************************************)
EXTENDS Integers, Sequences

CONSTANTS
  Base,          \* number of byte values (256)
  Escape,        \* announces a length of three bytes (0x7f)
  WordSize,      \* bytes in a word (4)
  Payloads,      \* messages the server may write, as sequences of bytes
  MaxFrames,     \* bound: messages written on all connections
  PieceSizes,    \* bound: sizes of the pieces TCP delivers, unless all that is left
  MaxConnects,   \* bound: calls of connectToServer
  WholeHeaders   \* BOOLEAN: does TCP deliver every header in one piece

Byte == 0..(Base - 1)

ASSUME FramingAssumption ==
  /\ Base \in Nat /\ Escape \in 1..(Base - 1) /\ WordSize \in Nat \ {0}
  /\ Payloads \subseteq Seq(Byte)
  /\ \A p \in Payloads : /\ Len(p) > 0 /\ Len(p) % WordSize = 0
                         /\ Len(p) \div WordSize < Base * Base * Base
  /\ PieceSizes \subseteq Nat \ {0}
  /\ MaxFrames \in Nat /\ MaxConnects \in Nat /\ WholeHeaders \in BOOLEAN

VARIABLES
  sock,       \* QAbstractSocket::state()
  available,  \* bytes in the socket's read buffer
  opLength,   \* mOpLength
  buffer,     \* mBuffer
  reading,    \* inside the loop of onReadyRead
  queued,     \* calls of processRpcAnswer queued so far
  wire,       \* headers and bodies not yet arrived, each one a sequence of bytes
  written,    \* history: the messages written on the current connection
  connects    \* calls of connectToServer

vars == <<sock, available, opLength, buffer, reading, queued, wire, written, connects>>

\* The length in front of a message of n words.
Header(n) ==
  IF n < Escape THEN <<n>>
  ELSE <<Escape, n % Base, (n \div Base) % Base, (n \div (Base * Base)) % Base>>

\* Mistake: the bytes of the length are taken for signed chars.
SignedOverwritten(old, bytes) ==
  IF bytes # <<>> /\ 2 * bytes[1] >= Base THEN bytes[1] - Base
  ELSE IF bytes # <<>> THEN bytes[1] ELSE old
\* Bytes read over a little-endian integer that was Escape or 0.
Overwritten(old, bytes) ==
  CASE Len(bytes) = 0 -> old
    [] Len(bytes) = 1 -> bytes[1]
    [] Len(bytes) = 2 -> bytes[1] + Base * bytes[2]
    [] OTHER          -> bytes[1] + Base * bytes[2] + Base * Base * bytes[3]

Least(m, n) == IF m < n THEN m ELSE n
Take(bytes, n) == SubSeq(bytes, 1, Least(n, Len(bytes)))
Drop(bytes, n) == SubSeq(bytes, Least(n, Len(bytes)) + 1, Len(bytes))

---------------------------------------------------------------------------
(* The socket. *)

\* connectToServer: QAbstractSocket::connectToHost drops what the socket still
\* had to read; the members of Connection stay as they are.
ConnectToServer ==
  /\ ~reading /\ sock = "unconnected" /\ connects < MaxConnects
  /\ sock' = "connecting"
  /\ connects' = connects + 1
  /\ available' = <<>> /\ wire' = <<>> /\ written' = <<>>
  /\ queued' = <<>>
  /\ UNCHANGED <<opLength, buffer, reading>>

OnConnected ==
  /\ ~reading /\ sock = "connecting"
  /\ sock' = "connected"
  /\ UNCHANGED <<available, opLength, buffer, reading, queued, wire, written, connects>>

\* The connection is refused or ends.  error() is not connected to onError, so
\* the reconnect timer is never started.
ConnectionLost ==
  /\ ~reading /\ sock # "unconnected"
  /\ sock' = "unconnected"
  /\ wire' = <<>>
  /\ UNCHANGED <<available, opLength, buffer, reading, queued, written, connects>>

---------------------------------------------------------------------------
(* onReadyRead. *)

\* Mistake: wait for the longest header.
WaitForHeader ==
  /\ ~reading /\ sock = "connected" /\ Len(available) >= 4
  /\ reading' = TRUE
  /\ UNCHANGED <<sock, available, opLength, buffer, queued, wire, written, connects>>

OnReadyRead ==
  /\ ~reading /\ sock = "connected" /\ available # <<>>
  /\ reading' = TRUE
  /\ UNCHANGED <<sock, available, opLength, buffer, queued, wire, written, connects>>

\* One pass: the length unless a message is under way, then as much of the
\* message as there is, then the call if it is complete.
\* Mistake: every pass reads a header, a message under way or not.
HeaderAlways ==
  IF Head(available) # Escape THEN 1 ELSE 1 + Least(3, Len(available) - 1)
HeaderSize ==
  IF opLength # 0 THEN 0
  ELSE IF Head(available) # Escape THEN 1
  ELSE 1 + Least(3, Len(available) - 1)

LengthRead ==
  IF opLength # 0 THEN opLength
  ELSE WordSize * (IF Head(available) # Escape THEN Head(available)
                   ELSE Overwritten(Escape, SubSeq(available, 2, HeaderSize)))

ReadOnce ==
  /\ reading /\ available # <<>>
  /\ LET body == Drop(available, HeaderSize)
         part == Take(body, LengthRead - Len(buffer))
         whole == buffer \o part
     IN  /\ available' = Drop(body, Len(part))
         /\ IF Len(whole) = LengthRead
              THEN /\ queued' = Append(queued, whole)
                   /\ opLength' = 0 /\ buffer' = <<>>
              ELSE /\ opLength' = LengthRead /\ buffer' = whole
                   /\ UNCHANGED queued
  /\ UNCHANGED <<sock, reading, wire, written, connects>>

EndOfReading ==
  /\ reading /\ available = <<>>
  /\ reading' = FALSE
  /\ UNCHANGED <<sock, available, opLength, buffer, queued, wire, written, connects>>

---------------------------------------------------------------------------
(* The server and TCP. *)

ServerWrites(p) ==
  /\ ~reading /\ sock = "connected" /\ Len(written) < MaxFrames
  /\ wire' = wire \o <<Header(Len(p) \div WordSize), p>>
  /\ written' = Append(written, p)
  /\ UNCHANGED <<sock, available, opLength, buffer, reading, queued, connects>>

\* The next n bytes of the first piece of the wire arrive.  With WholeHeaders a
\* header, which stands in front of its body, arrives in one piece.
Arrive(n) ==
  /\ ~reading /\ sock = "connected" /\ wire # <<>>
  /\ n \in 1..Len(Head(wire)) /\ (n \in PieceSizes \/ n = Len(Head(wire)))
  /\ WholeHeaders /\ Len(wire) % 2 = 0 => n = Len(Head(wire))
  /\ available' = available \o Take(Head(wire), n)
  /\ wire' = IF n = Len(Head(wire)) THEN Tail(wire)
             ELSE <<Drop(Head(wire), n)>> \o Tail(wire)
  /\ UNCHANGED <<sock, opLength, buffer, reading, queued, written, connects>>

LargestPiece ==
  IF wire = <<>> THEN 0 ELSE Len(Head(wire))

Init ==
  /\ sock = "unconnected" /\ available = <<>> /\ opLength = 0 /\ buffer = <<>>
  /\ reading = FALSE /\ queued = <<>> /\ wire = <<>> /\ written = <<>> /\ connects = 0

\* Everything but what the server writes.
Steps ==
  \/ ConnectToServer \/ OnConnected \/ ConnectionLost
  \/ OnReadyRead \/ ReadOnce \/ EndOfReading
  \/ \E n \in 1..LargestPiece : Arrive(n)

Next == Steps \/ \E p \in Payloads : ServerWrites(p)

Spec == Init /\ [][Next]_vars

\* The event loop and TCP go on; the server need not write and nobody need
\* connect.
Fairness ==
  /\ WF_vars(OnConnected) /\ WF_vars(OnReadyRead) /\ WF_vars(ReadOnce)
  /\ WF_vars(EndOfReading) /\ WF_vars(\E n \in 1..LargestPiece : Arrive(n))
FairSpec == Spec /\ Fairness

---------------------------------------------------------------------------
TypeOK ==
  /\ sock \in {"unconnected", "connecting", "connected"}
  /\ available \in Seq(Byte) /\ opLength \in Nat /\ buffer \in Seq(Byte)
  /\ reading \in BOOLEAN
  /\ queued \in Seq(Seq(Byte))
  /\ wire \in Seq(Seq(Byte)) /\ written \in Seq(Seq(Byte))
  /\ connects \in Nat

\* Whatever the pieces TCP delivers, processRpcAnswer gets exactly the messages
\* the server wrote, in order, none cut, joined or lost.
IsPrefixOf(s, t) == Len(s) <= Len(t) /\ \A i \in 1..Len(s) : s[i] = t[i]
MessagesIntact == IsPrefixOf(queued, written)

\* Nothing remains stuck in the buffers: once all that was written has arrived,
\* all of it is handed over.
Delivered ==
  written # <<>> ~> sock # "connected" \/ queued = written

\* session.cpp asserts the length of every message handed to it
\* (Q_ASSERT(len >= MINSZ && ...)): it is the length of a message of the server.
LengthsGenuine ==
  \A i \in 1..Len(queued) : \E p \in Payloads : Len(queued[i]) = Len(p)
=============================================================================
