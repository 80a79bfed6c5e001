-------------------------- MODULE NetStreamProps ---------------------------
(***************************************************************************)
(* What is claimed of the streams of commands.                             *)
(***************************************************************************)
EXTENDS NetStream

EncodeAll(cmds) == FlattenSeq([k \in 1..Len(cmds) |-> Encode(cmds[k])])

\* The rest of what was told is for the receiver to read.
Unsent(c) ==
  FlattenSeq([k \in 1..Len(outbox) |-> IF outbox[k].to = c THEN outbox[k].bytes ELSE <<>>])

\* Whatever way the kernel cuts the streams, every byte of every command is in
\* exactly one place, in order: what was said is what was handled, followed by
\* what waits in the receiver's buffer, the kernel and the sender; and what was
\* handled is what was said, argument by argument (ncmd.c:104-174, 223-254).
NothingLostOrTwice ==
  \A c \in Clients :
    /\ IsPrefix(handled[c], said[c]) /\ IsPrefix(heard[c], told[c])
    /\ EncodeAll(said[c]) = EncodeAll(handled[c]) \o sbuf[c] \o up[c] \o sending[c]
    /\ EncodeAll(told[c]) = EncodeAll(heard[c]) \o rbuf[c] \o down[c] \o Unsent(c)

FirstWhole(cmds, done, buf) ==
  IF Len(done) < Len(cmds) /\ Len(Encode(cmds[Len(done) + 1])) <= Len(buf)
    THEN Len(Encode(cmds[Len(done) + 1])) ELSE 0

\* A command is found whole exactly when its last byte has arrived
\* (ncmd.c:104-122).
FramingIsExact ==
  \A c \in Clients :
    /\ NcmdIsComplete(sbuf[c]) = FirstWhole(said[c], handled[c], sbuf[c])
    /\ NcmdIsComplete(rbuf[c]) = FirstWhole(told[c], heard[c], rbuf[c])

\* smsgwho counts everybody in the room, neither the argument it sent nor half
\* an answer (smsgwho.c:119-134, servchat.c:321-355).
CountIsRight == \A c \in Askers : mode[c] = "done" => counted[c] = Cardinality(Chatters)

-----------------------------------------------------------------------------
(* The types, and what the claims above rest on.                           *)

Byte == 0..255
Word == {v \in Nat : v < 65536}
Long == {v \in Nat : v \div 65536 < 65536}

\* What can be written as bytes and read again: numbers of two and four bytes.
Commands == [op   : Word,
             args : {q \in Seq(Seq(Byte)) : Len(q) \in Word /\ \A k \in 1..Len(q) : Len(q[k]) \in Long}]

Requests == {Command(C_WHO, <<>>), MagicWho, Command(C_SAY, <<<<65>>>>), Command(C_AWAY, <<>>)}

TypeOK ==
  /\ up \in [Clients -> Seq(Byte)] /\ down \in [Clients -> Seq(Byte)]
  /\ sbuf \in [Clients -> Seq(Byte)] /\ rbuf \in [Clients -> Seq(Byte)]
  /\ sending \in [Clients -> Seq(Byte)]
  /\ outbox \in Seq([to : Clients, bytes : Seq(Byte)])
  /\ mode \in [Clients -> {"loop", "got", "done"}] /\ counted \in [Askers -> Nat]
  /\ said \in [Clients -> Seq(Requests)] /\ handled \in [Clients -> Seq(Requests)]
  /\ told \in [Clients -> Seq(Commands)] /\ heard \in [Clients -> Seq(Commands)]

\* smsgwho is not in the room: it says one thing, and nothing that is passed
\* on in the room reaches it, only the list it asked for (servchat.c:321-355,
\* smsgwho.c:109-134).
OnlyTheList ==
  \A c \in Askers : said[c] = <<MagicWho>> /\ told[c] \in Seq({WhoAnswer(MagicWho)})

\* The inductive invariant.
StreamInv == TypeOK /\ OnlyTheList /\ NothingLostOrTwice /\ CountIsRight

-----------------------------------------------------------------------------
(* Progress.                                                               *)

Blocked(c) == sending[c] # <<>> /\ Room(up[c]) = 0

\* The server waits for a client that waits for the server.
Gridlock ==
  /\ outbox # <<>> /\ Room(down[outbox[1].to]) = 0
  /\ Blocked(outbox[1].to)

\* The only way for the server to wait for ever in a send() is that the client
\* it sends to waits in a send() to the server; then everybody waits for ever
\* (ncmd.c:230, clchat.c:1377).
ServerComesBack == outbox # <<>> ~> outbox = <<>> \/ []Gridlock

\* smsgwho gets its answer, however busy the room, unless the server and a
\* client wait for each other (smsgwho.c:119-130, server.c:612-686).
AskersAreAnswered == \A c \in Askers : <>(mode[c] = "done" \/ Gridlock)
=============================================================================
