----------------------------- MODULE NetStream -----------------------------
(***************************************************************************)
(* The bytes between the server and its clients.  The kernel takes as many *)
(* bytes of a send() as it has room for and the sender waits for the rest  *)
(* (sendbuf, src/ncmd.c); a recv() returns what has arrived, however the   *)
(* commands were cut (recvbuf).  The server handles at most one command of *)
(* each recv() and sends its answers and notices one after the other; a    *)
(* chat client handles all that are whole and asks for the list of members *)
(* when a notice says that it changed; smsgwho asks once and waits.        *)
(*                                                                         *)
(* Chatters are in the room from the beginning.  Of the chat commands      *)
(* there are one that is passed on (say), one whose notice makes every     *)
(* client ask for the list (away), and who; names and texts have one byte. *)
(*                                                                         *)
(* An operator whose name ends in Slip is a plausible mistake in the       *)
(* definition below it; nothing uses it.                                   *)
(***************************************************************************)
EXTENDS Ncmd, FiniteSets, SequencesExt

CONSTANTS
  Chatters,        \* chat clients, numbered like their slots
  Askers,          \* runs of smsgwho
  SockBuf,         \* bytes the kernel holds for one direction of a connection
  LNCMD_BUF_SIZE,  \* recvbuf() asks for one byte less
  Cuts,            \* bound: pieces a recv() may return when more has been sent
  Typists,         \* bound: chatters who type
  MaxTyped         \* bound: commands typed by one chatter

Clients == Chatters \cup Askers

ASSUME StreamAssumption ==
  /\ Clients \subseteq 1..255 /\ Chatters \cap Askers = {}
  /\ IsFiniteSet(Clients)
  /\ SockBuf \in Nat \ {0} /\ LNCMD_BUF_SIZE \in Nat \ {0, 1}
  /\ Cuts \subseteq Nat \ {0} /\ Typists \subseteq Chatters /\ MaxTyped \in Nat

\* enum NCMDOp
C_AWAY == 13
C_SAY  == 29
C_WHO  == 31

VARIABLES
  up,        \* bytes in the kernel on their way to the server
  down,      \* and back
  sbuf,      \* clients[].buf of the server
  rbuf,      \* the receive buffer of a client
  sending,   \* what a client's send() still has to hand over
  outbox,    \* what the server's sends still have to: receiver and bytes
  mode,      \* a client in its "loop", handling what it "got", or "done"
  counted,   \* what smsgwho -c prints
  said, handled,   \* commands a client sent, and the server handled
  told, heard      \* commands the server sent, and a client handled

kernelVars  == <<up, down>>
historyVars == <<said, handled, told, heard>>
vars == <<up, down, sbuf, rbuf, sending, outbox, mode, counted, said, handled, told, heard>>

MagicWho  == Command(C_WHO, <<<<38>>>>)   \* MAGIC_WHO_ARG
FirstSaid(c) == IF c \in Askers THEN MagicWho ELSE Command(C_WHO, <<>>)

\* Everybody has connected, and asks who is there first of all.
Init ==
  /\ up = [c \in Clients |-> <<>>] /\ down = [c \in Clients |-> <<>>]
  /\ sbuf = [c \in Clients |-> <<>>] /\ rbuf = [c \in Clients |-> <<>>]
  /\ sending = [c \in Clients |-> Encode(FirstSaid(c))]
  /\ outbox = <<>>
  /\ mode = [c \in Clients |-> "loop"]
  /\ counted = [c \in Askers |-> 0]
  /\ said = [c \in Clients |-> <<FirstSaid(c)>>]
  /\ handled = [c \in Clients |-> <<>>]
  /\ told = [c \in Clients |-> <<>>]
  /\ heard = [c \in Clients |-> <<>>]

-----------------------------------------------------------------------------
(* The kernel.                                                             *)

Least(i, j) == IF i <= j THEN i ELSE j

Room(wire) == SockBuf - Len(wire)
Fits(wire, bytes) == SubSeq(bytes, 1, Least(Room(wire), Len(bytes)))
Rest(wire, bytes) == SubSeq(bytes, Least(Room(wire), Len(bytes)) + 1, Len(bytes))

\* How many bytes one recv() may return.
Pieces(wire) ==
  LET most == Least(Len(wire), LNCMD_BUF_SIZE - 1)
  IN  {k \in 1..most : k = most \/ k \in Cuts}

Piece(wire, k) == SubSeq(wire, 1, k)
After(wire, k) == SubSeq(wire, k + 1, Len(wire))

-----------------------------------------------------------------------------
(* The server.                                                             *)

\* The room in the order of the slots: a name and an address each.
Members ==
  CHOOSE m \in [1..Cardinality(Chatters) -> Chatters] : \A i, j \in DOMAIN m : i < j => m[i] < m[j]
RoomList == [k \in 1..(2 * Len(Members)) |-> <<Members[(k + 1) \div 2]>>]

\* Slip: whoever asks is listed, in the room or not.
WhoAnswerSlip(cmd) ==
  Command(C_WHO, (IF cmd.args = <<>> THEN <<>> ELSE <<cmd.args[1], <<>>, <<>>>>) \o RoomList)

WhoAnswer(cmd) ==
  Command(C_WHO, (IF cmd.args = <<>> THEN <<>> ELSE <<cmd.args[1]>>) \o RoomList)

To(c, cmd)     == <<[to |-> c, cmd |-> cmd]>>

\* Slip: every connection gets it, in the room or not.
ToRoomSlip(cmd) ==
  LET all == Members \o SetToSeq(Askers)
  IN  [k \in 1..Len(all) |-> [to |-> all[k], cmd |-> cmd]]

ToRoom(cmd)    == [k \in 1..Len(Members) |-> [to |-> Members[k], cmd |-> cmd]]

Replies(c, cmd) ==
  CASE cmd.op = C_WHO  -> To(c, WhoAnswer(cmd))
    [] cmd.op = C_SAY  -> ToRoom(Command(C_SAY, <<<<c>>, cmd.args[1]>>))
    [] cmd.op = C_AWAY -> ToRoom(Command(C_AWAY, <<<<1>>, <<c>>>>))

Bytes(reply) == [to |-> reply.to, bytes |-> Encode(reply.cmd)]

\* Nobody gets two commands at a time.
TellsTo(c, replies) ==
  LET n == SelectInSeq(replies, LAMBDA r : r.to = c)
  IN  IF n = 0 THEN <<>> ELSE <<replies[n].cmd>>

\* One recv() and at most one command; it is removed when its answers have
\* been handed over, and nothing reads the buffer until then.
Serve(c) ==
  /\ outbox = <<>> /\ up[c] # <<>>
  /\ \E k \in Pieces(up[c]) : \E buf \in {sbuf[c] \o Piece(up[c], k)} :
       /\ up' = [up EXCEPT ![c] = After(@, k)]
       /\ \/ /\ NcmdIsComplete(buf) = 0
             /\ sbuf' = [sbuf EXCEPT ![c] = buf]
             /\ UNCHANGED <<outbox, handled, told>>
          \/ /\ NcmdIsComplete(buf) > 0
             /\ sbuf' = [sbuf EXCEPT ![c] = NcmdRemove(buf)]
             /\ handled' = [handled EXCEPT ![c] = Append(@, Decode(buf))]
             /\ \E replies \in {Replies(c, Decode(buf))} :
                  /\ outbox' = [n \in DOMAIN replies |-> Bytes(replies[n])]
                  /\ told' = [d \in Clients |-> told[d] \o TellsTo(d, replies)]
  /\ UNCHANGED <<down, rbuf, sending, mode, counted, said, heard>>

\* The server's send() goes on as far as the receiver's buffer allows.
ServerSends ==
  /\ outbox # <<>>
  /\ LET c == outbox[1].to
         rest == Rest(down[c], outbox[1].bytes)
     IN  /\ Room(down[c]) > 0
         /\ down' = [down EXCEPT ![c] = @ \o Fits(@, outbox[1].bytes)]
         /\ outbox' = (IF rest = <<>> THEN <<>> ELSE <<[to |-> c, bytes |-> rest]>>) \o Tail(outbox)
  /\ UNCHANGED <<up, sbuf, rbuf, sending, mode, counted, historyVars>>

-----------------------------------------------------------------------------
(* The clients.                                                            *)

Sends(c, cmd) ==
  /\ sending' = [sending EXCEPT ![c] = Encode(cmd)]
  /\ said' = [said EXCEPT ![c] = Append(@, cmd)]

ClientSends(c) ==
  /\ sending[c] # <<>> /\ Room(up[c]) > 0
  /\ up' = [up EXCEPT ![c] = @ \o Fits(@, sending[c])]
  /\ sending' = [sending EXCEPT ![c] = Rest(up[c], @)]
  /\ UNCHANGED <<down, sbuf, rbuf, outbox, mode, counted, historyVars>>

Typed(c) == SelectSeq(said[c], LAMBDA cmd : cmd.op # C_WHO)

Type(c) ==
  /\ c \in Typists /\ mode[c] = "loop" /\ sending[c] = <<>>
  /\ Len(Typed(c)) < MaxTyped
  /\ \E cmd \in {Command(C_SAY, <<<<65>>>>), Command(C_AWAY, <<>>)} : Sends(c, cmd)
  /\ UNCHANGED <<up, down, sbuf, rbuf, outbox, mode, counted, handled, told, heard>>

\* recv() in the loop of either client.
ClientRecv(c) ==
  /\ mode[c] = "loop" /\ sending[c] = <<>> /\ down[c] # <<>>
  /\ \E k \in Pieces(down[c]) :
       /\ down' = [down EXCEPT ![c] = After(@, k)]
       /\ rbuf' = [rbuf EXCEPT ![c] = @ \o Piece(down[c], k)]
  /\ mode' = [mode EXCEPT ![c] = "got"]
  /\ UNCHANGED <<up, sbuf, sending, outbox, counted, historyVars>>

\* Slip: the client reads on only when nothing is left.
AgainSlip(c) ==
  /\ mode[c] = "got" /\ sending[c] = <<>> /\ rbuf[c] = <<>>
  /\ mode' = [mode EXCEPT ![c] = "loop"]
  /\ UNCHANGED <<kernelVars, sbuf, rbuf, sending, outbox, counted, historyVars>>

\* Nothing, or nothing more, is whole.
Again(c) ==
  /\ mode[c] = "got" /\ sending[c] = <<>> /\ NcmdIsComplete(rbuf[c]) = 0
  /\ mode' = [mode EXCEPT ![c] = "loop"]
  /\ UNCHANGED <<kernelVars, sbuf, rbuf, sending, outbox, counted, historyVars>>

\* The chat client handles a command; after a notice it asks for the list,
\* before it looks for the next one.
Hear(c) ==
  /\ c \in Chatters
  /\ mode[c] = "got" /\ sending[c] = <<>> /\ NcmdIsComplete(rbuf[c]) > 0
  /\ LET cmd == Decode(rbuf[c])
     IN  /\ heard' = [heard EXCEPT ![c] = Append(@, cmd)]
         /\ \/ cmd.op = C_AWAY /\ Sends(c, Command(C_WHO, <<>>))
            \/ cmd.op # C_AWAY /\ UNCHANGED <<sending, said>>
  /\ rbuf' = [rbuf EXCEPT ![c] = NcmdRemove(@)]
  /\ UNCHANGED <<kernelVars, sbuf, outbox, mode, counted, handled, told>>

\* smsgwho -c prints half the number of arguments.
Report(c) ==
  /\ c \in Askers
  /\ mode[c] = "got" /\ NcmdIsComplete(rbuf[c]) > 0
  /\ counted' = [counted EXCEPT ![c] = NcmdGetNumArgs(rbuf[c]) \div 2]
  /\ heard' = [heard EXCEPT ![c] = Append(@, Decode(rbuf[c]))]
  /\ rbuf' = [rbuf EXCEPT ![c] = NcmdRemove(@)]
  /\ mode' = [mode EXCEPT ![c] = "done"]
  /\ UNCHANGED <<kernelVars, sbuf, sending, outbox, said, handled, told>>

-----------------------------------------------------------------------------
Client(c) == ClientSends(c) \/ ClientRecv(c) \/ Again(c) \/ Hear(c) \/ Report(c)

Next ==
  \/ ServerSends
  \/ \E c \in Clients : Serve(c) \/ Client(c) \/ Type(c)

\* The server's loop serves every connection in turn, a program that can go on
\* does, and a person need not type.
Spec == Init /\ [][Next]_vars
FairSpec == Spec /\ WF_vars(ServerSends) /\ \A c \in Clients : WF_vars(Serve(c)) /\ WF_vars(Client(c))
=============================================================================
