----------------------------- MODULE ChatClient -----------------------------
(***************************************************************************)
(* The chat client, chatter() of src/src/client.c and chatter_func() of    *)
(* src/src/clchat.c, at the other end of every connection of SmsgServer.   *)
(*                                                                         *)
(* A client connects, joins and waits for one answer, then handles the     *)
(* server's messages and its user's keys in any order, and at the end      *)
(* leaves and waits for one answer.  It keeps a picture of the room: its   *)
(* own nickname and marks for the status bar, and the names of everybody   *)
(* for the sidebar.                                                        *)
(*                                                                         *)
(* recv() returns any number of the messages that arrived; the client      *)
(* handles them one after the other, each with the /who it may send, so a  *)
(* step handles one message.  Only the two waits for an answer throw       *)
(* messages away, and there the number matters.  A message arrives whole.  *)
(* Texts, the line editor and the screen are left out, and with them       *)
(* kicked, which only chooses a text.                                      *)
(***************************************************************************)
EXTENDS SmsgServerProps

CONSTANTS
  MaxBehind,     \* bound: messages a client has not read when somebody types
  WholeReads     \* bound: whether the server's recv() always ends between commands

ASSUME ClientAssumption ==
  /\ MaxBehind \in Nat \ {0}
  /\ WholeReads \in BOOLEAN
  /\ OneNameEach
  /\ \A c \in Conns : Names(c) # {}
  /\ \A c \in Conns : \A cmd \in Cmds[c] :
       cmd.op = "CHATDOOR" => cmd.user # NoUser /\ cmd.arg # NoString

VARIABLES
  fromServer,    \* kernel: messages written by the server and not read
  stage,         \* how far chatter() is
  nick,          \* the nickname shown in the status bar
  flags,         \* the marks shown in the status bar
  culist         \* the names shown in the sidebar

pictureVars == <<nick, flags, culist>>
clientVars  == <<fromServer, stage, nick, flags, culist>>
systemVars  == <<vars, clientVars>>

Stages == {"off", "connected", "joining", "chatting", "leaving"}

SystemInit ==
  /\ Init
  /\ fromServer = [c \in Conns |-> <<>>]
  /\ stage = [c \in Conns |-> "off"]
  /\ nick = [c \in Conns |-> NoString]
  /\ flags = [c \in Conns |-> {}]
  /\ culist = [c \in Conns |-> {}]

\* The login name the program runs under.
User(c) == CHOOSE u \in Names(c) : TRUE

-----------------------------------------------------------------------------
(* The connection, seen from the client.                                   *)

\* recv() returns 0: everything was read and the server has closed.
Ended(c) == fromServer[c] = <<>> /\ ~Attached(c)

\* What is sent to a closed connection is lost.
Send(c, cmd) ==
  \/ PeerSend(c, cmd)
  \/ ~Attached(c) /\ out' = Quiet /\ UNCHANGED <<serverVars, sock, backlog, toServer, peer>>

\* A close() with input left unread resets the connection.
Hangup(c, left) ==
  /\ IF left # <<>> /\ Attached(c) THEN PeerReset(c) ELSE PeerClose(c)
  /\ fromServer' = [fromServer EXCEPT ![c] = <<>>]
  /\ stage' = [stage EXCEPT ![c] = "off"]
  /\ nick' = [nick EXCEPT ![c] = NoString]
  /\ flags' = [flags EXCEPT ![c] = {}]
  /\ culist' = [culist EXCEPT ![c] = {}]

After(c, n) == SubSeq(fromServer[c], n + 1, Len(fromServer[c]))

-----------------------------------------------------------------------------
(* chatter(): join.                                                        *)

Connect(c) ==
  /\ stage[c] = "off"
  /\ PeerConnect(c)
  /\ stage' = [stage EXCEPT ![c] = "connected"]
  /\ UNCHANGED <<fromServer, pictureVars>>

\* The client starts with the nickname it asks for.
AskToJoin(c) ==
  /\ stage[c] = "connected"
  /\ \E door \in {cmd \in Cmds[c] : cmd.op = "CHATDOOR"} :
       Send(c, door) /\ nick' = [nick EXCEPT ![c] = door.arg]
  /\ stage' = [stage EXCEPT ![c] = "joining"]
  /\ UNCHANGED <<fromServer, flags, culist>>

\* chatter_func() has a receive buffer of its own and never sees what chatter()
\* received beyond the answer.  The first thing it does is to ask for the list.
StartChatting(c, n) ==
  /\ stage' = [stage EXCEPT ![c] = "chatting"]
  /\ fromServer' = [fromServer EXCEPT ![c] = After(c, n)]
  /\ Send(c, [op |-> "C_WHO", user |-> NoUser, arg |-> NoString])
  /\ UNCHANGED pictureVars

\* One recv().  Only a NAK ends the client; a closed connection does not yet.
JoinAnswer(c) ==
  /\ stage[c] = "joining"
  /\ \/ \E n \in 1..Len(fromServer[c]) :
          IF Head(fromServer[c]) = NAK THEN Hangup(c, After(c, n)) ELSE StartChatting(c, n)
     \/ Ended(c) /\ StartChatting(c, 0)

-----------------------------------------------------------------------------
(* chatter_func(): the messages of the server.                             *)

\* Slip: a refused nickname is taken for the answer.
LearnNickRefusedSlip(known, m) ==
  CASE m.op = "C_NICK" /\ m.form \in {"reply", "denied"}              -> m.nick
    [] m.op = "C_NICK" /\ m.form = "notice" /\ m.other = known       -> m.nick
    [] OTHER                                                         -> known

\* Slip: only an answer is believed, not the notice that everybody gets.
LearnNickSlip(known, m) == IF m.op = "C_NICK" /\ m.form = "reply" THEN m.nick ELSE known

\* One's own nickname: an answer, or a notice whose old nickname is one's own.
LearnNick(known, m) ==
  CASE m.op = "C_NICK" /\ m.form = "reply"                           -> m.nick
    [] m.op = "C_NICK" /\ m.form = "notice" /\ m.other = known       -> m.nick
    [] OTHER                                                         -> known

\* One's own marks, by the nickname known at that moment.
LearnFlags(known, marks, m) ==
  CASE m.op \in {"C_OPER", "C_OP"} /\ m.form = "notice" /\ m.nick = known -> marks \cup {"OPERATOR"}
    [] m.op = "C_DEOP" /\ m.form = "notice" /\ m.nick = known             -> marks \ {"OPERATOR"}
    [] m.op = "C_AWAY" /\ m.form = "yes" /\ m.nick = known                -> marks \cup {"AWAY"}
    [] m.op = "C_AWAY" /\ m.form = "no" /\ m.nick = known                 -> marks \ {"AWAY"}
    [] OTHER                                                              -> marks

\* An answer to /who, unless it lists the system.
LearnNames(names, m) ==
  IF m.op = "C_WHO" /\ m.what # WHO_SYSTEM
    THEN {[nick |-> item.nick, marks |-> item.marks] : item \in m.room} ELSE names

\* Slip: one of the messages that change a name is forgotten.
AsksWhoSlip(m) == m.op \in {"C_DOOR", "C_AWAY", "C_NICK", "C_DEOP", "C_KICK", "C_OP"}

\* req_who: the messages after which the sidebar is asked for again.
AsksWho(m) == m.op \in {"C_DOOR", "C_AWAY", "C_OPER", "C_NICK", "C_DEOP", "C_KICK", "C_OP"}

HandleMessage(c) ==
  /\ stage[c] = "chatting" /\ fromServer[c] # <<>>
  /\ LET m == Head(fromServer[c])
     IN  /\ nick' = [nick EXCEPT ![c] = LearnNick(@, m)]
         /\ flags' = [flags EXCEPT ![c] = LearnFlags(nick[c], @, m)]
         /\ culist' = [culist EXCEPT ![c] = LearnNames(@, m)]
         /\ IF AsksWho(m)
              THEN Send(c, [op |-> "C_WHO", user |-> NoUser, arg |-> NoString])
              ELSE out' = Quiet /\ UNCHANGED <<serverVars, sock, backlog, toServer, peer>>
  /\ fromServer' = [fromServer EXCEPT ![c] = After(c, 1)]
  /\ UNCHANGED stage

\* The loop ends with -2, and chatter() does not ask to leave.
ServerGone(c) == stage[c] = "chatting" /\ Ended(c) /\ Hangup(c, <<>>)

-----------------------------------------------------------------------------
(* chatter_func(): the keys; chatter(): leave.                             *)

\* The commands the client sends; banning is switched off in the client, and
\* a private message needs a recipient.
Typed(c) ==
  {cmd \in Cmds[c] :
     /\ cmd.op \in {"C_PSAY", "C_SAY", "C_ME", "C_AWAY", "C_WHO", "C_BEEP", "C_DEOP",
                    "C_KICK", "C_NICK", "C_OP", "C_OPER"}
     /\ cmd.op = "C_PSAY" => cmd.arg # NoString}

\* Bound: somebody types when nobody is far behind and the server has handled
\* what the own client sent.
KeptUp(c) ==
  /\ \A d \in Conns : Len(fromServer[d]) < MaxBehind
  /\ toServer[c] = <<>> /\ Buffered(c) = {}

Type(c) ==
  /\ stage[c] = "chatting" /\ KeptUp(c)
  /\ \E cmd \in Typed(c) : Send(c, cmd)
  /\ UNCHANGED clientVars

\* /quit: CHATDOOR with the user name only (with a reason the alias is empty).
Quit(c) ==
  /\ stage[c] = "chatting"
  /\ Send(c, [op |-> "CHATDOOR", user |-> User(c), arg |-> NoString])
  /\ stage' = [stage EXCEPT ![c] = "leaving"]
  /\ UNCHANGED <<fromServer, pictureVars>>

\* One recv(), whatever it brings; then the connection is closed.
LeaveAnswer(c) ==
  /\ stage[c] = "leaving"
  /\ \/ \E n \in 1..Len(fromServer[c]) : Hangup(c, After(c, n))
     \/ Ended(c) /\ Hangup(c, <<>>)

\* The process is killed; by SIGPIPE too, when it sends to a closed connection.
Killed(c) == stage[c] # "off" /\ Hangup(c, fromServer[c])

-----------------------------------------------------------------------------
Client(c) ==
  \/ Connect(c) \/ AskToJoin(c) \/ JoinAnswer(c)
  \/ HandleMessage(c) \/ ServerGone(c)
  \/ Type(c) \/ Quit(c) \/ LeaveAnswer(c) \/ Killed(c)

\* The server unchanged; what it writes waits at the client, if there still is one.
ServerStep ==
  /\ Server
  /\ WholeReads => \A i \in Slots : ~clients'[i].part
  /\ fromServer' = [c \in Conns |-> IF peer[c] = "up" THEN fromServer[c] \o out'[c] ELSE <<>>]
  /\ UNCHANGED <<stage, pictureVars>>

SystemNext == ServerStep \/ \E c \in Conns : Client(c)

SystemSpec == SystemInit /\ [][SystemNext]_systemVars
=============================================================================
