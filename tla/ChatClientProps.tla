-------------------------- MODULE ChatClientProps --------------------------
(***************************************************************************)
(* What is claimed of the chat client and the server together.             *)
(***************************************************************************)
EXTENDS ChatClient

\* Every client joins under some nickname: an empty one, which smsg.c:308 lets
\* through, is taken for a request to leave.
NicknamesGiven ==
  \A c \in Conns : \A cmd \in Cmds[c] : cmd.op = "CHATDOOR" => cmd.arg # EmptyString

\* Every variable of the clients holds a value of its type, and the picture a
\* client shows always has a nickname in it (clchat.c:491,
\* 1211, 1217; strcmp() and strdup() get it).
ClientTypeOK ==
  /\ fromServer \in [Conns -> Seq(Message)]
  /\ stage \in [Conns -> Stages]
  /\ nick \in [Conns -> Strings \cup {NoString}]
  /\ flags \in [Conns -> SUBSET {"AWAY", "OPERATOR"}]
  /\ culist \in [Conns -> SUBSET [nick : Strings, marks : SUBSET {"AWAY", "OPERATOR"}]]
  /\ \A c \in Conns : stage[c] \in {"chatting", "leaving"} => nick[c] \in Strings

\* The client is in the room and still handles what it is told.
InRoom(c) == stage[c] = "chatting" /\ Present(User(c)) /\ MemberConn(User(c)) = c

\* Nothing is under way between the client and the server, in either direction.
Settled(c) ==
  /\ InRoom(c)
  /\ fromServer[c] = <<>> /\ toServer[c] = <<>> /\ Buffered(c) = {}

\* The names of everybody in the room, as a sidebar shows them.
NamesInRoom ==
  {[nick |-> NickOf(u), marks |-> NameMarks(u)] : u \in {v \in Users : Present(v)}}

\* The sidebar "contains the nicknames of everyone currently in chat"
\* (clchat.c:131) once everything sent has been handled: every change in the
\* room reaches the client and makes it ask again (req_who), and the last
\* answer to arrive is never older than the last change.
SidebarIsTrue ==
  \A c \in Conns : Settled(c) => culist[c] = NamesInRoom

\* The nickname known after the messages q, when it was known before.
KnownAfter(known, q) ==
  LET after[n \in 0..Len(q)] == IF n = 0 THEN known ELSE LearnNick(after[n - 1], q[n])
  IN  after[Len(q)]

\* The nickname the client will know when it has handled what is under way.
NickToCome(c) == KnownAfter(nick[c], fromServer[c])

\* At every moment the nickname in the status bar, with the messages under
\* way applied, is the one the server has for the user: the client tells
\* notices about itself from those about others by a nickname that may have
\* changed, or be somebody else's, by the time it reads them (clchat.c:1214-1219).
NickCatchesUp == \A c \in Conns : InRoom(c) => NickToCome(c) = NickOf(User(c))

\* client.c:394: a refused leave "should NOT happen": whatever the other
\* programs do before the leave arrives, the answer is never a NAK.
LeaveIsNotRefused ==
  \A c \in Conns : stage[c] = "leaving" =>
    \A k \in 1..Len(fromServer[c]) : fromServer[c][k] # NAK
=============================================================================
