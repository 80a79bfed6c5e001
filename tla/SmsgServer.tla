----------------------------- MODULE SmsgServer -----------------------------
(***************************************************************************)
(* The smsg server as a chat room: the select() loop of runserver()        *)
(* (src/src/server.c), the CHATDOOR command of ls_handle_netcmd() and the  *)
(* chat commands of handle_chatcmd() (src/src/servchat.c), together with   *)
(* the part of the kernel the loop talks to (descriptors, the listen       *)
(* queue, received bytes) and the programs at the other end.               *)
(*                                                                         *)
(* The server is one thread; its steps are one accept, or one recv with    *)
(* the handling it triggers.  Between any two of them the peers may        *)
(* connect, send, close or reset.                                          *)
(*                                                                         *)
(* A command is one value and travels as two fragments, so that a recv()   *)
(* may return a part of a command, several commands at once, or several    *)
(* and a part.  What the server writes is in out: per connection, the      *)
(* messages of the latest step.  Payload (texts, reasons) is left out.     *)
(*                                                                         *)
(* An operator whose name ends in Slip is a plausible mistake in the       *)
(* definition below it; nothing uses it, and README.md names the property  *)
(* that would notice.                                                      *)
(***************************************************************************)
EXTENDS Udata, FiniteSets

CONSTANTS
  Conns,              \* programs that may be connected to the server
  NoConn,             \* what a descriptor that is not open refers to
  Cmds,               \* [Conns -> set of commands]: what each program may send
  EmptyString,        \* "", which as an alias means "leave"
  LCS_OPER_PASSWORD,
  MAGIC_WHO_ARG,      \* lets /who work for a program outside the room
  WHO_SYSTEM,         \* /who argument 1: logged in users, not the room
  MAX_CLIENTS,        \* length of clients[]
  SERVER_BACKLOG,     \* length of the listen queue
  FdLimit,            \* descriptors the process may have for connections
  MaxUnread           \* bound: commands sent by one peer and not handled

ChatOps == {"C_NICK", "C_AWAY", "C_BEEP", "C_OPER", "C_PSAY", "C_SAY", "C_ME",
            "C_WHO", "C_BAN", "C_DEOP", "C_KICK", "C_OP", "C_UNBAN", "C_DOOR"}
ModOps  == {"C_BAN", "C_DEOP", "C_KICK", "C_OP", "C_UNBAN"}

\* "UNEXPECTED" stands for the opcodes the server has no case for.
Commands == [op   : ChatOps \cup {"CHATDOOR", "UNEXPECTED"},
             user : Users \cup {NoUser},
             arg  : Strings \cup {NoString}]

ASSUME ServerAssumption ==
  /\ NoConn \notin Conns
  /\ Cmds \in [Conns -> SUBSET Commands]
  /\ {EmptyString, LCS_OPER_PASSWORD, MAGIC_WHO_ARG, WHO_SYSTEM} \subseteq Strings
  /\ MAX_CLIENTS \in Nat \ {0}
  /\ SERVER_BACKLOG \in Nat \ {0}
  /\ FdLimit \in Nat
  /\ MaxUnread \in Nat \ {0}

\* The names under which a program joins and leaves.
Names(c) == {cmd.user : cmd \in {d \in Cmds[c] : d.op = "CHATDOOR"}} \ {NoUser}

Slots  == 0..(MAX_CLIENTS - 1)
NoSlot == -5                     \* "-5 is normal" (server.c:72)
Fds    == 1..FdLimit

VARIABLES
  udata,         \* the user data store
  clients,       \* clients[]: descriptor and receive buffer per slot
  num_clients,   \* slots that were ever used
  master,        \* descriptors given to select(), the listener left out
  read_fds,      \* descriptors select() reported, not looked at yet
  servfd_ready,  \* select() reported the listener, not looked at yet
  sock,          \* kernel: which connection a descriptor refers to
  backlog,       \* kernel: connections not accepted yet
  toServer,      \* kernel: commands received and not fully read, per connection
  peer,          \* the other end: "idle", "up", "fin" (closed), "rst" (reset)
  out            \* what the latest step wrote, per connection

serverVars == <<udata, clients, num_clients, master, read_fds, servfd_ready>>
vars == <<udata, clients, num_clients, master, read_fds, servfd_ready,
          sock, backlog, toServer, peer, out>>

\* clients[] is static: an unused slot holds descriptor 0.
UnusedSlot == [fd |-> 0,  buf |-> <<>>, part |-> FALSE]
ClosedSlot == [fd |-> -1, buf |-> <<>>, part |-> FALSE]
Quiet      == [c \in Conns |-> <<>>]

Init ==
  /\ udata = EmptyStore
  /\ clients = [i \in Slots |-> UnusedSlot]
  /\ num_clients = 0
  /\ master = {}
  /\ read_fds = {}
  /\ servfd_ready = FALSE
  /\ sock = [f \in Fds |-> NoConn]
  /\ backlog = <<>>
  /\ toServer = [c \in Conns |-> <<>>]
  /\ peer = [c \in Conns |-> "idle"]
  /\ out = Quiet

-----------------------------------------------------------------------------
(* The peers and the kernel.                                               *)

Accepted(c) == \E f \in Fds : sock[f] = c
Queued(c)   == \E k \in 1..Len(backlog) : backlog[k] = c
Attached(c) == Accepted(c) \/ Queued(c)

\* Commands of c that the server has read and not handled.
Buffered(c) ==
  UNION {{<<i, k>> : k \in 1..Len(clients[i].buf)} :
           i \in {j \in Slots : clients[j].fd \in Fds /\ sock[clients[j].fd] = c}}

\* recv() would not block: data, end of file or an error is there.
Readable(f) ==
  /\ sock[f] # NoConn
  /\ toServer[sock[f]] # <<>> \/ peer[sock[f]] \in {"fin", "rst"}

PeerConnect(c) ==
  /\ peer[c] = "idle" /\ ~Attached(c)
  /\ Len(backlog) < SERVER_BACKLOG
  /\ backlog' = Append(backlog, c)
  /\ peer' = [peer EXCEPT ![c] = "up"]
  /\ out' = Quiet
  /\ UNCHANGED <<serverVars, sock, toServer>>

PeerSend(c, cmd) ==
  /\ peer[c] = "up" /\ Attached(c)
  /\ Len(toServer[c]) + Cardinality(Buffered(c)) < MaxUnread
  /\ toServer' = [toServer EXCEPT ![c] = Append(@, cmd)]
  /\ out' = Quiet
  /\ UNCHANGED <<serverVars, sock, backlog, peer>>

\* close(), or exit() after the server closed the connection.
PeerClose(c) ==
  /\ peer[c] = "up"
  /\ peer' = [peer EXCEPT ![c] = IF Attached(c) THEN "fin" ELSE "idle"]
  /\ out' = Quiet
  /\ UNCHANGED <<serverVars, sock, backlog, toServer>>

\* A close with unread input resets the connection; what the server has not
\* read of the connection may be lost.
PeerReset(c) ==
  /\ peer[c] = "up" /\ Attached(c)
  /\ peer' = [peer EXCEPT ![c] = "rst"]
  /\ \E kept \in {toServer[c], <<>>} : toServer' = [toServer EXCEPT ![c] = kept]
  /\ out' = Quiet
  /\ UNCHANGED <<serverVars, sock, backlog>>

\* The slot is marked closed first, so that FD_CLR() misses.
CloseFdsSlip(F) ==
  /\ sock' = [f \in Fds |-> IF f \in F THEN NoConn ELSE sock[f]]
  /\ master' = master
  /\ peer' = [c \in Conns |->
                IF peer[c] # "up" /\ \E f \in F : sock[f] = c THEN "idle" ELSE peer[c]]

\* What close() of the descriptors in F does to the kernel and the peers.
CloseFds(F) ==
  /\ sock' = [f \in Fds |-> IF f \in F THEN NoConn ELSE sock[f]]
  /\ master' = master \ F
  /\ peer' = [c \in Conns |->
                IF peer[c] # "up" /\ \E f \in F : sock[f] = c THEN "idle" ELSE peer[c]]

-----------------------------------------------------------------------------
(* The select() loop.                                                      *)

Pending == {i \in Slots : i < num_clients /\ clients[i].fd \in read_fds}

\* The scan walks the slots in order.  A descriptor leaves read_fds when its
\* slot was looked at, so the next slot is the lowest one left; between two
\* slots nothing the scan reads changes except by its own steps.
Turn(i) ==
  /\ ~servfd_ready
  /\ i \in Pending
  /\ \A j \in Pending : i <= j

\* The scan takes the copy of master for the result; only one descriptor is
\* served per round.
ReportedSlip      == master
ReportedFirstSlip == {f \in master : Readable(f) /\ \A g \in master : Readable(g) => f <= g}

\* What select() leaves in read_fds, apart from the listener.
Reported == {f \in master : Readable(f)}

\* Newcomers wait until nobody else has anything to say.
ListenerReadySlip == backlog # <<>> /\ Reported = {}

ListenerReady == backlog # <<>>

Select ==
  /\ ~servfd_ready /\ Pending = {}
  /\ backlog # <<>> \/ Reported # {}
  /\ read_fds' = Reported
  /\ servfd_ready' = ListenerReady
  /\ out' = Quiet
  /\ UNCHANGED <<udata, clients, num_clients, master, sock, backlog, toServer, peer>>

FreeFds == {f \in Fds : sock[f] = NoConn}

\* accept() gives the lowest free descriptor.
LowestFree == CHOOSE f \in FreeFds : \A g \in FreeFds : f <= g

\* The first used slot that is closed, otherwise the next unused one.
SlotForNew ==
  LET closed == {i \in Slots : i < num_clients /\ clients[i].fd = -1}
  IN  IF closed = {} THEN num_clients
      ELSE CHOOSE i \in closed : \A j \in closed : i <= j

\* num_clients counts the slots ever used, not the connections.
RoomForMore == num_clients < MAX_CLIENTS

Accept ==
  /\ servfd_ready /\ RoomForMore /\ FreeFds # {}
  /\ clients' = [clients EXCEPT ![SlotForNew] =
                   [fd |-> LowestFree, buf |-> <<>>, part |-> FALSE]]
  /\ num_clients' = IF SlotForNew = num_clients THEN num_clients + 1 ELSE num_clients
  /\ master' = master \cup {LowestFree}
  /\ sock' = [sock EXCEPT ![LowestFree] = Head(backlog)]
  /\ backlog' = Tail(backlog)
  /\ servfd_ready' = FALSE
  /\ out' = Quiet
  /\ UNCHANGED <<udata, read_fds, toServer, peer>>

\* The head of the listen queue goes away without getting a slot.
DropHead ==
  /\ backlog' = Tail(backlog)
  /\ toServer' = [toServer EXCEPT ![Head(backlog)] = <<>>]
  /\ peer' = [peer EXCEPT ![Head(backlog)] = IF @ = "up" THEN "up" ELSE "idle"]

\* close(accept())
AcceptRefuse ==
  /\ servfd_ready /\ ~RoomForMore /\ FreeFds # {}
  /\ DropHead
  /\ servfd_ready' = FALSE
  /\ out' = Quiet
  /\ UNCHANGED <<udata, clients, num_clients, master, read_fds, sock>>

\* accept() fails: no descriptor is free (the connection stays in the queue),
\* or the connection was reset while it was queued.
AcceptFails ==
  /\ servfd_ready
  /\ \/ FreeFds = {} /\ UNCHANGED <<backlog, toServer, peer>>
     \/ FreeFds # {} /\ peer[Head(backlog)] = "rst" /\ DropHead
  /\ servfd_ready' = FALSE
  /\ out' = Quiet
  /\ UNCHANGED <<udata, clients, num_clients, master, read_fds, sock>>

-----------------------------------------------------------------------------
(* What is written, and to whom.                                           *)

Msg(op, form, nick, other) ==
  [op |-> op, form |-> form, nick |-> nick, other |-> other]
ACK == Msg("ACK", "reply", NoString, NoString)
NAK == Msg("NAK", "reply", NoString, NoString)

SendTo(fd, m) ==
  [c \in Conns |-> IF fd \in Fds /\ sock[fd] = c THEN <<m>> ELSE <<>>]

Reply(i, m) == SendTo(clients[i].fd, m)

\* To everybody who is connected; and one slot short.
ToRoomSlip(db, m, excl) ==
  LET listeners == {j \in Slots \ {excl} : clients[j].fd \in Fds}
  IN  [c \in Conns |-> IF \E j \in listeners : sock[clients[j].fd] = c
                       THEN <<m>> ELSE <<>>]
ToRoomShortSlip(db, m, excl) ==
  LET listeners == {j \in Slots \ {excl} :
                      /\ j < num_clients - 1 /\ clients[j].fd \in Fds
                      /\ UdataGetByFd(db, clients[j].fd) # NoUser}
  IN  [c \in Conns |-> IF \E j \in listeners : sock[clients[j].fd] = c
                       THEN <<m>> ELSE <<>>]

\* lcs_dist_ncmd(), and the loops that repeat it in server.c: to every slot
\* but excl whose descriptor belongs to somebody in the room of db.
ToRoom(db, m, excl) ==
  LET listeners == {j \in Slots \ {excl} :
                      /\ clients[j].fd \in Fds
                      /\ UdataGetByFd(db, clients[j].fd) # NoUser}
  IN  [c \in Conns |-> IF \E j \in listeners : sock[clients[j].fd] = c
                       THEN <<m>> ELSE <<>>]

Then(first, second) == [c \in Conns |-> first[c] \o second[c]]

-----------------------------------------------------------------------------
(* One recv() of the scan.                                                 *)

Sock(i) == sock[clients[i].fd]

Fragments(i) == 2 * Len(toServer[Sock(i)]) - (IF clients[i].part THEN 1 ELSE 0)

\* recv() at slot i returns k fragments: whole commands, and perhaps a part.
Whole(i, k) == (k + (IF clients[i].part THEN 1 ELSE 0)) \div 2
Part(i, k)  == (k + (IF clients[i].part THEN 1 ELSE 0)) % 2 = 1

Received(i, k) == clients[i].buf \o SubSeq(toServer[Sock(i)], 1, Whole(i, k))
Unread(i, k)   == SubSeq(toServer[Sock(i)], Whole(i, k) + 1, Len(toServer[Sock(i)]))

RecvData(i, k) == Turn(i) /\ k \in 1..Fragments(i)

\* The buffer holds no complete command yet.
RecvIncomplete(i, k) ==
  /\ RecvData(i, k) /\ Received(i, k) = <<>>
  /\ clients' = [clients EXCEPT ![i].part = Part(i, k)]
  /\ toServer' = [toServer EXCEPT ![Sock(i)] = Unread(i, k)]
  /\ read_fds' = read_fds \ {clients[i].fd}
  /\ out' = Quiet
  /\ UNCHANGED <<udata, num_clients, master, servfd_ready, sock, backlog, peer>>

\* ECONNRESET is only logged; the next recv() on the descriptor returns 0.
RecvError(i) ==
  /\ Turn(i) /\ toServer[Sock(i)] = <<>> /\ peer[Sock(i)] = "rst"
  /\ peer' = [peer EXCEPT ![Sock(i)] = "fin"]
  /\ read_fds' = read_fds \ {clients[i].fd}
  /\ out' = Quiet
  /\ UNCHANGED <<udata, clients, num_clients, master, servfd_ready, sock, backlog,
                 toServer>>

InRoomFlagsSlip == {"PRESENT"}

InRoomFlags == {"PRESENT", "AWAY", "OPERATOR", "SUPERUSER"}

\* Without the udata_flagunset(): fd -1 alone changes nothing.
LeaveRoomSlip(db, user) == UdataUpdate(db, UdataDefEntry(user, NoString, -1))

\* udata_update() with fd -1, then udata_flagunset(): user leaves the room.
LeaveRoom(db, user) ==
  UdataFlagUnset(UdataUpdate(db, UdataDefEntry(user, NoString, -1)),
                 user, InRoomFlags)

LeftMsg(user) == Msg("C_DOOR", "no", udata.ent[user].nick, NoString)

\* The user the connection of slot i speaks for, if that user is in the room.
Speaker(i) == UdataGetByFd(udata, clients[i].fd)

RecvEof(i) ==
  /\ Turn(i) /\ toServer[Sock(i)] = <<>> /\ peer[Sock(i)] = "fin"
  /\ IF Speaker(i) # NoUser
       THEN udata' = LeaveRoom(udata, Speaker(i)) /\ out' = ToRoom(udata, LeftMsg(Speaker(i)), i)
       ELSE udata' = udata /\ out' = Quiet
  /\ CloseFds({clients[i].fd})
  /\ clients' = [clients EXCEPT ![i] = ClosedSlot]
  /\ read_fds' = read_fds \ {clients[i].fd}
  /\ UNCHANGED <<num_clients, servfd_ready, backlog, toServer>>

\* What follows every handler: the slot to kill, if any, is closed, and the
\* command is removed from the buffer.  Only one command is handled per
\* recv(), however many are complete in the buffer.
Done(i, k, killed) ==
  LET dead == IF killed = NoSlot THEN {} ELSE {clients[killed].fd}
  IN  /\ clients' = [j \in Slots |->
                       CASE j = killed -> ClosedSlot
                         [] j = i /\ j # killed -> [fd   |-> clients[i].fd,
                                                   buf  |-> Tail(Received(i, k)),
                                                   part |-> Part(i, k)]
                         [] OTHER -> clients[j]]
      /\ toServer' = [c \in Conns |->
                        CASE \E f \in dead : sock[f] = c -> <<>>
                          [] c = Sock(i) /\ (\A f \in dead : sock[f] # c) -> Unread(i, k)
                          [] OTHER -> toServer[c]]
      /\ CloseFds(dead)
      /\ read_fds' = read_fds \ ({clients[i].fd} \cup dead)
      /\ UNCHANGED <<num_clients, servfd_ready, backlog>>

\* The recv() makes a command with one of the opcodes the first in the buffer.
Request(i, k) == Head(Received(i, k))
Handles(i, k, ops) ==
  RecvData(i, k) /\ Received(i, k) # <<>> /\ Request(i, k).op \in ops

-----------------------------------------------------------------------------
(* CHATDOOR: enter and leave the room.                                     *)

\* An unknown user gets an entry first, whatever becomes of the command.
DoorStore(i, k) == UdataAdd(udata, UdataDefEntry(Request(i, k).user, NoString, -1))
DoorUser(i, k)  == UdataGet(DoorStore(i, k), Request(i, k).user)
DoorFlags(i, k) == DoorStore(i, k).ent[DoorUser(i, k)].flags

\* One argument, or an empty alias.
Leaving(i, k) == Request(i, k).arg \in {NoString, EmptyString}

NotWelcomeSlip(flags) == "PRESENT" \in flags

NotWelcome(flags) == "BANNED" \in flags \/ "PRESENT" \in flags

NickInUseSlip(db, nick) == FALSE

NickInUse(db, nick) == UdataGetByNick(db, nick) # NoUser

DoorRefused(i, k) ==
  \/ DoorUser(i, k) = NoUser
  \/ /\ DoorUser(i, k) # NoUser /\ Leaving(i, k)
     /\ "PRESENT" \notin DoorFlags(i, k)
  \/ /\ DoorUser(i, k) # NoUser /\ ~Leaving(i, k)
     /\ NotWelcome(DoorFlags(i, k)) \/ NickInUse(DoorStore(i, k), Request(i, k).arg)

DoorNak(i, k) ==
  /\ Handles(i, k, {"CHATDOOR"}) /\ DoorRefused(i, k)
  /\ udata' = DoorStore(i, k)
  /\ out' = Reply(i, NAK)
  /\ Done(i, k, NoSlot)

\* The command names the user; the connection it comes from is not compared
\* with the one the user joined on.
DoorLeave(i, k) ==
  /\ Handles(i, k, {"CHATDOOR"}) /\ ~DoorRefused(i, k) /\ Leaving(i, k)
  /\ udata' = LeaveRoom(udata, DoorUser(i, k))
  /\ out' = Then(ToRoom(udata, LeftMsg(DoorUser(i, k)), i), Reply(i, ACK))
  /\ Done(i, k, NoSlot)

Joined(db, user, nick, fd) ==
  LET named == UdataUpdate(db, UdataDefEntry(user, nick, fd))
  IN  UdataFlagSet(UdataFlagUnset(named, user, UdataFlags), user, {"PRESENT"})

DoorJoin(i, k) ==
  /\ Handles(i, k, {"CHATDOOR"}) /\ ~DoorRefused(i, k) /\ ~Leaving(i, k)
  /\ udata' = Joined(DoorStore(i, k), DoorUser(i, k), Request(i, k).arg, clients[i].fd)
  /\ out' = Then(ToRoom(udata', Msg("C_DOOR", "yes", Request(i, k).arg, NoString), i),
                 Reply(i, ACK))
  /\ Done(i, k, NoSlot)

-----------------------------------------------------------------------------
(* handle_chatcmd().                                                       *)

\* A chat command is handled only for a connection that speaks for somebody
\* in the room; the magic /who is the exception.
Chats(i, k, ops) == Handles(i, k, ops) /\ Speaker(i) # NoUser

MagicWho(i, k) == Request(i, k).op = "C_WHO" /\ Request(i, k).arg = MAGIC_WHO_ARG

NickOf(user)     == udata.ent[user].nick
HasFlag(user, f) == f \in udata.ent[user].flags

\* Commands that change nothing and are not answered.
Ignored(i, k) ==
  /\ Handles(i, k, ChatOps \cup {"UNEXPECTED"})
  /\ \/ Request(i, k).op \in {"UNEXPECTED", "C_DOOR"}
     \/ Speaker(i) = NoUser /\ ~MagicWho(i, k)
     \/ Request(i, k).op = "C_OPER" /\ Request(i, k).arg = NoString
  /\ udata' = udata
  /\ out' = Quiet
  /\ Done(i, k, NoSlot)

Nick(i, k) ==
  /\ Chats(i, k, {"C_NICK"})
  /\ Request(i, k).arg # NoString
  /\ ~NickInUse(udata, Request(i, k).arg)
  /\ udata' = UdataUpdate(udata, UdataDefEntry(Speaker(i), Request(i, k).arg, -1))
  /\ out' = ToRoom(udata', Msg("C_NICK", "notice", Request(i, k).arg, NickOf(Speaker(i))),
                   NoSlot)
  /\ Done(i, k, NoSlot)

\* The nickname is in use, or the command asks for one's own.
NickReply(i, k) ==
  /\ Chats(i, k, {"C_NICK"})
  /\ \/ /\ Request(i, k).arg # NoString
        /\ NickInUse(udata, Request(i, k).arg)
        /\ out' = Reply(i, Msg("C_NICK", "denied", NoString, NoString))
     \/ /\ Request(i, k).arg = NoString
        /\ out' = Reply(i, Msg("C_NICK", "reply", NickOf(Speaker(i)), NoString))
  /\ udata' = udata
  /\ Done(i, k, NoSlot)

Away(i, k) ==
  /\ Chats(i, k, {"C_AWAY"})
  /\ \/ /\ HasFlag(Speaker(i), "AWAY")
        /\ udata' = UdataFlagUnset(udata, Speaker(i), {"AWAY"})
        /\ out' = ToRoom(udata', Msg("C_AWAY", "no", NickOf(Speaker(i)), NoString), NoSlot)
     \/ /\ ~HasFlag(Speaker(i), "AWAY")
        /\ udata' = UdataFlagSet(udata, Speaker(i), {"AWAY"})
        /\ out' = ToRoom(udata', Msg("C_AWAY", "yes", NickOf(Speaker(i)), NoString), NoSlot)
  /\ Done(i, k, NoSlot)

Beep(i, k) ==
  /\ Chats(i, k, {"C_BEEP"})
  /\ LET target == UdataGetByNick(udata, Request(i, k).arg)
         beep   == Msg("C_BEEP", "notice", NoString, NoString)
     IN  out' = IF Request(i, k).arg = NoString THEN ToRoom(udata, beep, i)
                ELSE IF target # NoUser THEN SendTo(udata.ent[target].fd, beep)
                ELSE Reply(i, Msg("C_BEEP", "absent", Request(i, k).arg, NoString))
  /\ udata' = udata
  /\ Done(i, k, NoSlot)

Oper(i, k) ==
  /\ Chats(i, k, {"C_OPER"})
  /\ \/ /\ Request(i, k).arg = LCS_OPER_PASSWORD
        /\ udata' = UdataFlagSet(udata, Speaker(i), {"OPERATOR"})
        /\ out' = ToRoom(udata', Msg("C_OPER", "notice", NickOf(Speaker(i)), NoString), NoSlot)
     \/ /\ Request(i, k).arg \notin {LCS_OPER_PASSWORD, NoString}
        /\ udata' = udata
        /\ out' = Reply(i, Msg("C_OPER", "denied", NoString, NoString))
  /\ Done(i, k, NoSlot)

\* A private message: to the recipient, and a copy to the sender.
Psay(i, k) ==
  /\ Chats(i, k, {"C_PSAY"})
  /\ LET target == IF Request(i, k).arg = NoString THEN NoUser
                   ELSE UdataGetByNick(udata, Request(i, k).arg)
         me     == NickOf(Speaker(i))
     IN  out' = IF target # NoUser
                  THEN Then(SendTo(udata.ent[target].fd, Msg("C_PSAY", "notice", me, NoString)),
                            Reply(i, Msg("C_PSAY", "reply", me, NickOf(target))))
                  ELSE Reply(i, Msg("C_PSAY", "absent", Request(i, k).arg, NoString))
  /\ udata' = udata
  /\ Done(i, k, NoSlot)

\* lcs_compose_name(): "&" marks somebody away, "@" an operator.
NameMarks(user) == udata.ent[user].flags \cap {"AWAY", "OPERATOR"}

Say(i, k) ==
  /\ Chats(i, k, {"C_SAY", "C_ME"})
  /\ out' = ToRoom(udata, [op |-> Request(i, k).op, nick |-> NickOf(Speaker(i)),
                           marks |-> NameMarks(Speaker(i))], NoSlot)
  /\ udata' = udata
  /\ Done(i, k, NoSlot)

\* One slot short.
RoomListSlip ==
  {[user |-> u, nick |-> NickOf(u), marks |-> NameMarks(u)] :
     u \in {Speaker(j) : j \in {h \in Slots : h < num_clients - 1 /\ clients[h].fd \in Fds}}
           \ {NoUser}}

\* Everybody in the room, as the slots find them.
RoomList ==
  {[user |-> u, nick |-> NickOf(u), marks |-> NameMarks(u)] :
     u \in {Speaker(j) : j \in {h \in Slots : clients[h].fd \in Fds}} \ {NoUser}}

Who(i, k) ==
  /\ Handles(i, k, {"C_WHO"}) /\ (Speaker(i) # NoUser \/ MagicWho(i, k))
  /\ out' = Reply(i, [op   |-> "C_WHO", what |-> Request(i, k).arg,
                      room |-> IF Request(i, k).arg = WHO_SYSTEM THEN {} ELSE RoomList])
  /\ udata' = udata
  /\ Done(i, k, NoSlot)

MayModerateSlip(i, k) == Request(i, k).arg # NoString

MayModerate(i, k) == Request(i, k).arg # NoString /\ HasFlag(Speaker(i), "OPERATOR")
Target(i, k)      == UdataGetByNick(udata, Request(i, k).arg)

ModerateReply(i, k) ==
  /\ Chats(i, k, ModOps)
  /\ \/ /\ ~MayModerate(i, k)
        /\ out' = Reply(i, Msg(Request(i, k).op, "denied", NoString, NoString))
     \/ /\ MayModerate(i, k) /\ Target(i, k) = NoUser
        /\ out' = Reply(i, Msg(Request(i, k).op, "absent", Request(i, k).arg, NoString))
  /\ udata' = udata
  /\ Done(i, k, NoSlot)

ModerateNotice(i, k) ==
  Msg(Request(i, k).op, "notice", NickOf(Target(i, k)), NickOf(Speaker(i)))

\* op, deop and unban: a flag changes and the room is told.
Moderate(i, k) ==
  /\ Chats(i, k, {"C_OP", "C_DEOP", "C_UNBAN"})
  /\ MayModerate(i, k) /\ Target(i, k) # NoUser
  /\ udata' = CASE Request(i, k).op = "C_OP"    -> UdataFlagSet(udata, Target(i, k), {"OPERATOR"})
                [] Request(i, k).op = "C_DEOP"  -> UdataFlagUnset(udata, Target(i, k), {"OPERATOR"})
                [] Request(i, k).op = "C_UNBAN" -> UdataFlagUnset(udata, Target(i, k), {"BANNED"})
  /\ out' = ToRoom(udata', ModerateNotice(i, k), NoSlot)
  /\ Done(i, k, NoSlot)

\* A wrong comparison finds the wrong slot.
SlotOfSlip(user) ==
  LET held == {j \in Slots : clients[j].fd <= udata.ent[user].fd}
  IN  IF held = {} THEN NoSlot ELSE CHOOSE j \in held : \A h \in held : j <= h

\* The first slot that holds the descriptor of user.
SlotOf(user) ==
  LET held == {j \in Slots : clients[j].fd = udata.ent[user].fd}
  IN  IF held = {} THEN NoSlot ELSE CHOOSE j \in held : \A h \in held : j <= h

\* kick and ban: the target is out of the room before the room is told, so
\* the target is not; then the target's connection is killed.
Expel(i, k) ==
  /\ Chats(i, k, {"C_BAN", "C_KICK"})
  /\ MayModerate(i, k) /\ Target(i, k) # NoUser
  /\ LET banned == IF Request(i, k).op = "C_BAN"
                     THEN UdataFlagSet(udata, Target(i, k), {"BANNED"}) ELSE udata
     IN  udata' = LeaveRoom(banned, Target(i, k))
  /\ out' = ToRoom(udata', ModerateNotice(i, k), NoSlot)
  /\ Done(i, k, SlotOf(Target(i, k)))

-----------------------------------------------------------------------------
HandleCmd(i, k) ==
  \/ DoorNak(i, k) \/ DoorLeave(i, k) \/ DoorJoin(i, k)
  \/ Ignored(i, k)
  \/ Nick(i, k) \/ NickReply(i, k) \/ Away(i, k) \/ Beep(i, k) \/ Oper(i, k)
  \/ Psay(i, k) \/ Say(i, k) \/ Who(i, k)
  \/ ModerateReply(i, k) \/ Moderate(i, k) \/ Expel(i, k)

\* A buffer never holds more than MaxUnread commands, so this is every k.
RecvSizes == 1..(2 * MaxUnread)

Server ==
  \/ Select
  \/ Accept \/ AcceptRefuse \/ AcceptFails
  \/ \E i \in Slots :
       \/ RecvError(i) \/ RecvEof(i)
       \/ \E k \in RecvSizes : RecvIncomplete(i, k) \/ HandleCmd(i, k)

Peer ==
  \E c \in Conns :
    \/ PeerConnect(c) \/ PeerClose(c) \/ PeerReset(c)
    \/ \E cmd \in Cmds[c] : PeerSend(c, cmd)

Next == Server \/ Peer

Spec == Init /\ [][Next]_vars

\* The server process runs whenever it has something to do; a peer may stay
\* silent for ever.
FairSpec == Spec /\ WF_vars(Server)
=============================================================================
