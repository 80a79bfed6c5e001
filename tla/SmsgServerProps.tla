-------------------------- MODULE SmsgServerProps --------------------------
(***************************************************************************)
(* What is claimed of SmsgServer.                                          *)
(***************************************************************************)
EXTENDS SmsgServer

SlotRecord == [fd : Fds \cup {-1, 0}, buf : Seq(Commands), part : BOOLEAN]

Message ==
  [op : ChatOps \cup {"ACK", "NAK"},
   form : {"reply", "notice", "denied", "absent", "yes", "no"},
   nick : Strings \cup {NoString}, other : Strings \cup {NoString}]
  \cup [op : {"C_SAY", "C_ME"}, nick : Strings \cup {NoString},
        marks : SUBSET {"AWAY", "OPERATOR"}]
  \cup [op : {"C_WHO"}, what : Strings \cup {NoString},
        room : SUBSET [user : Users, nick : Strings \cup {NoString},
                       marks : SUBSET {"AWAY", "OPERATOR"}]]

\* Every variable holds a value of its type: the store is a list of users
\* with an entry each (udata.c), the slots hold a descriptor and a buffer of
\* commands (clients[] of server.c).
TypeOK ==
  /\ udata \in Store
  /\ clients \in [Slots -> SlotRecord]
  /\ num_clients \in 0..MAX_CLIENTS
  /\ master \subseteq Fds
  /\ read_fds \subseteq Fds
  /\ servfd_ready \in BOOLEAN
  /\ sock \in [Fds -> Conns \cup {NoConn}]
  /\ backlog \in Seq(Conns)
  /\ toServer \in [Conns -> Seq(Commands)]
  /\ peer \in [Conns -> {"idle", "up", "fin", "rst"}]
  /\ out \in [Conns -> Seq(Message)]

Present(user) == HasFlag(user, "PRESENT")
MemberConn(user) == sock[udata.ent[user].fd]

\* A program joins under one name only, as chatter() of client.c does.
OneNameEach == \A c \in Conns : \A u, v \in Names(c) : u = v

-----------------------------------------------------------------------------
(* State invariants.                                                       *)

\* No two users in the room have the same nickname, whatever mixture of
\* joins, renames, kicks and lost connections led here (server.c:404,
\* servchat.c:181); messages and moderation find people by nickname.
NicksDistinct ==
  \A u, v \in Users :
    Present(u) /\ Present(v) /\ NickOf(u) = NickOf(v) => u = v

\* A user in the room is at the other end of an open connection, held by a
\* slot, that may speak for that user, and no two share one: leaving by
\* command, kick, ban, and end of file all take the user out with the
\* connection (server.c:385-390, 651-656, servchat.c:423-428).
MembersConnected ==
  \A u \in Users : Present(u) =>
    /\ \E i \in Slots : i < num_clients /\ clients[i].fd = udata.ent[u].fd
    /\ udata.ent[u].fd \in Fds
    /\ MemberConn(u) # NoConn /\ u \in Names(MemberConn(u))
    /\ \A v \in Users : Present(v) /\ udata.ent[v].fd = udata.ent[u].fd => u = v

\* Operator rights and the away mark never outlive the presence they were
\* obtained in: whoever enters does so without them (server.c:390, 416, 656,
\* servchat.c:428).
RightsNeedPresence ==
  \A u \in Users :
    HasFlag(u, "OPERATOR") \/ HasFlag(u, "AWAY") => Present(u)

\* The slots, the set given to select() and the kernel agree: every open
\* descriptor is in exactly one slot and watched, and nothing closed is
\* watched, which would make select() fail and the server return
\* (server.c:576-582, 598-607, 661-666, 677-682).
SlotsMatchKernel ==
  /\ master = {f \in Fds : sock[f] # NoConn}
  /\ master = {clients[i].fd : i \in Slots} \ {-1, 0}
  /\ \A i, j \in Slots : clients[i].fd \in Fds /\ clients[i].fd = clients[j].fd => i = j
  /\ \A i \in Slots : i >= num_clients => clients[i] = UnusedSlot

\* The snapshot that select() made stays true while it is worked off: every
\* recv() and accept() the server is about to make finds something and does
\* not block (server.c:584, 613), although handlers close descriptors and
\* accept() hands them out again in the same round.
SnapshotHolds ==
  /\ \A i \in Pending : clients[i].fd \in master /\ Readable(clients[i].fd)
  /\ servfd_ready => backlog # <<>>

\* A /who answer lists exactly the users in the room, one item each; rchat
\* ends the server of a room when it counts none (servchat.c:334-355).
WhoListsTheRoom ==
  \A c \in Conns : \A k \in 1..Len(out[c]) :
    out[c][k].op = "C_WHO" /\ out[c][k].what # WHO_SYSTEM =>
      {item.user : item \in out[c][k].room} = {u \in Users : Present(u)}

\* Public talk reaches everybody in the room and nobody else, under the
\* nickname and marks the speaker has at that moment; private talk reaches
\* the recipient and the sender only (servchat.c:266-314).
TalkStaysInRoom ==
  \A c \in Conns : \A k \in 1..Len(out[c]) :
    /\ out[c][k].op \in {"C_SAY", "C_ME"} =>
         /\ {d \in Conns : out[d] # <<>>} = {MemberConn(u) : u \in {v \in Users : Present(v)}}
         /\ \A d \in Conns : out[d] # <<>> => out[d] = out[c]
         /\ \E u \in Users : Present(u) /\ NickOf(u) = out[c][k].nick
                            /\ NameMarks(u) = out[c][k].marks
    /\ out[c][k].op = "C_PSAY" /\ out[c][k].form # "absent" =>
         \E u, v \in Users :
           /\ Present(u) /\ Present(v) /\ NickOf(u) = out[c][k].nick
           /\ {d \in Conns : out[d] # <<>>} = {MemberConn(u), MemberConn(v)}

-----------------------------------------------------------------------------
(* The inductive invariant behind the state invariants, for any Cmds.      *)

\* A store the handlers can work on: whoever is present has an entry, a
\* descriptor and a nickname of their own and is not banned.
GoodRoom(db) ==
  /\ db \in Store
  /\ \A u \in Users : IsPresent(db.ent[u]) =>
       /\ Listed(db, u) /\ db.ent[u].fd \in Fds /\ db.ent[u].nick \in Strings
       /\ "BANNED" \notin db.ent[u].flags
  /\ \A u \in Users : Listed(db, u) \/ db.ent[u] = BlankEntry
  /\ \A u \in Users : db.ent[u].flags \cap {"OPERATOR", "AWAY"} # {} => IsPresent(db.ent[u])
  /\ \A u, v \in Users :
       IsPresent(db.ent[u]) /\ IsPresent(db.ent[v]) /\ db.ent[u].nick = db.ent[v].nick => u = v

\* A connection is accepted once, or waits at one place of the listen queue.
ConnectionsDistinct ==
  /\ \A f, g \in Fds : sock[f] # NoConn /\ sock[f] = sock[g] => f = g
  /\ \A j, k \in 1..Len(backlog) : backlog[j] = backlog[k] => j = k
  /\ \A f \in Fds, k \in 1..Len(backlog) : sock[f] # backlog[k]

SnapshotTrue ==
  /\ \A f \in read_fds : Readable(f)
  /\ servfd_ready => backlog # <<>>

\* Whatever names programs join under, the store is a room, the slots and the
\* kernel agree, connections are told apart, and what select() reported stays
\* true: the handlers rely on all of it at once (server.c:584-689).
IInv ==
  /\ TypeOK
  /\ GoodRoom(udata)
  /\ SlotsMatchKernel
  /\ ConnectionsDistinct
  /\ SnapshotTrue

-----------------------------------------------------------------------------
(* What a step may never do.                                               *)

\* Once banned, always banned and never in the room again (server.c:396).
BanIsFinal ==
  [][\A u \in Users :
       HasFlag(u, "BANNED") => HasFlag(u, "BANNED")' /\ ~Present(u)']_vars

\* The server closes the connection of a program that has not closed it
\* only to expel the user this connection speaks for (server.c:673-683,
\* servchat.c:419-421): the slot that dies is the slot of the target.
OnlyTheExpelledAreCut ==
  [][\A f \in Fds :
       sock[f] # NoConn /\ sock'[f] = NoConn /\ peer[sock[f]] = "up" =>
         \E u \in Names(sock[f]) :
           Present(u) /\ udata.ent[u].fd = f /\ ~Present(u)']_vars

Told(user, m) ==
  \E k \in 1..Len(out'[MemberConn(user)]) : out'[MemberConn(user)][k] = m

\* Whoever is in the room before and after a step is told of everybody else
\* who enters, leaves, is expelled, changes nickname, or gains or loses the
\* operator or away mark in it (every lcs_dist_ncmd(), and the loops of
\* server.c:376, 425, 642).
ChangesAreAnnounced ==
  [][\A v \in Users : Present(v) /\ Present(v)' => \A u \in Users \ {v} :
       /\ ~Present(u) /\ Present(u)' => Told(v, Msg("C_DOOR", "yes", NickOf(u)', NoString))
       /\ Present(u) /\ ~Present(u)' =>
            \/ Told(v, LeftMsg(u))
            \/ \E w \in Users, op \in {"C_KICK", "C_BAN"} :
                 HasFlag(w, "OPERATOR") /\ Told(v, Msg(op, "notice", NickOf(u), NickOf(w)))
       /\ Present(u) /\ Present(u)' =>
            /\ NickOf(u) # NickOf(u)' =>
                 Told(v, Msg("C_NICK", "notice", NickOf(u)', NickOf(u)))
            /\ ~HasFlag(u, "OPERATOR") /\ HasFlag(u, "OPERATOR")' =>
                 \/ Told(v, Msg("C_OPER", "notice", NickOf(u), NoString))
                 \/ \E w \in Users : Told(v, Msg("C_OP", "notice", NickOf(u), NickOf(w)))
            /\ HasFlag(u, "OPERATOR") /\ ~HasFlag(u, "OPERATOR")' =>
                 \E w \in Users : Told(v, Msg("C_DEOP", "notice", NickOf(u), NickOf(w)))
            /\ ~HasFlag(u, "AWAY") /\ HasFlag(u, "AWAY")' =>
                 Told(v, Msg("C_AWAY", "yes", NickOf(u), NoString))
            /\ HasFlag(u, "AWAY") /\ ~HasFlag(u, "AWAY")' =>
                 Told(v, Msg("C_AWAY", "no", NickOf(u), NoString))]_vars

MembersOf(db) == {u \in Users : IsPresent(db.ent[u])}
NicksOf(db)   == [u \in Users |-> IF IsPresent(db.ent[u]) THEN db.ent[u].nick ELSE NoString]
Marked(db, f) == {u \in Users : f \in db.ent[u].flags}

\* The server is a room: the users marked present are the members of
\* ChatRoom, and every step of the server is one of its events or none.
Room == INSTANCE ChatRoom WITH
  members <- MembersOf(udata),
  nick    <- NicksOf(udata),
  ops     <- Marked(udata, "OPERATOR"),
  away    <- Marked(udata, "AWAY"),
  banned  <- Marked(udata, "BANNED")

\* SmsgServer implements ChatRoom: joins, renames, marks, rights, leaves,
\* kicks, bans and lost connections happen to the room one at a time, with
\* the rights ChatRoom asks for (server.c:335-441, servchat.c:163-451).
ImplementsRoom == Room!RoomSpec

-----------------------------------------------------------------------------
(* What happens in the end, when the server process is scheduled.          *)

\* A connection that its program has closed or reset is worked off, closed
\* and given back, even while others keep the server busy.
ClosedAreCleanedUp ==
  \A c \in Conns : peer[c] \in {"fin", "rst"} ~> ~Attached(c)

\* Every connection in the listen queue is accepted or refused.
QueueIsServed == \A c \in Conns : Queued(c) ~> ~Queued(c)

-----------------------------------------------------------------------------
(* What the documents say and the code does not do.                        *)

\* smsg.h:29: MAX_CLIENTS is the "maximum number of clients that can be
\* connected to a server": nobody is refused while fewer are connected.
RefusedOnlyWhenFull ==
  [][\A c \in Conns :
       Queued(c) /\ peer[c] = "up" /\ ~(Attached(c))' =>
         Cardinality(master) >= MAX_CLIENTS]_vars

=============================================================================
