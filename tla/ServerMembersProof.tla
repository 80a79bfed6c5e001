------------------------ MODULE ServerMembersProof ------------------------
(***************************************************************************)
(* Whoever is in the room is connected, and who is told what, for every    *)
(* value of the constants with which each program joins under one name     *)
(* only (OneNameEach), as chatter() of client.c does.                      *)
(***************************************************************************)
EXTENDS SmsgServerProof

-----------------------------------------------------------------------------
(* The invariant.                                                          *)

(* A program joins and leaves under names of its own, whatever else it says. *)
Sayable(c) ==
  {cmd \in Commands : cmd.op = "CHATDOOR" => cmd.user \in Names(c) \cup {NoUser}}

LEMMA CmdsSayable ==
  ASSUME ServerAssumption, NEW c \in Conns
  PROVE  Cmds[c] \subseteq Sayable(c)
BY DEF Sayable, ServerAssumption, Names

(* What is received and not handled was sent by the program it came from.  *)
Owned ==
  /\ \A c \in Conns : toServer[c] \in Seq(Sayable(c))
  /\ \A j \in Slots : clients[j].fd \in Fds => clients[j].buf \in Seq(Sayable(sock[clients[j].fd]))

(* Whoever is in the room has an open descriptor, and the program at its   *)
(* other end may speak for them.                                           *)
Connected ==
  \A u \in Users : IsPresent(udata.ent[u]) =>
    /\ sock[udata.ent[u].fd] \in Conns
    /\ u \in Names(sock[udata.ent[u].fd])

MembersInv == Owned /\ Connected

-----------------------------------------------------------------------------
(* What is received.                                                       *)

LEMMA OwnedRecv ==
  ASSUME ServerAssumption, KernelOK, Owned,
         NEW i \in Slots, NEW k \in RecvSizes, RecvData(i, k)
  PROVE  /\ Received(i, k) \in Seq(Sayable(Sock(i))) /\ Unread(i, k) \in Seq(Sayable(Sock(i)))
         /\ Received(i, k) # <<>> =>
              /\ Request(i, k) \in Sayable(Sock(i))
              /\ Tail(Received(i, k)) \in Seq(Sayable(Sock(i)))
<1> DEFINE q == toServer[Sock(i)]
           w == Whole(i, k)
           C == Sayable(Sock(i))
<1>1. Sock(i) \in Conns /\ clients[i] \in SlotRecord /\ clients[i].fd \in Fds
  BY TurnFacts DEF RecvData
<1>2. q \in Seq(C) /\ Len(q) \in Nat
  BY <1>1 DEF Owned
<1>3. k \in Nat /\ 1 <= k /\ k <= Fragments(i)
  BY <1>1, <1>2 DEF RecvData, Fragments, RecvSizes, ServerAssumption
<1>4. w \in Nat /\ w <= Len(q)
  <2>1. CASE clients[i].part
    BY <1>2, <1>3, <2>1 DEF Whole, Fragments
  <2>2. CASE ~clients[i].part
    BY <1>2, <1>3, <2>2 DEF Whole, Fragments
  <2> QED BY <2>1, <2>2
<1>7. clients[i].buf \in Seq(C)
  BY <1>1 DEF Owned, Sock
<1> HIDE DEF q, w, C
<1>5. SubSeq(q, 1, w) \in Seq(C)
  BY <1>2, <1>4
<1>6. SubSeq(q, w + 1, Len(q)) \in Seq(C)
  BY <1>2, <1>4
<1>8. Received(i, k) \in Seq(C) /\ Unread(i, k) \in Seq(C)
  BY <1>5, <1>6, <1>7 DEF Received, Unread, q, w
<1>9. ASSUME NEW r \in Seq(C), r # <<>>
      PROVE  Head(r) \in C /\ Tail(r) \in Seq(C)
  BY <1>9
<1> QED BY <1>8, <1>9 DEF Request, C

LEMMA DoneOwned ==
  ASSUME ServerAssumption, KernelOK, Owned, NEW i \in Slots, NEW k \in RecvSizes,
         RecvData(i, k), Received(i, k) # <<>>, NEW killed \in Slots \cup {NoSlot},
         Done(i, k, killed)
  PROVE  /\ Owned'
         /\ \A f \in Fds : sock'[f] = IF killed # NoSlot /\ f = clients[killed].fd
                                      THEN NoConn ELSE sock[f]
<1> DEFINE F == IF killed = NoSlot THEN {} ELSE {clients[killed].fd}
           mine == [fd |-> clients[i].fd, buf |-> Tail(Received(i, k)), part |-> Part(i, k)]
<1>1. /\ clients[i].fd \in Fds /\ Sock(i) \in Conns /\ -1 \notin Fds
      /\ Tail(Received(i, k)) \in Seq(Sayable(Sock(i))) /\ Unread(i, k) \in Seq(Sayable(Sock(i)))
  BY OwnedRecv, TurnFacts DEF RecvData, Fds
<1>2. ASSUME NEW c \in Conns
      PROVE  \/ toServer'[c] = <<>> \/ toServer'[c] = toServer[c]
             \/ c = Sock(i) /\ toServer'[c] = Unread(i, k)
  <2>1. CASE \E f \in F : sock[f] = c
    BY <2>1 DEF Done
  <2>2. CASE (\A f \in F : sock[f] # c) /\ c = Sock(i)
    BY <2>2 DEF Done
  <2>3. CASE (\A f \in F : sock[f] # c) /\ c # Sock(i)
    BY <2>3 DEF Done
  <2> QED BY <2>1, <2>2, <2>3
<1>3. ASSUME NEW c \in Conns PROVE toServer'[c] \in Seq(Sayable(c))
  <2>1. <<>> \in Seq(Sayable(c)) /\ toServer[c] \in Seq(Sayable(c))
    BY DEF Owned
  <2> QED BY <1>1, <1>2, <2>1
<1>4. \A f \in Fds : sock'[f] = IF f \in F THEN NoConn ELSE sock[f]
  BY DEF Done, CloseFds
<1>5. ASSUME NEW j \in Slots
      PROVE  clients'[j] = IF j = killed THEN ClosedSlot ELSE IF j = i THEN mine ELSE clients[j]
  BY DEF Done
<1>6. ASSUME NEW j \in Slots, clients'[j].fd \in Fds
      PROVE  clients'[j].buf \in Seq(Sayable(sock'[clients'[j].fd]))
  <2>1. j # killed
    BY <1>1, <1>5, <1>6 DEF ClosedSlot
  <2>2. clients'[j].fd = clients[j].fd
    BY <1>5, <2>1
  <2>3. clients[j].fd \notin F
    BY <1>6, <2>1, <2>2 DEF KernelOK, SlotsMatchKernel
  <2>4. sock'[clients'[j].fd] = sock[clients[j].fd]
    BY <1>4, <1>6, <2>2, <2>3
  <2>5. CASE j = i
    <3>1. clients'[j].buf = Tail(Received(i, k)) /\ clients[j].fd = clients[i].fd
      BY <1>5, <2>1, <2>5
    <3>2. sock'[clients'[j].fd] = Sock(i)
      BY <2>4, <3>1 DEF Sock
    <3> QED BY <1>1, <3>1, <3>2
  <2>6. CASE j # i
    BY <1>5, <1>6, <2>1, <2>2, <2>4, <2>6 DEF Owned
  <2> QED BY <2>5, <2>6
<1> QED BY <1>3, <1>4, <1>6 DEF Owned

-----------------------------------------------------------------------------
(* Who is in the room after a handler.                                     *)

(* Nobody enters, and whoever stays has the descriptor they had.           *)
NoNewcomer(db, new) ==
  \A u \in Users : IsPresent(new.ent[u]) =>
    IsPresent(db.ent[u]) /\ new.ent[u].fd = db.ent[u].fd

LEMMA EntryNoNewcomer ==
  ASSUME NEW db \in Store, NEW user \in Users, NEW e \in Entry,
         IsPresent(e) => IsPresent(db.ent[user]) /\ e.fd = db.ent[user].fd
  PROVE  NoNewcomer(db, With(db, user, e))
<1> DEFINE new == With(db, user, e)
<1>1. new.ent[user] = e /\ \A u \in Users : u # user => new.ent[u] = db.ent[u]
  BY DEF With, Store
<1> HIDE DEF new
<1>2. NoNewcomer(db, new)
  BY <1>1 DEF NoNewcomer
<1> QED BY <1>2 DEF new

LEMMA FlagsNoNewcomer ==
  ASSUME NEW db \in Store, NEW user \in Users, NEW fl \in SUBSET UdataFlags,
         "PRESENT" \in fl => IsPresent(db.ent[user])
  PROVE  /\ NoNewcomer(db, With(db, user, Flagged(db.ent[user], fl)))
         /\ "PRESENT" \notin fl =>
              ~IsPresent(With(db, user, Flagged(db.ent[user], fl)).ent[user])
<1> DEFINE e == Flagged(db.ent[user], fl)
<1>1. e \in Entry /\ e.flags = fl /\ e.fd = db.ent[user].fd
  BY DEF Flagged, Ent, Store, Entry
<1> HIDE DEF e
<1>2. IsPresent(e) <=> "PRESENT" \in fl
  BY <1>1 DEF IsPresent
<1>3. NoNewcomer(db, With(db, user, e))
  BY <1>1, <1>2, EntryNoNewcomer
<1>4. With(db, user, e).ent[user] = e
  BY DEF With, Store
<1> QED BY <1>2, <1>3, <1>4 DEF e

LEMMA MarkNoNewcomer ==
  ASSUME NEW db, GoodRoom(db), NEW user \in Users, Listed(db, user), IsPresent(db.ent[user]),
         NEW f \in SUBSET UdataFlags
  PROVE  /\ NoNewcomer(db, UdataFlagSet(db, user, f))
         /\ NoNewcomer(db, UdataFlagUnset(db, user, f))
<1> DEFINE fl1 == db.ent[user].flags \cup f
           fl2 == db.ent[user].flags \ f
<1>1. db \in Store /\ fl1 \in SUBSET UdataFlags /\ fl2 \in SUBSET UdataFlags
  BY DEF GoodRoom, Store, Entry
<1>2. /\ UdataFlagSet(db, user, f) = With(db, user, Flagged(db.ent[user], fl1))
      /\ UdataFlagUnset(db, user, f) = With(db, user, Flagged(db.ent[user], fl2))
  BY <1>1, FlagSetIs, FlagUnsetIs
<1> HIDE DEF fl1, fl2
<1> QED BY <1>1, <1>2, FlagsNoNewcomer

LEMMA LeaveNoNewcomer ==
  ASSUME NEW db \in Store, NEW user \in Users, Listed(db, user)
  PROVE  NoNewcomer(db, LeaveRoom(db, user)) /\ ~IsPresent(LeaveRoom(db, user).ent[user])
<1> DEFINE fl == db.ent[user].flags \ InRoomFlags
<1>1. fl \in SUBSET UdataFlags /\ "PRESENT" \notin fl
  BY DEF Store, Entry, InRoomFlags
<1>2. LeaveRoom(db, user) = With(db, user, Flagged(db.ent[user], fl))
  BY LeaveRoomIs
<1> HIDE DEF fl
<1> QED BY <1>1, <1>2, FlagsNoNewcomer

LEMMA BanNoNewcomer ==
  ASSUME NEW db \in Store, NEW user \in Users, Listed(db, user)
  PROVE  LET new == LeaveRoom(UdataFlagSet(db, user, {"BANNED"}), user)
         IN  NoNewcomer(db, new) /\ ~IsPresent(new.ent[user])
<1> DEFINE fl == (db.ent[user].flags \cup {"BANNED"}) \ InRoomFlags
<1>1. fl \in SUBSET UdataFlags /\ "PRESENT" \notin fl
  BY DEF Store, Entry, UdataFlags, InRoomFlags
<1>2. LeaveRoom(UdataFlagSet(db, user, {"BANNED"}), user)
        = With(db, user, Flagged(db.ent[user], fl))
  BY BanIs
<1> HIDE DEF fl
<1> QED BY <1>1, <1>2, FlagsNoNewcomer

LEMMA RenameNoNewcomer ==
  ASSUME UdataAssumption, ServerAssumption, KernelOK, GoodRoom(udata),
         NEW i \in Slots, NEW k \in RecvSizes, Nick(i, k)
  PROVE  NoNewcomer(udata, udata')
<1> DEFINE u == Speaker(i)
           n == Request(i, k).arg
           e == Ent(udata.ent[u], n, udata.ent[u].fd, udata.ent[u].flags)
<1>1. udata \in Store /\ udata' = UdataUpdate(udata, UdataDefEntry(u, n, -1))
  BY DEF Nick, GoodRoom
<1>2. u \in Users /\ Listed(udata, u) /\ IsPresent(udata.ent[u])
  BY SpeakerPresent DEF Nick, Chats
<1>3. n \in Strings /\ n # NoString
  BY RequestTyped DEF Nick, Chats
<1> HIDE DEF u, n
<1>4. udata' = With(udata, u, e)
  BY <1>1, <1>2, <1>3, RenameIs
<1>5. e \in Entry /\ e.fd = udata.ent[u].fd
  BY <1>1, <1>2, <1>3 DEF Ent, Store, Entry
<1> HIDE DEF e
<1> QED BY <1>1, <1>2, <1>4, <1>5, EntryNoNewcomer

LEMMA SameNoNewcomer ==
  ASSUME NEW db, NEW new, \A u \in Users : new.ent[u] = db.ent[u]
  PROVE  NoNewcomer(db, new)
BY DEF NoNewcomer

LEMMA HandlerNoNewcomer ==
  ASSUME UdataAssumption, ServerAssumption, KernelOK, RoomAndOut,
         NEW i \in Slots, NEW k \in RecvSizes, HandleCmd(i, k), ~DoorJoin(i, k)
  PROVE  NoNewcomer(udata, udata')
<1>1. GoodRoom(udata) /\ udata \in Store
  BY DEF RoomAndOut, GoodRoom
<1>2. {"AWAY"} \in SUBSET UdataFlags /\ {"OPERATOR"} \in SUBSET UdataFlags
  BY DEF UdataFlags
<1>3. CASE DoorNak(i, k)
  <2>1. Request(i, k).user \in Users \cup {NoUser}
    BY <1>3, RequestTyped DEF DoorNak
  <2>2. \A u \in Users : udata'.ent[u] = udata.ent[u]
    BY <1>1, <1>3, <2>1, AddFacts DEF DoorNak, DoorStore
  <2> QED BY <2>2, SameNoNewcomer
<1>4. CASE DoorLeave(i, k)
  BY <1>1, <1>4, DoorLeaveRoom, LeaveNoNewcomer DEF DoorLeave
<1>5. CASE Nick(i, k)
  BY <1>1, <1>5, RenameNoNewcomer
<1>6. CASE Away(i, k)
  <2>1. Speaker(i) \in Users /\ Listed(udata, Speaker(i)) /\ IsPresent(udata.ent[Speaker(i)])
    BY <1>1, <1>6, SpeakerPresent DEF Away, Chats
  <2> QED BY <1>1, <1>2, <1>6, <2>1, MarkNoNewcomer DEF Away
<1>7. ASSUME udata' = udata PROVE NoNewcomer(udata, udata')
  BY <1>7, SameNoNewcomer
<1>8. CASE Oper(i, k)
  <2>1. Speaker(i) \in Users /\ Listed(udata, Speaker(i)) /\ IsPresent(udata.ent[Speaker(i)])
    BY <1>1, <1>8, SpeakerPresent DEF Oper, Chats
  <2> QED BY <1>1, <1>2, <1>7, <1>8, <2>1, MarkNoNewcomer DEF Oper
<1>9. CASE Moderate(i, k)
  <2> DEFINE t == Target(i, k)
  <2>1. t \in Users /\ Listed(udata, t) /\ IsPresent(udata.ent[t])
    BY <1>1, <1>9, TargetPresent DEF Moderate
  <2>2. \/ udata' = UdataFlagSet(udata, t, {"OPERATOR"})
        \/ udata' = UdataFlagUnset(udata, t, {"OPERATOR"})
        \/ udata' = UdataFlagUnset(udata, t, {"BANNED"})
    BY <1>9, RequestTyped DEF Moderate, Chats
  <2> HIDE DEF t
  <2>3. UdataFlagUnset(udata, t, {"BANNED"}) = udata
    BY <1>1, <2>1, UnbanIsVain
  <2> QED BY <1>1, <1>2, <1>7, <2>1, <2>2, <2>3, MarkNoNewcomer
<1>10. CASE Expel(i, k)
  <2>1. Target(i, k) \in Users /\ Listed(udata, Target(i, k))
    BY <1>1, <1>10, TargetPresent DEF Expel
  <2> QED BY <1>1, <1>10, <2>1, LeaveNoNewcomer, BanNoNewcomer DEF Expel
<1>11. CASE \/ Ignored(i, k) \/ NickReply(i, k) \/ Beep(i, k) \/ Psay(i, k)
            \/ Say(i, k) \/ Who(i, k) \/ ModerateReply(i, k)
  BY <1>7, <1>11 DEF Ignored, NickReply, Beep, Psay, Say, Who, ModerateReply
<1> QED BY <1>3, <1>4, <1>5, <1>6, <1>8, <1>9, <1>10, <1>11 DEF HandleCmd

LEMMA ExpelFacts ==
  ASSUME UdataAssumption, ServerAssumption, KernelOK, RoomAndOut,
         NEW i \in Slots, NEW k \in RecvSizes, Expel(i, k)
  PROVE  LET t == Target(i, k)
         IN  /\ t \in Users /\ IsPresent(udata.ent[t]) /\ udata.ent[t].fd \in Fds
             /\ ~IsPresent(udata'.ent[t])
             /\ SlotOf(t) \in Slots \cup {NoSlot}
             /\ SlotOf(t) # NoSlot => clients[SlotOf(t)].fd = udata.ent[t].fd
<1>1. GoodRoom(udata) /\ udata \in Store
  BY DEF RoomAndOut, GoodRoom
<1>2. /\ Target(i, k) \in Users /\ Listed(udata, Target(i, k))
      /\ IsPresent(udata.ent[Target(i, k)]) /\ udata.ent[Target(i, k)].fd \in Fds
  BY <1>1, TargetPresent DEF Expel
<1>3. ~IsPresent(udata'.ent[Target(i, k)])
  BY <1>1, <1>2, LeaveNoNewcomer, BanNoNewcomer DEF Expel
<1> QED BY <1>2, <1>3, SlotOfFacts

(* Who enters is the user whose name the program at the other end gave.    *)
LEMMA JoinFacts ==
  ASSUME UdataAssumption, ServerAssumption, KernelOK, RoomAndOut, Owned,
         NEW i \in Slots, NEW k \in RecvSizes, DoorJoin(i, k)
  PROVE  LET u == Request(i, k).user
         IN  /\ u \in Users /\ u \in Names(Sock(i)) /\ ~IsPresent(udata.ent[u])
             /\ IsPresent(udata'.ent[u]) /\ udata'.ent[u].fd = clients[i].fd
             /\ udata'.ent[u].nick = Request(i, k).arg
             /\ udata'.ent[u].flags = {"PRESENT"}
             /\ \A v \in Users \ {u} : udata'.ent[v] = udata.ent[v]
<1> DEFINE u  == Request(i, k).user
           db == DoorStore(i, k)
           n  == Request(i, k).arg
           fd == clients[i].fd
           e  == Ent(db.ent[u], n, fd, {"PRESENT"})
<1>1. GoodRoom(udata)
  BY DEF RoomAndOut
<1>2. /\ GoodRoom(db) /\ u \in Users /\ DoorUser(i, k) = u /\ Listed(db, u)
      /\ "PRESENT" \notin db.ent[u].flags
  BY <1>1, DoorFacts, NotRefused DEF DoorJoin, DoorFlags
<1>3. n \in Strings /\ n # NoString /\ fd \in Nat
  <2>1. n \in Strings \cup {NoString} /\ fd \in Nat
    BY RequestTyped DEF DoorJoin
  <2> QED BY <2>1 DEF DoorJoin, Leaving
<1>4. u \in Names(Sock(i))
  <2>1. Request(i, k) \in Sayable(Sock(i)) /\ Request(i, k).op = "CHATDOOR"
    BY RequestTyped, OwnedRecv DEF DoorJoin
  <2> QED BY <1>2, <2>1 DEF Sayable, UdataAssumption
<1>5. \A v \in Users : db.ent[v] = udata.ent[v]
  BY <1>1, <1>2, AddFacts DEF DoorStore
<1>6. udata' = Joined(db, u, n, fd)
  BY <1>2 DEF DoorJoin
<1> HIDE DEF u, db, n, fd
<1>7. udata' = With(db, u, e)
  BY <1>2, <1>3, <1>6, JoinedIs DEF GoodRoom
<1>8. e.fd = fd /\ e.nick = n /\ e.flags = {"PRESENT"} /\ db \in Store
  BY <1>2 DEF Ent, GoodRoom
<1> HIDE DEF e
<1>9. udata'.ent[u] = e /\ \A v \in Users \ {u} : udata'.ent[v] = db.ent[v]
  BY <1>2, <1>7, <1>8 DEF With, Store
<1>10. /\ u \in Users /\ u \in Names(Sock(i)) /\ ~IsPresent(udata.ent[u])
       /\ IsPresent(udata'.ent[u]) /\ udata'.ent[u].fd = fd
       /\ udata'.ent[u].nick = n /\ udata'.ent[u].flags = {"PRESENT"}
       /\ \A v \in Users \ {u} : udata'.ent[v] = udata.ent[v]
  BY <1>2, <1>4, <1>5, <1>8, <1>9 DEF IsPresent
<1> QED BY <1>10 DEF u, n, fd

-----------------------------------------------------------------------------
(* The invariant is inductive.                                             *)

LEMMA StaysConnected ==
  ASSUME Connected, NoNewcomer(udata, udata'),
         \A u \in Users : IsPresent(udata'.ent[u]) =>
           sock'[udata.ent[u].fd] = sock[udata.ent[u].fd]
  PROVE  Connected'
BY DEF Connected, NoNewcomer

(* Two users in the room have two descriptors.                             *)
LEMMA OwnDescriptor ==
  ASSUME OneNameEach, Connected, NEW u \in Users, NEW v \in Users,
         IsPresent(udata.ent[u]), IsPresent(udata.ent[v]),
         udata.ent[u].fd = udata.ent[v].fd
  PROVE  u = v
BY DEF Connected, OneNameEach

LEMMA HandleMembers ==
  ASSUME UdataAssumption, ServerAssumption, OneNameEach, KernelOK, RoomAndOut, MembersInv,
         NEW i \in Slots, NEW k \in RecvSizes, HandleCmd(i, k)
  PROVE  MembersInv'
<1>1. Owned /\ Connected /\ GoodRoom(udata)
  BY DEF MembersInv, RoomAndOut
<1>2. \A u \in Users : IsPresent(udata.ent[u]) => udata.ent[u].fd \in Fds
  BY <1>1 DEF GoodRoom
<1>3. CASE Expel(i, k)
  <2> DEFINE t == Target(i, k)
             s == SlotOf(t)
  <2>1. /\ t \in Users /\ IsPresent(udata.ent[t]) /\ ~IsPresent(udata'.ent[t])
        /\ s \in Slots \cup {NoSlot}
        /\ s # NoSlot => clients[s].fd = udata.ent[t].fd
    BY <1>3, ExpelFacts
  <2>2. RecvData(i, k) /\ Received(i, k) # <<>> /\ Done(i, k, s)
    BY <1>3, RequestTyped DEF Expel, Chats
  <2>3. ~DoorJoin(i, k)
    BY <1>3, RequestTyped DEF Expel, Chats, DoorJoin
  <2>4. NoNewcomer(udata, udata')
    BY <2>3, HandlerNoNewcomer
  <2> HIDE DEF t, s
  <2>5. /\ Owned'
        /\ \A f \in Fds : sock'[f] = IF s # NoSlot /\ f = clients[s].fd THEN NoConn ELSE sock[f]
    BY <1>1, <2>1, <2>2, DoneOwned
  <2>6. ASSUME NEW u \in Users, IsPresent(udata'.ent[u])
        PROVE  sock'[udata.ent[u].fd] = sock[udata.ent[u].fd]
    <3>1. u # t /\ IsPresent(udata.ent[u]) /\ udata.ent[u].fd \in Fds
      BY <1>2, <2>1, <2>4, <2>6 DEF NoNewcomer
    <3>2. udata.ent[u].fd # udata.ent[t].fd
      BY <1>1, <2>1, <3>1, OwnDescriptor
    <3> QED BY <2>1, <2>5, <3>1, <3>2
  <2>7. Connected'
    BY <1>1, <2>4, <2>6, StaysConnected
  <2> QED BY <2>5, <2>7 DEF MembersInv
<1>4. ASSUME ~Expel(i, k)
      PROVE  Owned' /\ \A f \in Fds : sock'[f] = sock[f]
  <2>1. RecvData(i, k) /\ Received(i, k) # <<>> /\ Done(i, k, NoSlot)
    BY <1>4, RequestTyped DEF HandleCmd, DoorNak, DoorLeave, DoorJoin, Ignored, Nick, NickReply,
       Away, Beep, Oper, Psay, Say, Who, ModerateReply, Moderate, Chats
  <2> QED BY <1>1, <2>1, DoneOwned
<1>5. CASE ~Expel(i, k) /\ ~DoorJoin(i, k)
  <2>1. NoNewcomer(udata, udata')
    BY <1>5, HandlerNoNewcomer
  <2>2. \A u \in Users : IsPresent(udata'.ent[u]) =>
          sock'[udata.ent[u].fd] = sock[udata.ent[u].fd]
    BY <1>2, <1>4, <1>5, <2>1 DEF NoNewcomer
  <2> QED BY <1>1, <1>4, <1>5, <2>1, <2>2, StaysConnected DEF MembersInv
<1>6. CASE ~Expel(i, k) /\ DoorJoin(i, k)
  <2> DEFINE u == Request(i, k).user
  <2>1. /\ u \in Users /\ u \in Names(Sock(i))
        /\ udata'.ent[u].fd = clients[i].fd
        /\ \A v \in Users \ {u} : udata'.ent[v] = udata.ent[v]
    BY <1>1, <1>6, JoinFacts
  <2>2. clients[i].fd \in Fds /\ Sock(i) \in Conns
    BY <1>6, RequestTyped, TurnFacts DEF DoorJoin, Handles, RecvData
  <2> HIDE DEF u
  <2>3. Connected'
    BY <1>1, <1>2, <1>4, <1>6, <2>1, <2>2 DEF Connected, Sock
  <2> QED BY <1>4, <1>6, <2>3 DEF MembersInv
<1> QED BY <1>3, <1>5, <1>6

LEMMA RecvEofMembers ==
  ASSUME UdataAssumption, ServerAssumption, OneNameEach, KernelOK, RoomAndOut, MembersInv,
         NEW i \in Slots, RecvEof(i)
  PROVE  MembersInv'
<1>1. Owned /\ Connected /\ GoodRoom(udata) /\ udata \in Store
  BY DEF MembersInv, RoomAndOut, GoodRoom
<1>2. /\ clients \in [Slots -> SlotRecord] /\ clients[i].fd \in Fds /\ -1 \notin Fds
  BY TurnFacts DEF RecvEof, KernelOK, Fds
<1>3. \A f \in Fds : sock'[f] = IF f = clients[i].fd THEN NoConn ELSE sock[f]
  BY DEF RecvEof, CloseFds
<1>4. Owned'
  <2>1. ASSUME NEW j \in Slots, clients'[j].fd \in Fds
        PROVE  clients'[j].buf \in Seq(Sayable(sock'[clients'[j].fd]))
    <3>1. j # i /\ clients'[j] = clients[j]
      BY <1>2, <2>1 DEF RecvEof, ClosedSlot
    <3>2. clients[j].fd # clients[i].fd
      BY <2>1, <3>1 DEF KernelOK, SlotsMatchKernel
    <3> QED BY <1>1, <1>3, <2>1, <3>1, <3>2 DEF Owned
  <2> QED BY <1>1, <2>1 DEF RecvEof, Owned
<1>5. NoNewcomer(udata, udata') /\ (Speaker(i) # NoUser => ~IsPresent(udata'.ent[Speaker(i)]))
  <2>1. CASE Speaker(i) = NoUser
    BY <2>1, SameNoNewcomer DEF RecvEof
  <2>2. CASE Speaker(i) # NoUser
    BY <1>1, <2>2, SpeakerPresent, LeaveNoNewcomer DEF RecvEof
  <2> QED BY <2>1, <2>2
<1>6. ASSUME NEW u \in Users, IsPresent(udata'.ent[u])
      PROVE  sock'[udata.ent[u].fd] = sock[udata.ent[u].fd]
  <2>1. IsPresent(udata.ent[u]) /\ Listed(udata, u) /\ udata.ent[u].fd \in Fds
    BY <1>1, <1>5, <1>6 DEF NoNewcomer, GoodRoom
  <2>2. ASSUME udata.ent[u].fd = clients[i].fd PROVE FALSE
    <3>1. /\ Speaker(i) # NoUser
          /\ udata.ent[Speaker(i)].fd = clients[i].fd
      BY <1>1, <2>1, <2>2, GetByFdFinds DEF Speaker
    <3>2. Speaker(i) \in Users /\ IsPresent(udata.ent[Speaker(i)])
      BY <1>1, <3>1, SpeakerPresent
    <3>3. u = Speaker(i)
      BY <1>1, <2>1, <2>2, <3>1, <3>2, OwnDescriptor
    <3> QED BY <1>5, <1>6, <3>1, <3>3
  <2> QED BY <1>3, <2>1, <2>2
<1>7. Connected'
  BY <1>1, <1>5, <1>6, StaysConnected
<1> QED BY <1>4, <1>7 DEF MembersInv

LEMMA AcceptMembers ==
  ASSUME UdataAssumption, ServerAssumption, KernelOK, RoomAndOut, MembersInv, Accept
  PROVE  MembersInv'
<1> DEFINE s   == SlotForNew
           f0  == LowestFree
           rec == [fd |-> f0, buf |-> <<>>, part |-> FALSE]
<1>1. /\ f0 \in Fds /\ sock[f0] = NoConn /\ s \in Slots
      /\ clients \in [Slots -> SlotRecord] /\ sock \in [Fds -> Conns \cup {NoConn}]
      /\ -1 \notin Fds /\ 0 \notin Fds
  BY NewSlotFacts DEF Accept, KernelOK, Fds
<1>2. /\ clients' = [clients EXCEPT ![s] = rec] /\ sock' = [sock EXCEPT ![f0] = Head(backlog)]
      /\ UNCHANGED <<udata, toServer>>
  BY DEF Accept
<1>3. rec.buf = <<>> /\ rec.fd = f0
  OBVIOUS
<1> HIDE DEF s, f0, rec
<1>4. \A f \in Fds : f # f0 => sock'[f] = sock[f]
  BY <1>1, <1>2
<1>5. ASSUME NEW j \in Slots, clients'[j].fd \in Fds
      PROVE  clients'[j].buf \in Seq(Sayable(sock'[clients'[j].fd]))
  <2>1. CASE j = s
    <3>1. clients'[j].buf = <<>>
      BY <1>1, <1>2, <1>3, <2>1
    <3> QED BY <3>1
  <2>2. CASE j # s
    <3>1. clients'[j] = clients[j] /\ clients[j].fd \in Fds
      <4>1. clients'[j] = clients[j]
        BY <1>1, <1>2, <2>2
      <4> QED BY <1>5, <4>1
    <3>2. clients[j].fd \in master /\ sock[clients[j].fd] # NoConn
      <4>1. clients[j].fd \in {clients[h].fd : h \in Slots} \ {-1, 0}
        BY <1>1, <3>1
      <4> QED BY <3>1, <4>1 DEF KernelOK, SlotsMatchKernel
    <3>3. sock'[clients[j].fd] = sock[clients[j].fd]
      BY <1>1, <1>4, <3>1, <3>2
    <3> QED BY <3>1, <3>3 DEF MembersInv, Owned
  <2> QED BY <2>1, <2>2
<1>6. Owned'
  BY <1>2, <1>5 DEF MembersInv, Owned
<1>7. ASSUME NEW u \in Users, IsPresent(udata'.ent[u])
      PROVE  sock'[udata.ent[u].fd] = sock[udata.ent[u].fd]
  <2>1. IsPresent(udata.ent[u]) /\ udata.ent[u].fd \in Fds /\ sock[udata.ent[u].fd] \in Conns
    BY <1>2, <1>7 DEF RoomAndOut, GoodRoom, MembersInv, Connected
  <2> QED BY <1>1, <1>4, <2>1 DEF ServerAssumption
<1>8. Connected'
  BY <1>2, <1>7, StaysConnected, SameNoNewcomer DEF MembersInv
<1> QED BY <1>6, <1>8 DEF MembersInv

(* A step that only moves what was sent.                                   *)
LEMMA TrafficMembers ==
  ASSUME MembersInv, UNCHANGED <<udata, sock>>,
         \A j \in Slots : clients'[j].fd = clients[j].fd /\ clients'[j].buf = clients[j].buf,
         \A c \in Conns : toServer'[c] \in Seq(Sayable(c))
  PROVE  MembersInv'
<1>1. Owned'
  BY DEF MembersInv, Owned
<1>2. Connected'
  BY DEF MembersInv, Connected
<1> QED BY <1>1, <1>2 DEF MembersInv

LEMMA RecvIncompleteMembers ==
  ASSUME ServerAssumption, KernelOK, MembersInv,
         NEW i \in Slots, NEW k \in RecvSizes, RecvIncomplete(i, k)
  PROVE  MembersInv'
<1>1. Turn(i) /\ RecvData(i, k)
  BY DEF RecvIncomplete, RecvData
<1>2. Sock(i) \in Conns /\ clients \in [Slots -> SlotRecord] /\ clients[i] \in SlotRecord
  BY <1>1, TurnFacts DEF KernelOK
<1>3. Unread(i, k) \in Seq(Sayable(Sock(i)))
  BY <1>1, OwnedRecv DEF MembersInv
<1>4. /\ toServer' = [toServer EXCEPT ![Sock(i)] = Unread(i, k)]
      /\ toServer \in [Conns -> Seq(Commands)]
      /\ clients' = [clients EXCEPT ![i] = [clients[i] EXCEPT !.part = Part(i, k)]]
  BY DEF RecvIncomplete, KernelOK
<1>5. ASSUME NEW c \in Conns PROVE toServer'[c] \in Seq(Sayable(c))
  <2>1. toServer[c] \in Seq(Sayable(c))
    BY DEF MembersInv, Owned
  <2>2. CASE c = Sock(i)
    BY <1>2, <1>3, <1>4, <2>2
  <2>3. CASE c # Sock(i)
    BY <1>4, <2>1, <2>3
  <2> QED BY <2>2, <2>3
<1>6. ASSUME NEW j \in Slots
      PROVE  clients'[j].fd = clients[j].fd /\ clients'[j].buf = clients[j].buf
  <2>1. CASE j = i
    BY <1>2, <1>4, <2>1 DEF SlotRecord
  <2>2. CASE j # i
    BY <1>2, <1>4, <2>2
  <2> QED BY <2>1, <2>2
<1> QED BY <1>5, <1>6, TrafficMembers DEF RecvIncomplete

LEMMA QueueMembers ==
  ASSUME ServerAssumption, KernelOK, MembersInv, AcceptRefuse \/ AcceptFails
  PROVE  MembersInv'
<1>1. \A c \in Conns : toServer'[c] = toServer[c] \/ toServer'[c] = <<>>
  BY DEF AcceptRefuse, AcceptFails, DropHead, KernelOK
<1>2. ASSUME NEW c \in Conns PROVE toServer'[c] \in Seq(Sayable(c))
  <2>1. toServer[c] \in Seq(Sayable(c)) /\ <<>> \in Seq(Sayable(c))
    BY DEF MembersInv, Owned
  <2> QED BY <1>1, <2>1
<1> QED BY <1>2, TrafficMembers DEF AcceptRefuse, AcceptFails

(* Whatever the program at the other end does.                            *)
LEMMA ProgramMembers ==
  ASSUME ServerAssumption, KernelOK, MembersInv, NEW c \in Conns,
         \/ PeerConnect(c) \/ PeerClose(c) \/ PeerReset(c)
         \/ \E cmd \in Sayable(c) : PeerSend(c, cmd)
  PROVE  MembersInv'
<1>2. toServer \in [Conns -> Seq(Commands)] /\ \A d \in Conns : toServer[d] \in Seq(Sayable(d))
  BY DEF KernelOK, MembersInv, Owned
<1>3. UNCHANGED <<udata, clients, sock>>
  BY DEF PeerConnect, PeerClose, PeerReset, PeerSend, serverVars
<1>4. CASE PeerConnect(c) \/ PeerClose(c)
  BY <1>2, <1>3, <1>4, TrafficMembers DEF PeerConnect, PeerClose
<1>5. CASE PeerReset(c)
  <2>1. \A d \in Conns : toServer'[d] = toServer[d] \/ toServer'[d] = <<>>
    BY <1>2, <1>5 DEF PeerReset
  <2>2. ASSUME NEW d \in Conns PROVE toServer'[d] \in Seq(Sayable(d))
    <3>1. <<>> \in Seq(Sayable(d))
      OBVIOUS
    <3> QED BY <1>2, <2>1, <3>1
  <2> QED BY <1>3, <2>2, TrafficMembers
<1>6. ASSUME NEW cmd \in Sayable(c), PeerSend(c, cmd) PROVE MembersInv'
  <2>1. /\ toServer' = [toServer EXCEPT ![c] = Append(toServer[c], cmd)]
        /\ Append(toServer[c], cmd) \in Seq(Sayable(c))
    BY <1>2, <1>6 DEF PeerSend
  <2>2. \A d \in Conns : toServer'[d] \in Seq(Sayable(d))
    BY <1>2, <2>1
  <2> QED BY <1>3, <2>2, TrafficMembers
<1> QED BY <1>4, <1>5, <1>6

LEMMA PeerMembers ==
  ASSUME ServerAssumption, KernelOK, MembersInv, Peer
  PROVE  MembersInv'
BY ProgramMembers, CmdsSayable DEF Peer

LEMMA InitMembers ==
  ASSUME Init
  PROVE  MembersInv
<1>1. Connected
  BY DEF Init, Connected, EmptyStore, BlankEntry, IsPresent
<1>2. \A j \in Slots : clients[j].fd \notin Fds
  BY DEF Init, UnusedSlot, Fds
<1>3. ASSUME NEW c \in Conns PROVE toServer[c] \in Seq(Sayable(c))
  <2>1. toServer[c] = <<>>
    BY DEF Init
  <2> QED BY <2>1
<1> QED BY <1>1, <1>2, <1>3 DEF MembersInv, Owned

LEMMA NextMembers ==
  ASSUME UdataAssumption, ServerAssumption, OneNameEach, KernelOK, RoomAndOut, MembersInv,
         [Next]_vars
  PROVE  MembersInv'
<1>1. \A c \in Conns : toServer[c] \in Seq(Sayable(c))
  BY DEF MembersInv, Owned
<1>2. CASE Select
  BY <1>1, <1>2, TrafficMembers DEF Select
<1>3. CASE Accept
  BY <1>3, AcceptMembers
<1>4. CASE AcceptRefuse \/ AcceptFails
  BY <1>4, QueueMembers
<1>5. ASSUME NEW i \in Slots, RecvError(i) PROVE MembersInv'
  BY <1>1, <1>5, TrafficMembers DEF RecvError
<1>6. ASSUME NEW i \in Slots, RecvEof(i) PROVE MembersInv'
  BY <1>6, RecvEofMembers
<1>7. ASSUME NEW i \in Slots, NEW k \in RecvSizes, RecvIncomplete(i, k) PROVE MembersInv'
  BY <1>7, RecvIncompleteMembers
<1>8. ASSUME NEW i \in Slots, NEW k \in RecvSizes, HandleCmd(i, k) PROVE MembersInv'
  BY <1>8, HandleMembers
<1>9. CASE Peer
  BY <1>9, PeerMembers
<1>10. CASE UNCHANGED vars
  BY <1>1, <1>10, TrafficMembers DEF vars
<1> QED BY <1>2, <1>3, <1>4, <1>5, <1>6, <1>7, <1>8, <1>9, <1>10 DEF Next, Server

(* The slot that a user in the room speaks through.                        *)
LEMMA MemberSlot ==
  ASSUME ServerAssumption, KernelOK, GoodRoom(udata), MembersInv,
         NEW u \in Users, IsPresent(udata.ent[u])
  PROVE  /\ udata.ent[u].fd \in Fds
         /\ MemberConn(u) \in Conns /\ MemberConn(u) # NoConn /\ u \in Names(MemberConn(u))
         /\ \E j \in Slots : j < num_clients /\ clients[j].fd = udata.ent[u].fd
<1>1. /\ udata.ent[u].fd \in Fds
      /\ MemberConn(u) \in Conns /\ MemberConn(u) # NoConn /\ u \in Names(MemberConn(u))
  BY DEF GoodRoom, MembersInv, Connected, MemberConn, ServerAssumption
<1>2. udata.ent[u].fd \in master
  BY <1>1 DEF KernelOK, SlotsMatchKernel, MemberConn
<1>3. PICK j \in Slots : clients[j].fd = udata.ent[u].fd
  <2>1. master = {clients[i].fd : i \in Slots} \ {-1, 0}
    BY DEF KernelOK, SlotsMatchKernel
  <2> QED BY <1>2, <2>1
<1>4. j < num_clients
  <2>1. clients[j] # UnusedSlot
    BY <1>1, <1>3 DEF UnusedSlot, Fds
  <2>2. \A i \in Slots : i >= num_clients => clients[i] = UnusedSlot
    BY DEF KernelOK, SlotsMatchKernel
  <2>3. j \in Int /\ num_clients \in Int
    BY DEF KernelOK, Slots
  <2> QED BY <2>1, <2>2, <2>3
<1> QED BY <1>1, <1>3, <1>4

LEMMA InvGivesMembers ==
  ASSUME ServerAssumption, OneNameEach, KernelOK, GoodRoom(udata), MembersInv
  PROVE  MembersConnected
<1>1. ASSUME NEW u \in Users, IsPresent(udata.ent[u]),
             NEW v \in Users, IsPresent(udata.ent[v]), udata.ent[v].fd = udata.ent[u].fd
      PROVE  u = v
  BY <1>1, OwnDescriptor DEF MembersInv
<1> QED BY <1>1, MemberSlot DEF MembersConnected, Present, HasFlag, IsPresent

LEMMA MembersInductive ==
  ASSUME OneNameEach
  PROVE  Spec => [](IInv /\ MembersInv)
<1> USE UdataAssumption, ServerAssumption
<1>1. Init => MembersInv
  BY InitMembers
<1>2. IInv /\ MembersInv /\ [Next]_vars => MembersInv'
  BY IInvParts, NextMembers DEF RoomAndOut, Outbox
<1> QED BY <1>1, <1>2, ServerInvariant, PTL DEF Spec

(* Whoever is in the room is at the other end of an open connection of     *)
(* their own (server.c:385-390, 651-656, servchat.c:423-428).              *)
THEOREM MembersAlwaysConnected ==
  ASSUME OneNameEach
  PROVE  Spec => []MembersConnected
<1>1. IInv /\ MembersInv => MembersConnected
  BY ServerAssumption, IInvParts, InvGivesMembers
<1> QED BY <1>1, MembersInductive, PTL

-----------------------------------------------------------------------------
(* Who is cut off.                                                         *)

LEMMA CutIsExpelled ==
  ASSUME UdataAssumption, ServerAssumption, KernelOK, RoomAndOut, MembersInv, [Next]_vars,
         NEW f \in Fds, sock[f] # NoConn, sock'[f] = NoConn, peer[sock[f]] = "up"
  PROVE  \E u \in Names(sock[f]) : Present(u) /\ udata.ent[u].fd = f /\ ~Present(u)'
<1>1. Owned /\ sock \in [Fds -> Conns \cup {NoConn}]
  BY DEF MembersInv, KernelOK
<1>2. PICK i \in Slots, k \in RecvSizes : Expel(i, k)
  <2>1. ASSUME NEW i \in Slots, NEW k \in RecvSizes, HandleCmd(i, k), ~Expel(i, k) PROVE FALSE
    <3>1. RecvData(i, k) /\ Received(i, k) # <<>> /\ Done(i, k, NoSlot)
      BY <2>1, RequestTyped DEF HandleCmd, DoorNak, DoorLeave, DoorJoin, Ignored, Nick,
         NickReply, Away, Beep, Oper, Psay, Say, Who, ModerateReply, Moderate, Chats
    <3>2. sock'[f] = sock[f]
      BY <1>1, <3>1, DoneOwned
    <3> QED BY <3>2
  <2>2. ASSUME NEW i \in Slots, RecvEof(i) PROVE FALSE
    <3>1. peer[sock[clients[i].fd]] = "fin" /\ sock'[f] = IF f = clients[i].fd THEN NoConn ELSE sock[f]
      BY <2>2 DEF RecvEof, CloseFds, Sock
    <3> QED BY <3>1
  <2>3. CASE Accept
    <3>1. sock' = [sock EXCEPT ![LowestFree] = Head(backlog)] /\ Head(backlog) \in Conns
      BY <2>3, HeadFacts DEF Accept, KernelOK, SnapshotTrue
    <3> QED BY <1>1, <3>1 DEF ServerAssumption
  <2>4. CASE sock' = sock
    BY <2>4
  <2>5. \/ sock' = sock \/ Accept \/ \E i \in Slots : RecvEof(i)
        \/ \E i \in Slots, k \in RecvSizes : HandleCmd(i, k)
    BY DEF Next, Server, Peer, PeerConnect, PeerClose, PeerReset, PeerSend, Select,
       AcceptRefuse, AcceptFails, RecvError, RecvIncomplete, vars
  <2> QED BY <2>1, <2>2, <2>3, <2>4, <2>5
<1> DEFINE t == Target(i, k)
<1>3. /\ t \in Users /\ IsPresent(udata.ent[t]) /\ ~IsPresent(udata'.ent[t])
      /\ SlotOf(t) \in Slots \cup {NoSlot}
      /\ SlotOf(t) # NoSlot => clients[SlotOf(t)].fd = udata.ent[t].fd
  BY <1>2, ExpelFacts
<1>4. RecvData(i, k) /\ Received(i, k) # <<>> /\ Done(i, k, SlotOf(t))
  BY <1>2, RequestTyped DEF Expel, Chats
<1> HIDE DEF t
<1>5. f = udata.ent[t].fd
  BY <1>1, <1>3, <1>4, DoneOwned
<1>6. t \in Names(sock[f])
  BY <1>3, <1>5 DEF MembersInv, Connected
<1> QED BY <1>3, <1>5, <1>6 DEF Present, HasFlag, IsPresent

(* The server closes the connection of a program that has not closed it    *)
(* only when it expels the user who speaks through it (servchat.c:419-421, *)
(* server.c:673-683).                                                      *)
THEOREM OnlyExpelledAreCut ==
  ASSUME OneNameEach
  PROVE  Spec => OnlyTheExpelledAreCut
<1> USE UdataAssumption, ServerAssumption
<1>1. IInv /\ MembersInv /\ [Next]_vars =>
        [\A f \in Fds :
           sock[f] # NoConn /\ sock'[f] = NoConn /\ peer[sock[f]] = "up" =>
             \E u \in Names(sock[f]) :
               Present(u) /\ udata.ent[u].fd = f /\ ~Present(u)']_vars
  <2> SUFFICES ASSUME IInv, MembersInv, [Next]_vars,
                      NEW f \in Fds, sock[f] # NoConn, sock'[f] = NoConn, peer[sock[f]] = "up"
               PROVE  \E u \in Names(sock[f]) :
                        Present(u) /\ udata.ent[u].fd = f /\ ~Present(u)'
    OBVIOUS
  <2>1. KernelOK /\ RoomAndOut
    BY IInvParts DEF RoomAndOut, Outbox
  <2> QED BY <2>1, CutIsExpelled
<1> QED BY <1>1, MembersInductive, PTL DEF Spec, OnlyTheExpelledAreCut

-----------------------------------------------------------------------------
(* What is written.                                                        *)

(* Every message of o is in M.                                             *)
Brings(o, M) == \A c \in Conns : \A n \in 1..Len(o[c]) : o[c][n] \in M

LEMMA BringsOne ==
  ASSUME NEW m, NEW M, m \in M
  PROVE  /\ Brings(Quiet, M)
         /\ \A fd : Brings(SendTo(fd, m), M)
         /\ \A i : Brings(Reply(i, m), M)
         /\ \A db, excl : Brings(ToRoom(db, m, excl), M)
<1>1. ASSUME NEW o, \A c \in Conns : o[c] = <<m>> \/ o[c] = <<>> PROVE Brings(o, M)
  <2>1. ASSUME NEW c \in Conns, NEW n \in 1..Len(o[c]) PROVE o[c][n] \in M
    <3>1. CASE o[c] = <<m>>
      BY <3>1
    <3>2. CASE o[c] = <<>>
      BY <3>2
    <3> QED BY <1>1, <3>1, <3>2
  <2> QED BY <2>1 DEF Brings
<1>2. Brings(Quiet, M)
  BY <1>1 DEF Quiet
<1>3. ASSUME NEW fd PROVE Brings(SendTo(fd, m), M)
  <2>1. \A c \in Conns : SendTo(fd, m)[c] = <<m>> \/ SendTo(fd, m)[c] = <<>>
    BY DEF SendTo
  <2> QED BY <1>1, <2>1
<1>4. ASSUME NEW db, NEW excl PROVE Brings(ToRoom(db, m, excl), M)
  <2>1. \A c \in Conns : ToRoom(db, m, excl)[c] = <<m>> \/ ToRoom(db, m, excl)[c] = <<>>
    BY DEF ToRoom
  <2> QED BY <1>1, <2>1
<1> QED BY <1>2, <1>3, <1>4 DEF Reply

LEMMA BringsBoth ==
  ASSUME NEW p, NEW q, NEW M, NEW m, NEW n, m \in M, n \in M,
         \A c \in Conns : p[c] = <<m>> \/ p[c] = <<>>,
         \A c \in Conns : q[c] = <<n>> \/ q[c] = <<>>
  PROVE  Brings(Then(p, q), M)
<1>1. <<m>> \in Seq(M) /\ <<n>> \in Seq(M) /\ <<>> \in Seq(M)
  OBVIOUS
<1>2. \A s, t \in Seq(M) : s \o t \in Seq(M)
  OBVIOUS
<1>3. \A c \in Conns : Then(p, q)[c] \in Seq(M)
  BY <1>1, <1>2 DEF Then
<1> QED BY <1>3 DEF Brings

(* Nothing but m is written.                                               *)
Only(o, m) == \A c \in Conns : \A n \in 1..Len(o[c]) : o[c][n] = m

LEMMA OnlyReply ==
  ASSUME NEW m, NEW i
  PROVE  Only(Reply(i, m), m)
<1>1. Brings(Reply(i, m), {m})
  BY BringsOne
<1> QED BY <1>1 DEF Brings, Only

LEMMA OnlyToRoom ==
  ASSUME NEW m, NEW db, NEW excl
  PROVE  Only(ToRoom(db, m, excl), m)
<1>1. Brings(ToRoom(db, m, excl), {m})
  BY BringsOne
<1> QED BY <1>1 DEF Brings, Only

LEMMA BothOrOne ==
  ASSUME NEW m, NEW n, NEW s \in {<<>>, <<m>>}, NEW t \in {<<>>, <<n>>}
  PROVE  s \o t # <<>> <=> s = <<m>> \/ t = <<n>>
<1> DEFINE S == Seq({m, n})
<1>1. <<>> \in S /\ <<m>> \in S /\ <<n>> \in S /\ Len(<<m>>) = 1 /\ Len(<<n>>) = 1
  OBVIOUS
<1>2. \A a, b \in S : a \o b \in S /\ Len(a \o b) = Len(a) + Len(b)
  OBVIOUS
<1>3. \A a \in S : Len(a) \in Nat /\ (a = <<>> <=> Len(a) = 0)
  OBVIOUS
<1>4. s \in S /\ t \in S
  BY <1>1
<1> HIDE DEF S
<1> QED BY <1>1, <1>2, <1>3, <1>4

(* Messages that are no talk and no answer of /who.                        *)
Plain(o) ==
  \A c \in Conns : \A n \in 1..Len(o[c]) : o[c][n].op \notin {"C_SAY", "C_ME", "C_PSAY", "C_WHO"}

LEMMA PlainMsg ==
  ASSUME NEW op, op \notin {"C_SAY", "C_ME", "C_PSAY", "C_WHO"}, NEW form, NEW nick, NEW other
  PROVE  /\ \A fd : Plain(SendTo(fd, Msg(op, form, nick, other)))
         /\ \A i : Plain(Reply(i, Msg(op, form, nick, other)))
         /\ \A db, excl : Plain(ToRoom(db, Msg(op, form, nick, other), excl))
<1> DEFINE m == Msg(op, form, nick, other)
<1>1. m.op = op
  BY DEF Msg
<1> HIDE DEF m
<1>2. ASSUME NEW o, Brings(o, {m}) PROVE Plain(o)
  BY <1>1, <1>2 DEF Brings, Plain
<1>3. /\ \A fd : Plain(SendTo(fd, m)) /\ \A i : Plain(Reply(i, m))
      /\ \A db, excl : Plain(ToRoom(db, m, excl))
  BY <1>2, BringsOne
<1> QED BY <1>3 DEF m

LEMMA PlainQuiet == Plain(Quiet)
BY DEF Plain, Quiet

LEMMA PlainThenReply ==
  ASSUME NEW db, NEW excl, NEW i, NEW nick, NEW form,
         NEW op \in {"C_DOOR"}, NEW ack \in {ACK}
  PROVE  Plain(Then(ToRoom(db, Msg(op, form, nick, NoString), excl), Reply(i, ack)))
<1> DEFINE m == Msg(op, form, nick, NoString)
           o == Then(ToRoom(db, m, excl), Reply(i, ack))
<1>1. m.op = "C_DOOR" /\ ack.op = "ACK"
  BY DEF Msg, ACK
<1> HIDE DEF m
<1>2. /\ \A c \in Conns : ToRoom(db, m, excl)[c] = <<m>> \/ ToRoom(db, m, excl)[c] = <<>>
      /\ \A c \in Conns : Reply(i, ack)[c] = <<ack>> \/ Reply(i, ack)[c] = <<>>
  BY DEF ToRoom, Reply, SendTo
<1>3. Brings(o, {m, ack})
  BY <1>2, BringsBoth
<1> HIDE DEF o
<1>4. Plain(o)
  BY <1>1, <1>3 DEF Brings, Plain
<1> QED BY <1>4 DEF o, m

(* Only Say, Psay and Who write talk and lists.                            *)
LEMMA HandlerPlain ==
  ASSUME ServerAssumption, KernelOK, NEW i \in Slots, NEW k \in RecvSizes,
         HandleCmd(i, k), ~Say(i, k), ~Psay(i, k), ~Who(i, k)
  PROVE  Plain(out')
<1>1. CASE DoorNak(i, k)
  BY <1>1, PlainMsg DEF DoorNak, NAK
<1>2. CASE DoorLeave(i, k)
  BY <1>2, PlainThenReply DEF DoorLeave, LeftMsg
<1>3. CASE DoorJoin(i, k)
  BY <1>3, PlainThenReply DEF DoorJoin
<1>4. CASE Ignored(i, k)
  BY <1>4, PlainQuiet DEF Ignored
<1>5. CASE Nick(i, k) \/ NickReply(i, k)
  BY <1>5, PlainMsg DEF Nick, NickReply
<1>6. CASE Away(i, k)
  BY <1>6, PlainMsg DEF Away
<1>7. CASE Beep(i, k)
  BY <1>7, PlainMsg DEF Beep
<1>8. CASE Oper(i, k)
  BY <1>8, PlainMsg DEF Oper
<1>9. CASE ModerateReply(i, k)
  <2>1. Request(i, k).op \in ModOps
    BY <1>9, RequestTyped DEF ModerateReply, Chats
  <2> QED BY <1>9, <2>1, PlainMsg DEF ModerateReply, ModOps
<1>10. CASE Moderate(i, k)
  <2>1. Request(i, k).op \in {"C_OP", "C_DEOP", "C_UNBAN"}
    BY <1>10, RequestTyped DEF Moderate, Chats
  <2> QED BY <1>10, <2>1, PlainMsg DEF Moderate, ModerateNotice
<1>11. CASE Expel(i, k)
  <2>1. Request(i, k).op \in {"C_BAN", "C_KICK"}
    BY <1>11, RequestTyped DEF Expel, Chats
  <2> QED BY <1>11, <2>1, PlainMsg DEF Expel, ModerateNotice
<1> QED BY <1>1, <1>2, <1>3, <1>4, <1>5, <1>6, <1>7, <1>8, <1>9, <1>10, <1>11 DEF HandleCmd

LEMMA StepPlain ==
  ASSUME ServerAssumption, KernelOK, Next,
         ~ \E i \in Slots, k \in RecvSizes : Say(i, k) \/ Psay(i, k) \/ Who(i, k)
  PROVE  Plain(out')
<1>1. CASE out' = Quiet
  BY <1>1, PlainQuiet
<1>2. ASSUME NEW i \in Slots, RecvEof(i) PROVE Plain(out')
  BY <1>2, PlainQuiet, PlainMsg DEF RecvEof, LeftMsg
<1>3. ASSUME NEW i \in Slots, NEW k \in RecvSizes, HandleCmd(i, k) PROVE Plain(out')
  BY <1>3, HandlerPlain
<1>4. \/ out' = Quiet \/ \E i \in Slots : RecvEof(i)
      \/ \E i \in Slots, k \in RecvSizes : HandleCmd(i, k)
  BY DEF Next, Server, Peer, PeerConnect, PeerClose, PeerReset, PeerSend, Select, Accept,
     AcceptRefuse, AcceptFails, RecvError, RecvIncomplete
<1> QED BY <1>1, <1>2, <1>3, <1>4

-----------------------------------------------------------------------------
(* What /who and the talk commands write.                                  *)

(* Every slot that speaks for somebody holds the descriptor of a user in   *)
(* the room, and every user in the room has such a slot.                   *)
LEMMA SpeakersAreMembers ==
  ASSUME UdataAssumption, ServerAssumption, OneNameEach, KernelOK, GoodRoom(udata), MembersInv
  PROVE  /\ \A j \in Slots : Speaker(j) # NoUser =>
              /\ Speaker(j) \in Users /\ IsPresent(udata.ent[Speaker(j)])
              /\ udata.ent[Speaker(j)].fd = clients[j].fd /\ clients[j].fd \in Fds
         /\ \A u \in Users : IsPresent(udata.ent[u]) =>
              \E j \in Slots : /\ clients[j].fd \in Fds /\ clients[j].fd = udata.ent[u].fd
                              /\ Speaker(j) = u
<1>1. udata \in Store /\ NoUser \notin Users
  BY DEF GoodRoom, UdataAssumption
<1>2. ASSUME NEW j \in Slots, Speaker(j) # NoUser
      PROVE  /\ Speaker(j) \in Users /\ IsPresent(udata.ent[Speaker(j)])
             /\ udata.ent[Speaker(j)].fd = clients[j].fd /\ clients[j].fd \in Fds
  <2>1. /\ Speaker(j) \in Users /\ IsPresent(udata.ent[Speaker(j)])
        /\ udata.ent[Speaker(j)].fd \in Fds
    BY <1>2, SpeakerPresent
  <2>2. udata.ent[Speaker(j)].fd = clients[j].fd
    BY <1>1, <1>2, GetByFdFinds DEF Speaker
  <2> QED BY <2>1, <2>2
<1>3. ASSUME NEW u \in Users, IsPresent(udata.ent[u])
      PROVE  \E j \in Slots : /\ clients[j].fd \in Fds /\ clients[j].fd = udata.ent[u].fd
                             /\ Speaker(j) = u
  <2>1. PICK j \in Slots : clients[j].fd = udata.ent[u].fd /\ clients[j].fd \in Fds
    BY <1>3, MemberSlot
  <2>2. Listed(udata, u)
    BY <1>3 DEF GoodRoom
  <2>3. Speaker(j) # NoUser
    BY <1>1, <1>3, <2>1, <2>2, GetByFdFinds DEF Speaker
  <2>4. Speaker(j) = u
    BY <1>2, <1>3, <2>1, <2>3, OwnDescriptor DEF MembersInv
  <2> QED BY <2>1, <2>4
<1> QED BY <1>2, <1>3

LEMMA RoomListIs ==
  ASSUME UdataAssumption, ServerAssumption, OneNameEach, KernelOK, GoodRoom(udata), MembersInv
  PROVE  {item.user : item \in RoomList} = {u \in Users : Present(u)}
<1> DEFINE W == {Speaker(j) : j \in {h \in Slots : clients[h].fd \in Fds}} \ {NoUser}
           Item(u) == [user |-> u, nick |-> NickOf(u), marks |-> NameMarks(u)]
<1>1. {item.user : item \in RoomList} = W
  <2>1. RoomList = {Item(u) : u \in W}
    BY DEF RoomList
  <2>2. \A u : Item(u).user = u
    OBVIOUS
  <2> HIDE DEF W, Item
  <2> QED BY <2>1, <2>2
<1>2. W = {u \in Users : IsPresent(udata.ent[u])}
  BY SpeakersAreMembers DEF UdataAssumption
<1> QED BY <1>1, <1>2 DEF Present, HasFlag, IsPresent

(* A message to everybody in the room arrives exactly there.               *)
LEMMA RoomIsTold ==
  ASSUME UdataAssumption, ServerAssumption, OneNameEach, KernelOK, GoodRoom(udata), MembersInv,
         NEW m
  PROVE  LET o == ToRoom(udata, m, NoSlot)
         IN  /\ \A d \in Conns : o[d] = <<>> \/ o[d] = <<m>>
             /\ {d \in Conns : o[d] # <<>>}
                = {MemberConn(u) : u \in {v \in Users : IsPresent(udata.ent[v])}}
<1> DEFINE o == ToRoom(udata, m, NoSlot)
           L == {j \in Slots : clients[j].fd \in Fds /\ Speaker(j) # NoUser}
<1>1. \A d \in Conns : o[d] = IF \E j \in L : sock[clients[j].fd] = d THEN <<m>> ELSE <<>>
  BY DEF ToRoom, Speaker, NoSlot, Slots
<1>2. <<m>> # <<>>
  OBVIOUS
<1> HIDE DEF o
<1>3. \A d \in Conns : o[d] # <<>> <=> \E j \in L : sock[clients[j].fd] = d
  BY <1>1, <1>2
<1>4. ASSUME NEW d \in Conns, NEW j \in L, sock[clients[j].fd] = d
      PROVE  \E u \in Users : IsPresent(udata.ent[u]) /\ d = MemberConn(u)
  BY <1>4, SpeakersAreMembers DEF MemberConn
<1>5. ASSUME NEW u \in Users, IsPresent(udata.ent[u])
      PROVE  MemberConn(u) \in Conns /\ \E j \in L : sock[clients[j].fd] = MemberConn(u)
  BY <1>5, MemberSlot, SpeakersAreMembers DEF MemberConn, UdataAssumption
<1>6. {d \in Conns : o[d] # <<>>}
      = {MemberConn(u) : u \in {v \in Users : IsPresent(udata.ent[v])}}
  BY <1>3, <1>4, <1>5
<1> QED BY <1>1, <1>6 DEF o

(* Private talk: both copies name the sender, and they go to the           *)
(* connections of the sender and of the recipient.                         *)
LEMMA PrivateTalk ==
  ASSUME UdataAssumption, ServerAssumption, OneNameEach, KernelOK, GoodRoom(udata), MembersInv,
         NEW i \in Slots, NEW k \in RecvSizes, Psay(i, k)
  PROVE  /\ udata' = udata
         /\ \A c \in Conns : \A n \in 1..Len(out'[c]) : out'[c][n].op = "C_PSAY"
         /\ \A c \in Conns : \A n \in 1..Len(out'[c]) : out'[c][n].form # "absent" =>
              \E u, v \in Users :
                /\ IsPresent(udata.ent[u]) /\ IsPresent(udata.ent[v])
                /\ NickOf(u) = out'[c][n].nick
                /\ {d \in Conns : out'[d] # <<>>} = {MemberConn(u), MemberConn(v)}
<1> DEFINE arg == Request(i, k).arg
           me == Speaker(i)
           t == IF arg = NoString THEN NoUser ELSE UdataGetByNick(udata, arg)
           mt == Msg("C_PSAY", "notice", NickOf(me), NoString)
           mm == Msg("C_PSAY", "reply", NickOf(me), NickOf(t))
           ma == Msg("C_PSAY", "absent", arg, NoString)
           p == SendTo(udata.ent[t].fd, mt)
           q == Reply(i, mm)
<1>1. /\ udata' = udata /\ me # NoUser
      /\ out' = IF t # NoUser THEN Then(p, q) ELSE Reply(i, ma)
  BY DEF Psay, Chats
<1>2. /\ mt.op = "C_PSAY" /\ mm.op = "C_PSAY" /\ ma.op = "C_PSAY" /\ ma.form = "absent"
      /\ mt.nick = NickOf(me) /\ mm.nick = NickOf(me)
  BY DEF Msg
<1>3. t # NoUser => t \in Users /\ IsPresent(udata.ent[t]) /\ udata.ent[t].fd \in Fds
  BY FoundIsPresent
<1>4. /\ me \in Users /\ IsPresent(udata.ent[me]) /\ udata.ent[me].fd = clients[i].fd
      /\ clients[i].fd \in Fds
  BY <1>1, SpeakersAreMembers
<1> HIDE DEF t, mt, mm, ma, arg, me
<1>5. CASE t = NoUser
  <2>1. Only(out', ma)
    BY <1>1, <1>5, OnlyReply
  <2> QED BY <1>1, <1>2, <2>1 DEF Only
<1>6. CASE t # NoUser
  <2>1. /\ \A c \in Conns : p[c] = IF c = MemberConn(t) THEN <<mt>> ELSE <<>>
        /\ \A c \in Conns : q[c] = IF c = MemberConn(me) THEN <<mm>> ELSE <<>>
    BY <1>3, <1>4, <1>6 DEF SendTo, Reply, MemberConn
  <2> HIDE DEF p, q
  <2>2. \A c \in Conns : \A n \in 1..Len(out'[c]) : out'[c][n] \in {mt, mm}
    BY <1>1, <1>6, <2>1, BringsBoth DEF Brings
  <2>3. ASSUME NEW d \in Conns
        PROVE  out'[d] # <<>> <=> d \in {MemberConn(me), MemberConn(t)}
    <3>1. out'[d] = p[d] \o q[d]
      BY <1>1, <1>6 DEF Then
    <3>2. p[d] \in {<<>>, <<mt>>} /\ q[d] \in {<<>>, <<mm>>}
      BY <2>1
    <3>3. out'[d] # <<>> <=> p[d] = <<mt>> \/ q[d] = <<mm>>
      BY <3>1, <3>2, BothOrOne
    <3>4. <<mt>> # <<>> /\ <<mm>> # <<>>
      OBVIOUS
    <3> QED BY <2>1, <3>3, <3>4
  <2>4. MemberConn(me) \in Conns /\ MemberConn(t) \in Conns
    BY <1>3, <1>4, <1>6, MemberSlot
  <2>5. {d \in Conns : out'[d] # <<>>} = {MemberConn(me), MemberConn(t)}
    BY <2>3, <2>4
  <2> QED BY <1>1, <1>2, <1>3, <1>4, <1>6, <2>2, <2>5
<1> QED BY <1>5, <1>6

LEMMA NextLists ==
  ASSUME UdataAssumption, ServerAssumption, OneNameEach, KernelOK, RoomAndOut, MembersInv,
         WhoListsTheRoom, [Next]_vars
  PROVE  WhoListsTheRoom'
<1>1. ASSUME NEW i \in Slots, NEW k \in RecvSizes, Who(i, k) PROVE WhoListsTheRoom'
  <2> DEFINE r == IF Request(i, k).arg = WHO_SYSTEM THEN {} ELSE RoomList
             m == [op |-> "C_WHO", what |-> Request(i, k).arg, room |-> r]
  <2>1. udata' = udata /\ out' = Reply(i, m)
    BY <1>1 DEF Who
  <2>2. m.what # WHO_SYSTEM => m.room = RoomList
    OBVIOUS
  <2> HIDE DEF m
  <2>3. Only(out', m)
    BY <2>1, OnlyReply
  <2>4. {item.user : item \in RoomList} = {u \in Users : Present(u)'}
    BY <2>1, RoomListIs DEF RoomAndOut, Present, HasFlag
  <2> QED BY <2>2, <2>3, <2>4 DEF WhoListsTheRoom, Only
<1>2. ASSUME NEW i \in Slots, NEW k \in RecvSizes, Say(i, k) PROVE WhoListsTheRoom'
  <2> DEFINE m == [op |-> Request(i, k).op, nick |-> NickOf(Speaker(i)),
                   marks |-> NameMarks(Speaker(i))]
  <2>1. out' = ToRoom(udata, m, NoSlot)
    BY <1>2 DEF Say
  <2>2. m.op # "C_WHO"
    BY <1>2, RequestTyped DEF Say, Chats
  <2> HIDE DEF m
  <2>3. Only(out', m)
    BY <2>1, OnlyToRoom
  <2> QED BY <2>2, <2>3 DEF WhoListsTheRoom, Only
<1>3. ASSUME NEW i \in Slots, NEW k \in RecvSizes, Psay(i, k) PROVE WhoListsTheRoom'
  <2>1. \A c \in Conns : \A n \in 1..Len(out'[c]) : out'[c][n].op = "C_PSAY"
    BY <1>3, PrivateTalk DEF RoomAndOut
  <2> QED BY <2>1 DEF WhoListsTheRoom
<1>4. CASE UNCHANGED vars
  BY <1>4 DEF vars, WhoListsTheRoom, Present, HasFlag
<1>5. CASE Plain(out')
  BY <1>5 DEF Plain, WhoListsTheRoom
<1> QED BY <1>1, <1>2, <1>3, <1>4, <1>5, StepPlain

(* The users in the room a /who answer lists are those who are in it, for  *)
(* every program that asks and however many come and go (servchat.c:334-355). *)
THEOREM WhoAlwaysListsTheRoom ==
  ASSUME OneNameEach
  PROVE  Spec => []WhoListsTheRoom
<1> USE UdataAssumption, ServerAssumption
<1>1. Init => WhoListsTheRoom
  BY DEF Init, Quiet, WhoListsTheRoom
<1>2. IInv /\ MembersInv /\ WhoListsTheRoom /\ [Next]_vars => WhoListsTheRoom'
  BY IInvParts, NextLists DEF RoomAndOut, Outbox
<1> QED BY <1>1, <1>2, MembersInductive, PTL DEF Spec

(* Public talk: every copy names the speaker, and they go to the           *)
(* connections of the users in the room.                                   *)
LEMMA PublicTalk ==
  ASSUME UdataAssumption, ServerAssumption, OneNameEach, KernelOK, GoodRoom(udata), MembersInv,
         NEW i \in Slots, NEW k \in RecvSizes, Say(i, k)
  PROVE  /\ udata' = udata
         /\ {d \in Conns : out'[d] # <<>>}
            = {MemberConn(u) : u \in {v \in Users : IsPresent(udata.ent[v])}}
         /\ \A c, d \in Conns : out'[c] # <<>> /\ out'[d] # <<>> => out'[d] = out'[c]
         /\ \A c \in Conns : \A n \in 1..Len(out'[c]) :
              /\ out'[c] # <<>>
              /\ out'[c][n].op \in {"C_SAY", "C_ME"}
              /\ \E u \in Users : IsPresent(udata.ent[u]) /\ NickOf(u) = out'[c][n].nick
                                /\ NameMarks(u) = out'[c][n].marks
<1> DEFINE u == Speaker(i)
           m == [op |-> Request(i, k).op, nick |-> NickOf(u), marks |-> NameMarks(u)]
<1>1. udata' = udata /\ out' = ToRoom(udata, m, NoSlot) /\ u # NoUser
  BY DEF Say, Chats
<1>2. m.op \in {"C_SAY", "C_ME"} /\ m.nick = NickOf(u) /\ m.marks = NameMarks(u)
  BY RequestTyped DEF Say, Chats
<1>3. u \in Users /\ IsPresent(udata.ent[u])
  BY <1>1, SpeakersAreMembers
<1> HIDE DEF m, u
<1>4. /\ \A d \in Conns : out'[d] = <<>> \/ out'[d] = <<m>>
      /\ {d \in Conns : out'[d] # <<>>}
         = {MemberConn(v) : v \in {w \in Users : IsPresent(udata.ent[w])}}
  BY <1>1, RoomIsTold
<1>5. Only(out', m)
  BY <1>1, OnlyToRoom
<1>6. \A c \in Conns : \A n \in 1..Len(out'[c]) : out'[c] # <<>>
  OBVIOUS
<1> QED BY <1>1, <1>2, <1>3, <1>4, <1>5, <1>6 DEF Only

LEMMA NextTalks ==
  ASSUME UdataAssumption, ServerAssumption, OneNameEach, KernelOK, RoomAndOut, MembersInv,
         TalkStaysInRoom, [Next]_vars
  PROVE  TalkStaysInRoom'
<1>1. ASSUME NEW i \in Slots, NEW k \in RecvSizes, Say(i, k) \/ Psay(i, k)
      PROVE  \A u \in Users : IsPresent(udata.ent[u]) => MemberConn(u)' = MemberConn(u)
  <2>1. /\ RecvData(i, k) /\ Received(i, k) # <<>> /\ Done(i, k, NoSlot) /\ udata' = udata
    BY <1>1, RequestTyped DEF Say, Psay, Chats
  <2>2. \A f \in Fds : sock'[f] = sock[f]
    BY <2>1, DoneOwned DEF MembersInv
  <2> QED BY <2>1, <2>2 DEF RoomAndOut, GoodRoom, MemberConn
<1>2. ASSUME NEW i \in Slots, NEW k \in RecvSizes, Say(i, k) PROVE TalkStaysInRoom'
  <2>1. /\ udata' = udata
        /\ {d \in Conns : out'[d] # <<>>}
           = {MemberConn(u) : u \in {v \in Users : IsPresent(udata.ent[v])}}
        /\ \A c, d \in Conns : out'[c] # <<>> /\ out'[d] # <<>> => out'[d] = out'[c]
        /\ \A c \in Conns : \A n \in 1..Len(out'[c]) :
             /\ out'[c] # <<>>
             /\ out'[c][n].op \in {"C_SAY", "C_ME"}
             /\ \E u \in Users : IsPresent(udata.ent[u]) /\ NickOf(u) = out'[c][n].nick
                               /\ NameMarks(u) = out'[c][n].marks
    BY <1>2, PublicTalk DEF RoomAndOut
  <2>2. {MemberConn(u) : u \in {v \in Users : IsPresent(udata.ent[v])}}
        = {MemberConn(u)' : u \in {v \in Users : Present(v)'}}
    <3>1. \A u \in Users : Present(u)' <=> IsPresent(udata.ent[u])
      BY <2>1 DEF Present, HasFlag, IsPresent
    <3> QED BY <1>1, <1>2, <3>1
  <2>3. ASSUME NEW c \in Conns, NEW n \in 1..Len(out'[c])
        PROVE  \E u \in Users : Present(u)' /\ NickOf(u)' = out'[c][n].nick
                               /\ NameMarks(u)' = out'[c][n].marks
    BY <2>1 DEF Present, HasFlag, IsPresent, NickOf, NameMarks
  <2>4. \A c \in Conns : \A n \in 1..Len(out'[c]) : out'[c][n].op # "C_PSAY"
    BY <2>1
  <2>5. {d \in Conns : out'[d] # <<>>} = {MemberConn(u)' : u \in {v \in Users : Present(v)'}}
    BY <2>1, <2>2
  <2> QED BY <2>1, <2>3, <2>4, <2>5 DEF TalkStaysInRoom
<1>3. ASSUME NEW i \in Slots, NEW k \in RecvSizes, Psay(i, k) PROVE TalkStaysInRoom'
  <2>1. /\ udata' = udata
        /\ \A c \in Conns : \A n \in 1..Len(out'[c]) : out'[c][n].op = "C_PSAY"
        /\ \A c \in Conns : \A n \in 1..Len(out'[c]) : out'[c][n].form # "absent" =>
             \E u, v \in Users :
               /\ IsPresent(udata.ent[u]) /\ IsPresent(udata.ent[v])
               /\ NickOf(u) = out'[c][n].nick
               /\ {d \in Conns : out'[d] # <<>>} = {MemberConn(u), MemberConn(v)}
    BY <1>3, PrivateTalk DEF RoomAndOut
  <2>2. ASSUME NEW c \in Conns, NEW n \in 1..Len(out'[c]), out'[c][n].form # "absent"
        PROVE  \E u, v \in Users :
                 /\ Present(u)' /\ Present(v)' /\ NickOf(u)' = out'[c][n].nick
                 /\ {d \in Conns : out'[d] # <<>>} = {MemberConn(u)', MemberConn(v)'}
    <3>1. PICK u, v \in Users :
            /\ IsPresent(udata.ent[u]) /\ IsPresent(udata.ent[v])
            /\ NickOf(u) = out'[c][n].nick
            /\ {d \in Conns : out'[d] # <<>>} = {MemberConn(u), MemberConn(v)}
      BY <2>1, <2>2
    <3>2. MemberConn(u)' = MemberConn(u) /\ MemberConn(v)' = MemberConn(v)
      BY <1>1, <1>3, <3>1
    <3>3. Present(u)' /\ Present(v)' /\ NickOf(u)' = NickOf(u)
      BY <2>1, <3>1 DEF Present, HasFlag, IsPresent, NickOf
    <3> QED BY <3>1, <3>2, <3>3
  <2>3. \A c \in Conns : \A n \in 1..Len(out'[c]) : out'[c][n].op \notin {"C_SAY", "C_ME"}
    BY <2>1
  <2> QED BY <2>2, <2>3 DEF TalkStaysInRoom
<1>4. ASSUME NEW i \in Slots, NEW k \in RecvSizes, Who(i, k) PROVE TalkStaysInRoom'
  <2> DEFINE r == IF Request(i, k).arg = WHO_SYSTEM THEN {} ELSE RoomList
             m == [op |-> "C_WHO", what |-> Request(i, k).arg, room |-> r]
  <2>1. out' = Reply(i, m) /\ m.op = "C_WHO"
    BY <1>4 DEF Who
  <2> HIDE DEF m
  <2>2. Only(out', m)
    BY <2>1, OnlyReply
  <2> QED BY <2>1, <2>2 DEF TalkStaysInRoom, Only
<1>5. CASE UNCHANGED vars
  <2>1. out' = out
    BY <1>5 DEF vars
  <2>2. \A u : /\ Present(u)' = Present(u) /\ MemberConn(u)' = MemberConn(u)
               /\ NickOf(u)' = NickOf(u) /\ NameMarks(u)' = NameMarks(u)
    BY <1>5 DEF vars, Present, HasFlag, MemberConn, NickOf, NameMarks
  <2>3. /\ {MemberConn(u)' : u \in {v \in Users : Present(v)'}}
           = {MemberConn(u) : u \in {v \in Users : Present(v)}}
    BY <2>2
  <2> QED BY <2>1, <2>2, <2>3 DEF TalkStaysInRoom
<1>6. CASE Plain(out')
  BY <1>6 DEF Plain, TalkStaysInRoom
<1> QED BY <1>2, <1>3, <1>4, <1>5, <1>6, StepPlain

(* Public talk reaches everybody in the room and nobody else, and private  *)
(* talk its two ends only (servchat.c:266-314).                            *)
THEOREM TalkAlwaysStaysInRoom ==
  ASSUME OneNameEach
  PROVE  Spec => []TalkStaysInRoom
<1> USE UdataAssumption, ServerAssumption
<1>1. Init => TalkStaysInRoom
  BY DEF Init, Quiet, TalkStaysInRoom
<1>2. IInv /\ MembersInv /\ TalkStaysInRoom /\ [Next]_vars => TalkStaysInRoom'
  BY IInvParts, NextTalks DEF RoomAndOut, Outbox
<1> QED BY <1>1, <1>2, MembersInductive, PTL DEF Spec

-----------------------------------------------------------------------------
(* Who is told of a change.                                                *)

(* What v is told of a change of u in this step.                           *)
ToldOf(v, u) ==
  /\ ~Present(u) /\ Present(u)' => Told(v, Msg("C_DOOR", "yes", NickOf(u)', NoString))
  /\ Present(u) /\ ~Present(u)' =>
       \/ Told(v, LeftMsg(u))
       \/ \E w \in Users, op \in {"C_KICK", "C_BAN"} :
            HasFlag(w, "OPERATOR") /\ Told(v, Msg(op, "notice", NickOf(u), NickOf(w)))
  /\ Present(u) /\ Present(u)' =>
       /\ NickOf(u) # NickOf(u)' => Told(v, Msg("C_NICK", "notice", NickOf(u)', NickOf(u)))
       /\ ~HasFlag(u, "OPERATOR") /\ HasFlag(u, "OPERATOR")' =>
            \/ Told(v, Msg("C_OPER", "notice", NickOf(u), NoString))
            \/ \E w \in Users : Told(v, Msg("C_OP", "notice", NickOf(u), NickOf(w)))
       /\ HasFlag(u, "OPERATOR") /\ ~HasFlag(u, "OPERATOR")' =>
            \E w \in Users : Told(v, Msg("C_DEOP", "notice", NickOf(u), NickOf(w)))
       /\ ~HasFlag(u, "AWAY") /\ HasFlag(u, "AWAY")' =>
            Told(v, Msg("C_AWAY", "yes", NickOf(u), NoString))
       /\ HasFlag(u, "AWAY") /\ ~HasFlag(u, "AWAY")' =>
            Told(v, Msg("C_AWAY", "no", NickOf(u), NoString))

(* A member of the room db, whose slot is not left out, is told.           *)
LEMMA MemberIsTold ==
  ASSUME UdataAssumption, ServerAssumption, KernelOK, GoodRoom(udata), MembersInv,
         NEW db, GoodRoom(db), NEW m, NEW excl, NEW v \in Users,
         IsPresent(udata.ent[v]), IsPresent(db.ent[v]), db.ent[v].fd = udata.ent[v].fd,
         \A j \in Slots : j = excl => clients[j].fd # udata.ent[v].fd,
         \/ out' = ToRoom(db, m, excl)
         \/ \E i \in Slots : out' = Then(ToRoom(db, m, excl), Reply(i, ACK))
  PROVE  Told(v, m)
<1> DEFINE c == MemberConn(v)
           o == ToRoom(db, m, excl)
<1>1. PICK j \in Slots : clients[j].fd = udata.ent[v].fd
  BY MemberSlot
<1>2. clients[j].fd \in Fds /\ sock[clients[j].fd] = c /\ c \in Conns
  BY <1>1, MemberSlot DEF MemberConn
<1>3. UdataGetByFd(db, clients[j].fd) # NoUser
  <2>1. db \in Store /\ Listed(db, v)
    BY DEF GoodRoom
  <2> QED BY <1>1, <2>1, GetByFdFinds
<1>4. o[c] = <<m>>
  BY <1>1, <1>2, <1>3 DEF ToRoom
<1> HIDE DEF c, o
<1>5. \E t \in {<<>>, <<ACK>>} : out'[c] = <<m>> \/ out'[c] = <<m>> \o t
  <2>1. CASE out' = o
    BY <1>4, <2>1
  <2>2. ASSUME NEW i \in Slots, out' = Then(o, Reply(i, ACK))
        PROVE  \E t \in {<<>>, <<ACK>>} : out'[c] = <<m>> \o t
    <3>1. out'[c] = o[c] \o Reply(i, ACK)[c] /\ Reply(i, ACK)[c] \in {<<>>, <<ACK>>}
      BY <1>2, <2>2 DEF Then, Reply, SendTo
    <3> QED BY <1>4, <3>1
  <2> QED BY <2>1, <2>2 DEF o
<1>6. \E n \in 1..Len(out'[c]) : out'[c][n] = m
  <2>1. ASSUME NEW t \in {<<>>, <<ACK>>}, NEW s, s = <<m>> \/ s = <<m>> \o t
        PROVE  1 \in 1..Len(s) /\ s[1] = m
    <3> DEFINE S == Seq({m, ACK})
    <3>1. <<m>> \in S /\ Len(<<m>>) = 1 /\ <<m>>[1] = m
      OBVIOUS
    <3>3. t \in S
      <4>1. <<>> \in S /\ <<ACK>> \in S
        OBVIOUS
      <4> HIDE DEF S
      <4> QED BY <4>1
    <3>4. Len(t) \in Nat
      BY <3>3
    <3>2. \A a, b \in S : /\ Len(a \o b) = Len(a) + Len(b)
                          /\ Len(a) >= 1 => (a \o b)[1] = a[1]
      OBVIOUS
    <3> HIDE DEF S
    <3> QED BY <2>1, <3>1, <3>2, <3>3, <3>4
  <2> QED BY <1>5, <2>1
<1> QED BY <1>6 DEF Told, c

LEMMA KeptIsQuiet ==
  ASSUME NEW v, NEW u, \/ udata'.ent[u] = udata.ent[u]
                       \/ ~IsPresent(udata.ent[u]) /\ ~IsPresent(udata'.ent[u])
  PROVE  ToldOf(v, u)
BY DEF ToldOf, Present, HasFlag, NickOf, IsPresent

(* The flags of w change, and nothing else.                                *)
OnlyFlags(db, new, w, fl) ==
  /\ new.ent[w].flags = fl /\ new.ent[w].nick = db.ent[w].nick
  /\ \A u \in Users \ {w} : new.ent[u] = db.ent[u]

LEMMA FlaggedOnly ==
  ASSUME NEW db \in Store, NEW w \in Users, NEW fl
  PROVE  OnlyFlags(db, With(db, w, Flagged(db.ent[w], fl)), w, fl)
<1> DEFINE e == Flagged(db.ent[w], fl)
           new == With(db, w, e)
<1>1. e.flags = fl /\ e.nick = db.ent[w].nick
  BY DEF Flagged, Ent
<1> HIDE DEF e
<1>2. new.ent[w] = e /\ \A u \in Users \ {w} : new.ent[u] = db.ent[u]
  BY DEF With, Store
<1> HIDE DEF new
<1>3. OnlyFlags(db, new, w, fl)
  BY <1>1, <1>2 DEF OnlyFlags
<1> QED BY <1>3 DEF e, new

LEMMA CallsChangeFlags ==
  ASSUME NEW db \in Store, NEW w \in Users, Listed(db, w)
  PROVE  /\ \A f : OnlyFlags(db, UdataFlagSet(db, w, f), w, db.ent[w].flags \cup f)
         /\ \A f : OnlyFlags(db, UdataFlagUnset(db, w, f), w, db.ent[w].flags \ f)
         /\ OnlyFlags(db, LeaveRoom(db, w), w, db.ent[w].flags \ InRoomFlags)
         /\ OnlyFlags(db, LeaveRoom(UdataFlagSet(db, w, {"BANNED"}), w), w,
                      (db.ent[w].flags \cup {"BANNED"}) \ InRoomFlags)
<1>1. \A fl : OnlyFlags(db, With(db, w, Flagged(db.ent[w], fl)), w, fl)
  BY FlaggedOnly
<1>2. ASSUME NEW f
      PROVE  /\ OnlyFlags(db, UdataFlagSet(db, w, f), w, db.ent[w].flags \cup f)
             /\ OnlyFlags(db, UdataFlagUnset(db, w, f), w, db.ent[w].flags \ f)
  BY <1>1, FlagSetIs, FlagUnsetIs
<1>3. OnlyFlags(db, LeaveRoom(db, w), w, db.ent[w].flags \ InRoomFlags)
  BY <1>1, LeaveRoomIs
<1>4. OnlyFlags(db, LeaveRoom(UdataFlagSet(db, w, {"BANNED"}), w), w,
                (db.ent[w].flags \cup {"BANNED"}) \ InRoomFlags)
  BY <1>1, BanIs
<1> QED BY <1>2, <1>3, <1>4

(* The room is told what becomes of w, and nobody else changes.            *)
LEMMA RoomIsToldOf ==
  ASSUME UdataAssumption, ServerAssumption, KernelOK, GoodRoom(udata), MembersInv,
         GoodRoom(udata'), NEW w \in Users, NEW m, NEW v \in Users \ {w},
         \A u \in Users \ {w} : udata'.ent[u] = udata.ent[u],
         IsPresent(udata.ent[v]), out' = ToRoom(udata', m, NoSlot)
  PROVE  Told(v, m)
<1>1. \A j \in Slots : j # NoSlot
  BY DEF Slots, NoSlot
<1>2. udata'.ent[v] = udata.ent[v]
  OBVIOUS
<1> DEFINE db == udata'
<1>3. GoodRoom(db) /\ db.ent[v] = udata.ent[v] /\ out' = ToRoom(db, m, NoSlot)
  BY <1>2
<1> HIDE DEF db
<1> QED BY <1>1, <1>3, MemberIsTold

LEMMA NickIsTold ==
  ASSUME UdataAssumption, ServerAssumption, KernelOK, GoodRoom(udata), MembersInv,
         GoodRoom(udata'), NEW i \in Slots, NEW k \in RecvSizes, Nick(i, k),
         NEW v \in Users, IsPresent(udata.ent[v]), NEW u \in Users \ {v}
  PROVE  ToldOf(v, u)
<1> DEFINE w == Speaker(i)
           n == Request(i, k).arg
           m == Msg("C_NICK", "notice", n, NickOf(w))
<1>1. /\ udata \in Store /\ udata' = UdataUpdate(udata, UdataDefEntry(w, n, -1))
      /\ out' = ToRoom(udata', m, NoSlot)
  BY DEF Nick, GoodRoom
<1>2. w \in Users /\ Listed(udata, w) /\ IsPresent(udata.ent[w])
  BY SpeakerPresent DEF Nick, Chats
<1>3. n \in Strings /\ n # NoString
  BY RequestTyped DEF Nick, Chats
<1> HIDE DEF w, n
<1>4. udata' = With(udata, w, Ent(udata.ent[w], n, udata.ent[w].fd, udata.ent[w].flags))
  BY <1>1, <1>2, <1>3, RenameIs
<1>5. /\ udata'.ent[w] = Ent(udata.ent[w], n, udata.ent[w].fd, udata.ent[w].flags)
      /\ \A x \in Users \ {w} : udata'.ent[x] = udata.ent[x]
  BY <1>1, <1>2, <1>4 DEF With, Store
<1>6. udata'.ent[w].nick = n /\ udata'.ent[w].flags = udata.ent[w].flags
  BY <1>5 DEF Ent
<1>7. CASE u # w
  BY <1>5, <1>7, KeptIsQuiet
<1>8. CASE u = w
  <2>1. Told(v, m)
    BY <1>1, <1>2, <1>5, <1>8, RoomIsToldOf
  <2> QED BY <1>2, <1>6, <1>8, <2>1 DEF ToldOf, Present, HasFlag, NickOf, IsPresent
<1> QED BY <1>7, <1>8

LEMMA AwayIsTold ==
  ASSUME UdataAssumption, ServerAssumption, KernelOK, GoodRoom(udata), MembersInv,
         GoodRoom(udata'), NEW i \in Slots, NEW k \in RecvSizes, Away(i, k),
         NEW v \in Users, IsPresent(udata.ent[v]), NEW u \in Users \ {v}
  PROVE  ToldOf(v, u)
<1> DEFINE w == Speaker(i)
           fl == udata.ent[w].flags
           yes == Msg("C_AWAY", "yes", NickOf(w), NoString)
           no == Msg("C_AWAY", "no", NickOf(w), NoString)
<1>1. /\ udata \in Store
      /\ \/ /\ "AWAY" \in fl /\ udata' = UdataFlagUnset(udata, w, {"AWAY"})
            /\ out' = ToRoom(udata', no, NoSlot)
         \/ /\ "AWAY" \notin fl /\ udata' = UdataFlagSet(udata, w, {"AWAY"})
            /\ out' = ToRoom(udata', yes, NoSlot)
  BY DEF Away, GoodRoom, HasFlag
<1>2. w \in Users /\ Listed(udata, w) /\ IsPresent(udata.ent[w])
  BY SpeakerPresent DEF Away, Chats
<1> HIDE DEF w
<1>4. /\ \/ /\ "AWAY" \in fl /\ udata'.ent[w].flags = fl \ {"AWAY"}
            /\ out' = ToRoom(udata', no, NoSlot)
         \/ /\ "AWAY" \notin fl /\ udata'.ent[w].flags = fl \cup {"AWAY"}
            /\ out' = ToRoom(udata', yes, NoSlot)
      /\ udata'.ent[w].nick = udata.ent[w].nick
      /\ \A x \in Users \ {w} : udata'.ent[x] = udata.ent[x]
  BY <1>1, <1>2, CallsChangeFlags DEF OnlyFlags
<1>5. CASE u # w
  BY <1>4, <1>5, KeptIsQuiet
<1>6. CASE u = w
  <2>1. \/ Told(v, no) /\ udata'.ent[w].flags = fl \ {"AWAY"} /\ "AWAY" \in fl
        \/ Told(v, yes) /\ udata'.ent[w].flags = fl \cup {"AWAY"} /\ "AWAY" \notin fl
    BY <1>2, <1>4, <1>6, RoomIsToldOf
  <2> QED BY <1>2, <1>4, <1>6, <2>1 DEF ToldOf, Present, HasFlag, NickOf, IsPresent
<1> QED BY <1>5, <1>6

LEMMA OperIsTold ==
  ASSUME UdataAssumption, ServerAssumption, KernelOK, GoodRoom(udata), MembersInv,
         GoodRoom(udata'), NEW i \in Slots, NEW k \in RecvSizes, Oper(i, k),
         NEW v \in Users, IsPresent(udata.ent[v]), NEW u \in Users \ {v}
  PROVE  ToldOf(v, u)
<1> DEFINE w == Speaker(i)
           fl == udata.ent[w].flags
           m == Msg("C_OPER", "notice", NickOf(w), NoString)
<1>1. CASE udata' = udata
  BY <1>1, KeptIsQuiet
<1>2. ASSUME udata' # udata PROVE ToldOf(v, u)
  <2>1. /\ udata \in Store /\ udata' = UdataFlagSet(udata, w, {"OPERATOR"})
        /\ out' = ToRoom(udata', m, NoSlot)
    BY <1>2 DEF Oper, GoodRoom
  <2>2. w \in Users /\ Listed(udata, w) /\ IsPresent(udata.ent[w])
    BY SpeakerPresent DEF Oper, Chats
  <2> HIDE DEF w
  <2>4. /\ udata'.ent[w].flags = fl \cup {"OPERATOR"} /\ udata'.ent[w].nick = udata.ent[w].nick
        /\ \A x \in Users \ {w} : udata'.ent[x] = udata.ent[x]
    BY <2>1, <2>2, CallsChangeFlags DEF OnlyFlags
  <2>5. CASE u # w
    BY <2>4, <2>5, KeptIsQuiet
  <2>6. CASE u = w
    <3>1. Told(v, m)
      BY <2>1, <2>2, <2>4, <2>6, RoomIsToldOf
    <3> QED BY <2>2, <2>4, <2>6, <3>1 DEF ToldOf, Present, HasFlag, NickOf, IsPresent
  <2> QED BY <2>5, <2>6
<1> QED BY <1>1, <1>2

LEMMA ModerationIsTold ==
  ASSUME UdataAssumption, ServerAssumption, KernelOK, GoodRoom(udata), MembersInv,
         GoodRoom(udata'), NEW i \in Slots, NEW k \in RecvSizes, Moderate(i, k),
         NEW v \in Users, IsPresent(udata.ent[v]), NEW u \in Users \ {v}
  PROVE  ToldOf(v, u)
<1> DEFINE t == Target(i, k)
           op == Request(i, k).op
           by == Speaker(i)
           fl == udata.ent[t].flags
           m == Msg(op, "notice", NickOf(t), NickOf(by))
<1>1. /\ udata \in Store /\ out' = ToRoom(udata', m, NoSlot)
      /\ \/ op = "C_OP" /\ udata' = UdataFlagSet(udata, t, {"OPERATOR"})
         \/ op = "C_DEOP" /\ udata' = UdataFlagUnset(udata, t, {"OPERATOR"})
         \/ op = "C_UNBAN" /\ udata' = UdataFlagUnset(udata, t, {"BANNED"})
  <2>1. op \in {"C_OP", "C_DEOP", "C_UNBAN"}
    BY RequestTyped DEF Moderate, Chats
  <2> QED BY <2>1 DEF Moderate, ModerateNotice, GoodRoom
<1>2. /\ t \in Users /\ Listed(udata, t) /\ IsPresent(udata.ent[t])
      /\ by \in Users
  BY TargetPresent, SpeakerPresent DEF Moderate, Chats
<1> HIDE DEF t, op, by
<1>3. CASE udata' = udata
  BY <1>3, KeptIsQuiet
<1>4. ASSUME udata' # udata PROVE ToldOf(v, u)
  <2>1. \/ op = "C_OP" /\ udata' = UdataFlagSet(udata, t, {"OPERATOR"})
        \/ op = "C_DEOP" /\ udata' = UdataFlagUnset(udata, t, {"OPERATOR"})
    BY <1>1, <1>2, <1>4, UnbanIsVain
  <2>2. /\ \/ op = "C_OP" /\ udata'.ent[t].flags = fl \cup {"OPERATOR"}
           \/ op = "C_DEOP" /\ udata'.ent[t].flags = fl \ {"OPERATOR"}
        /\ udata'.ent[t].nick = udata.ent[t].nick
        /\ \A x \in Users \ {t} : udata'.ent[x] = udata.ent[x]
    BY <1>1, <1>2, <2>1, CallsChangeFlags DEF OnlyFlags
  <2>3. CASE u # t
    BY <2>2, <2>3, KeptIsQuiet
  <2>4. CASE u = t
    <3>1. Told(v, m)
      BY <1>1, <1>2, <2>2, <2>4, RoomIsToldOf
    <3> QED BY <1>2, <2>2, <2>4, <3>1 DEF ToldOf, Present, HasFlag, NickOf, IsPresent
  <2> QED BY <2>3, <2>4
<1> QED BY <1>3, <1>4

LEMMA ExpulsionIsTold ==
  ASSUME UdataAssumption, ServerAssumption, KernelOK, GoodRoom(udata), MembersInv,
         GoodRoom(udata'), NEW i \in Slots, NEW k \in RecvSizes, Expel(i, k),
         NEW v \in Users, IsPresent(udata.ent[v]), NEW u \in Users \ {v}
  PROVE  ToldOf(v, u)
<1> DEFINE t == Target(i, k)
           op == Request(i, k).op
           by == Speaker(i)
           fl == udata.ent[t].flags
           m == Msg(op, "notice", NickOf(t), NickOf(by))
<1>1. /\ udata \in Store /\ out' = ToRoom(udata', m, NoSlot)
      /\ \/ udata' = LeaveRoom(udata, t)
         \/ udata' = LeaveRoom(UdataFlagSet(udata, t, {"BANNED"}), t)
  BY DEF Expel, ModerateNotice, GoodRoom
<1>2. /\ t \in Users /\ Listed(udata, t) /\ IsPresent(udata.ent[t])
      /\ by \in Users
  BY TargetPresent, SpeakerPresent DEF Expel, Chats
<1>3. op \in {"C_KICK", "C_BAN"} /\ HasFlag(by, "OPERATOR")
  BY RequestTyped DEF Expel, Chats, MayModerate
<1> HIDE DEF t, op, by
<1>4. /\ "PRESENT" \notin udata'.ent[t].flags
      /\ \A x \in Users \ {t} : udata'.ent[x] = udata.ent[x]
  BY <1>1, <1>2, CallsChangeFlags DEF OnlyFlags, InRoomFlags
<1>5. CASE u # t
  BY <1>4, <1>5, KeptIsQuiet
<1>6. CASE u = t
  <2>1. Told(v, m)
    BY <1>1, <1>2, <1>4, <1>6, RoomIsToldOf
  <2> QED BY <1>2, <1>3, <1>4, <1>6, <2>1 DEF ToldOf, Present, HasFlag, NickOf, IsPresent
<1> QED BY <1>5, <1>6

(* Whoever leaves, or is lost, is left out, and nobody else shares the     *)
(* slot.                                                                   *)
LEMMA LeavingIsTold ==
  ASSUME UdataAssumption, ServerAssumption, KernelOK, GoodRoom(udata), MembersInv,
         NEW i \in Slots, NEW w \in Users, Listed(udata, w), IsPresent(udata.ent[w]),
         udata' = LeaveRoom(udata, w),
         \/ out' = ToRoom(udata, LeftMsg(w), i)
         \/ out' = Then(ToRoom(udata, LeftMsg(w), i), Reply(i, ACK)),
         \A x \in Users : IsPresent(udata.ent[x]) /\ udata.ent[x].fd = clients[i].fd => x = w,
         NEW v \in Users, IsPresent(udata.ent[v]), NEW u \in Users \ {v}
  PROVE  ToldOf(v, u)
<1>1. /\ "PRESENT" \notin udata'.ent[w].flags
      /\ \A x \in Users \ {w} : udata'.ent[x] = udata.ent[x]
  BY CallsChangeFlags DEF OnlyFlags, InRoomFlags, GoodRoom
<1>2. CASE u # w
  BY <1>1, <1>2, KeptIsQuiet
<1>3. CASE u = w
  <2>1. \A j \in Slots : j = i => clients[j].fd # udata.ent[v].fd
    BY <1>3
  <2>2. Told(v, LeftMsg(w))
    BY <2>1, MemberIsTold
  <2> QED BY <1>1, <1>3, <2>2 DEF ToldOf, Present, HasFlag, IsPresent
<1> QED BY <1>2, <1>3

LEMMA JoinIsTold ==
  ASSUME UdataAssumption, ServerAssumption, OneNameEach, KernelOK, RoomAndOut, MembersInv,
         GoodRoom(udata'), NEW i \in Slots, NEW k \in RecvSizes, DoorJoin(i, k),
         NEW v \in Users, IsPresent(udata.ent[v]), NEW u \in Users \ {v}
  PROVE  ToldOf(v, u)
<1> DEFINE w == Request(i, k).user
           m == Msg("C_DOOR", "yes", Request(i, k).arg, NoString)
<1>1. /\ w \in Users /\ w \in Names(Sock(i)) /\ ~IsPresent(udata.ent[w])
      /\ udata'.ent[w].nick = Request(i, k).arg
      /\ \A x \in Users \ {w} : udata'.ent[x] = udata.ent[x]
  BY JoinFacts DEF MembersInv
<1>2. out' = Then(ToRoom(udata', m, i), Reply(i, ACK))
  BY DEF DoorJoin
<1> HIDE DEF w
<1>3. CASE u # w
  BY <1>1, <1>3, KeptIsQuiet
<1>4. CASE u = w
  <2>1. ASSUME clients[i].fd = udata.ent[v].fd PROVE FALSE
    <3>1. Sock(i) \in Conns /\ v \in Names(Sock(i))
      BY <2>1 DEF MembersInv, Connected, Sock
    <3> QED BY <1>1, <1>4, <3>1 DEF OneNameEach
  <2>2. \A j \in Slots : j = i => clients[j].fd # udata.ent[v].fd
    BY <2>1
  <2>3. udata'.ent[v] = udata.ent[v]
    BY <1>1, <1>4
  <2> DEFINE db == udata'
  <2>4. GoodRoom(db) /\ db.ent[v] = udata.ent[v] /\ out' = Then(ToRoom(db, m, i), Reply(i, ACK))
    BY <1>2, <2>3
  <2>5. GoodRoom(udata)
    BY DEF RoomAndOut
  <2> HIDE DEF db
  <2>6. Told(v, m)
    BY <2>2, <2>4, <2>5, MemberIsTold
  <2> QED BY <1>1, <1>4, <2>6 DEF ToldOf, Present, HasFlag, NickOf, IsPresent
<1> QED BY <1>3, <1>4

(* Whoever leaves by command leaves through their own connection.          *)
LEMMA DoorLeaveIsTold ==
  ASSUME UdataAssumption, ServerAssumption, OneNameEach, KernelOK, RoomAndOut, MembersInv,
         NEW i \in Slots, NEW k \in RecvSizes, DoorLeave(i, k),
         NEW v \in Users, IsPresent(udata.ent[v]), NEW u \in Users \ {v}
  PROVE  ToldOf(v, u)
<1> DEFINE w == DoorUser(i, k)
<1>1. /\ GoodRoom(udata) /\ w \in Users /\ w = Request(i, k).user
      /\ IsPresent(udata.ent[w]) /\ Listed(udata, w)
      /\ udata' = LeaveRoom(udata, w)
      /\ out' = Then(ToRoom(udata, LeftMsg(w), i), Reply(i, ACK))
  BY DoorLeaveRoom, DoorFacts, NotRefused DEF DoorLeave, RoomAndOut
<1>2. w \in Names(Sock(i))
  <2>1. Request(i, k) \in Sayable(Sock(i)) /\ Request(i, k).op = "CHATDOOR"
    BY RequestTyped, OwnedRecv DEF DoorLeave, Handles, MembersInv
  <2> QED BY <1>1, <2>1 DEF Sayable, UdataAssumption
<1> HIDE DEF w
<1>3. ASSUME NEW x \in Users, IsPresent(udata.ent[x]), udata.ent[x].fd = clients[i].fd
      PROVE  x = w
  <2>1. Sock(i) \in Conns /\ x \in Names(Sock(i))
    BY <1>3 DEF MembersInv, Connected, Sock
  <2> QED BY <1>2, <2>1 DEF OneNameEach
<1> QED BY <1>1, <1>3, LeavingIsTold

LEMMA EofIsTold ==
  ASSUME UdataAssumption, ServerAssumption, OneNameEach, KernelOK, RoomAndOut, MembersInv,
         NEW i \in Slots, RecvEof(i),
         NEW v \in Users, IsPresent(udata.ent[v]), NEW u \in Users \ {v}
  PROVE  ToldOf(v, u)
<1> DEFINE w == Speaker(i)
<1>1. GoodRoom(udata)
  BY DEF RoomAndOut
<1>2. CASE w = NoUser
  <2>1. udata' = udata
    BY <1>2 DEF RecvEof
  <2> QED BY <2>1, KeptIsQuiet
<1>3. CASE w # NoUser
  <2>1. /\ udata' = LeaveRoom(udata, w) /\ out' = ToRoom(udata, LeftMsg(w), i)
    BY <1>3 DEF RecvEof
  <2>2. w \in Users /\ Listed(udata, w) /\ IsPresent(udata.ent[w])
    BY <1>1, <1>3, SpeakerPresent
  <2>3. udata.ent[w].fd = clients[i].fd
    BY <1>1, <1>3, SpeakersAreMembers
  <2> HIDE DEF w
  <2>4. \A x \in Users : IsPresent(udata.ent[x]) /\ udata.ent[x].fd = clients[i].fd => x = w
    BY <2>2, <2>3, OwnDescriptor DEF MembersInv
  <2> QED BY <1>1, <2>1, <2>2, <2>4, LeavingIsTold
<1> QED BY <1>2, <1>3

LEMMA StepIsTold ==
  ASSUME UdataAssumption, ServerAssumption, OneNameEach, KernelOK, RoomAndOut, MembersInv,
         [Next]_vars, NEW v \in Users, IsPresent(udata.ent[v]), NEW u \in Users \ {v}
  PROVE  ToldOf(v, u)
<1>1. GoodRoom(udata) /\ GoodRoom(udata')
  BY NextKeeps DEF RoomAndOut
<1>2. CASE udata' = udata
  BY <1>2, KeptIsQuiet
<1>3. ASSUME NEW i \in Slots, RecvEof(i) PROVE ToldOf(v, u)
  BY <1>3, EofIsTold
<1>4. ASSUME NEW i \in Slots, NEW k \in RecvSizes, HandleCmd(i, k) PROVE ToldOf(v, u)
  <2>1. CASE DoorNak(i, k)
    <3>1. Request(i, k).user \in Users \cup {NoUser}
      BY <2>1, RequestTyped DEF DoorNak
    <3>2. udata'.ent[u] = udata.ent[u]
      BY <1>1, <2>1, <3>1, AddFacts DEF DoorNak, DoorStore
    <3> QED BY <3>2, KeptIsQuiet
  <2>2. CASE DoorLeave(i, k)
    BY <2>2, DoorLeaveIsTold
  <2>3. CASE DoorJoin(i, k)
    BY <1>1, <2>3, JoinIsTold
  <2>4. CASE Nick(i, k)
    BY <1>1, <2>4, NickIsTold
  <2>5. CASE Away(i, k)
    BY <1>1, <2>5, AwayIsTold
  <2>6. CASE Oper(i, k)
    BY <1>1, <2>6, OperIsTold
  <2>7. CASE Moderate(i, k)
    BY <1>1, <2>7, ModerationIsTold
  <2>8. CASE Expel(i, k)
    BY <1>1, <2>8, ExpulsionIsTold
  <2>9. CASE \/ Ignored(i, k) \/ NickReply(i, k) \/ Beep(i, k) \/ Psay(i, k)
             \/ Say(i, k) \/ Who(i, k) \/ ModerateReply(i, k)
    BY <1>2, <2>9 DEF Ignored, NickReply, Beep, Psay, Say, Who, ModerateReply
  <2> QED BY <1>4, <2>1, <2>2, <2>3, <2>4, <2>5, <2>6, <2>7, <2>8, <2>9 DEF HandleCmd
<1>5. \/ udata' = udata \/ \E i \in Slots : RecvEof(i)
      \/ \E i \in Slots, k \in RecvSizes : HandleCmd(i, k)
  BY DEF Next, Server, Peer, PeerConnect, PeerClose, PeerReset, PeerSend, Select, Accept,
     AcceptRefuse, AcceptFails, RecvError, RecvIncomplete, vars, serverVars
<1> QED BY <1>2, <1>3, <1>4, <1>5

(* Whoever is in the room is told of everybody who enters, leaves, is      *)
(* expelled, changes nickname, or gains or loses a mark (every             *)
(* lcs_dist_ncmd(), and the loops of server.c:376, 425, 642).              *)
THEOREM ChangesAreAlwaysAnnounced ==
  ASSUME OneNameEach
  PROVE  Spec => ChangesAreAnnounced
<1> USE UdataAssumption, ServerAssumption
<1>1. IInv /\ MembersInv /\ [Next]_vars =>
        [\A v \in Users : Present(v) /\ Present(v)' => \A u \in Users \ {v} : ToldOf(v, u)]_vars
  <2> SUFFICES ASSUME IInv, MembersInv, [Next]_vars, NEW v \in Users, Present(v),
                      NEW u \in Users \ {v}
               PROVE  ToldOf(v, u)
    OBVIOUS
  <2>1. KernelOK /\ RoomAndOut /\ IsPresent(udata.ent[v])
    BY IInvParts DEF RoomAndOut, Outbox, Present, HasFlag, IsPresent
  <2> QED BY <2>1, StepIsTold
<1> QED BY <1>1, MembersInductive, PTL DEF Spec, ChangesAreAnnounced, ToldOf
=============================================================================
