-------------------------- MODULE ServerWireProof --------------------------
(***************************************************************************)
(* What a step of the server is for one connection: what it takes from the *)
(* connection, what it answers, and what the one at its other end learns   *)
(* by it, of its own nickname and of the names in the room.                *)
(* ChatClientProof rests on this.                                          *)
(***************************************************************************)
EXTENDS ChatClientProps, ServerMembersProof, SequenceTheorems

-----------------------------------------------------------------------------
(* The nickname after a sequence of messages.                              *)

(* One nickname per message handled, the first one included.               *)
Learned(g, known, q, n) ==
  g = [k \in 0..n |-> IF k = 0 THEN known ELSE LearnNick(g[k - 1], q[k])]

LEMMA LearnedExists ==
  ASSUME NEW known, NEW q, NEW n \in Nat
  PROVE  \E g : Learned(g, known, q, n)
<1> DEFINE Bad == {k \in Nat : ~ \E g : Learned(g, known, q, k)}
<1>1. SUFFICES ASSUME Bad # {} PROVE FALSE
  OBVIOUS
<1>2. PICK m \in Bad : \A k \in Bad : m <= k
  BY <1>1, LeastNatural
<1>3. CASE m = 0
  <2> DEFINE g == [k \in 0..0 |-> known]
  <2>1. g = [k \in 0..0 |-> IF k = 0 THEN known ELSE LearnNick(g[k - 1], q[k])]
    OBVIOUS
  <2>2. Learned(g, known, q, 0)
    BY <2>1 DEF Learned
  <2> QED BY <1>2, <1>3, <2>2
<1>4. CASE m # 0
  <2>1. m - 1 \in Nat /\ m - 1 \notin Bad
    BY <1>2, <1>4
  <2>2. PICK f : Learned(f, known, q, m - 1)
    BY <2>1
  <2> DEFINE last == LearnNick(f[m - 1], q[m])
             g    == [k \in 0..m |-> IF k = m THEN last ELSE f[k]]
  <2> HIDE DEF last
  <2>3. ASSUME NEW k \in 0..m
        PROVE  g[k] = IF k = 0 THEN known ELSE LearnNick(g[k - 1], q[k])
    <3>1. CASE k = m
      BY <1>4, <2>1, <3>1 DEF last
    <3>2. CASE k # m
      <4>1. k \in 0..(m - 1) /\ (k # 0 => k - 1 \in 0..(m - 1))
        BY <3>2
      <4>2. f[k] = IF k = 0 THEN known ELSE LearnNick(f[k - 1], q[k])
        BY <2>2, <4>1 DEF Learned
      <4>3. k # 0 => g[k - 1] = f[k - 1]
        BY <4>1, <1>4
      <4> QED BY <3>2, <4>1, <4>2, <4>3
    <3> QED BY <3>1, <3>2
  <2>4. g = [k \in 0..m |-> g[k]]
    OBVIOUS
  <2> HIDE DEF g
  <2>5. Learned(g, known, q, m)
    BY <2>3, <2>4 DEF Learned
  <2> QED BY <1>2, <2>5
<1> QED BY <1>3, <1>4

LEMMA LearnedAgree ==
  ASSUME NEW known, NEW q, NEW n \in Nat, NEW g, Learned(g, known, q, n),
         NEW m \in Nat, NEW h, Learned(h, known, q, m), NEW k \in Nat, k <= n, k <= m
  PROVE  g[k] = h[k]
<1> DEFINE Bad == {j \in Nat : j <= n /\ j <= m /\ g[j] # h[j]}
<1>1. SUFFICES ASSUME Bad # {} PROVE FALSE
  OBVIOUS
<1>2. PICK j \in Bad : \A i \in Bad : j <= i
  BY <1>1, LeastNatural
<1>3. /\ g[j] = IF j = 0 THEN known ELSE LearnNick(g[j - 1], q[j])
      /\ h[j] = IF j = 0 THEN known ELSE LearnNick(h[j - 1], q[j])
  BY <1>2 DEF Learned
<1>4. j # 0 => j - 1 \in Nat /\ j - 1 \notin Bad
  BY <1>2
<1> QED BY <1>2, <1>3, <1>4

LEMMA KnownAfterIs ==
  ASSUME NEW known, NEW q, Len(q) \in Nat, NEW g, Learned(g, known, q, Len(q))
  PROVE  KnownAfter(known, q) = g[Len(q)]
<1> DEFINE F(h) == [n \in 0..Len(q) |-> IF n = 0 THEN known ELSE LearnNick(h[n - 1], q[n])]
           f    == CHOOSE h : h = F(h)
<1>1. \E h : h = F(h)
  BY DEF Learned
<1>2. f = F(f)
  BY <1>1
<1>3. Learned(f, known, q, Len(q))
  BY <1>2 DEF Learned
<1>4. KnownAfter(known, q) = f[Len(q)]
  BY DEF KnownAfter
<1> HIDE DEF f, F
<1> QED BY <1>3, <1>4, LearnedAgree

LEMMA KnownNothing ==
  ASSUME NEW known
  PROVE  KnownAfter(known, <<>>) = known
<1> DEFINE q == <<>>
<1>1. Len(q) = 0 /\ 0 \in Nat
  OBVIOUS
<1>2. PICK g : Learned(g, known, q, Len(q))
  BY <1>1, LearnedExists
<1>3. g[0] = known
  BY <1>1, <1>2 DEF Learned
<1> HIDE DEF q
<1>4. KnownAfter(known, q) = known
  BY <1>1, <1>2, <1>3, KnownAfterIs
<1> QED BY <1>4 DEF q

(* Messages that leave the nickname alone, after others.                   *)
LEMMA KnownKept ==
  ASSUME NEW S, NEW known, NEW q \in Seq(S), NEW more \in Seq(S), NEW then,
         then = KnownAfter(known, q),
         \A k \in 1..Len(more) : LearnNick(then, more[k]) = then
  PROVE  KnownAfter(known, q \o more) = then
<1> DEFINE all == q \o more
<1>1. /\ Len(q) \in Nat /\ Len(more) \in Nat /\ Len(all) = Len(q) + Len(more)
      /\ \A k \in 1..Len(q) : all[k] = q[k]
      /\ \A k \in (Len(q) + 1)..Len(all) : k - Len(q) \in 1..Len(more) /\ all[k] = more[k - Len(q)]
  OBVIOUS
<1>2. PICK f : Learned(f, known, q, Len(q))
  BY <1>1, LearnedExists
<1>3. f[Len(q)] = then
  BY <1>1, <1>2, KnownAfterIs
<1> DEFINE g == [k \in 0..Len(all) |-> IF k <= Len(q) THEN f[k] ELSE then]
<1> HIDE DEF all
<1>4. ASSUME NEW k \in 0..Len(all)
      PROVE  g[k] = IF k = 0 THEN known ELSE LearnNick(g[k - 1], all[k])
  <2>1. CASE k <= Len(q)
    <3>1. f[k] = IF k = 0 THEN known ELSE LearnNick(f[k - 1], q[k])
      BY <1>1, <1>2, <2>1 DEF Learned
    <3>2. k # 0 => g[k - 1] = f[k - 1] /\ all[k] = q[k]
      BY <1>1, <2>1
    <3> QED BY <2>1, <3>1, <3>2
  <2>2. CASE k > Len(q)
    <3>1. g[k] = then /\ g[k - 1] = then /\ k # 0
      BY <1>1, <1>3, <2>2
    <3>2. all[k] = more[k - Len(q)] /\ k - Len(q) \in 1..Len(more)
      BY <1>1, <2>2
    <3> QED BY <3>1, <3>2
  <2> QED BY <1>1, <2>1, <2>2
<1>5. g = [k \in 0..Len(all) |-> g[k]] /\ g[Len(all)] = then
  BY <1>1, <1>3
<1> HIDE DEF g
<1>6. Learned(g, known, all, Len(all))
  BY <1>4, <1>5 DEF Learned
<1>7. Len(all) \in Nat
  BY <1>1
<1>8. KnownAfter(known, all) = then
  BY <1>5, <1>6, <1>7, KnownAfterIs
<1> QED BY <1>8 DEF all

LEMMA KnownFixed ==
  ASSUME NEW S, NEW known, NEW q \in Seq(S),
         \A k \in 1..Len(q) : LearnNick(known, q[k]) = known
  PROVE  KnownAfter(known, q) = known
<1> DEFINE none == <<>>
<1>1. none \in Seq(S)
  OBVIOUS
<1>2. none \o q = q
  BY ConcatEmptySeq
<1>3. KnownAfter(known, none) = known
  BY KnownNothing
<1> HIDE DEF none
<1>4. KnownAfter(known, none \o q) = known
  BY <1>1, <1>3, KnownKept
<1> QED BY <1>2, <1>4

LEMMA KnownAppend ==
  ASSUME NEW S, NEW known, NEW q \in Seq(S), NEW m \in S
  PROVE  KnownAfter(known, q \o <<m>>) = LearnNick(KnownAfter(known, q), m)
<1> DEFINE all == q \o <<m>>
           n   == Len(q)
<1>1. /\ n \in Nat /\ Len(all) = n + 1 /\ Len(all) \in Nat
      /\ (\A k \in 1..n : all[k] = q[k]) /\ all[n + 1] = m
  OBVIOUS
<1> HIDE DEF all
<1>2. PICK f : Learned(f, known, q, n)
  BY <1>1, LearnedExists
<1>3. PICK g : Learned(g, known, all, n + 1)
  BY <1>1, LearnedExists
<1>4. \A k \in 0..n : g[k] = IF k = 0 THEN known ELSE LearnNick(g[k - 1], q[k])
  BY <1>1, <1>3 DEF Learned
<1>5. g[n + 1] = LearnNick(g[n], m)
  BY <1>1, <1>3 DEF Learned
<1> DEFINE h == [k \in 0..n |-> g[k]]
<1>6. \A k \in 0..n : h[k] = IF k = 0 THEN known ELSE LearnNick(h[k - 1], q[k])
  BY <1>1, <1>4
<1>7. h = [k \in 0..n |-> h[k]] /\ h[n] = g[n]
  BY <1>1
<1> HIDE DEF h
<1>8. Learned(h, known, q, n)
  BY <1>6, <1>7 DEF Learned
<1>9. KnownAfter(known, q) = g[n]
  BY <1>1, <1>7, <1>8, KnownAfterIs
<1>10. KnownAfter(known, all) = g[n + 1]
  BY <1>1, <1>3, KnownAfterIs
<1> QED BY <1>5, <1>9, <1>10 DEF all

LEMMA KnownHead ==
  ASSUME NEW S, NEW known, NEW q \in Seq(S), q # <<>>
  PROVE  KnownAfter(known, q) = KnownAfter(LearnNick(known, Head(q)), Tail(q))
<1> DEFINE rest == Tail(q)
           next == LearnNick(known, Head(q))
           n    == Len(rest)
<1>1. /\ n \in Nat /\ Len(q) = n + 1 /\ Len(q) \in Nat
      /\ (\A k \in 1..n : rest[k] = q[k + 1]) /\ q[1] = Head(q)
  OBVIOUS
<1> HIDE DEF rest
<1>2. PICK g : Learned(g, known, q, n + 1)
  BY <1>1, LearnedExists
<1>3. /\ g[0] = known
      /\ \A k \in 1..(n + 1) : g[k] = LearnNick(g[k - 1], q[k])
  BY <1>1, <1>2 DEF Learned
<1> DEFINE h == [k \in 0..n |-> g[k + 1]]
<1>4. ASSUME NEW k \in 0..n
      PROVE  h[k] = IF k = 0 THEN next ELSE LearnNick(h[k - 1], rest[k])
  <2>1. CASE k = 0
    BY <1>1, <1>3, <2>1
  <2>2. CASE k # 0
    <3>1. k + 1 \in 1..(n + 1) /\ k - 1 \in 0..n /\ k \in 1..n /\ (k + 1) - 1 = (k - 1) + 1
      BY <1>1, <2>2
    <3>2. h[k] = LearnNick(g[(k + 1) - 1], q[k + 1]) /\ h[k - 1] = g[(k - 1) + 1]
      BY <1>3, <3>1
    <3> QED BY <1>1, <2>2, <3>1, <3>2
  <2> QED BY <2>1, <2>2
<1>5. h = [k \in 0..n |-> h[k]] /\ h[n] = g[n + 1]
  BY <1>1
<1> HIDE DEF h, next
<1>6. Learned(h, next, rest, n)
  BY <1>4, <1>5 DEF Learned
<1>7. KnownAfter(next, rest) = g[n + 1]
  BY <1>1, <1>5, <1>6, KnownAfterIs
<1>8. KnownAfter(known, q) = g[n + 1]
  BY <1>1, <1>2, KnownAfterIs
<1> QED BY <1>7, <1>8 DEF rest, next

-----------------------------------------------------------------------------
(* The server, seen from one connection.                                   *)

ServerOK == KernelOK /\ RoomAndOut /\ MembersInv

(* The slot that serves c.                                                 *)
Holds(j, c) == clients[j].fd \in Fds /\ sock[clients[j].fd] = c

(* What the client sent and the server has not handled, in order.          *)
BufferOf(c) ==
  IF \E j \in Slots : Holds(j, c) THEN clients[CHOOSE j \in Slots : Holds(j, c)].buf ELSE <<>>
Pipe(c) == BufferOf(c) \o toServer[c]

(* The user of c is in the room, through c.                                *)
Member(c) == Present(User(c)) /\ MemberConn(User(c)) = c

LEMMA UserIs ==
  ASSUME ServerAssumption, ClientAssumption, NEW c \in Conns
  PROVE  User(c) \in Users /\ User(c) \in Names(c) /\ \A u \in Names(c) : u = User(c)
<1>1. User(c) \in Names(c)
  BY DEF ClientAssumption, User
<1>2. Names(c) \subseteq Users
  BY DEF ServerAssumption, Names, Commands
<1> QED BY <1>1, <1>2 DEF ClientAssumption, OneNameEach

(* Connections and slots belong together.                                  *)
SlotsServe ==
  /\ \A c \in Conns : Accepted(c) <=> \E j \in Slots : Holds(j, c)
  /\ \A c \in Conns, i, j \in Slots : Holds(i, c) /\ Holds(j, c) => i = j
  /\ \A j \in Slots : clients[j].fd \in Fds => sock[clients[j].fd] \in Conns /\ Holds(j, sock[clients[j].fd])
  /\ \A c \in Conns : Queued(c) => ~Accepted(c)

LEMMA HeldOnce == KernelOK => SlotsServe
<1> SUFFICES ASSUME KernelOK PROVE SlotsServe
  OBVIOUS
<1> USE ServerAssumption
<1>1. /\ sock \in [Fds -> Conns \cup {NoConn}] /\ clients \in [Slots -> SlotRecord]
      /\ master = {f \in Fds : sock[f] # NoConn}
      /\ master = {clients[i].fd : i \in Slots} \ {-1, 0} /\ -1 \notin Fds /\ 0 \notin Fds
      /\ \A i, j \in Slots : clients[i].fd \in Fds /\ clients[i].fd = clients[j].fd => i = j
      /\ \A f, g \in Fds : sock[f] # NoConn /\ sock[f] = sock[g] => f = g
      /\ \A f \in Fds, k \in 1..Len(backlog) : sock[f] # backlog[k]
  BY DEF KernelOK, SlotsMatchKernel, ConnectionsDistinct, Fds
<1>2. \A c \in Conns : c # NoConn
  BY DEF ServerAssumption
<1>3. ASSUME NEW c \in Conns, Accepted(c) PROVE \E j \in Slots : Holds(j, c)
  <2>1. PICK f \in Fds : sock[f] = c
    BY <1>3 DEF Accepted
  <2>2. f \in {clients[i].fd : i \in Slots} \ {-1, 0}
    BY <1>1, <1>2, <2>1
  <2>3. PICK j \in Slots : clients[j].fd = f
    BY <2>2
  <2> QED BY <2>1, <2>3 DEF Holds
<1>4. ASSUME NEW c \in Conns, NEW j \in Slots, Holds(j, c) PROVE Accepted(c)
  BY <1>4 DEF Accepted, Holds
<1>5. ASSUME NEW c \in Conns, NEW i \in Slots, NEW j \in Slots, Holds(i, c), Holds(j, c)
      PROVE  i = j
  BY <1>1, <1>2, <1>5 DEF Holds
<1>6. ASSUME NEW j \in Slots, clients[j].fd \in Fds
      PROVE  sock[clients[j].fd] \in Conns /\ Holds(j, sock[clients[j].fd])
  <2>1. clients[j].fd \in master
    BY <1>1, <1>6
  <2> QED BY <1>1, <1>6, <2>1 DEF Holds
<1>7. ASSUME NEW c \in Conns, Queued(c) PROVE ~Accepted(c)
  BY <1>1, <1>7 DEF Queued, Accepted
<1> QED BY <1>3, <1>4, <1>5, <1>6, <1>7 DEF SlotsServe

(* What is under way to the server, with and without a slot.               *)
PipesFit ==
  /\ \A c \in Conns : Pipe(c) \in Seq(Sayable(c)) /\ toServer[c] \in Seq(Sayable(c))
  /\ \A c \in Conns : ~Accepted(c) => Pipe(c) = toServer[c]
  /\ \A c \in Conns, j \in Slots : Holds(j, c) =>
       /\ Pipe(c) = clients[j].buf \o toServer[c]
       /\ clients[j].buf \in Seq(Sayable(c))

LEMMA PipeIs == ServerOK => PipesFit
<1> SUFFICES ASSUME ServerOK PROVE PipesFit
  OBVIOUS
<1>1. ASSUME NEW c \in Conns PROVE toServer[c] \in Seq(Sayable(c))
  BY DEF ServerOK, MembersInv, Owned
<1>2. ASSUME NEW c \in Conns, ~Accepted(c) PROVE Pipe(c) = toServer[c]
  <2>1. BufferOf(c) = <<>>
    BY <1>2, HeldOnce DEF SlotsServe, BufferOf, ServerOK
  <2> QED BY <1>1, <2>1, ConcatEmptySeq DEF Pipe
<1>3. ASSUME NEW c \in Conns, NEW j \in Slots, Holds(j, c)
      PROVE  /\ Pipe(c) = clients[j].buf \o toServer[c]
             /\ clients[j].buf \in Seq(Sayable(c))
  <2>1. (CHOOSE h \in Slots : Holds(h, c)) = j
    BY <1>3, HeldOnce DEF SlotsServe, ServerOK
  <2>2. BufferOf(c) = clients[j].buf
    BY <1>3, <2>1 DEF BufferOf
  <2>3. clients[j].buf \in Seq(Sayable(c))
    BY <1>3 DEF ServerOK, MembersInv, Owned, Holds
  <2> QED BY <2>2, <2>3 DEF Pipe
<1>4. ASSUME NEW c \in Conns PROVE Pipe(c) \in Seq(Sayable(c))
  <2>1. CASE Accepted(c)
    <3>1. PICK j \in Slots : Holds(j, c)
      BY <2>1, HeldOnce DEF SlotsServe, ServerOK
    <3> QED BY <1>1, <1>3, <3>1, ConcatProperties
  <2>2. CASE ~Accepted(c)
    BY <1>1, <1>2, <2>2
  <2> QED BY <2>1, <2>2
<1> QED BY <1>1, <1>2, <1>3, <1>4 DEF PipesFit

(* Members, slots and speakers.                                            *)
MembersFit ==
  /\ \A c \in Conns : Member(c) =>
       /\ IsPresent(udata.ent[User(c)])
       /\ \E j \in Slots : Holds(j, c) /\ clients[j].fd = udata.ent[User(c)].fd
  /\ \A u \in Users : IsPresent(udata.ent[u]) =>
       MemberConn(u) \in Conns /\ u = User(MemberConn(u)) /\ Member(MemberConn(u))
  /\ \A j \in Slots : clients[j].fd \in Fds =>
       Speaker(j) = IF Member(Sock(j)) THEN User(Sock(j)) ELSE NoUser

LEMMA MemberIs == ServerOK => MembersFit
<1> SUFFICES ASSUME ServerOK PROVE MembersFit
  OBVIOUS
<1> USE ServerAssumption, UdataAssumption
<1>1. KernelOK /\ GoodRoom(udata) /\ MembersInv /\ OneNameEach
  BY ClientAssumption DEF ServerOK, RoomAndOut, ClientAssumption
<1>2. ASSUME NEW c \in Conns, Member(c)
      PROVE  /\ IsPresent(udata.ent[User(c)])
             /\ \E j \in Slots : Holds(j, c) /\ clients[j].fd = udata.ent[User(c)].fd
  <2>1. IsPresent(udata.ent[User(c)]) /\ User(c) \in Users
    BY <1>2, UserIs, ClientAssumption DEF Member, Present, HasFlag, IsPresent
  <2>2. PICK j \in Slots : clients[j].fd = udata.ent[User(c)].fd /\ clients[j].fd \in Fds
    BY <1>1, <2>1, MemberSlot
  <2> QED BY <1>2, <2>1, <2>2 DEF Member, MemberConn, Holds
<1>3. ASSUME NEW u \in Users, IsPresent(udata.ent[u])
      PROVE  MemberConn(u) \in Conns /\ u = User(MemberConn(u)) /\ Member(MemberConn(u))
  <2>1. MemberConn(u) \in Conns /\ u \in Names(MemberConn(u))
    BY <1>1, <1>3, MemberSlot
  <2>2. u = User(MemberConn(u))
    BY <2>1, UserIs, ClientAssumption
  <2> QED BY <1>3, <2>1, <2>2 DEF Member, Present, HasFlag, IsPresent
<1>4. ASSUME NEW j \in Slots, clients[j].fd \in Fds
      PROVE  Speaker(j) = IF Member(Sock(j)) THEN User(Sock(j)) ELSE NoUser
  <2>1. Sock(j) \in Conns /\ Holds(j, Sock(j))
    BY <1>1, <1>4, HeldOnce DEF SlotsServe, Sock
  <2>2. ASSUME Speaker(j) # NoUser
        PROVE  Member(Sock(j)) /\ Speaker(j) = User(Sock(j))
    <3>1. /\ Speaker(j) \in Users /\ IsPresent(udata.ent[Speaker(j)])
          /\ udata.ent[Speaker(j)].fd = clients[j].fd
      BY <1>1, <2>2, SpeakersAreMembers
    <3>2. MemberConn(Speaker(j)) = Sock(j)
      BY <3>1 DEF MemberConn, Sock
    <3> QED BY <1>3, <3>1, <3>2
  <2>3. ASSUME Member(Sock(j)) PROVE Speaker(j) # NoUser
    <3>1. IsPresent(udata.ent[User(Sock(j))]) /\ User(Sock(j)) \in Users
      BY <1>2, <2>1, <2>3, UserIs, ClientAssumption
    <3>2. PICK h \in Slots : Holds(h, Sock(j)) /\ clients[h].fd = udata.ent[User(Sock(j))].fd
      BY <1>2, <2>1, <2>3
    <3>3. h = j
      BY <1>1, <2>1, <3>2, HeldOnce DEF SlotsServe
    <3>4. udata \in Store /\ Listed(udata, User(Sock(j))) /\ NoUser \notin Users
      BY <1>1, <3>1 DEF GoodRoom, UdataAssumption
    <3> QED BY <3>1, <3>2, <3>3, <3>4, GetByFdFinds DEF Speaker
  <2> QED BY <2>2, <2>3
<1> QED BY <1>2, <1>3, <1>4 DEF MembersFit


(* All of it, before and after a step.                                     *)
Fits == SlotsServe /\ PipesFit /\ MembersFit

LEMMA OKFits == ServerOK => Fits
BY HeldOnce, PipeIs, MemberIs DEF Fits, ServerOK

LEMMA OKFitsNext == ServerOK' => Fits'
BY OKFits, PTL

LEMMA ServerOKNext ==
  ASSUME ServerOK, [Next]_vars
  PROVE  ServerOK'
BY NextKeeps, NextMembers, UdataAssumption, ServerAssumption, ClientAssumption
   DEF ServerOK, ClientAssumption

(* A connection whose slot and pipe a step leaves alone.                   *)
LEMMA PipeSame ==
  ASSUME ServerOK, ServerOK', NEW c \in Conns, toServer'[c] = toServer[c],
         \A j \in Slots : /\ Holds(j, c)' <=> Holds(j, c)
                          /\ Holds(j, c) => clients'[j].buf = clients[j].buf
  PROVE  Pipe(c)' = Pipe(c) /\ (Accepted(c)' <=> Accepted(c))
<1>1. Fits /\ Fits'
  BY OKFits, OKFitsNext
<1>2. Accepted(c)' <=> Accepted(c)
  BY <1>1 DEF Fits, SlotsServe
<1>3. CASE ~Accepted(c)
  BY <1>1, <1>2, <1>3 DEF Fits, PipesFit
<1>4. CASE Accepted(c)
  <2>1. PICK j \in Slots : Holds(j, c)
    BY <1>1, <1>4 DEF Fits, SlotsServe
  <2>2. Holds(j, c)' /\ clients'[j].buf = clients[j].buf
    BY <2>1
  <2>3. Pipe(c)' = clients'[j].buf \o toServer'[c]
    BY <1>1, <2>2 DEF Fits, PipesFit
  <2>4. Pipe(c) = clients[j].buf \o toServer[c]
    BY <1>1, <2>1 DEF Fits, PipesFit
  <2> QED BY <1>2, <2>2, <2>3, <2>4
<1> QED BY <1>3, <1>4

(* Nothing is kept of a connection that is gone.                           *)
NothingStray == \A c \in Conns : ~Attached(c) => toServer[c] = <<>>

LEMMA UnattachedPipe ==
  ServerOK /\ NothingStray => \A c \in Conns : ~Attached(c) => Pipe(c) = <<>>
BY OKFits DEF Fits, PipesFit, Attached, NothingStray

LEMMA UnattachedPipeNext ==
  ServerOK' /\ NothingStray' => (\A c \in Conns : ~Attached(c) => Pipe(c) = <<>>)'
BY UnattachedPipe, PTL

-----------------------------------------------------------------------------
(* What a step of the server does to a connection.                         *)

(* The connection stays as it is, or the server closes it.                 *)
WireKept(c) ==
  /\ peer'[c] = "up" <=> peer[c] = "up"
  /\ Attached(c)' => Attached(c) /\ Pipe(c)' = Pipe(c) /\ toServer'[c] = toServer[c]
  /\ ~Attached(c)' => toServer'[c] = <<>>

(* The first command is taken from it.                                     *)
WireTaken(c) ==
  /\ peer'[c] = "up" <=> peer[c] = "up"
  /\ Attached(c) /\ Attached(c)'
  /\ Pipe(c) # <<>> /\ Pipe(c)' = Tail(Pipe(c))

LEMMA StaysWired ==
  ASSUME ServerOK, ServerOK', NothingStray, NEW c \in Conns, toServer'[c] = toServer[c],
         \A j \in Slots : /\ Holds(j, c)' <=> Holds(j, c)
                          /\ Holds(j, c) => clients'[j].buf = clients[j].buf,
         Queued(c)' <=> Queued(c), peer'[c] = "up" <=> peer[c] = "up"
  PROVE  WireKept(c)
<1>1. Pipe(c)' = Pipe(c) /\ (Attached(c)' <=> Attached(c))
  BY PipeSame DEF Attached
<1> QED BY <1>1 DEF WireKept, NothingStray

LEMMA ClosedWire ==
  ASSUME KernelOK, NEW F \in SUBSET Fds, CloseFds(F), UNCHANGED backlog, NEW c \in Conns
  PROVE  /\ peer'[c] = "up" <=> peer[c] = "up"
         /\ (\E f \in F : sock[f] = c) => ~Attached(c)'
         /\ (\A f \in F : sock[f] # c) => \A f \in Fds : sock'[f] = c <=> sock[f] = c
         /\ Queued(c)' <=> Queued(c)
<1>1. /\ peer'[c] = IF peer[c] # "up" /\ \E f \in F : sock[f] = c THEN "idle" ELSE peer[c]
      /\ \A f \in Fds : sock'[f] = IF f \in F THEN NoConn ELSE sock[f]
      /\ c # NoConn
  BY ServerAssumption DEF CloseFds, ServerAssumption
<1>2. ASSUME NEW f \in F, sock[f] = c PROVE ~Attached(c)'
  <2>1. \A g \in Fds : sock[g] = c => g = f
    BY <1>1, <1>2 DEF KernelOK, ConnectionsDistinct
  <2>2. ~Accepted(c)'
    BY <1>1, <1>2, <2>1 DEF Accepted
  <2>3. ~Queued(c)'
    BY <1>2 DEF Queued, KernelOK, ConnectionsDistinct
  <2> QED BY <2>2, <2>3 DEF Attached
<1>3. Queued(c)' <=> Queued(c)
  BY DEF Queued
<1> QED BY <1>1, <1>2, <1>3

LEMMA QuietWire ==
  ASSUME ServerOK, ServerOK', NothingStray, NEW c \in Conns,
         UNCHANGED <<clients, sock, backlog, toServer>>, peer'[c] = "up" <=> peer[c] = "up"
  PROVE  WireKept(c)
<1>1. Queued(c)' <=> Queued(c)
  BY DEF Queued
<1>2. \A j \in Slots : /\ Holds(j, c)' <=> Holds(j, c)
                       /\ Holds(j, c) => clients'[j].buf = clients[j].buf
  BY DEF Holds
<1> QED BY <1>1, <1>2, StaysWired

LEMMA QueueMoves ==
  ASSUME KernelOK, backlog # <<>>, backlog' = Tail(backlog), NEW c \in Conns
  PROVE  /\ c # Head(backlog) => (Queued(c)' <=> Queued(c))
         /\ c = Head(backlog) => Queued(c) /\ ~Accepted(c) /\ ~Queued(c)'
<1> DEFINE n == Len(Tail(backlog))
<1>1. /\ backlog \in Seq(Conns) /\ n \in Nat /\ Len(backlog) = n + 1
      /\ Head(backlog) = backlog[1] /\ Len(backlog') = n
  BY DEF KernelOK
<1>2. \A k \in 1..n : /\ backlog'[k] # Head(backlog) /\ backlog'[k] = backlog[k + 1]
                      /\ k + 1 \in 1..Len(backlog)
  BY HeadFacts
<1>3. \A f \in Fds : sock[f] # Head(backlog)
  BY HeadFacts
<1> HIDE DEF n
<1>4. CASE c = Head(backlog)
  <2>1. Queued(c)
    BY <1>1, <1>4 DEF Queued
  <2> QED BY <1>1, <1>2, <1>3, <1>4, <2>1 DEF Queued, Accepted
<1>5. CASE c # Head(backlog)
  <2>1. ASSUME NEW k \in 1..Len(backlog), backlog[k] = c
        PROVE  k - 1 \in 1..Len(backlog') /\ backlog'[k - 1] = c
    <3>1. k # 1
      BY <1>1, <1>5, <2>1
    <3>2. k - 1 \in 1..n /\ (k - 1) + 1 = k
      BY <1>1, <3>1
    <3> QED BY <1>1, <1>2, <2>1, <3>2
  <2>2. ASSUME NEW k \in 1..Len(backlog'), backlog'[k] = c
        PROVE  k + 1 \in 1..Len(backlog) /\ backlog[k + 1] = c
    BY <1>1, <1>2, <2>2
  <2> QED BY <1>5, <2>1, <2>2 DEF Queued
<1> QED BY <1>4, <1>5

LEMMA AcceptWire ==
  ASSUME ServerOK, ServerOK', NothingStray, NEW c \in Conns, Accept
  PROVE  WireKept(c)
<1> USE ServerAssumption, UdataAssumption
<1>1. KernelOK /\ backlog # <<>> /\ backlog \in Seq(Conns)
  BY DEF ServerOK, Accept, KernelOK, SnapshotTrue
<1>2. PICK s : s = SlotForNew
  OBVIOUS
<1>3. PICK f0 : f0 = LowestFree
  OBVIOUS
<1>4. PICK h : h = Head(backlog)
  OBVIOUS
<1>5. /\ f0 \in Fds /\ sock[f0] = NoConn /\ s \in Slots /\ clients[s].fd \notin Fds
      /\ clients \in [Slots -> SlotRecord] /\ sock \in [Fds -> Conns \cup {NoConn}]
  BY <1>1, <1>2, <1>3, NewSlotFacts DEF Accept, KernelOK, Fds
<1>6. /\ clients' = [clients EXCEPT ![s] = [fd |-> f0, buf |-> <<>>, part |-> FALSE]]
      /\ sock' = [sock EXCEPT ![f0] = h] /\ backlog' = Tail(backlog)
      /\ UNCHANGED <<toServer, peer>>
  BY <1>2, <1>3, <1>4 DEF Accept
<1>7. h \in Conns
  BY <1>1, <1>4
<1>8. c # NoConn /\ h # NoConn
  BY <1>7 DEF ServerAssumption
<1>9. CASE c = h
  <2>1. Queued(c) /\ ~Accepted(c)
    BY <1>1, <1>6, <1>9, <1>4, QueueMoves
  <2>2. Accepted(c)' /\ Holds(s, c)' /\ clients'[s].buf = <<>>
    BY <1>5, <1>6, <1>9 DEF Accepted, Holds
  <2>3. Pipe(c) = toServer[c] /\ toServer[c] \in Seq(Sayable(c))
    BY <2>1, OKFits DEF Fits, PipesFit
  <2>4. Pipe(c)' = clients'[s].buf \o toServer'[c]
    BY <1>5, <2>2, OKFitsNext DEF Fits, PipesFit
  <2>5. Pipe(c)' = Pipe(c)
    BY <1>6, <2>2, <2>3, <2>4, ConcatEmptySeq
  <2> QED BY <1>6, <2>1, <2>2, <2>5 DEF WireKept, Attached
<1>10. CASE c # h
  <2>1. ASSUME NEW j \in Slots
        PROVE  /\ Holds(j, c)' <=> Holds(j, c)
               /\ Holds(j, c) => clients'[j].buf = clients[j].buf
    <3>1. CASE j = s
      <4>1. clients'[j].fd = f0 /\ sock'[f0] = h /\ clients[j].fd \notin Fds
        BY <1>5, <1>6, <3>1
      <4> QED BY <1>10, <4>1 DEF Holds
    <3>2. CASE j # s
      <4>1. clients'[j] = clients[j]
        BY <1>5, <1>6, <3>2
      <4>2. \A f \in Fds : sock'[f] = c <=> sock[f] = c
        BY <1>5, <1>6, <1>8, <1>10
      <4> QED BY <4>1, <4>2 DEF Holds
    <3> QED BY <3>1, <3>2
  <2>2. Queued(c)' <=> Queued(c)
    BY <1>1, <1>6, <1>10, <1>4, QueueMoves
  <2> QED BY <1>6, <2>1, <2>2, StaysWired
<1> QED BY <1>9, <1>10

LEMMA DropHeadWire ==
  ASSUME ServerOK, ServerOK', NothingStray, NEW c \in Conns, backlog # <<>>, DropHead,
         UNCHANGED <<clients, sock>>
  PROVE  WireKept(c)
<1> DEFINE h == Head(backlog)
<1>1. KernelOK /\ h \in Conns
  BY HeadFacts DEF ServerOK
<1>2. /\ backlog' = Tail(backlog)
      /\ toServer' = [toServer EXCEPT ![h] = <<>>]
      /\ peer' = [peer EXCEPT ![h] = IF @ = "up" THEN "up" ELSE "idle"]
      /\ toServer \in [Conns -> Seq(Commands)]
      /\ peer \in [Conns -> {"idle", "up", "fin", "rst"}]
  BY <1>1 DEF DropHead, KernelOK
<1>3. /\ \A j \in Slots : /\ Holds(j, c)' <=> Holds(j, c)
                          /\ Holds(j, c) => clients'[j].buf = clients[j].buf
      /\ Accepted(c)' <=> Accepted(c)
  BY DEF Holds, Accepted
<1>4. CASE c = h
  <2>1. ~Attached(c)'
    BY <1>1, <1>2, <1>3, <1>4, QueueMoves DEF Attached
  <2> QED BY <1>1, <1>2, <1>4, <2>1 DEF WireKept
<1>5. CASE c # h
  <2>1. toServer'[c] = toServer[c] /\ peer'[c] = peer[c]
    BY <1>1, <1>2, <1>5
  <2>2. Queued(c)' <=> Queued(c)
    BY <1>1, <1>2, <1>5, QueueMoves
  <2> QED BY <1>3, <2>1, <2>2, StaysWired
<1> QED BY <1>4, <1>5

(* A recv() splits the pipe into what is read and what is not.             *)
LEMMA PipeReads ==
  ASSUME ServerOK, NEW i \in Slots, NEW k \in RecvSizes, RecvData(i, k)
  PROVE  LET c == Sock(i)
         IN  /\ c \in Conns /\ Holds(i, c)
             /\ clients[i].buf \in Seq(Sayable(c)) /\ toServer[c] \in Seq(Sayable(c))
             /\ Received(i, k) \in Seq(Sayable(c)) /\ Unread(i, k) \in Seq(Sayable(c))
             /\ Pipe(c) = clients[i].buf \o toServer[c]
             /\ Received(i, k) \o Unread(i, k) = clients[i].buf \o toServer[c]
             /\ Received(i, k) = <<>> => clients[i].buf = <<>>
<1> DEFINE c == Sock(i)
           q == toServer[c]
           w == Whole(i, k)
           S == Sayable(c)
           b == clients[i].buf
<1>1. KernelOK /\ Turn(i)
  BY DEF ServerOK, RecvData
<1>2. c \in Conns /\ Holds(i, c) /\ clients[i] \in SlotRecord
  BY <1>1, TurnFacts, ServerAssumption DEF Holds, Sock
<1>3. b \in Seq(S) /\ q \in Seq(S) /\ Pipe(c) = b \o q
  BY <1>2, OKFits DEF Fits, PipesFit
<1>4. k \in Nat /\ 1 <= k /\ k <= Fragments(i) /\ Len(q) \in Nat
  BY <1>3, ServerAssumption DEF RecvData, RecvSizes, ServerAssumption
<1>5. w \in Nat /\ w <= Len(q)
  <2>1. CASE clients[i].part
    BY <1>4, <2>1 DEF Whole, Fragments
  <2>2. CASE ~clients[i].part
    BY <1>4, <2>2 DEF Whole, Fragments
  <2> QED BY <2>1, <2>2
<1>6. Received(i, k) = b \o SubSeq(q, 1, w) /\ Unread(i, k) = SubSeq(q, w + 1, Len(q))
  BY DEF Received, Unread
<1> HIDE DEF q, w, S, b
<1>7. SubSeq(q, 1, w) \in Seq(S) /\ SubSeq(q, w + 1, Len(q)) \in Seq(S)
  BY <1>3, <1>4, <1>5
<1>8. SubSeq(q, 1, w) \o SubSeq(q, w + 1, Len(q)) = q
  <2>1. 1 \in 1..(Len(q) + 1) /\ w \in (1 - 1)..Len(q) /\ Len(q) \in w..Len(q)
    BY <1>4, <1>5
  <2>2. SubSeq(q, 1, w) \o SubSeq(q, w + 1, Len(q)) = SubSeq(q, 1, Len(q))
    BY <1>3, <2>1, ConcatAdjacentSubSeq
  <2> QED BY <1>3, <2>2, SubSeqFull
<1>9. Received(i, k) \o Unread(i, k) = b \o q
  <2>1. ASSUME NEW r \in Seq(S), NEW t \in Seq(S) PROVE (b \o r) \o t = b \o (r \o t)
    BY <1>3, ConcatAssociative
  <2> QED BY <1>6, <1>7, <1>8, <2>1
<1>10. Received(i, k) = <<>> => b = <<>>
  <2>1. ASSUME NEW r \in Seq(S), b \o r = <<>> PROVE b = <<>>
    BY <1>3, <2>1, ConcatEqualIffEmpty
  <2> QED BY <1>6, <1>7, <2>1
<1>11. Received(i, k) \in Seq(S) /\ Unread(i, k) \in Seq(S)
  BY <1>3, <1>6, <1>7, ConcatProperties
<1> QED BY <1>2, <1>3, <1>9, <1>10, <1>11 DEF q, S, b

LEMMA RecvIncompleteWire ==
  ASSUME ServerOK, ServerOK', NothingStray, NEW c \in Conns,
         NEW i \in Slots, NEW k \in RecvSizes, RecvIncomplete(i, k)
  PROVE  WireKept(c)
<1> DEFINE q == toServer[Sock(i)]
<1>1. KernelOK /\ RecvData(i, k) /\ Turn(i)
  BY DEF ServerOK, RecvIncomplete, RecvData
<1>2. /\ Sock(i) \in Conns /\ clients[i].fd \in Fds
      /\ clients \in [Slots -> SlotRecord] /\ toServer \in [Conns -> Seq(Commands)]
  BY <1>1, TurnFacts, ServerAssumption DEF KernelOK
<1>3. Unread(i, k) = q
  <2>1. /\ Received(i, k) = <<>> /\ Unread(i, k) \in Seq(Sayable(Sock(i)))
        /\ Received(i, k) \o Unread(i, k) = clients[i].buf \o q
        /\ clients[i].buf \in Seq(Sayable(Sock(i))) /\ q \in Seq(Sayable(Sock(i)))
    BY <1>1, PipeReads, OwnedRecv DEF RecvIncomplete
  <2>2. clients[i].buf = <<>>
    BY <1>1, PipeReads DEF RecvIncomplete
  <2> HIDE DEF q
  <2> QED BY <2>1, <2>2, ConcatEmptySeq
<1>4. /\ clients' = [clients EXCEPT ![i].part = Part(i, k)]
      /\ toServer' = [toServer EXCEPT ![Sock(i)] = Unread(i, k)]
      /\ UNCHANGED <<sock, backlog, peer>>
  BY DEF RecvIncomplete
<1>5. toServer' = toServer
  BY <1>2, <1>3, <1>4
<1>6. \A j \in Slots : clients'[j].fd = clients[j].fd /\ clients'[j].buf = clients[j].buf
  BY <1>2, <1>4 DEF SlotRecord
<1>7. Queued(c)' <=> Queued(c)
  BY <1>4 DEF Queued
<1>8. \A j \in Slots : /\ Holds(j, c)' <=> Holds(j, c)
                       /\ Holds(j, c) => clients'[j].buf = clients[j].buf
  BY <1>4, <1>6 DEF Holds
<1> QED BY <1>4, <1>5, <1>7, <1>8, StaysWired

LEMMA RecvEofWire ==
  ASSUME ServerOK, ServerOK', NothingStray, NEW c \in Conns, NEW i \in Slots, RecvEof(i)
  PROVE  WireKept(c) /\ (c = Sock(i) => ~Attached(c)')
<1>1. KernelOK /\ Turn(i)
  BY DEF ServerOK, RecvEof
<1>2. /\ Sock(i) \in Conns /\ clients[i].fd \in Fds /\ -1 \notin Fds
      /\ clients \in [Slots -> SlotRecord] /\ toServer[Sock(i)] = <<>>
  BY <1>1, TurnFacts, ServerAssumption DEF KernelOK, Fds, RecvEof
<1>3. /\ CloseFds({clients[i].fd}) /\ clients' = [clients EXCEPT ![i] = ClosedSlot]
      /\ UNCHANGED <<backlog, toServer>>
  BY DEF RecvEof
<1>4. /\ peer'[c] = "up" <=> peer[c] = "up"
      /\ c = Sock(i) => ~Attached(c)'
      /\ c # Sock(i) => \A f \in Fds : sock'[f] = c <=> sock[f] = c
      /\ Queued(c)' <=> Queued(c)
  BY <1>1, <1>2, <1>3, ClosedWire DEF Sock
<1>5. CASE c = Sock(i)
  BY <1>2, <1>3, <1>4, <1>5 DEF WireKept
<1>6. CASE c # Sock(i)
  <2>1. ASSUME NEW j \in Slots
        PROVE  /\ Holds(j, c)' <=> Holds(j, c)
               /\ Holds(j, c) => clients'[j].buf = clients[j].buf
    <3>1. CASE j = i
      <4>1. clients'[j].fd = -1 /\ ~Holds(j, c)
        BY <1>2, <1>3, <1>6, <3>1 DEF ClosedSlot, Holds, Sock
      <4> QED BY <1>2, <4>1 DEF Holds
    <3>2. CASE j # i
      <4>1. clients'[j] = clients[j]
        BY <1>2, <1>3, <3>2
      <4> QED BY <1>4, <1>6, <4>1 DEF Holds
    <3> QED BY <3>1, <3>2
  <2> QED BY <1>3, <1>4, <1>6, <2>1, StaysWired
<1> QED BY <1>5, <1>6

LEMMA TailConcat ==
  ASSUME NEW S, NEW r \in Seq(S), r # <<>>, NEW t \in Seq(S)
  PROVE  r \o t # <<>> /\ Head(r \o t) = Head(r) /\ Tail(r \o t) = Tail(r) \o t
<1> DEFINE a == Tail(r \o t)
           b == Tail(r) \o t
<1>1. /\ r \o t \in Seq(S) /\ Len(r \o t) = Len(r) + Len(t) /\ Len(r) \in Nat /\ Len(t) \in Nat
      /\ \A n \in 1..(Len(r) + Len(t)) : (r \o t)[n] = IF n <= Len(r) THEN r[n] ELSE t[n - Len(r)]
      /\ Len(r) > 0
  BY ConcatProperties
<1>2. r \o t # <<>> /\ Head(r \o t) = Head(r)
  BY <1>1
<1>3. /\ Tail(r) \in Seq(S) /\ Len(Tail(r)) = Len(r) - 1
      /\ \A n \in 1..Len(Tail(r)) : Tail(r)[n] = r[n + 1]
  BY HeadTailProperties
<1>4. /\ a \in Seq(S) /\ Len(a) = Len(r \o t) - 1
      /\ \A n \in 1..Len(a) : a[n] = (r \o t)[n + 1]
  BY <1>1, <1>2, HeadTailProperties
<1>5. /\ b \in Seq(S) /\ Len(b) = Len(Tail(r)) + Len(t)
      /\ \A n \in 1..(Len(Tail(r)) + Len(t)) :
           b[n] = IF n <= Len(Tail(r)) THEN Tail(r)[n] ELSE t[n - Len(Tail(r))]
  BY <1>3, ConcatProperties
<1> HIDE DEF a, b
<1>6. ASSUME NEW n \in 1..Len(a) PROVE a[n] = b[n]
  <2>1. n \in Nat /\ n + 1 \in 1..(Len(r) + Len(t)) /\ n \in 1..(Len(Tail(r)) + Len(t))
    BY <1>1, <1>3, <1>4
  <2>2. a[n] = IF n + 1 <= Len(r) THEN r[n + 1] ELSE t[(n + 1) - Len(r)]
    BY <1>1, <1>4, <2>1
  <2>3. b[n] = IF n <= Len(r) - 1 THEN r[n + 1] ELSE t[n - (Len(r) - 1)]
    BY <1>1, <1>3, <1>5, <2>1
  <2> QED BY <1>1, <2>1, <2>2, <2>3
<1>7. a = b
  BY <1>1, <1>3, <1>4, <1>5, <1>6, SeqEqual
<1> QED BY <1>2, <1>7 DEF a, b

LEMMA DoneWire ==
  ASSUME ServerOK, ServerOK', NothingStray, NEW c \in Conns,
         NEW i \in Slots, NEW k \in RecvSizes, RecvData(i, k), Received(i, k) # <<>>,
         NEW killed \in Slots \cup {NoSlot},
         killed # NoSlot => clients[killed].fd \in Fds,
         Done(i, k, killed)
  PROVE  IF killed # NoSlot /\ Holds(killed, c) THEN WireKept(c) /\ ~Attached(c)'
         ELSE IF c = Sock(i) THEN WireTaken(c) /\ Head(Pipe(c)) = Request(i, k) ELSE WireKept(c)
<1> DEFINE F == IF killed = NoSlot THEN {} ELSE {clients[killed].fd}
           mine == [fd |-> clients[i].fd, buf |-> Tail(Received(i, k)), part |-> Part(i, k)]
           S == Sayable(c)
<1>1. KernelOK /\ Turn(i) /\ NoSlot \notin Slots
  BY DEF ServerOK, RecvData, NoSlot, Slots
<1>2. /\ clients[i].fd \in Fds /\ -1 \notin Fds /\ F \in SUBSET Fds
      /\ Sock(i) \in Conns /\ Holds(i, Sock(i))
  <2>1. clients[i].fd \in Fds /\ Sock(i) \in Conns /\ Holds(i, Sock(i))
    BY <1>1, TurnFacts, PipeReads, ServerAssumption
  <2>2. -1 \notin Fds
    BY DEF Fds
  <2> QED BY <2>1, <2>2
<1>3. ASSUME NEW j \in Slots
      PROVE  clients'[j] = IF j = killed THEN ClosedSlot ELSE IF j = i THEN mine ELSE clients[j]
  BY DEF Done
<1> HIDE DEF mine
<1>4. /\ CloseFds(F) /\ UNCHANGED backlog
      /\ toServer'[c] = IF \E f \in F : sock[f] = c THEN <<>>
                        ELSE IF c = Sock(i) THEN Unread(i, k) ELSE toServer[c]
  BY DEF Done
<1>5. (\E f \in F : sock[f] = c) <=> killed # NoSlot /\ Holds(killed, c)
  BY DEF Holds
<1> HIDE DEF F, S
<1>6. /\ peer'[c] = "up" <=> peer[c] = "up"
      /\ (\E f \in F : sock[f] = c) => ~Attached(c)'
      /\ (\A f \in F : sock[f] # c) => \A f \in Fds : sock'[f] = c <=> sock[f] = c
      /\ Queued(c)' <=> Queued(c)
  BY <1>1, <1>2, <1>4, ClosedWire
<1>7. CASE \E f \in F : sock[f] = c
  BY <1>4, <1>5, <1>6, <1>7 DEF WireKept
<1>8. CASE (\A f \in F : sock[f] # c) /\ c = Sock(i)
  <2>1. i # killed
    BY <1>1, <1>2, <1>5, <1>8
  <2>2. clients'[i] = mine
    BY <1>3, <2>1
  <2>3. Holds(i, c)' /\ clients'[i].buf = Tail(Received(i, k))
    <3>1. clients'[i].fd = clients[i].fd /\ clients'[i].buf = Tail(Received(i, k))
      BY <2>2 DEF mine
    <3> QED BY <1>2, <1>6, <1>8, <3>1 DEF Holds
  <2>4. /\ Received(i, k) \in Seq(S) /\ Unread(i, k) \in Seq(S)
        /\ Pipe(c) = Received(i, k) \o Unread(i, k)
    BY <1>8, PipeReads DEF S
  <2>5. Pipe(c)' = clients'[i].buf \o toServer'[c]
    BY <2>3, OKFitsNext DEF Fits, PipesFit
  <2>6. Pipe(c)' = Tail(Received(i, k)) \o Unread(i, k)
    BY <1>4, <1>8, <2>3, <2>5
  <2>7. Pipe(c) # <<>> /\ Head(Pipe(c)) = Request(i, k) /\ Pipe(c)' = Tail(Pipe(c))
    BY <2>4, <2>6, TailConcat DEF Request
  <2>8. Attached(c) /\ Attached(c)'
    BY <1>2, <1>8, <2>3 DEF Attached, Accepted, Holds
  <2> QED BY <1>5, <1>6, <1>8, <2>7, <2>8 DEF WireTaken
<1>9. CASE (\A f \in F : sock[f] # c) /\ c # Sock(i)
  <2>1. ASSUME NEW j \in Slots
        PROVE  /\ Holds(j, c)' <=> Holds(j, c)
               /\ Holds(j, c) => clients'[j].buf = clients[j].buf
    <3>1. CASE j = killed
      <4>1. clients'[j].fd = -1 /\ ~Holds(j, c)
        BY <1>1, <1>3, <1>5, <1>9, <3>1 DEF ClosedSlot
      <4> QED BY <1>2, <4>1 DEF Holds
    <3>2. CASE j = i /\ j # killed
      <4>1. clients'[j].fd = clients[i].fd /\ sock[clients[i].fd] # c
        BY <1>3, <1>9, <3>2 DEF Sock, mine
      <4> QED BY <1>2, <1>6, <1>9, <3>2, <4>1 DEF Holds
    <3>3. CASE j # i /\ j # killed
      <4>1. clients'[j] = clients[j]
        BY <1>3, <3>3
      <4> QED BY <1>6, <1>9, <4>1 DEF Holds
    <3> QED BY <3>1, <3>2, <3>3
  <2>2. toServer'[c] = toServer[c]
    BY <1>4, <1>9
  <2> QED BY <1>5, <1>6, <1>9, <2>1, <2>2, StaysWired
<1> QED BY <1>7, <1>8, <1>9

-----------------------------------------------------------------------------
(* What a step of the server writes.                                       *)

NamesGivenIn(m) ==
  m.op = "C_WHO" => \A item \in m.room :
    item.nick \in Strings /\ item.marks \in SUBSET {"AWAY", "OPERATOR"}

(* Messages that tell a client nothing about its own nickname.             *)
Mute ==
  {m \in Message :
     /\ m.op # "NAK" /\ NamesGivenIn(m)
     /\ m.op = "C_NICK" => m.form \notin {"reply", "notice"}}

(* Messages a client can put in its picture.                               *)
Sensible ==
  {m \in Message :
     /\ NamesGivenIn(m)
     /\ m.op = "C_NICK" /\ m.form \in {"reply", "notice"} => m.nick \in Strings}

LEMMA MuteIsSensible == Mute \subseteq Sensible
BY DEF Mute, Sensible

LEMMA MuteTeachesNothing ==
  ASSUME NEW m \in Mute, NEW known
  PROVE  LearnNick(known, m) = known
BY DEF Mute, LearnNick

LEMMA MuteMsg ==
  ASSUME NEW op \in (ChatOps \cup {"ACK"}) \ {"C_WHO"},
         NEW form \in {"reply", "notice", "denied", "absent", "yes", "no"},
         NEW nn \in Strings \cup {NoString}, NEW other \in Strings \cup {NoString},
         op = "C_NICK" => form \notin {"reply", "notice"}
  PROVE  Msg(op, form, nn, other) \in Mute
<1>1. Msg(op, form, nn, other) \in Message
  BY MsgTyped
<1>2. Msg(op, form, nn, other).op = op /\ Msg(op, form, nn, other).form = form /\ op # "NAK"
  BY DEF Msg, ChatOps
<1> QED BY <1>1, <1>2 DEF Mute, NamesGivenIn

LEMMA AckMute == ACK \in Mute
<1>1. NoString \in Strings \cup {NoString}
  OBVIOUS
<1> QED BY <1>1, MuteMsg DEF ACK

LEMMA HandlerMute ==
  ASSUME UdataAssumption, ServerAssumption, KernelOK, GoodRoom(udata),
         NEW i \in Slots, NEW k \in RecvSizes, HandleCmd(i, k),
         ~DoorNak(i, k), ~Nick(i, k), ~NickReply(i, k)
  PROVE  Brings(out', Mute)
<1> DEFINE w == Speaker(i)
           a == Request(i, k).arg
<1>1. NoString \in Strings \cup {NoString} /\ udata \in Store
  BY DEF GoodRoom
<1>2. CASE DoorLeave(i, k)
  <2>1. DoorUser(i, k) # NoUser
    BY <1>2, NotRefused DEF DoorLeave
  <2>2. DoorUser(i, k) \in Users
    BY <1>2, <2>1, DoorFacts DEF DoorLeave
  <2>3. LeftMsg(DoorUser(i, k)) \in Mute
    <3>1. udata.ent[DoorUser(i, k)].nick \in Strings \cup {NoString}
      BY <1>1, <2>2 DEF Store, Entry
    <3> QED BY <1>1, <3>1, MuteMsg DEF LeftMsg, ChatOps
  <2>4. Brings(Then(ToRoom(udata, LeftMsg(DoorUser(i, k)), i), Reply(i, ACK)), Mute)
    BY <2>3, AckMute, BringsBoth DEF ToRoom, Reply, SendTo
  <2> QED BY <1>2, <2>4 DEF DoorLeave
<1>3. CASE DoorJoin(i, k)
  <2> DEFINE m == Msg("C_DOOR", "yes", a, NoString)
  <2>1. m \in Mute
    <3>1. a \in Strings \cup {NoString}
      BY <1>3, RequestTyped DEF DoorJoin
    <3> HIDE DEF a
    <3> QED BY <1>1, <3>1, MuteMsg DEF ChatOps
  <2> HIDE DEF m
  <2>2. Brings(Then(ToRoom(udata', m, i), Reply(i, ACK)), Mute)
    BY <2>1, AckMute, BringsBoth DEF ToRoom, Reply, SendTo
  <2> QED BY <1>3, <2>2 DEF DoorJoin, m
<1>4. CASE Ignored(i, k)
  BY <1>4 DEF Ignored, Quiet, Brings
<1>5. ASSUME w # NoUser PROVE w \in Users /\ NickOf(w) \in Strings
  BY <1>5, SpeakerPresent DEF GoodRoom, NickOf
<1>6. CASE Away(i, k)
  <2>1. /\ Msg("C_AWAY", "no", NickOf(w), NoString) \in Mute
        /\ Msg("C_AWAY", "yes", NickOf(w), NoString) \in Mute
    <3>1. NickOf(w) \in Strings \cup {NoString}
      BY <1>5, <1>6 DEF Away, Chats
    <3> QED BY <1>1, <3>1, MuteMsg DEF ChatOps
  <2> QED BY <1>6, <2>1, BringsOne DEF Away
<1>7. CASE Oper(i, k)
  <2>1. /\ Msg("C_OPER", "notice", NickOf(w), NoString) \in Mute
        /\ Msg("C_OPER", "denied", NoString, NoString) \in Mute
    <3>1. NickOf(w) \in Strings \cup {NoString}
      BY <1>5, <1>7 DEF Oper, Chats
    <3> QED BY <1>1, <3>1, MuteMsg DEF ChatOps
  <2> QED BY <1>7, <2>1, BringsOne DEF Oper
<1>8. CASE Beep(i, k)
  <2>1. /\ Msg("C_BEEP", "notice", NoString, NoString) \in Mute
        /\ Msg("C_BEEP", "absent", a, NoString) \in Mute
    <3>1. a \in Strings \cup {NoString}
      BY <1>8, RequestTyped DEF Beep, Chats
    <3> HIDE DEF a
    <3> QED BY <1>1, <3>1, MuteMsg DEF ChatOps
  <2> QED BY <1>8, <2>1, BringsOne DEF Beep
<1>9. CASE Psay(i, k)
  <2> DEFINE target == IF a = NoString THEN NoUser ELSE UdataGetByNick(udata, a)
             one == Msg("C_PSAY", "notice", NickOf(w), NoString)
             two == Msg("C_PSAY", "reply", NickOf(w), NickOf(target))
             no  == Msg("C_PSAY", "absent", a, NoString)
  <2>1. NickOf(w) \in Strings \cup {NoString} /\ a \in Strings \cup {NoString}
    BY <1>5, <1>9, RequestTyped DEF Psay, Chats
  <2>2. target # NoUser => NickOf(target) \in Strings \cup {NoString}
    <3>1. ASSUME target # NoUser PROVE NickOf(target) \in Strings \cup {NoString}
      <4>1. target = UdataGetByNick(udata, a)
        BY <3>1
      <4> HIDE DEF target
      <4>2. target \in Users
        BY <1>1, <3>1, <4>1, GetByNickFinds
      <4> QED BY <1>1, <4>2 DEF NickOf, Store, Entry
    <3> QED BY <3>1
  <2>3. one \in Mute /\ no \in Mute
    <3> HIDE DEF a, w
    <3> QED BY <1>1, <2>1, MuteMsg DEF ChatOps
  <2>4. target # NoUser => two \in Mute
    <3> HIDE DEF target, w
    <3> QED BY <2>1, <2>2, MuteMsg DEF ChatOps
  <2>5. out' = IF target # NoUser
                 THEN Then(SendTo(udata.ent[target].fd, one), Reply(i, two))
                 ELSE Reply(i, no)
    BY <1>9 DEF Psay
  <2> HIDE DEF target, one, two, no
  <2>6. CASE target # NoUser
    <3>1. Brings(Then(SendTo(udata.ent[target].fd, one), Reply(i, two)), Mute)
      BY <2>3, <2>4, <2>6, BringsBoth DEF Reply, SendTo
    <3> QED BY <2>5, <2>6, <3>1
  <2>7. CASE target = NoUser
    BY <2>3, <2>5, <2>7, BringsOne
  <2> QED BY <2>6, <2>7
<1>10. CASE Say(i, k)
  <2> DEFINE m == [op |-> Request(i, k).op, nick |-> NickOf(w), marks |-> NameMarks(w)]
  <2>1. Request(i, k).op \in {"C_SAY", "C_ME"} /\ w # NoUser
    BY <1>10, RequestTyped DEF Say, Chats
  <2>2. m \in Message /\ m.op \in {"C_SAY", "C_ME"}
    BY <1>5, <2>1 DEF Message, NameMarks
  <2>3. m \in Mute
    BY <2>2 DEF Mute, NamesGivenIn
  <2> HIDE DEF m
  <2> QED BY <1>10, <2>3, BringsOne DEF Say, m
<1>11. CASE Who(i, k)
  <2> DEFINE R == IF a = WHO_SYSTEM THEN {} ELSE RoomList
             m == [op |-> "C_WHO", what |-> a, room |-> R]
  <2>1. a \in Strings \cup {NoString}
    BY <1>11, RequestTyped DEF Who
  <2>2. R \in SUBSET [user : Users, nick : Strings, marks : SUBSET {"AWAY", "OPERATOR"}]
    <3>1. ASSUME NEW j \in Slots, Speaker(j) # NoUser
          PROVE  /\ Speaker(j) \in Users /\ NickOf(Speaker(j)) \in Strings
                 /\ NameMarks(Speaker(j)) \in SUBSET {"AWAY", "OPERATOR"}
      BY <3>1, SpeakerPresent DEF NickOf, NameMarks
    <3> QED BY <3>1 DEF RoomList
  <2> HIDE DEF R
  <2>3. m \in Message /\ m.op = "C_WHO" /\ m.room = R
    BY <2>1, <2>2 DEF Message
  <2>4. m \in Mute
    BY <2>2, <2>3 DEF Mute, NamesGivenIn
  <2> HIDE DEF m
  <2> QED BY <1>11, <2>4, BringsOne DEF Who, m, R
<1>12. CASE ModerateReply(i, k)
  <2> DEFINE op == Request(i, k).op
  <2>1. op \in ModOps /\ a \in Strings \cup {NoString}
    BY <1>12, RequestTyped DEF ModerateReply, Chats
  <2>2. \/ out' = Reply(i, Msg(op, "denied", NoString, NoString))
        \/ out' = Reply(i, Msg(op, "absent", a, NoString))
    BY <1>12 DEF ModerateReply
  <2> HIDE DEF op, a
  <2>3. op \in (ChatOps \cup {"ACK"}) \ {"C_WHO"} /\ op # "C_NICK"
    BY <2>1 DEF ModOps, ChatOps
  <2>4. Msg(op, "denied", NoString, NoString) \in Mute /\ Msg(op, "absent", a, NoString) \in Mute
    BY <1>1, <2>1, <2>3, MuteMsg
  <2> QED BY <2>2, <2>4, BringsOne
<1>13. CASE Moderate(i, k) \/ Expel(i, k)
  <2> DEFINE op == Request(i, k).op
             m  == ModerateNotice(i, k)
  <2>1. op \in ModOps /\ out' = ToRoom(udata', m, NoSlot)
    BY <1>13, RequestTyped DEF Moderate, Expel, Chats, ModOps
  <2>2. NickOf(w) \in Strings \cup {NoString} /\ NickOf(Target(i, k)) \in Strings \cup {NoString}
    BY <1>5, <1>13, TargetPresent DEF Moderate, Expel, Chats, NickOf
  <2>3. op \in (ChatOps \cup {"ACK"}) \ {"C_WHO"} /\ op # "C_NICK"
    BY <2>1 DEF ModOps, ChatOps
  <2>4. m = Msg(op, "notice", NickOf(Target(i, k)), NickOf(w))
    BY DEF ModerateNotice
  <2> HIDE DEF op, m, w
  <2>5. m \in Mute
    BY <2>2, <2>3, <2>4, MuteMsg
  <2> QED BY <2>1, <2>5, BringsOne
<1> QED BY <1>2, <1>3, <1>4, <1>6, <1>7, <1>8, <1>9, <1>10, <1>11, <1>12, <1>13 DEF HandleCmd

(* The four answers that are not mute.                                     *)
LEMMA EofMute ==
  ASSUME UdataAssumption, GoodRoom(udata), NEW i \in Slots, RecvEof(i)
  PROVE  Brings(out', Mute)
<1>1. CASE Speaker(i) = NoUser
  BY <1>1 DEF RecvEof, Quiet, Brings
<1>2. CASE Speaker(i) # NoUser
  <2>1. udata.ent[Speaker(i)].nick \in Strings \cup {NoString} /\ NoString \in Strings \cup {NoString}
    BY <1>2, SpeakerPresent
  <2>2. LeftMsg(Speaker(i)) \in Mute
    BY <2>1, MuteMsg DEF LeftMsg, ChatOps
  <2> QED BY <1>2, <2>2, BringsOne DEF RecvEof
<1> QED BY <1>1, <1>2

(* What the renaming says, and to whom an answer about a name goes.        *)
LEMMA NickSays ==
  ASSUME UdataAssumption, ServerAssumption, KernelOK, GoodRoom(udata),
         NEW i \in Slots, NEW k \in RecvSizes, Nick(i, k)
  PROVE  LET m == Msg("C_NICK", "notice", Request(i, k).arg, NickOf(Speaker(i)))
         IN  /\ m \in Sensible /\ m.op = "C_NICK" /\ m.form = "notice"
             /\ m.nick = Request(i, k).arg /\ m.other = NickOf(Speaker(i))
             /\ out' = ToRoom(udata', m, NoSlot)
<1> DEFINE a == Request(i, k).arg
           b == NickOf(Speaker(i))
           m == Msg("C_NICK", "notice", a, b)
<1>1. a \in Strings /\ b \in Strings
  BY RequestTyped, SpeakerPresent DEF Nick, Chats, NickOf
<1>2. out' = ToRoom(udata', m, NoSlot)
  BY DEF Nick
<1> HIDE DEF a, b
<1>3. m \in Message
  BY <1>1, MsgTyped DEF ChatOps
<1>4. m.op = "C_NICK" /\ m.form = "notice" /\ m.nick = a /\ m.other = b
  BY DEF Msg
<1>5. m \in Sensible
  BY <1>1, <1>3, <1>4 DEF Sensible, NamesGivenIn
<1> QED BY <1>2, <1>4, <1>5 DEF a, b

LEMMA NickReplySays ==
  ASSUME UdataAssumption, ServerAssumption, KernelOK, GoodRoom(udata),
         NEW i \in Slots, NEW k \in RecvSizes, NickReply(i, k)
  PROVE  \E m \in Sensible :
           /\ out' = Reply(i, m) /\ m.op # "NAK"
           /\ LearnNick(NickOf(Speaker(i)), m) = NickOf(Speaker(i))
<1> DEFINE b == NickOf(Speaker(i))
           denied == Msg("C_NICK", "denied", NoString, NoString)
           answer == Msg("C_NICK", "reply", b, NoString)
<1>1. b \in Strings /\ NoString \in Strings \cup {NoString}
  BY SpeakerPresent DEF NickReply, Chats, NickOf
<1>2. out' = Reply(i, denied) \/ out' = Reply(i, answer)
  BY DEF NickReply
<1> HIDE DEF b
<1>3. denied \in Message /\ answer \in Message
  BY <1>1, MsgTyped DEF ChatOps
<1>4. /\ denied.op = "C_NICK" /\ denied.form = "denied"
      /\ answer.op = "C_NICK" /\ answer.form = "reply" /\ answer.nick = b
  BY DEF Msg
<1> HIDE DEF denied, answer
<1>5. denied \in Sensible /\ answer \in Sensible
  BY <1>1, <1>3, <1>4 DEF Sensible, NamesGivenIn
<1>6. LearnNick(b, denied) = b /\ LearnNick(b, answer) = b
  BY <1>4 DEF LearnNick
<1> QED BY <1>2, <1>4, <1>5, <1>6 DEF b

LEMMA NakSensible == NAK \in Sensible
<1>1. NAK \in Message /\ NAK.op = "NAK"
  BY AcksTyped DEF NAK, Msg
<1> QED BY <1>1 DEF Sensible, NamesGivenIn

LEMMA StepSensible ==
  ASSUME ServerOK, Server
  PROVE  Brings(out', Sensible)
<1> USE UdataAssumption, ServerAssumption
<1>1. KernelOK /\ GoodRoom(udata)
  BY DEF ServerOK, RoomAndOut
<1>2. ASSUME Brings(out', Mute) PROVE Brings(out', Sensible)
  BY <1>2, MuteIsSensible DEF Brings
<1>3. CASE Select \/ Accept \/ AcceptRefuse \/ AcceptFails
  BY <1>3 DEF Select, Accept, AcceptRefuse, AcceptFails, Quiet, Brings
<1>4. CASE \E i \in Slots : RecvError(i) \/ \E k \in RecvSizes : RecvIncomplete(i, k)
  BY <1>4 DEF RecvError, RecvIncomplete, Quiet, Brings
<1>5. CASE \E i \in Slots : RecvEof(i)
  BY <1>1, <1>2, <1>5, EofMute
<1>6. ASSUME NEW i \in Slots, NEW k \in RecvSizes, HandleCmd(i, k)
      PROVE  Brings(out', Sensible)
  <2>1. CASE DoorNak(i, k)
    BY <2>1, NakSensible, BringsOne DEF DoorNak
  <2>2. CASE Nick(i, k)
    BY <1>1, <2>2, NickSays, BringsOne
  <2>3. CASE NickReply(i, k)
    BY <1>1, <2>3, NickReplySays, BringsOne
  <2>4. CASE ~DoorNak(i, k) /\ ~Nick(i, k) /\ ~NickReply(i, k)
    BY <1>1, <1>2, <1>6, <2>4, HandlerMute
  <2> QED BY <2>1, <2>2, <2>3, <2>4
<1> QED BY <1>3, <1>4, <1>5, <1>6 DEF Server

-----------------------------------------------------------------------------
(* To whom.                                                                *)

(* What goes to the room goes to connections of the room.                  *)
LEMMA ToRoomHeard ==
  ASSUME UdataAssumption, NEW db, GoodRoom(db), NEW m, NEW excl, NEW c \in Conns
  PROVE  /\ ToRoom(db, m, excl)[c] \in {<<>>, <<m>>}
         /\ ToRoom(db, m, excl)[c] # <<>> =>
              \E u \in Users, j \in Slots \ {excl} :
                /\ IsPresent(db.ent[u]) /\ db.ent[u].fd \in Fds
                /\ clients[j].fd = db.ent[u].fd /\ sock[db.ent[u].fd] = c
<1> DEFINE L == {j \in Slots \ {excl} :
                   clients[j].fd \in Fds /\ UdataGetByFd(db, clients[j].fd) # NoUser}
<1>1. ToRoom(db, m, excl)[c] = IF \E j \in L : sock[clients[j].fd] = c THEN <<m>> ELSE <<>>
  BY DEF ToRoom
<1>2. ASSUME ToRoom(db, m, excl)[c] # <<>>
      PROVE  \E u \in Users, j \in Slots \ {excl} :
                /\ IsPresent(db.ent[u]) /\ db.ent[u].fd \in Fds
                /\ clients[j].fd = db.ent[u].fd /\ sock[db.ent[u].fd] = c
  <2>1. PICK j \in L : sock[clients[j].fd] = c
    BY <1>1, <1>2
  <2>2. db \in Store
    BY DEF GoodRoom
  <2>3. PICK u : u = UdataGetByFd(db, clients[j].fd)
    OBVIOUS
  <2>4. u \in Users /\ IsPresent(db.ent[u]) /\ db.ent[u].fd = clients[j].fd
    BY <2>1, <2>2, <2>3, GetByFdFinds
  <2> QED BY <2>1, <2>4
<1> QED BY <1>1, <1>2

(* A member hears what goes to the room.                                   *)
LEMMA MemberHears ==
  ASSUME ServerOK, NEW db, GoodRoom(db), NEW m, NEW c \in Conns, Member(c),
         IsPresent(db.ent[User(c)]), db.ent[User(c)].fd = udata.ent[User(c)].fd
  PROVE  ToRoom(db, m, NoSlot)[c] = <<m>>
<1> USE UdataAssumption, ServerAssumption
<1>1. PICK j \in Slots : Holds(j, c) /\ clients[j].fd = udata.ent[User(c)].fd
  BY OKFits DEF Fits, MembersFit
<1>2. NoSlot \notin Slots
  BY DEF NoSlot, Slots
<1>3. db \in Store /\ User(c) \in Users /\ Listed(db, User(c)) /\ NoUser \notin Users
  BY UserIs, ClientAssumption DEF GoodRoom, UdataAssumption
<1>4. UdataGetByFd(db, clients[j].fd) # NoUser
  BY <1>1, <1>3, GetByFdFinds
<1>5. j \in Slots \ {NoSlot} /\ clients[j].fd \in Fds /\ sock[clients[j].fd] = c
  BY <1>1, <1>2 DEF Holds
<1> QED BY <1>4, <1>5 DEF ToRoom

LEMMA ListenersAreMembers ==
  ASSUME ServerOK, NEW db, GoodRoom(db), NoNewcomer(udata, db), NEW m, NEW excl, NEW c \in Conns,
         ToRoom(db, m, excl)[c] # <<>>
  PROVE  Member(c)
<1>1. PICK u \in Users, j \in Slots \ {excl} :
        /\ IsPresent(db.ent[u]) /\ db.ent[u].fd \in Fds
        /\ clients[j].fd = db.ent[u].fd /\ sock[db.ent[u].fd] = c
  BY ToRoomHeard, UdataAssumption
<1>2. IsPresent(udata.ent[u]) /\ MemberConn(u) = c
  BY <1>1 DEF NoNewcomer, MemberConn
<1> QED BY <1>1, <1>2, OKFits DEF Fits, MembersFit

LEMMA FoundIsMember ==
  ASSUME ServerOK, NEW u \in Users, IsPresent(udata.ent[u]), NEW m, NEW c \in Conns,
         SendTo(udata.ent[u].fd, m)[c] # <<>>
  PROVE  Member(c) /\ c = MemberConn(u)
<1>1. MemberConn(u) = c
  BY DEF SendTo, MemberConn
<1> QED BY <1>1, OKFits DEF Fits, MembersFit

LEMMA OthersGetNoReply ==
  ASSUME NEW i, NEW m, NEW c \in Conns, c # Sock(i)
  PROVE  Reply(i, m)[c] = <<>>
BY DEF Reply, SendTo, Sock

LEMMA ThenEmpty ==
  ASSUME NEW p, NEW q, NEW c \in Conns, NEW m, p[c] \in {<<>>, <<m>>}, q[c] = <<>>
  PROVE  Then(p, q)[c] = p[c]
<1>1. Then(p, q)[c] = p[c] \o <<>>
  BY DEF Then
<1>2. CASE p[c] = <<>>
  BY <1>1, <1>2
<1>3. CASE p[c] = <<m>>
  <2>1. <<m>> \in Seq({m})
    OBVIOUS
  <2> QED BY <1>1, <1>3, <2>1, ConcatEmptySeq
<1> QED BY <1>2, <1>3

(* Nobody outside the room hears anything but an answer.                   *)
LEMMA HandlerHeard ==
  ASSUME ServerOK, ServerOK', NEW i \in Slots, NEW k \in RecvSizes, HandleCmd(i, k),
         NEW c \in Conns, c # Sock(i), out'[c] # <<>>
  PROVE  Member(c)
<1> USE UdataAssumption, ServerAssumption
<1>1. KernelOK /\ GoodRoom(udata) /\ GoodRoom(udata') /\ RoomAndOut /\ NoNewcomer(udata, udata)
  BY DEF ServerOK, RoomAndOut, NoNewcomer
<1>2. ASSUME NEW m, NEW excl PROVE ToRoom(udata, m, excl)[c] # <<>> => Member(c)
  BY <1>1, ListenersAreMembers
<1>3. ASSUME NEW m, NEW excl, ~DoorJoin(i, k) PROVE ToRoom(udata', m, excl)[c] # <<>> => Member(c)
  <2>1. NoNewcomer(udata, udata')
    BY <1>1, <1>3, HandlerNoNewcomer
  <2> QED BY <1>1, <2>1, ListenersAreMembers
<1>4. ASSUME NEW m PROVE Reply(i, m)[c] = <<>>
  BY OthersGetNoReply
<1>5. CASE DoorNak(i, k)
  BY <1>4, <1>5 DEF DoorNak
<1>6. CASE DoorLeave(i, k)
  <2> DEFINE m == LeftMsg(DoorUser(i, k))
             p == ToRoom(udata, m, i)
             q == Reply(i, ACK)
  <2>1. out'[c] = Then(p, q)[c]
    BY <1>6 DEF DoorLeave
  <2>2. p[c] \in {<<>>, <<m>>} /\ q[c] = <<>>
    BY <1>1, <1>4, ToRoomHeard
  <2> HIDE DEF p, q, m
  <2>3. out'[c] = p[c]
    BY <2>1, <2>2, ThenEmpty
  <2> QED BY <1>2, <2>3 DEF p
<1>7. CASE DoorJoin(i, k)
  <2> DEFINE m == Msg("C_DOOR", "yes", Request(i, k).arg, NoString)
             p == ToRoom(udata', m, i)
             q == Reply(i, ACK)
             w == Request(i, k).user
  <2>1. out'[c] = Then(p, q)[c]
    BY <1>7 DEF DoorJoin
  <2>2. p[c] \in {<<>>, <<m>>} /\ q[c] = <<>>
    BY <1>1, <1>4, ToRoomHeard
  <2> HIDE DEF q, m
  <2>3. ToRoom(udata', m, i)[c] # <<>>
    BY <2>1, <2>2, ThenEmpty
  <2>4. PICK u \in Users, j \in Slots \ {i} :
          /\ IsPresent(udata'.ent[u]) /\ udata'.ent[u].fd \in Fds
          /\ clients[j].fd = udata'.ent[u].fd /\ sock[udata'.ent[u].fd] = c
    BY <1>1, <2>3, ToRoomHeard
  <2>5. /\ udata'.ent[w].fd = clients[i].fd
        /\ \A v \in Users \ {w} : udata'.ent[v] = udata.ent[v]
    BY <1>1, <1>7, JoinFacts DEF ServerOK, MembersInv
  <2> HIDE DEF w
  <2>6. u # w
    BY <1>1, <2>4, <2>5 DEF KernelOK, SlotsMatchKernel
  <2>7. IsPresent(udata.ent[u]) /\ MemberConn(u) = c
    BY <2>4, <2>5, <2>6 DEF MemberConn
  <2> QED BY <2>7, OKFits DEF Fits, MembersFit
<1>8. CASE Ignored(i, k)
  BY <1>8 DEF Ignored, Quiet
<1>9. CASE \/ NickReply(i, k) \/ Who(i, k) \/ ModerateReply(i, k)
  BY <1>4, <1>9 DEF NickReply, Who, ModerateReply
<1>10. CASE \/ Nick(i, k) \/ Away(i, k) \/ Oper(i, k) \/ Moderate(i, k) \/ Expel(i, k)
  <2>1. ~DoorJoin(i, k)
    BY <1>10 DEF Nick, Away, Oper, Moderate, Expel, Chats, DoorJoin, Handles
  <2> QED BY <1>3, <1>4, <1>10, <2>1 DEF Nick, Away, Oper, Moderate, Expel
<1>11. CASE Beep(i, k)
  <2> DEFINE target == UdataGetByNick(udata, Request(i, k).arg)
             beep   == Msg("C_BEEP", "notice", NoString, NoString)
  <2>1. \/ out' = ToRoom(udata, beep, i)
        \/ target # NoUser /\ out' = SendTo(udata.ent[target].fd, beep)
        \/ \E m : out' = Reply(i, m)
    BY <1>11 DEF Beep
  <2>2. target # NoUser => target \in Users /\ IsPresent(udata.ent[target])
    BY <1>1, FoundIsPresent
  <2> HIDE DEF target, beep
  <2> QED BY <1>2, <1>4, <2>1, <2>2, FoundIsMember
<1>12. CASE Psay(i, k)
  <2>1. PICK target, m, n :
          /\ target = IF Request(i, k).arg = NoString THEN NoUser
                      ELSE UdataGetByNick(udata, Request(i, k).arg)
          /\ \/ target # NoUser /\ out' = Then(SendTo(udata.ent[target].fd, m), Reply(i, n))
             \/ out' = Reply(i, n)
    BY <1>12 DEF Psay
  <2>2. target # NoUser => target \in Users /\ IsPresent(udata.ent[target])
    BY <1>1, <2>1, FoundIsPresent
  <2>3. target # NoUser /\ out' = Then(SendTo(udata.ent[target].fd, m), Reply(i, n))
    BY <1>4, <2>1
  <2> DEFINE p == SendTo(udata.ent[target].fd, m)
             q == Reply(i, n)
  <2>4. p[c] \in {<<>>, <<m>>} /\ q[c] = <<>> /\ out'[c] = Then(p, q)[c]
    BY <1>4, <2>3 DEF SendTo
  <2> HIDE DEF p, q
  <2>5. p[c] # <<>>
    BY <2>4, ThenEmpty
  <2> QED BY <2>2, <2>3, <2>5, FoundIsMember DEF p
<1>13. CASE Say(i, k)
  BY <1>2, <1>13 DEF Say
<1> QED BY <1>5, <1>6, <1>7, <1>8, <1>9, <1>10, <1>11, <1>12, <1>13 DEF HandleCmd

-----------------------------------------------------------------------------
(* Who is in the room, and under which name, after a command.              *)

Leaves(cmd) == cmd.op = "CHATDOOR" /\ cmd.arg \in {NoString, EmptyString}
Joins(cmd)  == cmd.op = "CHATDOOR" /\ cmd.arg \notin {NoString, EmptyString}

(* A client joins and leaves for its own user, and leaves when it is in.   *)
DoorMeant(cmd, c) ==
  cmd.op = "CHATDOOR" => cmd.user = User(c) /\ (Leaves(cmd) => Member(c))

(* The connection a kick or ban closes.                                    *)
Expelled(i, k, c) == Expel(i, k) /\ c = MemberConn(Target(i, k))

LEMMA HandlerDone ==
  ASSUME ServerOK, NEW i \in Slots, NEW k \in RecvSizes, HandleCmd(i, k)
  PROVE  /\ RecvData(i, k) /\ Received(i, k) # <<>>
         /\ \E killed \in Slots \cup {NoSlot} :
              /\ Done(i, k, killed)
              /\ killed # NoSlot => clients[killed].fd \in Fds
              /\ \A c \in Conns : Expelled(i, k, c) <=> killed # NoSlot /\ Holds(killed, c)
<1> USE UdataAssumption, ServerAssumption
<1>1. KernelOK /\ GoodRoom(udata) /\ RoomAndOut /\ NoSlot \notin Slots
  BY DEF ServerOK, RoomAndOut, NoSlot, Slots
<1>2. CASE Expel(i, k)
  <2> DEFINE t == Target(i, k)
             s == SlotOf(t)
  <2>1. /\ t \in Users /\ IsPresent(udata.ent[t]) /\ udata.ent[t].fd \in Fds
        /\ s \in Slots \cup {NoSlot}
        /\ s # NoSlot => clients[s].fd = udata.ent[t].fd
    BY <1>1, <1>2, ExpelFacts
  <2>2. RecvData(i, k) /\ Received(i, k) # <<>> /\ Done(i, k, s)
    BY <1>2 DEF Expel, Chats, Handles
  <2>3. s # NoSlot
    <3>1. \E j \in Slots : clients[j].fd = udata.ent[t].fd
      BY <1>1, <2>1, MemberSlot DEF ServerOK
    <3>2. s \in Slots
      <4> DEFINE held == {j \in Slots : clients[j].fd = udata.ent[t].fd}
      <4>1. held # {} /\ held \in SUBSET Nat
        BY <3>1 DEF Slots
      <4>2. PICK m \in held : \A h \in held : m <= h
        BY <4>1, LeastNatural
      <4>3. s = CHOOSE j \in held : \A h \in held : j <= h
        BY <4>1 DEF SlotOf
      <4> QED BY <4>2, <4>3
    <3> QED BY <1>1, <3>2
  <2>4. \A c \in Conns : Expelled(i, k, c) <=> Holds(s, c)
    BY <1>2, <2>1, <2>3 DEF Expelled, MemberConn, Holds
  <2> QED BY <2>1, <2>2, <2>3, <2>4
<1>3. CASE ~Expel(i, k)
  <2>1. RecvData(i, k) /\ Received(i, k) # <<>> /\ Done(i, k, NoSlot)
    BY <1>3 DEF HandleCmd, DoorNak, DoorLeave, DoorJoin, Ignored, Nick, NickReply,
       Away, Beep, Oper, Psay, Say, Who, ModerateReply, Moderate, Chats, Handles
  <2> QED BY <1>3, <2>1 DEF Expelled
<1> QED BY <1>2, <1>3

LEMMA HandlerWire ==
  ASSUME ServerOK, ServerOK', NothingStray, NEW c \in Conns,
         NEW i \in Slots, NEW k \in RecvSizes, HandleCmd(i, k)
  PROVE  IF Expelled(i, k, c) THEN WireKept(c) /\ ~Attached(c)'
         ELSE IF c = Sock(i) THEN WireTaken(c) /\ Head(Pipe(c)) = Request(i, k)
         ELSE WireKept(c)
<1>1. RecvData(i, k) /\ Received(i, k) # <<>>
  BY HandlerDone
<1>2. PICK killed \in Slots \cup {NoSlot} :
        /\ Done(i, k, killed)
        /\ killed # NoSlot => clients[killed].fd \in Fds
        /\ Expelled(i, k, c) <=> killed # NoSlot /\ Holds(killed, c)
  BY HandlerDone
<1> QED BY <1>1, <1>2, DoneWire

LEMMA HandlerSock ==
  ASSUME ServerOK, NEW i \in Slots, NEW k \in RecvSizes, HandleCmd(i, k),
         NEW c \in Conns, NEW f \in Fds
  PROVE  /\ sock'[f] = c => sock[f] = c
         /\ sock[f] = c /\ ~Expelled(i, k, c) => sock'[f] = c
<1>1. PICK killed \in Slots \cup {NoSlot} :
        /\ Done(i, k, killed)
        /\ killed # NoSlot => clients[killed].fd \in Fds
        /\ Expelled(i, k, c) <=> killed # NoSlot /\ Holds(killed, c)
  BY HandlerDone
<1> DEFINE F == IF killed = NoSlot THEN {} ELSE {clients[killed].fd}
<1>2. CloseFds(F)
  BY <1>1 DEF Done
<1>3. f \in F /\ sock[f] = c => Expelled(i, k, c)
  BY <1>1 DEF Holds
<1> HIDE DEF F
<1>4. sock'[f] = IF f \in F THEN NoConn ELSE sock[f]
  BY <1>2 DEF CloseFds
<1>5. c # NoConn
  BY ServerAssumption DEF ServerAssumption
<1> QED BY <1>3, <1>4, <1>5

(* The entry of a member who neither leaves nor is expelled.               *)
EntryStays(u) ==
  IsPresent(udata'.ent[u]) /\ udata'.ent[u].fd = udata.ent[u].fd
NameStays(u) == udata'.ent[u].nick = udata.ent[u].nick

LEMMA MarkedStays ==
  ASSUME NEW db, GoodRoom(db), NEW w \in Users, Listed(db, w), IsPresent(db.ent[w]),
         NEW f \in SUBSET {"OPERATOR", "AWAY"},
         \/ udata' = UdataFlagSet(db, w, f) \/ udata' = UdataFlagUnset(db, w, f),
         NEW u \in Users, IsPresent(db.ent[u])
  PROVE  /\ IsPresent(udata'.ent[u]) /\ udata'.ent[u].fd = db.ent[u].fd
         /\ udata'.ent[u].nick = db.ent[u].nick
<1>1. db \in Store
  BY DEF GoodRoom
<1>2. /\ \/ udata'.ent[w].flags = db.ent[w].flags \cup f
         \/ udata'.ent[w].flags = db.ent[w].flags \ f
      /\ udata'.ent[w].nick = db.ent[w].nick
      /\ \A x \in Users \ {w} : udata'.ent[x] = db.ent[x]
  BY <1>1, CallsChangeFlags DEF OnlyFlags
<1>3. IsPresent(udata'.ent[w])
  BY <1>2 DEF IsPresent
<1>4. f \in SUBSET UdataFlags
  BY DEF UdataFlags
<1>5. NoNewcomer(db, udata')
  BY <1>4, MarkNoNewcomer
<1> QED BY <1>2, <1>3, <1>5 DEF NoNewcomer

LEMMA UserFixed ==
  ASSUME NEW c \in Conns
  PROVE  User(c)' = User(c)
BY DEF User, Names

LEMMA MemberEntry ==
  ASSUME ServerOK, NEW i \in Slots, NEW k \in RecvSizes, HandleCmd(i, k),
         DoorMeant(Request(i, k), Sock(i)),
         NEW c \in Conns, Member(c), ~Expelled(i, k, c),
         c # Sock(i) \/ Request(i, k).op # "CHATDOOR"
  PROVE  /\ EntryStays(User(c))
         /\ c # Sock(i) \/ Request(i, k).op # "C_NICK" => NameStays(User(c))
<1> USE UdataAssumption, ServerAssumption
<1> DEFINE d == Sock(i)
           cmd == Request(i, k)
<1>1. /\ KernelOK /\ GoodRoom(udata) /\ RoomAndOut /\ udata \in Store /\ MembersInv /\ Owned
      /\ MembersFit
  BY OKFits DEF ServerOK, RoomAndOut, GoodRoom, Fits, MembersInv
<1>2. /\ IsPresent(udata.ent[User(c)]) /\ User(c) \in Users /\ MemberConn(User(c)) = c
      /\ clients[i].fd \in Fds /\ d \in Conns
  <2>1. RecvData(i, k)
    BY HandlerDone
  <2> QED BY <1>1, <2>1, UserIs, ClientAssumption, TurnFacts DEF MembersFit, Member, RecvData
<1>3. Speaker(i) # NoUser => Member(d) /\ Speaker(i) = User(d)
  BY <1>1, <1>2 DEF MembersFit
<1> HIDE DEF d
<1>4. User(c) = User(d) /\ Member(d) => c = d
  BY <1>2 DEF Member
<1>5. CASE udata'.ent[User(c)] = udata.ent[User(c)]
  BY <1>2, <1>5 DEF EntryStays, NameStays
<1>6. CASE DoorNak(i, k)
  <2>1. cmd.user \in Users \cup {NoUser}
    BY <1>1, <1>6, RequestTyped DEF DoorNak
  <2>2. udata' = UdataAdd(udata, UdataDefEntry(cmd.user, NoString, -1))
    BY <1>6 DEF DoorNak, DoorStore
  <2> HIDE DEF cmd
  <2>3. udata'.ent[User(c)] = udata.ent[User(c)]
    BY <1>1, <1>2, <2>1, <2>2, AddFacts
  <2> QED BY <1>5, <2>3
<1>7. CASE DoorLeave(i, k)
  <2> DEFINE w == DoorUser(i, k)
  <2>1. w \in Users /\ Listed(udata, w) /\ udata' = LeaveRoom(udata, w)
    BY <1>1, <1>7, DoorLeaveRoom DEF DoorLeave
  <2>2. w = cmd.user
    <3>1. w # NoUser
      BY <2>1 DEF UdataAssumption
    <3> QED BY <1>1, <1>7, <3>1, DoorFacts DEF DoorLeave
  <2>3. cmd.op = "CHATDOOR" /\ Leaves(cmd)
    BY <1>7 DEF DoorLeave, Handles, Leaves, Leaving
  <2>4. cmd.user = User(d) /\ Member(d) /\ c # d
    BY <2>3 DEF DoorMeant, d
  <2> HIDE DEF w, cmd
  <2>5. User(c) # w
    BY <1>4, <2>2, <2>4
  <2>6. udata'.ent[User(c)] = udata.ent[User(c)]
    BY <1>1, <1>2, <2>1, <2>5, CallsChangeFlags DEF OnlyFlags
  <2> QED BY <1>5, <2>6
<1>8. CASE DoorJoin(i, k)
  <2>1. ~IsPresent(udata.ent[cmd.user]) /\ \A v \in Users \ {cmd.user} : udata'.ent[v] = udata.ent[v]
    BY <1>1, <1>8, JoinFacts
  <2> HIDE DEF cmd
  <2>2. udata'.ent[User(c)] = udata.ent[User(c)]
    BY <1>2, <2>1
  <2> QED BY <1>5, <2>2
<1>9. CASE \/ Ignored(i, k) \/ NickReply(i, k) \/ Beep(i, k) \/ Psay(i, k)
           \/ Say(i, k) \/ Who(i, k) \/ ModerateReply(i, k)
  <2>1. udata' = udata
    BY <1>9 DEF Ignored, NickReply, Beep, Psay, Say, Who, ModerateReply
  <2> QED BY <1>5, <2>1
<1>10. CASE Nick(i, k)
  <2> DEFINE w == Speaker(i)
             n == cmd.arg
  <2>1. udata' = UdataUpdate(udata, UdataDefEntry(w, n, -1)) /\ cmd.op = "C_NICK"
    BY <1>10 DEF Nick, Chats, Handles
  <2>2. w \in Users /\ Listed(udata, w) /\ IsPresent(udata.ent[w]) /\ w # NoUser
    BY <1>1, <1>10, SpeakerPresent DEF Nick, Chats
  <2>3. n \in Strings /\ n # NoString
    BY <1>1, <1>10, RequestTyped DEF Nick, Chats
  <2>4. w = User(d) /\ Member(d)
    BY <1>3, <2>2
  <2> HIDE DEF w, n
  <2>5. udata' = With(udata, w, Ent(udata.ent[w], n, udata.ent[w].fd, udata.ent[w].flags))
    BY <1>1, <2>1, <2>2, <2>3, RenameIs
  <2>6. /\ udata'.ent[w] = Ent(udata.ent[w], n, udata.ent[w].fd, udata.ent[w].flags)
        /\ \A x \in Users \ {w} : udata'.ent[x] = udata.ent[x]
    BY <1>1, <2>2, <2>5 DEF With, Store
  <2>7. udata'.ent[w].fd = udata.ent[w].fd /\ udata'.ent[w].flags = udata.ent[w].flags
    BY <2>6 DEF Ent
  <2>8. CASE User(c) = w
    <3>1. c = d
      BY <1>4, <2>4, <2>8
    <3> QED BY <1>2, <2>1, <2>7, <2>8, <3>1 DEF EntryStays, IsPresent, d
  <2>9. CASE User(c) # w
    BY <1>2, <1>5, <2>6, <2>9
  <2> QED BY <2>8, <2>9
<1>11. CASE Away(i, k) \/ Oper(i, k)
  <2>1. /\ \/ udata' = UdataFlagSet(udata, Speaker(i), {"AWAY"})
           \/ udata' = UdataFlagUnset(udata, Speaker(i), {"AWAY"})
           \/ udata' = UdataFlagSet(udata, Speaker(i), {"OPERATOR"})
           \/ udata' = udata
        /\ Speaker(i) # NoUser
    BY <1>11 DEF Away, Oper, Chats
  <2>2. PICK w : w = Speaker(i)
    OBVIOUS
  <2>3. w \in Users /\ Listed(udata, w) /\ IsPresent(udata.ent[w])
    BY <1>1, <2>1, <2>2, SpeakerPresent
  <2>4. {"AWAY"} \in SUBSET {"OPERATOR", "AWAY"} /\ {"OPERATOR"} \in SUBSET {"OPERATOR", "AWAY"}
    OBVIOUS
  <2>5. udata' # udata => EntryStays(User(c)) /\ NameStays(User(c))
    BY <1>1, <1>2, <2>1, <2>2, <2>3, <2>4, MarkedStays DEF EntryStays, NameStays
  <2> QED BY <1>5, <2>5
<1>12. CASE Moderate(i, k)
  <2>1. PICK t : t = Target(i, k)
    OBVIOUS
  <2>2. /\ \/ udata' = UdataFlagSet(udata, t, {"OPERATOR"})
           \/ udata' = UdataFlagUnset(udata, t, {"OPERATOR"})
           \/ udata' = UdataFlagUnset(udata, t, {"BANNED"})
        /\ t # NoUser
    <3>1. Request(i, k).op \in {"C_OP", "C_DEOP", "C_UNBAN"}
      BY <1>12 DEF Moderate, Chats, Handles
    <3> QED BY <1>12, <2>1, <3>1 DEF Moderate
  <2>3. t \in Users /\ Listed(udata, t) /\ IsPresent(udata.ent[t])
    BY <1>1, <2>1, <2>2, TargetPresent
  <2>4. UdataFlagUnset(udata, t, {"BANNED"}) = udata
    BY <1>1, <2>3, UnbanIsVain
  <2>5. {"OPERATOR"} \in SUBSET {"OPERATOR", "AWAY"}
    OBVIOUS
  <2>6. udata' # udata => EntryStays(User(c)) /\ NameStays(User(c))
    BY <1>1, <1>2, <2>2, <2>3, <2>4, <2>5, MarkedStays DEF EntryStays, NameStays
  <2> QED BY <1>5, <2>6
<1>13. CASE Expel(i, k)
  <2>1. PICK t : t = Target(i, k)
    OBVIOUS
  <2>2. /\ t # NoUser
        /\ \/ udata' = LeaveRoom(udata, t)
           \/ udata' = LeaveRoom(UdataFlagSet(udata, t, {"BANNED"}), t)
    BY <1>13, <2>1 DEF Expel
  <2>3. t \in Users /\ Listed(udata, t)
    BY <1>1, <2>1, <2>2, TargetPresent
  <2>4. \A x \in Users \ {t} : udata'.ent[x] = udata.ent[x]
    BY <1>1, <2>2, <2>3, CallsChangeFlags DEF OnlyFlags
  <2>5. User(c) # t
    BY <1>2, <1>13, <2>1 DEF Expelled
  <2> QED BY <1>2, <1>5, <2>4, <2>5
<1> QED BY <1>6, <1>7, <1>8, <1>9, <1>10, <1>11, <1>12, <1>13 DEF HandleCmd

(* Who was a member, and who is one.                                       *)
LEMMA MembersAfter ==
  ASSUME ServerOK, ServerOK', NEW i \in Slots, NEW k \in RecvSizes, HandleCmd(i, k),
         DoorMeant(Request(i, k), Sock(i)),
         NEW c \in Conns, c # Sock(i) \/ Request(i, k).op # "CHATDOOR"
  PROVE  /\ Member(c)' => Member(c)
         /\ Member(c) /\ ~Expelled(i, k, c) => Member(c)'
<1> USE UdataAssumption, ServerAssumption
<1> DEFINE u == User(c)
<1>1. /\ KernelOK /\ GoodRoom(udata) /\ GoodRoom(udata') /\ RoomAndOut /\ u \in Users
  BY UserIs, ClientAssumption DEF ServerOK, RoomAndOut
<1>2. Member(c) <=> IsPresent(udata.ent[u]) /\ sock[udata.ent[u].fd] = c
  BY DEF Member, Present, HasFlag, IsPresent, MemberConn
<1>3. Member(c)' <=> IsPresent(udata'.ent[u]) /\ sock'[udata'.ent[u].fd] = c
  BY UserFixed DEF Member, Present, HasFlag, IsPresent, MemberConn
<1> HIDE DEF u
<1>4. ASSUME Member(c)' PROVE Member(c)
  <2>1. IsPresent(udata'.ent[u]) /\ sock'[udata'.ent[u].fd] = c /\ udata'.ent[u].fd \in Fds
    BY <1>1, <1>3, <1>4 DEF GoodRoom
  <2>2. sock[udata'.ent[u].fd] = c
    BY <2>1, HandlerSock
  <2>3. CASE ~DoorJoin(i, k)
    BY <1>1, <1>2, <2>1, <2>2, <2>3, HandlerNoNewcomer DEF NoNewcomer
  <2>4. CASE DoorJoin(i, k)
    <3>1. PICK w : w = Request(i, k).user
      OBVIOUS
    <3>2. /\ udata'.ent[w].fd = clients[i].fd
          /\ \A v \in Users \ {w} : udata'.ent[v] = udata.ent[v]
      BY <1>1, <2>4, <3>1, JoinFacts DEF ServerOK, MembersInv
    <3>3. c # Sock(i)
      BY <2>4 DEF DoorJoin, Handles
    <3>4. u # w
      BY <2>2, <3>2, <3>3 DEF Sock
    <3> QED BY <1>1, <1>2, <2>1, <2>2, <3>2, <3>4
  <2> QED BY <2>3, <2>4
<1>5. ASSUME Member(c), ~Expelled(i, k, c) PROVE Member(c)'
  <2>1. IsPresent(udata'.ent[u]) /\ udata'.ent[u].fd = udata.ent[u].fd
    BY <1>5, MemberEntry DEF EntryStays, u
  <2>2. udata.ent[u].fd \in Fds /\ sock[udata.ent[u].fd] = c
    BY <1>1, <1>2, <1>5 DEF GoodRoom
  <2> QED BY <1>3, <1>5, <2>1, <2>2, HandlerSock
<1> QED BY <1>4, <1>5

-----------------------------------------------------------------------------
(* What a step of the server is for one connection.                        *)

Fixes(name, q) == \A n \in 1..Len(q) : LearnNick(name, q[n]) = name
NoNakIn(q)     == \A n \in 1..Len(q) : q[n] # NAK

(* Nothing of c is handled.                                                *)
StandsBy(c) ==
  /\ WireKept(c)
  /\ Member(c)' => Member(c)
  /\ Member(c) => Member(c)' \/ ~Attached(c)'
  /\ ~Member(c) => out'[c] = <<>>
  /\ NoNakIn(out'[c])
  /\ Member(c) /\ Member(c)' =>
       NickOf(User(c))' = NickOf(User(c)) /\ Fixes(NickOf(User(c)), out'[c])

(* A chat command of c is handled.                                         *)
Talks(c, cmd) ==
  /\ cmd.op # "CHATDOOR"
  /\ Member(c)' <=> Member(c)
  /\ NoNakIn(out'[c])
  /\ Member(c) =>
       \/ NickOf(User(c))' = NickOf(User(c)) /\ Fixes(NickOf(User(c)), out'[c])
       \/ \E m \in Sensible : out'[c] = <<m>> /\ LearnNick(NickOf(User(c)), m) = NickOf(User(c))'

(* A client of c asks to join, or to leave.                                *)
IsRefused(c, cmd) == Joins(cmd) /\ (Member(c)' <=> Member(c)) /\ out'[c] = <<NAK>>
HasLeft(c, cmd)   == Leaves(cmd) /\ out'[c] = <<ACK>>
HasJoined(c, cmd) ==
  Joins(cmd) /\ out'[c] = <<ACK>> /\ Member(c)' /\ NickOf(User(c))' = cmd.arg

Answers(c) ==
  /\ WireTaken(c)
  /\ LET cmd == Head(Pipe(c))
     IN  Talks(c, cmd) \/ IsRefused(c, cmd) \/ HasLeft(c, cmd) \/ HasJoined(c, cmd)

LEMMA MuteIsHarmless ==
  ASSUME NEW c \in Conns, Brings(out', Mute), NEW name
  PROVE  NoNakIn(out'[c]) /\ Fixes(name, out'[c])
<1>1. \A n \in 1..Len(out'[c]) : out'[c][n] \in Mute
  BY DEF Brings
<1>2. \A m \in Mute : m # NAK
  BY DEF Mute, NAK, Msg
<1> QED BY <1>1, <1>2, MuteTeachesNothing DEF NoNakIn, Fixes

LEMMA SilenceIsHarmless ==
  ASSUME NEW c \in Conns, out'[c] = <<>>, NEW name
  PROVE  NoNakIn(out'[c]) /\ Fixes(name, out'[c])
BY DEF NoNakIn, Fixes

LEMMA AttachedMember ==
  ServerOK => \A c \in Conns : Member(c) => Attached(c)
BY OKFits DEF Fits, MembersFit, SlotsServe, Attached

LEMMA AttachedMemberNext ==
  ServerOK' => (\A c \in Conns : Member(c) => Attached(c))'
BY AttachedMember, PTL

LEMMA NameFixed ==
  ASSUME NEW c \in Conns
  PROVE  /\ NickOf(User(c)) = udata.ent[User(c)].nick
         /\ NickOf(User(c))' = udata'.ent[User(c)].nick
BY UserFixed DEF NickOf

(* A command seen by a connection it does not come from, or kills.         *)
LEMMA OthersStandBy ==
  ASSUME ServerOK, ServerOK', NothingStray, NEW i \in Slots, NEW k \in RecvSizes,
         HandleCmd(i, k), DoorMeant(Request(i, k), Sock(i)),
         NEW c \in Conns, c # Sock(i) \/ Expelled(i, k, c)
  PROVE  StandsBy(c)
<1> USE UdataAssumption, ServerAssumption
<1>1. /\ KernelOK /\ GoodRoom(udata) /\ MembersFit
      /\ User(c) \in Users /\ RecvData(i, k) /\ clients[i].fd \in Fds /\ Sock(i) \in Conns
  <2>1. RecvData(i, k)
    BY HandlerDone
  <2> QED BY <2>1, OKFits, UserIs, ClientAssumption, TurnFacts
          DEF ServerOK, RoomAndOut, Fits, RecvData
<1>2. c # Sock(i) \/ Request(i, k).op # "CHATDOOR"
  BY DEF Expelled, Expel, Chats, Handles
<1>3. WireKept(c) /\ (Expelled(i, k, c) => ~Attached(c)')
  BY HandlerWire
<1>4. (Member(c)' => Member(c)) /\ (Member(c) => Member(c)' \/ ~Attached(c)')
  BY <1>2, <1>3, MembersAfter
<1>5. ~Member(c) => out'[c] = <<>>
  <2>1. CASE c # Sock(i)
    BY <2>1, HandlerHeard
  <2>2. CASE c = Sock(i) /\ Expelled(i, k, c)
    <3>1. Speaker(i) # NoUser
      BY <2>2 DEF Expelled, Expel, Chats
    <3> QED BY <1>1, <2>2, <3>1 DEF MembersFit
  <2> QED BY <2>1, <2>2
<1>6. Member(c) /\ Member(c)' => NickOf(User(c))' = NickOf(User(c)) /\ c # Sock(i)
  <2> SUFFICES ASSUME Member(c), Member(c)'
               PROVE  NickOf(User(c))' = NickOf(User(c)) /\ c # Sock(i)
    OBVIOUS
  <2>1. ~Expelled(i, k, c) /\ c # Sock(i)
    BY <1>3, AttachedMemberNext
  <2>2. NameStays(User(c))
    BY <2>1, MemberEntry
  <2> QED BY <2>1, <2>2, NameFixed DEF NameStays
<1>7. /\ NoNakIn(out'[c])
      /\ c # Sock(i) /\ Member(c) => Fixes(NickOf(User(c)), out'[c])
  <2>1. CASE DoorNak(i, k) \/ NickReply(i, k)
    <3>1. c # Sock(i)
      BY <2>1 DEF Expelled, Expel, Chats, Handles, DoorNak, NickReply
    <3>2. out'[c] = <<>>
      BY <2>1, <3>1, OthersGetNoReply DEF DoorNak, NickReply
    <3> QED BY <3>2, SilenceIsHarmless
  <2>2. CASE Nick(i, k)
    <3> DEFINE m == Msg("C_NICK", "notice", Request(i, k).arg, NickOf(Speaker(i)))
    <3>1. m.op = "C_NICK" /\ m.form = "notice" /\ m.other = NickOf(Speaker(i)) /\ out' = ToRoom(udata', m, NoSlot)
      BY <1>1, <2>2, NickSays
    <3> HIDE DEF m
    <3>2. out'[c] \in {<<>>, <<m>>}
      BY <3>1 DEF ToRoom
    <3>3. m # NAK
      BY <3>1 DEF NAK, Msg
    <3>4. ASSUME c # Sock(i), Member(c) PROVE LearnNick(NickOf(User(c)), m) = NickOf(User(c))
      <4>1. Speaker(i) = User(Sock(i)) /\ Member(Sock(i))
        BY <1>1, <2>2 DEF MembersFit, Nick, Chats
      <4>2. User(c) # User(Sock(i))
        BY <3>4, <4>1 DEF Member
      <4>3. User(Sock(i)) \in Users /\ IsPresent(udata.ent[User(c)])
            /\ IsPresent(udata.ent[User(Sock(i))])
        BY <1>1, <3>4, <4>1, UserIs, ClientAssumption DEF MembersFit
      <4>4. NickOf(User(c)) # NickOf(Speaker(i))
        BY <1>1, <4>1, <4>2, <4>3 DEF GoodRoom, NickOf
      <4> QED BY <3>1, <4>4 DEF LearnNick
    <3> QED BY <3>2, <3>3, <3>4 DEF NoNakIn, Fixes
  <2>3. CASE ~DoorNak(i, k) /\ ~NickReply(i, k) /\ ~Nick(i, k)
    BY <1>1, <2>3, HandlerMute, MuteIsHarmless
  <2> QED BY <2>1, <2>2, <2>3
<1> QED BY <1>3, <1>4, <1>5, <1>6, <1>7 DEF StandsBy

LEMMA OwnReply ==
  ASSUME NEW i, NEW m, NEW c \in Conns, c = Sock(i), clients[i].fd \in Fds
  PROVE  Reply(i, m)[c] = <<m>>
BY DEF Reply, SendTo, Sock

LEMMA ToRoomSpares ==
  ASSUME KernelOK, NEW i \in Slots, NEW c \in Conns, Holds(i, c), NEW db, NEW m
  PROVE  ToRoom(db, m, i)[c] = <<>>
BY HeldOnce DEF SlotsServe, ToRoom, Holds

LEMMA SpareThenAck ==
  ASSUME KernelOK, NEW i \in Slots, NEW c \in Conns, Holds(i, c), NEW db, NEW m
  PROVE  Then(ToRoom(db, m, i), Reply(i, ACK))[c] = <<ACK>>
<1>1. ToRoom(db, m, i)[c] = <<>>
  BY ToRoomSpares
<1>2. Reply(i, ACK)[c] = <<ACK>>
  BY OwnReply DEF Holds, Sock
<1>3. Then(ToRoom(db, m, i), Reply(i, ACK))[c] = <<>> \o <<ACK>>
  BY <1>1, <1>2 DEF Then
<1>4. <<ACK>> \in Seq({ACK})
  OBVIOUS
<1> QED BY <1>3, <1>4, ConcatEmptySeq

(* The new nickname of a user who changes it.                              *)
LEMMA Renamed ==
  ASSUME ServerOK, NEW i \in Slots, NEW k \in RecvSizes, Nick(i, k)
  PROVE  udata'.ent[Speaker(i)].nick = Request(i, k).arg
<1> USE UdataAssumption, ServerAssumption
<1> DEFINE w == Speaker(i)
           n == Request(i, k).arg
<1>1. KernelOK /\ GoodRoom(udata) /\ udata \in Store
  BY DEF ServerOK, RoomAndOut, GoodRoom
<1>2. udata' = UdataUpdate(udata, UdataDefEntry(w, n, -1))
  BY DEF Nick
<1>3. w \in Users /\ Listed(udata, w) /\ n \in Strings /\ n # NoString
  BY <1>1, SpeakerPresent, RequestTyped DEF Nick, Chats
<1> HIDE DEF w, n
<1>4. udata' = With(udata, w, Ent(udata.ent[w], n, udata.ent[w].fd, udata.ent[w].flags))
  BY <1>1, <1>2, <1>3, RenameIs
<1>5. udata'.ent[w].nick = n
  BY <1>1, <1>3, <1>4 DEF With, Store, Ent
<1> QED BY <1>5 DEF w, n

LEMMA HandlerAnswers ==
  ASSUME ServerOK, ServerOK', NothingStray, NEW i \in Slots, NEW k \in RecvSizes,
         HandleCmd(i, k), DoorMeant(Request(i, k), Sock(i)),
         NEW c \in Conns, c = Sock(i), ~Expelled(i, k, c)
  PROVE  Answers(c)
<1> USE UdataAssumption, ServerAssumption
<1> DEFINE cmd == Request(i, k)
           u   == User(c)
<1>1. /\ KernelOK /\ GoodRoom(udata) /\ GoodRoom(udata') /\ RoomAndOut /\ MembersFit
      /\ Owned /\ MembersInv /\ udata \in Store
      /\ u \in Users /\ RecvData(i, k) /\ clients[i].fd \in Fds /\ Holds(i, c)
  <2>1. RecvData(i, k)
    BY HandlerDone
  <2> QED BY <2>1, OKFits, UserIs, ClientAssumption, TurnFacts
          DEF ServerOK, RoomAndOut, GoodRoom, Fits, RecvData, Holds, Sock, MembersInv
<1>2. WireTaken(c) /\ Head(Pipe(c)) = cmd
  BY HandlerWire
<1>3. /\ Member(c) <=> IsPresent(udata.ent[u]) /\ sock[udata.ent[u].fd] = c
      /\ Member(c)' <=> IsPresent(udata'.ent[u]) /\ sock'[udata'.ent[u].fd] = c
  BY UserFixed DEF Member, Present, HasFlag, IsPresent, MemberConn
<1>4. \A f \in Fds : sock'[f] = c <=> sock[f] = c
  BY HandlerSock
<1>5. NickOf(u) = udata.ent[u].nick /\ NickOf(u)' = udata'.ent[u].nick
  BY NameFixed
<1>6. CASE cmd.op = "CHATDOOR"
  <2>1. cmd.user = u /\ (Leaves(cmd) => Member(c))
    BY <1>6 DEF DoorMeant
  <2>2. Leaving(i, k) <=> Leaves(cmd)
    BY <1>6 DEF Leaving, Leaves
  <2>3. Joins(cmd) <=> ~Leaves(cmd)
    BY <1>6 DEF Joins, Leaves
  <2>4. /\ cmd.user \in Users \cup {NoUser} /\ u # NoUser
        /\ Handles(i, k, {"CHATDOOR"})
    BY <1>1, <1>6, <2>1, HandlerDone DEF UdataAssumption, Handles
  <2> HIDE DEF cmd, u
  <2>5. CASE DoorNak(i, k)
    <3>1. \A x \in Users : DoorStore(i, k).ent[x] = udata.ent[x]
      BY <1>1, <2>4, AddFacts DEF DoorStore, cmd
    <3>2. Listed(DoorStore(i, k), u) /\ udata' = DoorStore(i, k)
      BY <1>1, <2>1, <2>4, <2>5, AddFacts DEF DoorStore, DoorNak, cmd
    <3>3. DoorUser(i, k) = u
      BY <2>1, <3>2 DEF DoorUser, UdataGet, cmd
    <3>4. Joins(cmd)
      <4> SUFFICES ASSUME Leaves(cmd) PROVE FALSE
        BY <2>3
      <4>1. "PRESENT" \notin DoorFlags(i, k)
        BY <2>2, <2>4, <2>5, <3>3 DEF DoorNak, DoorRefused
      <4> QED BY <1>1, <1>3, <2>1, <3>1, <3>3, <4>1 DEF DoorFlags, IsPresent
    <3>5. Member(c)' <=> Member(c)
      BY <1>1, <1>3, <1>4, <3>1, <3>2 DEF GoodRoom
    <3>6. out'[c] = <<NAK>>
      BY <1>1, <2>5, OwnReply DEF DoorNak
    <3> QED BY <1>2, <3>4, <3>5, <3>6 DEF Answers, IsRefused
  <2>6. CASE DoorLeave(i, k)
    <3>1. out'[c] = <<ACK>>
      BY <1>1, <2>6, SpareThenAck DEF DoorLeave
    <3> QED BY <1>2, <2>2, <2>6, <3>1 DEF Answers, HasLeft, DoorLeave
  <2>7. CASE DoorJoin(i, k)
    <3>1. /\ IsPresent(udata'.ent[u]) /\ udata'.ent[u].fd = clients[i].fd
          /\ udata'.ent[u].nick = cmd.arg
      BY <1>1, <2>1, <2>7, JoinFacts DEF cmd
    <3>2. Member(c)'
      BY <1>1, <1>3, <1>4, <3>1 DEF Holds
    <3>3. out'[c] = <<ACK>>
      BY <1>1, <2>7, SpareThenAck DEF DoorJoin
    <3> QED BY <1>2, <1>5, <2>2, <2>3, <2>7, <3>1, <3>2, <3>3 DEF Answers, HasJoined, DoorJoin, u
  <2> QED BY <1>6, <2>5, <2>6, <2>7 DEF HandleCmd, Ignored, Nick, NickReply, Away, Beep, Oper,
             Psay, Say, Who, ModerateReply, Moderate, Expel, Chats, Handles, ChatOps, ModOps, cmd
<1>7. CASE cmd.op # "CHATDOOR"
  <2>1. Member(c)' <=> Member(c)
    BY <1>7, MembersAfter
  <2>2. Member(c) /\ cmd.op # "C_NICK" => NickOf(u)' = NickOf(u)
    <3> SUFFICES ASSUME Member(c), cmd.op # "C_NICK" PROVE NickOf(u)' = NickOf(u)
      OBVIOUS
    <3>1. NameStays(User(c))
      BY <1>7, MemberEntry
    <3> QED BY <1>5, <3>1 DEF NameStays
  <2>3. Member(c) => Speaker(i) = u
    BY <1>1 DEF MembersFit
  <2> HIDE DEF u
  <2>4. CASE Nick(i, k)
    <3> DEFINE m == Msg("C_NICK", "notice", Request(i, k).arg, NickOf(Speaker(i)))
    <3>1. /\ m \in Sensible /\ m.op = "C_NICK" /\ m.form = "notice"
          /\ m.nick = Request(i, k).arg /\ m.other = NickOf(Speaker(i))
          /\ out' = ToRoom(udata', m, NoSlot)
      BY <1>1, <2>4, NickSays
    <3> HIDE DEF m, cmd
    <3>2. out'[c] \in {<<>>, <<m>>} /\ m # NAK
      BY <3>1 DEF ToRoom, NAK, Msg
    <3>3. NoNakIn(out'[c])
      BY <3>2 DEF NoNakIn
    <3>4. ASSUME Member(c)
          PROVE  out'[c] = <<m>> /\ LearnNick(NickOf(u), m) = NickOf(u)'
      <4>1. EntryStays(User(c))
        BY <1>7, <3>4, MemberEntry DEF cmd
      <4>2. ToRoom(udata', m, NoSlot)[c] = <<m>>
        BY <1>1, <3>4, <4>1, MemberHears DEF EntryStays
      <4>3. NickOf(u)' = Request(i, k).arg
        BY <1>5, <2>3, <2>4, <3>4, Renamed
      <4> QED BY <2>3, <3>1, <3>4, <4>2, <4>3 DEF LearnNick
    <3>5. Talks(c, cmd)
      BY <1>7, <2>1, <3>1, <3>3, <3>4 DEF Talks, u
    <3> QED BY <1>2, <3>5 DEF Answers
  <2>5. CASE NickReply(i, k)
    <3>1. PICK m \in Sensible :
            /\ out' = Reply(i, m) /\ m.op # "NAK"
            /\ LearnNick(NickOf(Speaker(i)), m) = NickOf(Speaker(i))
      BY <1>1, <2>5, NickReplySays
    <3>2. out'[c] = <<m>>
      BY <1>1, <3>1, OwnReply
    <3>3. NoNakIn(out'[c])
      BY <3>1, <3>2 DEF NoNakIn, NAK, Msg
    <3>4. Member(c) => NickOf(u)' = NickOf(u)
      BY <1>5, <2>5 DEF NickReply
    <3>5. Member(c) => Fixes(NickOf(u), out'[c])
      BY <2>3, <3>1, <3>2 DEF Fixes
    <3>6. Talks(c, cmd)
      BY <1>7, <2>1, <3>3, <3>4, <3>5 DEF Talks, u
    <3> QED BY <1>2, <3>6 DEF Answers
  <2>6. CASE ~Nick(i, k) /\ ~NickReply(i, k)
    <3>1. ~DoorNak(i, k)
      BY <1>7 DEF DoorNak, Handles
    <3>2. NoNakIn(out'[c]) /\ Fixes(NickOf(u), out'[c])
      BY <1>1, <2>6, <3>1, HandlerMute, MuteIsHarmless
    <3>3. Member(c) => NickOf(u)' = NickOf(u)
      <4>1. CASE cmd.op # "C_NICK"
        BY <2>2, <4>1
      <4>2. CASE cmd.op = "C_NICK"
        <5>1. Ignored(i, k)
          BY <2>6, <4>2 DEF HandleCmd, DoorNak, DoorLeave, DoorJoin, Nick, NickReply, Away, Beep,
             Oper, Psay, Say, Who, ModerateReply, Moderate, Expel, Chats, Handles, ModOps
        <5>2. udata' = udata
          BY <5>1 DEF Ignored
        <5> QED BY <1>5, <5>2
      <4> QED BY <4>1, <4>2
    <3>4. Talks(c, cmd)
      BY <1>7, <2>1, <3>2, <3>3 DEF Talks, u
    <3> QED BY <1>2, <3>4 DEF Answers
  <2> QED BY <2>4, <2>5, <2>6
<1> QED BY <1>6, <1>7

-----------------------------------------------------------------------------
(* The steps of the server that handle no command.                         *)

(* Who is a member does not change while the store does not and no         *)
(* descriptor in use is given away.                                        *)
LEMMA StoreKeptMember ==
  ASSUME ServerOK, udata' = udata, \A f \in Fds : sock[f] # NoConn => sock'[f] = sock[f],
         NEW c \in Conns
  PROVE  Member(c)' <=> Member(c)
<1> DEFINE u == User(c)
<1>1. u \in Users /\ GoodRoom(udata) /\ Connected /\ NoConn \notin Conns
  BY UserIs, ClientAssumption, ServerAssumption DEF ServerOK, RoomAndOut, MembersInv
<1>2. Member(c) <=> IsPresent(udata.ent[u]) /\ sock[udata.ent[u].fd] = c
  BY DEF Member, Present, HasFlag, IsPresent, MemberConn
<1>3. Member(c)' <=> IsPresent(udata'.ent[u]) /\ sock'[udata'.ent[u].fd] = c
  BY UserFixed DEF Member, Present, HasFlag, IsPresent, MemberConn
<1> HIDE DEF u
<1>4. IsPresent(udata.ent[u]) =>
        sock[udata.ent[u].fd] # NoConn /\ sock'[udata.ent[u].fd] = sock[udata.ent[u].fd]
  BY <1>1 DEF GoodRoom, Connected
<1> QED BY <1>2, <1>3, <1>4

(* A step that writes nothing and leaves the store alone.                  *)
LEMMA QuietStandsBy ==
  ASSUME ServerOK, udata' = udata, \A f \in Fds : sock[f] # NoConn => sock'[f] = sock[f],
         out' = Quiet, NEW c \in Conns, WireKept(c)
  PROVE  StandsBy(c)
<1>1. Member(c)' <=> Member(c)
  BY StoreKeptMember
<1>2. out'[c] = <<>>
  BY DEF Quiet
<1>3. NickOf(User(c))' = NickOf(User(c))
  BY NameFixed
<1> QED BY <1>1, <1>2, <1>3, SilenceIsHarmless DEF StandsBy

LEMMA LoopStandsBy ==
  ASSUME ServerOK, ServerOK', NothingStray, NEW c \in Conns,
         \/ Select \/ Accept \/ AcceptRefuse \/ AcceptFails
         \/ \E i \in Slots : RecvError(i) \/ \E k \in RecvSizes : RecvIncomplete(i, k)
  PROVE  StandsBy(c)
<1>0. KernelOK
  BY DEF ServerOK
<1>1. CASE Select
  <2>1. WireKept(c)
    BY <1>1, QuietWire DEF Select
  <2> QED BY <1>1, <2>1, QuietStandsBy DEF Select
<1>2. CASE Accept
  <2>1. WireKept(c)
    BY <1>2, AcceptWire
  <2>2. sock[LowestFree] = NoConn /\ sock \in [Fds -> Conns \cup {NoConn}]
    BY <1>0, <1>2, NewSlotFacts, ServerAssumption DEF Accept, KernelOK
  <2>3. sock' = [sock EXCEPT ![LowestFree] = Head(backlog)]
    BY <1>2 DEF Accept
  <2>4. ASSUME NEW f \in Fds, sock[f] # NoConn PROVE sock'[f] = sock[f]
    BY <2>2, <2>3, <2>4
  <2> QED BY <1>2, <2>1, <2>4, QuietStandsBy DEF Accept
<1>3. CASE AcceptRefuse \/ AcceptFails
  <2>1. UNCHANGED <<udata, clients, sock>> /\ out' = Quiet
    BY <1>3 DEF AcceptRefuse, AcceptFails
  <2>2. backlog # <<>>
    BY <1>0, <1>3 DEF AcceptRefuse, AcceptFails, KernelOK, SnapshotTrue
  <2>3. DropHead \/ UNCHANGED <<backlog, toServer, peer>>
    BY <1>3 DEF AcceptRefuse, AcceptFails
  <2>4. WireKept(c)
    BY <2>1, <2>2, <2>3, DropHeadWire, QuietWire
  <2> QED BY <2>1, <2>4, QuietStandsBy
<1>4. ASSUME NEW i \in Slots, RecvError(i) PROVE StandsBy(c)
  <2>1. peer' = [peer EXCEPT ![Sock(i)] = "fin"] /\ peer[Sock(i)] = "rst" /\ Sock(i) \in Conns
        /\ peer \in [Conns -> {"idle", "up", "fin", "rst"}]
        /\ UNCHANGED <<udata, clients, sock, backlog, toServer>> /\ out' = Quiet
    BY <1>0, <1>4, TurnFacts, ServerAssumption DEF RecvError, KernelOK
  <2>2. peer'[c] = "up" <=> peer[c] = "up"
    BY <2>1
  <2>3. WireKept(c)
    BY <2>1, <2>2, QuietWire
  <2> QED BY <2>1, <2>3, QuietStandsBy
<1>5. ASSUME NEW i \in Slots, NEW k \in RecvSizes, RecvIncomplete(i, k) PROVE StandsBy(c)
  <2>1. WireKept(c)
    BY <1>5, RecvIncompleteWire
  <2> QED BY <1>5, <2>1, QuietStandsBy DEF RecvIncomplete
<1> QED BY <1>1, <1>2, <1>3, <1>4, <1>5

(* A connection that ends takes nobody else out of the room.               *)
LEMMA EofEntries ==
  ASSUME ServerOK, NEW i \in Slots, RecvEof(i)
  PROVE  /\ NoNewcomer(udata, udata')
         /\ \A c \in Conns \ {Sock(i)} : Member(c) => udata'.ent[User(c)] = udata.ent[User(c)]
<1> USE UdataAssumption, ServerAssumption
<1>1. GoodRoom(udata) /\ udata \in Store /\ MembersFit /\ KernelOK /\ clients[i].fd \in Fds
      /\ Sock(i) \in Conns
  <2>1. KernelOK /\ GoodRoom(udata) /\ udata \in Store
    BY DEF ServerOK, RoomAndOut, GoodRoom
  <2> QED BY <2>1, OKFits, TurnFacts DEF Fits, RecvEof
<1>2. CASE Speaker(i) = NoUser
  BY <1>2, SameNoNewcomer DEF RecvEof
<1>3. CASE Speaker(i) # NoUser
  <2>1. PICK u : u = Speaker(i)
    OBVIOUS
  <2>2. u \in Users /\ Listed(udata, u) /\ u = User(Sock(i)) /\ Member(Sock(i))
    BY <1>1, <1>3, <2>1, SpeakerPresent DEF MembersFit
  <2>3. udata' = LeaveRoom(udata, u)
    BY <1>3, <2>1 DEF RecvEof
  <2>4. NoNewcomer(udata, udata')
    BY <1>1, <2>2, <2>3, LeaveNoNewcomer
  <2>5. \A v \in Users \ {u} : udata'.ent[v] = udata.ent[v]
    BY <1>1, <2>2, <2>3, CallsChangeFlags DEF OnlyFlags
  <2>6. ASSUME NEW c \in Conns \ {Sock(i)}, Member(c) PROVE User(c) \in Users \ {u}
    <3>1. User(c) \in Users
      BY UserIs, ClientAssumption
    <3>2. User(c) # User(Sock(i))
      BY <2>2, <2>6 DEF Member
    <3> QED BY <2>2, <3>1, <3>2
  <2> QED BY <2>4, <2>5, <2>6
<1> QED BY <1>2, <1>3

LEMMA EofStandsBy ==
  ASSUME ServerOK, ServerOK', NothingStray, NEW c \in Conns, NEW i \in Slots, RecvEof(i)
  PROVE  StandsBy(c)
<1> USE UdataAssumption, ServerAssumption
<1> DEFINE u == User(c)
<1>1. GoodRoom(udata) /\ GoodRoom(udata') /\ KernelOK /\ clients[i].fd \in Fds /\ u \in Users
      /\ NoNewcomer(udata, udata)
  <2>1. KernelOK /\ GoodRoom(udata) /\ GoodRoom(udata')
    BY DEF ServerOK, RoomAndOut
  <2> QED BY <2>1, TurnFacts, UserIs, ClientAssumption DEF RecvEof, NoNewcomer
<1>2. Member(c) <=> IsPresent(udata.ent[u]) /\ sock[udata.ent[u].fd] = c
  BY DEF Member, Present, HasFlag, IsPresent, MemberConn
<1>3. Member(c)' <=> IsPresent(udata'.ent[u]) /\ sock'[udata'.ent[u].fd] = c
  BY UserFixed DEF Member, Present, HasFlag, IsPresent, MemberConn
<1>4. WireKept(c) /\ (c = Sock(i) => ~Attached(c)')
  BY RecvEofWire
<1>5. NoNewcomer(udata, udata')
      /\ (c # Sock(i) /\ Member(c) => udata'.ent[u] = udata.ent[u])
  BY EofEntries
<1>6. /\ \A f \in Fds : sock'[f] = c => sock[f] = c
      /\ c # Sock(i) => \A f \in Fds : sock[f] = c => sock'[f] = c
  <2>1. \A f \in Fds : sock'[f] = IF f \in {clients[i].fd} THEN NoConn ELSE sock[f]
    BY DEF RecvEof, CloseFds
  <2> QED BY <2>1 DEF Sock
<1> HIDE DEF u
<1>7. Member(c)' => Member(c)
  BY <1>1, <1>2, <1>3, <1>5, <1>6 DEF NoNewcomer, GoodRoom
<1>8. Member(c) => ~Attached(c)' \/ Member(c)'
  <2>1. CASE c = Sock(i)
    BY <1>4, <2>1
  <2>2. CASE c # Sock(i)
    BY <1>1, <1>2, <1>3, <1>5, <1>6, <2>2 DEF GoodRoom
  <2> QED BY <2>1, <2>2
<1>9. ~Member(c) => out'[c] = <<>>
  <2>1. CASE Speaker(i) = NoUser
    BY <2>1 DEF RecvEof, Quiet
  <2>2. CASE Speaker(i) # NoUser
    BY <1>1, <2>2, ListenersAreMembers DEF RecvEof
  <2> QED BY <2>1, <2>2
<1>10. NoNakIn(out'[c]) /\ Fixes(NickOf(User(c)), out'[c])
  BY <1>1, EofMute, MuteIsHarmless
<1>11. Member(c) /\ Member(c)' => NickOf(User(c))' = NickOf(User(c))
  <2>1. Member(c)' => c # Sock(i)
    BY <1>4, AttachedMemberNext
  <2> QED BY <1>5, <2>1, NameFixed DEF u
<1> QED BY <1>4, <1>7, <1>8, <1>9, <1>10, <1>11 DEF StandsBy

(* Every command under way means what its program may mean.                *)
DoorsMeant == \A c \in Conns : Pipe(c) # <<>> => DoorMeant(Head(Pipe(c)), c)

(* What a step of the server is for one connection.                        *)
LEMMA ServerSeen ==
  ASSUME ServerOK, ServerOK', NothingStray, DoorsMeant, Server, NEW c \in Conns
  PROVE  StandsBy(c) \/ Answers(c)
<1>1. CASE \/ Select \/ Accept \/ AcceptRefuse \/ AcceptFails
           \/ \E i \in Slots : RecvError(i) \/ \E k \in RecvSizes : RecvIncomplete(i, k)
  BY <1>1, LoopStandsBy
<1>2. CASE \E i \in Slots : RecvEof(i)
  BY <1>2, EofStandsBy
<1>3. ASSUME NEW i \in Slots, NEW k \in RecvSizes, HandleCmd(i, k)
      PROVE  StandsBy(c) \/ Answers(c)
  <2>1. Sock(i) \in Conns
    <3>1. RecvData(i, k) /\ KernelOK
      BY <1>3, HandlerDone DEF ServerOK
    <3> QED BY <3>1, TurnFacts, ServerAssumption DEF RecvData
  <2>2. DoorMeant(Request(i, k), Sock(i))
    <3>1. CASE Expelled(i, k, Sock(i))
      BY <3>1 DEF Expelled, Expel, Chats, Handles, DoorMeant
    <3>2. CASE ~Expelled(i, k, Sock(i))
      <4>1. Pipe(Sock(i)) # <<>> /\ Head(Pipe(Sock(i))) = Request(i, k)
        BY <1>3, <2>1, <3>2, HandlerWire DEF WireTaken
      <4> QED BY <2>1, <4>1 DEF DoorsMeant
    <3> QED BY <3>1, <3>2
  <2>3. CASE c # Sock(i) \/ Expelled(i, k, c)
    BY <1>3, <2>2, <2>3, OthersStandBy
  <2>4. CASE c = Sock(i) /\ ~Expelled(i, k, c)
    BY <1>3, <2>2, <2>4, HandlerAnswers
  <2> QED BY <2>3, <2>4
<1> QED BY <1>1, <1>2, <1>3 DEF Server

(* What a step of the server is for a connection whatever is under way.    *)
LEMMA ServerWire ==
  ASSUME ServerOK, ServerOK', NothingStray, Server, NEW c \in Conns
  PROVE  WireKept(c) \/ WireTaken(c)
<1>1. CASE \/ Select \/ Accept \/ AcceptRefuse \/ AcceptFails
           \/ \E i \in Slots : RecvError(i) \/ \E k \in RecvSizes : RecvIncomplete(i, k)
  BY <1>1, LoopStandsBy DEF StandsBy
<1>2. CASE \E i \in Slots : RecvEof(i)
  BY <1>2, RecvEofWire
<1>3. CASE \E i \in Slots, k \in RecvSizes : HandleCmd(i, k)
  BY <1>3, HandlerWire
<1> QED BY <1>1, <1>2, <1>3 DEF Server

-----------------------------------------------------------------------------
(* The names in the room: the lists that show them and the messages that   *)
(* say they changed.                                                       *)

(* An answer to /who that lists the room, the names in it, and a command   *)
(* that asks for one.                                                      *)
Lists(m)   == m.op = "C_WHO" /\ m.what # WHO_SYSTEM
NamesIn(m) == {[nick |-> item.nick, marks |-> item.marks] : item \in m.room}
Asks(cmd)  == cmd.op = "C_WHO" /\ cmd.arg # WHO_SYSTEM

NoList(q)  == \A n \in 1..Len(q) : ~Lists(q[n])
WillAsk(q) == \E n \in 1..Len(q) : AsksWho(q[n])

(* The messages are one list, of exactly the names in the room.            *)
IsTrueList(q) == \E m \in Sensible : q = <<m>> /\ Lists(m) /\ NamesIn(m) = NamesInRoom

LEMMA RoomListNames ==
  ASSUME ServerOK
  PROVE  {[nick |-> item.nick, marks |-> item.marks] : item \in RoomList} = NamesInRoom
<1> DEFINE W == {Speaker(j) : j \in {h \in Slots : clients[h].fd \in Fds}} \ {NoUser}
           Item(u) == [user |-> u, nick |-> NickOf(u), marks |-> NameMarks(u)]
           Name(u) == [nick |-> NickOf(u), marks |-> NameMarks(u)]
<1>1. {[nick |-> item.nick, marks |-> item.marks] : item \in RoomList} = {Name(u) : u \in W}
  <2>1. RoomList = {Item(u) : u \in W}
    BY DEF RoomList
  <2>2. \A u : Item(u).nick = NickOf(u) /\ Item(u).marks = NameMarks(u)
    OBVIOUS
  <2> HIDE DEF W, Item
  <2> QED BY <2>1, <2>2
<1>2. W = {u \in Users : IsPresent(udata.ent[u])}
  BY SpeakersAreMembers, UdataAssumption, ServerAssumption, ClientAssumption
     DEF UdataAssumption, ServerOK, RoomAndOut, ClientAssumption
<1>3. W = {v \in Users : Present(v)}
  BY <1>2 DEF Present, HasFlag, IsPresent
<1> QED BY <1>1, <1>3 DEF NamesInRoom

(* The answer to /who, and that nothing else the server writes is a list.  *)
LEMMA WhoLists ==
  ASSUME ServerOK, NEW i \in Slots, NEW k \in RecvSizes, Who(i, k), NEW c \in Conns
  PROVE  /\ NoList(out'[c]) \/ IsTrueList(out'[c])
         /\ c = Sock(i) /\ Request(i, k).arg # WHO_SYSTEM => IsTrueList(out'[c])
<1> DEFINE arg == Request(i, k).arg
           r   == IF arg = WHO_SYSTEM THEN {} ELSE RoomList
           m   == [op |-> "C_WHO", what |-> arg, room |-> r]
<1>1. out' = Reply(i, m) /\ clients[i].fd \in Fds /\ HandleCmd(i, k)
      /\ arg \in Strings \cup {NoString}
  <2>1. Handles(i, k, {"C_WHO"}) /\ HandleCmd(i, k) /\ out' = Reply(i, m)
    BY DEF Who, HandleCmd
  <2>2. KernelOK
    BY DEF ServerOK
  <2> QED BY <2>1, <2>2, RequestTyped, ServerAssumption
<1>2. /\ Lists(m) <=> arg # WHO_SYSTEM
      /\ arg # WHO_SYSTEM => NamesIn(m) = NamesInRoom
  BY RoomListNames DEF Lists, NamesIn
<1> HIDE DEF m
<1>3. out'[c] = <<m>> \/ out'[c] = <<>>
  BY <1>1 DEF Reply, SendTo
<1>4. CASE out'[c] = <<>>
  <2>1. c # Sock(i)
    <3>1. c = Sock(i) => out'[c] = <<m>>
      BY <1>1, OwnReply
    <3>2. Len(<<m>>) = 1 /\ Len(<<>>) = 0
      OBVIOUS
    <3> QED BY <1>4, <3>1, <3>2
  <2>2. NoList(out'[c])
    BY <1>4 DEF NoList
  <2> QED BY <2>1, <2>2
<1>5. CASE out'[c] = <<m>>
  <2>1. m \in Sensible
    <3>1. out'[c][1] \in Sensible
      <4>1. Server
        BY <1>1 DEF Server
      <4>2. 1 \in 1..Len(out'[c])
        BY <1>5
      <4> QED BY <4>1, <4>2, StepSensible DEF Brings
    <3> QED BY <1>5, <3>1
  <2>2. arg = WHO_SYSTEM => NoList(out'[c])
    BY <1>2, <1>5 DEF NoList
  <2>3. arg # WHO_SYSTEM => IsTrueList(out'[c])
    BY <1>2, <1>5, <2>1 DEF IsTrueList
  <2> QED BY <2>2, <2>3
<1> QED BY <1>3, <1>4, <1>5

LEMMA ServerLists ==
  ASSUME ServerOK, Server, NEW c \in Conns
  PROVE  NoList(out'[c]) \/ IsTrueList(out'[c])
<1> USE UdataAssumption, ServerAssumption
<1>0. KernelOK /\ GoodRoom(udata) /\ MembersInv /\ OneNameEach
  BY ClientAssumption DEF ServerOK, RoomAndOut, ClientAssumption
<1>1. ASSUME NEW i \in Slots, NEW k \in RecvSizes, Who(i, k)
      PROVE  NoList(out'[c]) \/ IsTrueList(out'[c])
  BY <1>1, WhoLists
<1>2. ASSUME NEW i \in Slots, NEW k \in RecvSizes, Say(i, k) PROVE NoList(out'[c])
  <2>1. \A n \in 1..Len(out'[c]) : out'[c][n].op \in {"C_SAY", "C_ME"}
    BY <1>0, <1>2, PublicTalk
  <2> QED BY <2>1 DEF NoList, Lists
<1>3. ASSUME NEW i \in Slots, NEW k \in RecvSizes, Psay(i, k) PROVE NoList(out'[c])
  <2>1. \A n \in 1..Len(out'[c]) : out'[c][n].op = "C_PSAY"
    BY <1>0, <1>3, PrivateTalk
  <2> QED BY <2>1 DEF NoList, Lists
<1>4. CASE ~ \E i \in Slots, k \in RecvSizes : Say(i, k) \/ Psay(i, k) \/ Who(i, k)
  <2>1. Plain(out')
    BY <1>0, <1>4, StepPlain DEF Next
  <2> QED BY <2>1 DEF Plain, NoList, Lists
<1> QED BY <1>1, <1>2, <1>3, <1>4

(* A member who asks for the list gets it.                                 *)
LEMMA AskedIsListed ==
  ASSUME ServerOK, ServerOK', NothingStray, Server, NEW c \in Conns, Member(c), WireTaken(c),
         Asks(Head(Pipe(c)))
  PROVE  IsTrueList(out'[c])
<1>1. ~WireKept(c)
  <2>1. Pipe(c) \in Seq(Sayable(c)) /\ Pipe(c) # <<>>
    BY OKFits DEF Fits, PipesFit, WireTaken
  <2>2. PICK p \in Seq(Sayable(c)) : p = Pipe(c)
    BY <2>1
  <2>3. Len(Tail(p)) = Len(p) - 1 /\ Len(p) \in Nat
    BY <2>1, <2>2
  <2>4. Tail(p) # p
    BY <2>3
  <2> QED BY <2>2, <2>4 DEF WireTaken, WireKept
<1>2. PICK i \in Slots, k \in RecvSizes : HandleCmd(i, k)
  <2>1. ~ (\/ Select \/ Accept \/ AcceptRefuse \/ AcceptFails
           \/ \E i \in Slots : RecvError(i) \/ \E k \in RecvSizes : RecvIncomplete(i, k))
    BY <1>1, LoopStandsBy DEF StandsBy
  <2>2. ~ \E i \in Slots : RecvEof(i)
    BY <1>1, RecvEofWire
  <2> QED BY <2>1, <2>2 DEF Server
<1>3. c = Sock(i) /\ Head(Pipe(c)) = Request(i, k)
  BY <1>1, <1>2, HandlerWire
<1>4. Speaker(i) # NoUser
  <2>1. clients[i].fd \in Fds
    <3>1. RecvData(i, k) /\ KernelOK
      BY <1>2, HandlerDone DEF ServerOK
    <3> QED BY <3>1, TurnFacts, ServerAssumption DEF RecvData
  <2>2. Speaker(i) = User(c)
    BY <1>3, <2>1, OKFits DEF Fits, MembersFit
  <2> QED BY <2>2, UserIs, ClientAssumption, ServerAssumption, UdataAssumption DEF UdataAssumption
<1>5. Who(i, k)
  BY <1>2, <1>3, <1>4 DEF Asks, HandleCmd, DoorNak, DoorLeave, DoorJoin, Ignored, Nick, NickReply,
     Away, Beep, Oper, Psay, Say, Who, ModerateReply, Moderate, Expel, Chats, Handles, ModOps
<1> QED BY <1>3, <1>5, WhoLists DEF Asks

LEMMA SameNames ==
  ASSUME \A u \in Users : udata'.ent[u] = udata.ent[u]
  PROVE  NamesInRoom' = NamesInRoom
<1>1. \A u \in Users : /\ Present(u)' <=> Present(u)
                       /\ NickOf(u)' = NickOf(u) /\ NameMarks(u)' = NameMarks(u)
  BY DEF Present, HasFlag, NickOf, NameMarks
<1> QED BY <1>1 DEF NamesInRoom

(* A command other than joining, leaving and banning either changes nothing *)
(* or is told to everybody, with a message after which clients ask.        *)
LEMMA HandlerTells ==
  ASSUME ServerOK, NEW i \in Slots, NEW k \in RecvSizes, HandleCmd(i, k),
         Request(i, k).op \notin {"CHATDOOR", "C_BAN"}
  PROVE  \/ udata' = udata
         \/ \E m : AsksWho(m) /\ out' = ToRoom(udata', m, NoSlot)
<1> USE UdataAssumption, ServerAssumption
<1>0. KernelOK /\ GoodRoom(udata)
  BY DEF ServerOK, RoomAndOut
<1>1. \A op, form, nn, other : Msg(op, form, nn, other).op = op
  BY DEF Msg
<1>2. CASE Nick(i, k)
  BY <1>1, <1>2 DEF Nick, AsksWho
<1>3. CASE Away(i, k)
  BY <1>1, <1>3 DEF Away, AsksWho
<1>4. CASE Oper(i, k)
  BY <1>1, <1>4 DEF Oper, AsksWho
<1>5. CASE Moderate(i, k)
  <2>1. CASE Request(i, k).op = "C_UNBAN"
    <3>1. udata' = UdataFlagUnset(udata, Target(i, k), {"BANNED"}) /\ Target(i, k) # NoUser
      BY <1>5, <2>1 DEF Moderate
    <3> QED BY <1>0, <3>1, TargetPresent, UnbanIsVain
  <2>2. CASE Request(i, k).op # "C_UNBAN"
    <3>1. Request(i, k).op \in {"C_OP", "C_DEOP"}
      BY <1>5, <2>2 DEF Moderate, Chats, Handles
    <3>2. AsksWho(ModerateNotice(i, k))
      BY <1>1, <3>1 DEF ModerateNotice, AsksWho
    <3> QED BY <1>5, <3>2 DEF Moderate
  <2> QED BY <2>1, <2>2
<1>6. CASE Expel(i, k)
  <2>1. Request(i, k).op = "C_KICK"
    BY <1>6 DEF Expel, Chats, Handles
  <2>2. AsksWho(ModerateNotice(i, k))
    BY <1>1, <2>1 DEF ModerateNotice, AsksWho
  <2> QED BY <1>6, <2>2 DEF Expel
<1>7. CASE \/ Ignored(i, k) \/ NickReply(i, k) \/ Beep(i, k) \/ Psay(i, k)
           \/ Say(i, k) \/ Who(i, k) \/ ModerateReply(i, k)
  BY <1>7 DEF Ignored, NickReply, Beep, Psay, Say, Who, ModerateReply
<1> QED BY <1>2, <1>3, <1>4, <1>5, <1>6, <1>7
        DEF HandleCmd, DoorNak, DoorLeave, DoorJoin, Handles

(* Who stays in the room while somebody enters or leaves is told.          *)
LEMMA DoorIsTold ==
  ASSUME ServerOK, ServerOK', NEW i \in Slots, NEW k \in RecvSizes,
         DoorLeave(i, k) \/ DoorJoin(i, k), DoorMeant(Request(i, k), Sock(i)),
         NEW c \in Conns, Member(c), Member(c)'
  PROVE  \E m : AsksWho(m) /\ Told(User(c), m)
<1> USE UdataAssumption, ServerAssumption
<1> DEFINE v == User(c)
<1>0. /\ KernelOK /\ GoodRoom(udata) /\ GoodRoom(udata') /\ MembersInv /\ OneNameEach
      /\ RoomAndOut /\ Owned
  BY ClientAssumption DEF ServerOK, RoomAndOut, ClientAssumption, MembersInv
<1>1. /\ v \in Users /\ IsPresent(udata.ent[v]) /\ sock[udata.ent[v].fd] = c
      /\ IsPresent(udata'.ent[v])
  BY UserIs, UserFixed, ClientAssumption DEF Member, Present, HasFlag, IsPresent, MemberConn
<1> HIDE DEF v
<1>2. Request(i, k).op = "CHATDOOR" /\ Request(i, k).user = User(Sock(i))
  BY DEF DoorLeave, DoorJoin, Handles, DoorMeant
<1>3. \A form, nn : AsksWho(Msg("C_DOOR", form, nn, NoString))
  BY DEF Msg, AsksWho
<1>4. CASE DoorLeave(i, k)
  <2>1. c # Sock(i)
    <3>1. /\ DoorUser(i, k) = User(Sock(i)) /\ DoorUser(i, k) \in Users
          /\ Listed(udata, DoorUser(i, k)) /\ udata' = LeaveRoom(udata, DoorUser(i, k))
      BY <1>0, <1>2, <1>4, DoorLeaveRoom, DoorFacts, UdataAssumption DEF DoorLeave, DoorUser, UdataGet
    <3>2. ~IsPresent(udata'.ent[DoorUser(i, k)])
      BY <1>0, <3>1, LeaveNoNewcomer DEF GoodRoom
    <3> QED BY <1>1, <3>1, <3>2 DEF v
  <2>2. out' = Then(ToRoom(udata, LeftMsg(DoorUser(i, k)), i), Reply(i, ACK))
    BY <1>4 DEF DoorLeave
  <2>3. Told(v, LeftMsg(DoorUser(i, k)))
    BY <1>0, <1>1, <2>1, <2>2, MemberIsTold DEF Sock
  <2> QED BY <1>3, <2>3 DEF LeftMsg, v
<1>5. CASE DoorJoin(i, k)
  <2>1. /\ Request(i, k).user \in Names(Sock(i)) /\ ~IsPresent(udata.ent[Request(i, k).user])
        /\ \A x \in Users \ {Request(i, k).user} : udata'.ent[x] = udata.ent[x]
    BY <1>0, <1>5, JoinFacts
  <2>2. v # Request(i, k).user
    BY <1>1, <2>1
  <2>3. c # Sock(i)
    BY <1>2, <2>2 DEF v
  <2>4. PICK m : m = Msg("C_DOOR", "yes", Request(i, k).arg, NoString)
    OBVIOUS
  <2>5. out' = Then(ToRoom(udata', m, i), Reply(i, ACK))
    BY <1>5, <2>4 DEF DoorJoin
  <2>6. udata'.ent[v] = udata.ent[v]
    BY <1>1, <2>1, <2>2
  <2>7. Told(v, m)
    BY <1>0, <1>1, <2>3, <2>5, <2>6, MemberIsTold DEF Sock
  <2> QED BY <1>3, <2>4, <2>7 DEF v
<1> QED BY <1>4, <1>5

LEMMA EofIsAsked ==
  ASSUME ServerOK, ServerOK', NothingStray, NEW i \in Slots, RecvEof(i), udata' # udata,
         NEW c \in Conns, Member(c), Member(c)'
  PROVE  \E m : AsksWho(m) /\ Told(User(c), m)
<1> USE UdataAssumption, ServerAssumption
<1> DEFINE v == User(c)
<1>0. KernelOK /\ GoodRoom(udata) /\ MembersInv
  BY DEF ServerOK, RoomAndOut
<1>1. v \in Users /\ IsPresent(udata.ent[v]) /\ sock[udata.ent[v].fd] = c
  BY UserIs, ClientAssumption DEF Member, Present, HasFlag, IsPresent, MemberConn
<1> HIDE DEF v
<1>2. c # Sock(i)
  BY RecvEofWire, AttachedMemberNext
<1>3. out' = ToRoom(udata, LeftMsg(Speaker(i)), i)
  BY DEF RecvEof
<1>4. Told(v, LeftMsg(Speaker(i)))
  BY <1>0, <1>1, <1>2, <1>3, MemberIsTold DEF Sock
<1> QED BY <1>4 DEF v, LeftMsg, Msg, AsksWho

(* The command that empties a name from the room without making the       *)
(* clients ask again is never under way: clchat.c:1060 switched /ban off.  *)
NoBan(q)   == \A k \in 1..Len(q) : q[k].op # "C_BAN"
NobodyBans == \A c \in Conns : NoBan(Pipe(c))

(* The command the server handles is the first one under way.              *)
LEMMA RequestIsFirst ==
  ASSUME ServerOK, NEW i \in Slots, NEW k \in RecvSizes, HandleCmd(i, k)
  PROVE  Pipe(Sock(i)) # <<>> /\ Head(Pipe(Sock(i))) = Request(i, k)
<1>1. RecvData(i, k) /\ Received(i, k) # <<>>
  BY HandlerDone
<1>2. PICK r \in Seq(Sayable(Sock(i))), t \in Seq(Sayable(Sock(i))) :
        r = Received(i, k) /\ t = Unread(i, k) /\ Pipe(Sock(i)) = r \o t
  BY <1>1, PipeReads
<1>3. r \o t # <<>> /\ Head(r \o t) = Head(r)
  BY <1>1, <1>2, TailConcat
<1> QED BY <1>2, <1>3 DEF Request

(* Whoever stays in the room while a name in it changes is told by a       *)
(* message after which a client asks for the list.                         *)
LEMMA ChangeIsTold ==
  ASSUME ServerOK, ServerOK', NothingStray, DoorsMeant, NobodyBans, Server,
         NEW c \in Conns, Member(c), Member(c)', NamesInRoom' # NamesInRoom
  PROVE  WillAsk(out'[c])
<1>0. /\ GoodRoom(udata') /\ KernelOK /\ User(c) \in Users /\ udata' # udata
      /\ ~ \A u \in Users : udata'.ent[u] = udata.ent[u]
  BY SameNames, UserIs, ClientAssumption, ServerAssumption DEF ServerOK, RoomAndOut
<1>1. ASSUME NEW m, AsksWho(m), Told(User(c), m) PROVE WillAsk(out'[c])
  BY <1>1 DEF Told, Member, WillAsk
<1>2. CASE \E i \in Slots : RecvEof(i)
  BY <1>0, <1>1, <1>2, EofIsAsked
<1>3. ASSUME NEW i \in Slots, NEW k \in RecvSizes, HandleCmd(i, k) PROVE WillAsk(out'[c])
  <2>1. ~Expelled(i, k, c)
    BY <1>3, HandlerWire, AttachedMemberNext
  <2>2. Sock(i) \in Conns
    <3>1. RecvData(i, k)
      BY <1>3, HandlerDone
    <3> QED BY <1>0, <3>1, TurnFacts, ServerAssumption DEF RecvData
  <2>3. DoorMeant(Request(i, k), Sock(i)) /\ Request(i, k).op # "C_BAN"
    <3>1. Pipe(Sock(i)) # <<>> /\ Head(Pipe(Sock(i))) = Request(i, k)
      BY <1>3, RequestIsFirst
    <3>2. Pipe(Sock(i)) \in Seq(Sayable(Sock(i)))
      BY <2>2, OKFits DEF Fits, PipesFit
    <3>3. 1 \in 1..Len(Pipe(Sock(i))) /\ Head(Pipe(Sock(i))) = Pipe(Sock(i))[1]
      BY <3>1, <3>2
    <3> QED BY <2>2, <3>1, <3>3 DEF DoorsMeant, NobodyBans, NoBan
  <2>4. CASE Request(i, k).op # "CHATDOOR"
    <3>1. PICK m : AsksWho(m) /\ out' = ToRoom(udata', m, NoSlot)
      BY <1>0, <1>3, <2>3, <2>4, HandlerTells
    <3>2. EntryStays(User(c))
      BY <1>3, <2>1, <2>3, <2>4, MemberEntry
    <3>3. out'[c] = <<m>>
      BY <1>0, <3>1, <3>2, MemberHears DEF EntryStays
    <3>4. 1 \in 1..Len(out'[c]) /\ out'[c][1] = m
      BY <3>3
    <3> QED BY <3>1, <3>4 DEF WillAsk
  <2>5. CASE Request(i, k).op = "CHATDOOR"
    <3>1. ~DoorNak(i, k)
      <4> SUFFICES ASSUME DoorNak(i, k) PROVE FALSE
        OBVIOUS
      <4>1. Request(i, k).user \in Users \cup {NoUser}
        BY <1>0, RequestTyped, ServerAssumption DEF DoorNak
      <4> QED BY <1>0, <4>1, AddFacts, UdataAssumption DEF DoorNak, DoorStore, ServerOK, RoomAndOut
    <3>2. DoorLeave(i, k) \/ DoorJoin(i, k)
      BY <1>3, <2>5, <3>1 DEF HandleCmd, Ignored, Nick, NickReply, Away, Beep, Oper,
         Psay, Say, Who, ModerateReply, Moderate, Expel, Chats, Handles, ChatOps, ModOps
    <3> QED BY <1>1, <2>3, <3>2, DoorIsTold
  <2> QED BY <2>4, <2>5
<1>4. CASE \/ Select \/ Accept \/ AcceptRefuse \/ AcceptFails
           \/ \E i \in Slots : RecvError(i) \/ \E k \in RecvSizes : RecvIncomplete(i, k)
  BY <1>0, <1>4 DEF Select, Accept, AcceptRefuse, AcceptFails, RecvError, RecvIncomplete
<1> QED BY <1>2, <1>3, <1>4 DEF Server
=============================================================================
