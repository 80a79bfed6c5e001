-------------------------- MODULE ChatClientProof --------------------------
(***************************************************************************)
(* What a client shows and what the server has for its user, for every     *)
(* value of the constants: the picture a client keeps is typed, and, with  *)
(* clients that join under a nickname (NicknamesGiven), no leave is        *)
(* refused, the nickname shown catches up with the one the server has, and *)
(* the sidebar of a client with nothing under way is the room.             *)
(***************************************************************************)
EXTENDS ServerWireProof

-----------------------------------------------------------------------------
(* What the programs do to the connections.                                *)

(* The server sees nothing of a connection change.                         *)
WireSame(c) ==
  /\ peer'[c] = "up" <=> peer[c] = "up"
  /\ Attached(c)' <=> Attached(c)
  /\ Pipe(c)' = Pipe(c) /\ toServer'[c] = toServer[c]

(* A member under the same name, or none.                                  *)
MemberSame(c) == (Member(c)' <=> Member(c)) /\ NickOf(User(c))' = NickOf(User(c))

LEMMA ProgramMemberSame ==
  ASSUME ServerOK, UNCHANGED <<serverVars, sock>>, NEW c \in Conns
  PROVE  MemberSame(c)
<1>1. udata' = udata /\ sock' = sock
  BY DEF serverVars
<1> QED BY <1>1, StoreKeptMember, NameFixed DEF MemberSame

LEMMA ProgramWireSame ==
  ASSUME ServerOK, ServerOK', UNCHANGED <<serverVars, sock>>, NEW c \in Conns,
         toServer'[c] = toServer[c], peer'[c] = "up" <=> peer[c] = "up",
         Queued(c)' <=> Queued(c)
  PROVE  WireSame(c)
<1>1. clients' = clients /\ sock' = sock
  BY DEF serverVars
<1>2. \A j \in Slots : /\ Holds(j, c)' <=> Holds(j, c)
                       /\ Holds(j, c) => clients'[j].buf = clients[j].buf
  BY <1>1 DEF Holds
<1>3. Pipe(c)' = Pipe(c) /\ (Accepted(c)' <=> Accepted(c))
  BY <1>2, PipeSame
<1> QED BY <1>3 DEF WireSame, Attached

(* What a pipe becomes when only the kernel's part of it changes.          *)
LEMMA PipeGrows ==
  ASSUME ServerOK, ServerOK', UNCHANGED <<serverVars, sock>>, NEW c \in Conns
  PROVE  \E buf \in Seq(Sayable(c)) :
           /\ toServer[c] \in Seq(Sayable(c)) /\ toServer'[c] \in Seq(Sayable(c))
           /\ Pipe(c) = buf \o toServer[c] /\ Pipe(c)' = buf \o toServer'[c]
<1>1. clients' = clients /\ sock' = sock
  BY DEF serverVars
<1>2. Fits /\ Fits'
  BY OKFits, OKFitsNext
<1>3. toServer[c] \in Seq(Sayable(c)) /\ toServer'[c] \in Seq(Sayable(c))
  <2>1. Sayable(c)' = Sayable(c)
    BY DEF Sayable, Names, Commands
  <2> QED BY <1>2, <2>1 DEF Fits, PipesFit
<1>4. CASE Accepted(c)
  <2>1. PICK j \in Slots : Holds(j, c)
    BY <1>2, <1>4 DEF Fits, SlotsServe
  <2>2. Holds(j, c)' /\ clients'[j].buf = clients[j].buf
    BY <1>1, <2>1 DEF Holds
  <2>3. Pipe(c) = clients[j].buf \o toServer[c] /\ clients[j].buf \in Seq(Sayable(c))
    BY <1>2, <2>1 DEF Fits, PipesFit
  <2>4. Pipe(c)' = clients'[j].buf \o toServer'[c]
    BY <1>2, <2>2 DEF Fits, PipesFit
  <2> QED BY <1>3, <2>2, <2>3, <2>4
<1>5. CASE ~Accepted(c)
  <2>1. ~Accepted(c)'
    BY <1>1, <1>5 DEF Accepted
  <2>2. Pipe(c) = toServer[c] /\ Pipe(c)' = toServer'[c]
    BY <1>2, <1>5, <2>1 DEF Fits, PipesFit
  <2>3. <<>> \in Seq(Sayable(c)) /\ Pipe(c) = <<>> \o toServer[c] /\ Pipe(c)' = <<>> \o toServer'[c]
    BY <1>3, <2>2, ConcatEmptySeq
  <2> QED BY <1>3, <2>3
<1> QED BY <1>4, <1>5

LEMMA AppendConcat ==
  ASSUME NEW S, NEW r \in Seq(S), NEW t \in Seq(S), NEW e \in S
  PROVE  r \o Append(t, e) = Append(r \o t, e)
<1>1. /\ r \o t \in Seq(S) /\ Append(t, e) \in Seq(S) /\ <<e>> \in Seq(S)
      /\ Append(t, e) = t \o <<e>>
  BY AppendIsConcat, ConcatProperties
<1>2. Append(r \o t, e) = (r \o t) \o <<e>>
  BY <1>1, AppendIsConcat
<1>3. (r \o t) \o <<e>> = r \o (t \o <<e>>)
  BY <1>1, ConcatAssociative
<1> QED BY <1>1, <1>2, <1>3

(* The commands the chat client sends are those of its program.            *)
LEMMA SentIsSayable ==
  ASSUME NEW c \in Conns
  PROVE  /\ [op |-> "C_WHO", user |-> NoUser, arg |-> NoString] \in Sayable(c)
         /\ [op |-> "CHATDOOR", user |-> User(c), arg |-> NoString] \in Sayable(c)
         /\ Cmds[c] \subseteq Sayable(c) /\ Typed(c) \subseteq Sayable(c)
<1>1. User(c) \in Users /\ User(c) \in Names(c)
  BY UserIs, ServerAssumption, ClientAssumption
<1>2. Cmds[c] \subseteq Sayable(c)
  BY CmdsSayable, ServerAssumption
<1> QED BY <1>1, <1>2 DEF Sayable, Commands, ChatOps, Typed

(* Nothing changes but the commands on their way.                          *)
LEMMA SendKeeps ==
  ASSUME ServerOK, NothingStray, NEW d \in Conns, NEW cmd \in Sayable(d), Send(d, cmd)
  PROVE  ServerOK' /\ NothingStray' /\ UNCHANGED <<serverVars, sock, backlog, peer>>
<1> USE ServerAssumption
<1>1. UNCHANGED <<serverVars, sock, backlog, peer>> /\ out' = Quiet
  BY DEF Send, PeerSend
<1>2. RoomAndOut'
  BY <1>1, OutTyped DEF ServerOK, RoomAndOut, serverVars
<1>3. CASE PeerSend(d, cmd)
  <2>1. cmd \in Commands
    BY DEF Sayable
  <2>2. KernelOK'
    BY <1>3, <2>1, ProgramKeeps DEF ServerOK
  <2>3. MembersInv'
    BY <1>3, ProgramMembers DEF ServerOK
  <2>4. NothingStray'
    <3> SUFFICES ASSUME NEW c \in Conns, ~Attached(c)' PROVE toServer'[c] = <<>>
      BY DEF NothingStray
    <3>1. ~Attached(c)
      BY <1>1 DEF Attached, Accepted, Queued
    <3>2. c # d /\ toServer' = [toServer EXCEPT ![d] = Append(@, cmd)]
      BY <1>3, <3>1 DEF PeerSend
    <3> QED BY <3>1, <3>2 DEF NothingStray, ServerOK, KernelOK
  <2> QED BY <1>1, <1>2, <2>2, <2>3, <2>4 DEF ServerOK
<1>4. CASE ~PeerSend(d, cmd)
  <2>1. UNCHANGED <<serverVars, sock, backlog, toServer, peer>>
    BY <1>4 DEF Send
  <2>2. KernelOK' /\ MembersInv'
    BY <2>1 DEF ServerOK, serverVars, KernelOK, SlotsMatchKernel, ConnectionsDistinct,
             SnapshotTrue, Readable, Queued, MembersInv, Owned, Connected
  <2>3. NothingStray'
    BY <2>1 DEF NothingStray, Attached, Accepted, Queued
  <2> QED BY <1>1, <1>2, <2>2, <2>3 DEF ServerOK
<1> QED BY <1>3, <1>4

LEMMA SendWire ==
  ASSUME ServerOK, NothingStray, NEW d \in Conns, NEW cmd \in Sayable(d), Send(d, cmd)
  PROVE  /\ \A c \in Conns : MemberSame(c)
         /\ \A c \in Conns \ {d} : WireSame(c)
         /\ peer' = peer /\ (Attached(d)' <=> Attached(d))
         /\ Pipe(d)' = IF Attached(d) THEN Append(Pipe(d), cmd) ELSE Pipe(d)
<1>1. ServerOK' /\ UNCHANGED <<serverVars, sock, backlog, peer>>
  BY SendKeeps
<1>2. \A c \in Conns : MemberSame(c)
  BY <1>1, ProgramMemberSame
<1>3. \A c \in Conns : (Queued(c)' <=> Queued(c)) /\ (Attached(c)' <=> Attached(c))
  BY <1>1 DEF Queued, Attached, Accepted
<1>4. toServer' = IF Attached(d) THEN [toServer EXCEPT ![d] = Append(@, cmd)] ELSE toServer
  BY DEF Send, PeerSend
<1>5. toServer \in [Conns -> Seq(Commands)]
  BY DEF ServerOK, KernelOK
<1>6. ASSUME NEW c \in Conns, c # d \/ ~Attached(d) PROVE WireSame(c)
  <2>1. toServer'[c] = toServer[c]
    BY <1>4, <1>5, <1>6
  <2> QED BY <1>1, <1>3, <2>1, ProgramWireSame
<1>7. CASE Attached(d)
  <2>1. PICK buf \in Seq(Sayable(d)) :
          /\ toServer[d] \in Seq(Sayable(d)) /\ Pipe(d) = buf \o toServer[d]
          /\ Pipe(d)' = buf \o toServer'[d]
    BY <1>1, PipeGrows
  <2>2. toServer'[d] = Append(toServer[d], cmd)
    BY <1>4, <1>5, <1>7
  <2>3. Pipe(d)' = Append(Pipe(d), cmd)
    BY <2>1, <2>2, AppendConcat
  <2> QED BY <1>1, <1>2, <1>3, <1>6, <1>7, <2>3
<1>8. CASE ~Attached(d)
  BY <1>1, <1>2, <1>3, <1>6, <1>8 DEF WireSame
<1> QED BY <1>7, <1>8

LEMMA QueueGrows ==
  ASSUME KernelOK, NEW d \in Conns, backlog' = Append(backlog, d), NEW c \in Conns
  PROVE  Queued(c)' <=> Queued(c) \/ c = d
<1>1. /\ backlog \in Seq(Conns) /\ Len(backlog) \in Nat /\ Len(backlog') = Len(backlog) + 1
      /\ \A k \in 1..Len(backlog) : backlog'[k] = backlog[k]
      /\ backlog'[Len(backlog) + 1] = d
  BY AppendProperties DEF KernelOK
<1>2. ASSUME Queued(c)' PROVE Queued(c) \/ c = d
  <2>1. PICK k \in 1..(Len(backlog) + 1) : backlog'[k] = c
    BY <1>1, <1>2 DEF Queued
  <2>2. CASE k = Len(backlog) + 1
    BY <1>1, <2>1, <2>2
  <2>3. CASE k # Len(backlog) + 1
    <3>1. k \in 1..Len(backlog)
      BY <1>1, <2>3
    <3> QED BY <1>1, <2>1, <3>1 DEF Queued
  <2> QED BY <2>2, <2>3
<1>3. ASSUME Queued(c) PROVE Queued(c)'
  <2>1. PICK k \in 1..Len(backlog) : backlog[k] = c
    BY <1>3 DEF Queued
  <2>2. k \in 1..Len(backlog') /\ backlog'[k] = c
    BY <1>1, <2>1
  <2> QED BY <2>2 DEF Queued
<1>4. ASSUME c = d PROVE Queued(c)'
  <2>1. Len(backlog) + 1 \in 1..Len(backlog')
    BY <1>1
  <2> QED BY <1>1, <1>4, <2>1 DEF Queued
<1> QED BY <1>2, <1>3, <1>4

LEMMA ConnectKeeps ==
  ASSUME ServerOK, NothingStray, NEW d \in Conns, PeerConnect(d)
  PROVE  ServerOK' /\ NothingStray'
<1>1. UNCHANGED <<serverVars, sock, toServer>> /\ out' = Quiet /\ backlog' = Append(backlog, d)
  BY DEF PeerConnect
<1>2. KernelOK' /\ MembersInv' /\ KernelOK
  BY ProgramKeeps, ProgramMembers, ServerAssumption DEF ServerOK
<1>3. RoomAndOut'
  BY <1>1, OutTyped DEF ServerOK, RoomAndOut, serverVars
<1>4. \A c \in Conns : Attached(c) => Attached(c)'
  BY <1>1, <1>2, QueueGrows DEF Attached, Accepted
<1> QED BY <1>1, <1>2, <1>3, <1>4 DEF ServerOK, NothingStray

LEMMA ConnectWire ==
  ASSUME ServerOK, NothingStray, NEW d \in Conns, PeerConnect(d)
  PROVE  /\ \A c \in Conns : MemberSame(c)
         /\ \A c \in Conns \ {d} : WireSame(c)
         /\ peer'[d] = "up" /\ ~Attached(d) /\ Attached(d)' /\ Pipe(d)' = <<>>
<1>1. /\ UNCHANGED <<serverVars, sock, toServer>> /\ backlog' = Append(backlog, d)
      /\ ~Attached(d) /\ peer' = [peer EXCEPT ![d] = "up"] /\ peer[d] = "idle"
  BY DEF PeerConnect
<1>2. ServerOK' /\ KernelOK /\ peer \in [Conns -> {"idle", "up", "fin", "rst"}]
  BY ConnectKeeps DEF ServerOK, KernelOK
<1>3. \A c \in Conns : MemberSame(c)
  BY <1>1, ProgramMemberSame
<1>4. \A c \in Conns : Queued(c)' <=> Queued(c) \/ c = d
  BY <1>1, <1>2, QueueGrows
<1>5. ASSUME NEW c \in Conns \ {d} PROVE WireSame(c)
  <2>1. peer'[c] = peer[c] /\ (Queued(c)' <=> Queued(c))
    BY <1>1, <1>2, <1>4, <1>5
  <2> QED BY <1>1, <1>2, <2>1, ProgramWireSame
<1>6. Pipe(d)' = Pipe(d)
  BY <1>1, <1>2, PipeGrows
<1>7. Pipe(d) = <<>>
  BY <1>1, UnattachedPipe
<1> QED BY <1>1, <1>2, <1>3, <1>4, <1>5, <1>6, <1>7 DEF Attached

(* The beginning of a pipe.                                                *)
CutOf(p, q) == Len(p) <= Len(q) /\ \A k \in 1..Len(p) : p[k] = q[k]

LEMMA CloseKeeps ==
  ASSUME ServerOK, NothingStray, NEW d \in Conns, PeerClose(d) \/ PeerReset(d)
  PROVE  ServerOK' /\ NothingStray'
<1>1. /\ UNCHANGED <<serverVars, sock, backlog>> /\ out' = Quiet
      /\ \A c \in Conns : toServer[c] = <<>> => toServer'[c] = <<>>
  BY DEF PeerClose, PeerReset, ServerOK, KernelOK
<1>2. KernelOK' /\ MembersInv' /\ KernelOK
  BY ProgramKeeps, ProgramMembers, ServerAssumption DEF ServerOK
<1>3. RoomAndOut'
  BY <1>1, OutTyped DEF ServerOK, RoomAndOut, serverVars
<1>4. \A c \in Conns : Attached(c) => Attached(c)'
  BY <1>1 DEF Attached, Accepted, Queued
<1> QED BY <1>1, <1>2, <1>3, <1>4 DEF ServerOK, NothingStray

LEMMA CloseWire ==
  ASSUME ServerOK, NothingStray, NEW d \in Conns, PeerClose(d) \/ PeerReset(d)
  PROVE  /\ \A c \in Conns : MemberSame(c)
         /\ \A c \in Conns \ {d} : WireSame(c)
         /\ peer[d] = "up" /\ peer'[d] # "up" /\ (Attached(d)' <=> Attached(d))
         /\ CutOf(Pipe(d)', Pipe(d))
<1>1. ServerOK' /\ KernelOK
  BY CloseKeeps DEF ServerOK
<1>2. /\ UNCHANGED <<serverVars, sock, backlog>>
      /\ \A c \in Conns \ {d} : toServer'[c] = toServer[c] /\ peer'[c] = peer[c]
      /\ toServer'[d] \in {toServer[d], <<>>}
      /\ peer[d] = "up" /\ peer'[d] # "up"
  BY <1>1 DEF PeerClose, PeerReset, KernelOK
<1>3. \A c \in Conns : MemberSame(c)
  BY <1>2, ProgramMemberSame
<1>4. \A c \in Conns : (Queued(c)' <=> Queued(c)) /\ (Attached(c)' <=> Attached(c))
  BY <1>2 DEF Queued, Attached, Accepted
<1>5. \A c \in Conns \ {d} : WireSame(c)
  BY <1>1, <1>2, <1>4, ProgramWireSame
<1>6. CutOf(Pipe(d)', Pipe(d))
  <2>1. PICK buf \in Seq(Sayable(d)) :
          /\ toServer[d] \in Seq(Sayable(d)) /\ toServer'[d] \in Seq(Sayable(d))
          /\ Pipe(d) = buf \o toServer[d] /\ Pipe(d)' = buf \o toServer'[d]
    BY <1>1, <1>2, PipeGrows
  <2>2. CASE toServer'[d] = toServer[d]
    BY <2>1, <2>2, ConcatProperties DEF CutOf
  <2>3. CASE toServer'[d] = <<>>
    <3>1. Pipe(d)' = buf
      BY <2>1, <2>3, ConcatEmptySeq
    <3>2. /\ Len(Pipe(d)) = Len(buf) + Len(toServer[d]) /\ Len(buf) \in Nat
          /\ Len(toServer[d]) \in Nat
          /\ \A k \in 1..(Len(buf) + Len(toServer[d])) :
               Pipe(d)[k] = IF k <= Len(buf) THEN buf[k] ELSE toServer[d][k - Len(buf)]
      BY <2>1, ConcatProperties
    <3>3. Len(buf) <= Len(Pipe(d)) /\ \A k \in 1..Len(buf) : buf[k] = Pipe(d)[k]
      BY <3>2
    <3> QED BY <3>1, <3>3 DEF CutOf
  <2> QED BY <1>2, <2>2, <2>3
<1> QED BY <1>2, <1>3, <1>4, <1>5, <1>6

LEMMA StillKeeps ==
  ASSUME ServerOK, NothingStray, out' = Quiet,
         UNCHANGED <<serverVars, sock, backlog, toServer, peer>>
  PROVE  /\ ServerOK' /\ NothingStray'
         /\ \A c \in Conns : WireSame(c) /\ MemberSame(c)
<1>1. KernelOK' /\ MembersInv'
  BY DEF ServerOK, serverVars, KernelOK, SlotsMatchKernel, ConnectionsDistinct,
         SnapshotTrue, Readable, Queued, MembersInv, Owned, Connected
<1>2. RoomAndOut'
  BY OutTyped DEF ServerOK, RoomAndOut, serverVars
<1>3. NothingStray'
  BY DEF NothingStray, Attached, Accepted, Queued
<1>4. ServerOK'
  BY <1>1, <1>2 DEF ServerOK
<1>5. \A c \in Conns : Queued(c)' <=> Queued(c)
  BY DEF Queued
<1> QED BY <1>3, <1>4, <1>5, ProgramWireSame, ProgramMemberSame

-----------------------------------------------------------------------------
(* The picture a client keeps is typed.                                    *)

PictureTyped ==
  /\ fromServer \in [Conns -> Seq(Sensible)]
  /\ stage \in [Conns -> Stages]
  /\ nick \in [Conns -> Strings \cup {NoString}]
  /\ flags \in [Conns -> SUBSET {"AWAY", "OPERATOR"}]
  /\ culist \in [Conns -> SUBSET [nick : Strings, marks : SUBSET {"AWAY", "OPERATOR"}]]
  /\ \A c \in Conns : stage[c] \in {"joining", "chatting", "leaving"} => nick[c] \in Strings

SystemOK == ServerOK /\ NothingStray /\ PictureTyped

(* What is left when the first n messages are taken away.                  *)
LEMMA RestOf ==
  ASSUME NEW S, NEW q \in Seq(S), NEW n \in 0..Len(q)
  PROVE  LET rest == SubSeq(q, n + 1, Len(q))
         IN  /\ rest \in Seq(S) /\ Len(rest) = Len(q) - n
             /\ \A k \in 1..(Len(q) - n) : rest[k] = q[n + k]
             /\ n = 0 => rest = q
             /\ n = 1 => rest = Tail(q)
<1>1. Len(q) \in Nat /\ n \in Nat /\ \A k \in (n + 1)..Len(q) : q[k] \in S
  OBVIOUS
<1>2. PICK m \in Int : m = n + 1
  BY <1>1
<1>3. /\ SubSeq(q, m, Len(q)) \in Seq(S)
      /\ Len(SubSeq(q, m, Len(q))) = IF m <= Len(q) THEN Len(q) - m + 1 ELSE 0
      /\ \A k \in 1..(Len(q) - m + 1) : SubSeq(q, m, Len(q))[k] = q[m + k - 1]
  <2>1. \A k \in m..Len(q) : q[k] \in S
    BY <1>1, <1>2
  <2> QED BY <1>1, <2>1, SubSeqProperties
<1>4. n = 0 => SubSeq(q, m, Len(q)) = q
  BY <1>2, SubSeqFull
<1>5. ASSUME n = 1 PROVE SubSeq(q, m, Len(q)) = Tail(q)
  <2>1. q # <<>>
    BY <1>1, <1>5
  <2> QED BY <1>2, <1>5, <2>1, TailIsSubSeq
<1>6. \A k \in 1..(Len(q) - n) : k \in 1..(Len(q) - m + 1) /\ m + k - 1 = n + k
  BY <1>1, <1>2
<1> QED BY <1>1, <1>2, <1>3, <1>4, <1>5, <1>6

LEMMA RestSensible ==
  ASSUME PictureTyped, NEW c \in Conns, NEW n \in 0..Len(fromServer[c])
  PROVE  After(c, n) \in Seq(Sensible)
<1>1. fromServer[c] \in Seq(Sensible)
  BY DEF PictureTyped
<1> QED BY <1>1, RestOf DEF After

(* What a sensible message makes of the picture.                           *)
LEMMA LearnTyped ==
  ASSUME NEW m \in Sensible
  PROVE  /\ \A known \in Strings : LearnNick(known, m) \in Strings
         /\ \A known : \A marks \in SUBSET {"AWAY", "OPERATOR"} :
              LearnFlags(known, marks, m) \in SUBSET {"AWAY", "OPERATOR"}
         /\ \A names \in SUBSET [nick : Strings, marks : SUBSET {"AWAY", "OPERATOR"}] :
              LearnNames(names, m) \in SUBSET [nick : Strings, marks : SUBSET {"AWAY", "OPERATOR"}]
<1>1. /\ NamesGivenIn(m)
      /\ m.op = "C_NICK" /\ m.form \in {"reply", "notice"} => m.nick \in Strings
  BY DEF Sensible
<1>2. \A known \in Strings : LearnNick(known, m) \in Strings
  BY <1>1 DEF LearnNick
<1>3. \A known : \A marks \in SUBSET {"AWAY", "OPERATOR"} :
        LearnFlags(known, marks, m) \in SUBSET {"AWAY", "OPERATOR"}
  BY DEF LearnFlags
<1>4. \A names \in SUBSET [nick : Strings, marks : SUBSET {"AWAY", "OPERATOR"}] :
        LearnNames(names, m) \in SUBSET [nick : Strings, marks : SUBSET {"AWAY", "OPERATOR"}]
  BY <1>1 DEF LearnNames, NamesGivenIn
<1> QED BY <1>2, <1>3, <1>4

(* The server sees a client connect, send, or end the connection.          *)
LEMMA ClientKeepsServer ==
  ASSUME ServerOK, NothingStray, NEW c \in Conns, Client(c)
  PROVE  ServerOK' /\ NothingStray'
<1>1. ASSUME NEW cmd \in Sayable(c), Send(c, cmd) PROVE ServerOK' /\ NothingStray'
  BY <1>1, SendKeeps
<1>2. ASSUME NEW left, Hangup(c, left) PROVE ServerOK' /\ NothingStray'
  BY <1>2, CloseKeeps DEF Hangup
<1>3. ASSUME NEW n, StartChatting(c, n) PROVE ServerOK' /\ NothingStray'
  BY <1>1, <1>3, SentIsSayable DEF StartChatting
<1>4. CASE Connect(c)
  BY <1>4, ConnectKeeps DEF Connect
<1>5. CASE AskToJoin(c)
  BY <1>1, <1>5, SentIsSayable DEF AskToJoin
<1>6. CASE JoinAnswer(c)
  BY <1>2, <1>3, <1>6 DEF JoinAnswer
<1>7. CASE HandleMessage(c)
  <2>1. \/ Send(c, [op |-> "C_WHO", user |-> NoUser, arg |-> NoString])
        \/ out' = Quiet /\ UNCHANGED <<serverVars, sock, backlog, toServer, peer>>
    BY <1>7 DEF HandleMessage
  <2> QED BY <1>1, <2>1, SentIsSayable, StillKeeps
<1>8. CASE Type(c)
  BY <1>1, <1>8, SentIsSayable DEF Type
<1>9. CASE Quit(c)
  BY <1>1, <1>9, SentIsSayable DEF Quit
<1>10. CASE ServerGone(c) \/ LeaveAnswer(c) \/ Killed(c)
  BY <1>2, <1>10 DEF ServerGone, LeaveAnswer, Killed
<1> QED BY <1>4, <1>5, <1>6, <1>7, <1>8, <1>9, <1>10 DEF Client

LEMMA HangupPicture ==
  ASSUME PictureTyped, NEW c \in Conns, NEW left, Hangup(c, left)
  PROVE  PictureTyped'
<1>1. <<>> \in Seq(Sensible)
  OBVIOUS
<1>2. /\ fromServer' = [fromServer EXCEPT ![c] = <<>>]
      /\ stage' = [stage EXCEPT ![c] = "off"]
      /\ nick' = [nick EXCEPT ![c] = NoString]
      /\ flags' = [flags EXCEPT ![c] = {}]
      /\ culist' = [culist EXCEPT ![c] = {}]
  BY DEF Hangup
<1> QED BY <1>1, <1>2 DEF PictureTyped, Stages

LEMMA StartPicture ==
  ASSUME PictureTyped, NEW c \in Conns, stage[c] = "joining", NEW n \in 0..Len(fromServer[c]),
         StartChatting(c, n)
  PROVE  PictureTyped'
<1>1. After(c, n) \in Seq(Sensible)
  BY RestSensible
<1>2. /\ fromServer' = [fromServer EXCEPT ![c] = After(c, n)]
      /\ stage' = [stage EXCEPT ![c] = "chatting"]
      /\ UNCHANGED <<nick, flags, culist>>
  BY DEF StartChatting, pictureVars
<1> QED BY <1>1, <1>2 DEF PictureTyped, Stages

LEMMA ClientKeepsPicture ==
  ASSUME PictureTyped, NEW c \in Conns, Client(c)
  PROVE  PictureTyped'
<1>0. fromServer[c] \in Seq(Sensible) /\ Len(fromServer[c]) \in Nat
  BY DEF PictureTyped
<1>1. CASE Connect(c)
  BY <1>1 DEF Connect, pictureVars, PictureTyped, Stages
<1>2. CASE AskToJoin(c)
  <2>1. PICK door \in Cmds[c] : door.op = "CHATDOOR" /\ nick' = [nick EXCEPT ![c] = door.arg]
    BY <1>2 DEF AskToJoin
  <2>2. door.arg \in Strings
    BY <2>1, ServerAssumption, ClientAssumption DEF Commands
  <2>3. stage' = [stage EXCEPT ![c] = "joining"] /\ UNCHANGED <<fromServer, flags, culist>>
    BY <1>2 DEF AskToJoin
  <2> QED BY <2>1, <2>2, <2>3 DEF PictureTyped, Stages
<1>3. CASE JoinAnswer(c)
  <2>1. \/ \E left : Hangup(c, left)
        \/ \E n \in 0..Len(fromServer[c]) : StartChatting(c, n)
    BY <1>0, <1>3 DEF JoinAnswer
  <2> QED BY <1>3, <2>1, HangupPicture, StartPicture DEF JoinAnswer
<1>4. CASE HandleMessage(c)
  <2>1. PICK m : m = Head(fromServer[c])
    OBVIOUS
  <2>2. /\ nick' = [nick EXCEPT ![c] = LearnNick(@, m)]
        /\ flags' = [flags EXCEPT ![c] = LearnFlags(nick[c], @, m)]
        /\ culist' = [culist EXCEPT ![c] = LearnNames(@, m)]
        /\ fromServer' = [fromServer EXCEPT ![c] = After(c, 1)]
        /\ stage' = stage /\ fromServer[c] # <<>> /\ stage[c] = "chatting"
    BY <1>4, <2>1 DEF HandleMessage
  <2>3. m \in Sensible /\ After(c, 1) \in Seq(Sensible)
    <3>1. 1 \in 0..Len(fromServer[c])
      BY <1>0, <2>2
    <3> QED BY <1>0, <2>1, <2>2, <3>1, RestSensible, HeadTailProperties
  <2>4. nick[c] \in Strings
    BY <2>2 DEF PictureTyped
  <2>5. nick'[c] \in Strings /\ nick' \in [Conns -> Strings \cup {NoString}]
    BY <2>2, <2>3, <2>4, LearnTyped DEF PictureTyped
  <2>6. flags' \in [Conns -> SUBSET {"AWAY", "OPERATOR"}]
    <3>1. flags[c] \in SUBSET {"AWAY", "OPERATOR"} /\ flags \in [Conns -> SUBSET {"AWAY", "OPERATOR"}]
      BY DEF PictureTyped
    <3>2. LearnFlags(nick[c], flags[c], m) \in SUBSET {"AWAY", "OPERATOR"}
      BY <2>3, <3>1, LearnTyped
    <3> QED BY <2>2, <3>1, <3>2
  <2>7. culist' \in [Conns -> SUBSET [nick : Strings, marks : SUBSET {"AWAY", "OPERATOR"}]]
    BY <2>2, <2>3, LearnTyped DEF PictureTyped
  <2>8. \A d \in Conns \ {c} : nick'[d] = nick[d]
    BY <2>2 DEF PictureTyped
  <2> QED BY <2>2, <2>3, <2>5, <2>6, <2>7, <2>8 DEF PictureTyped
<1>5. CASE Type(c)
  BY <1>5 DEF Type, clientVars, PictureTyped
<1>6. CASE Quit(c)
  BY <1>6 DEF Quit, pictureVars, PictureTyped, Stages
<1>7. CASE ServerGone(c) \/ LeaveAnswer(c) \/ Killed(c)
  BY <1>7, HangupPicture DEF ServerGone, LeaveAnswer, Killed
<1> QED BY <1>1, <1>2, <1>3, <1>4, <1>5, <1>6, <1>7 DEF Client

LEMMA SensibleSeq ==
  ASSUME NEW q \in Seq(Message), \A n \in 1..Len(q) : q[n] \in Sensible
  PROVE  q \in Seq(Sensible)
<1>1. Len(q) \in Nat /\ q = [n \in 1..Len(q) |-> q[n]]
  OBVIOUS
<1> QED BY <1>1, IsASeq

LEMMA ServerStepFacts ==
  ASSUME ServerOK, NothingStray, ServerStep
  PROVE  /\ ServerOK' /\ NothingStray'
         /\ \A c \in Conns : out'[c] \in Seq(Sensible)
         /\ Server /\ stage' = stage /\ nick' = nick /\ flags' = flags /\ culist' = culist
         /\ fromServer' = [c \in Conns |->
                             IF peer[c] = "up" THEN fromServer[c] \o out'[c] ELSE <<>>]
<1>1. ServerOK' /\ Server
  BY ServerOKNext DEF ServerStep, Next
<1>2. NothingStray'
  <2>1. ASSUME NEW c \in Conns, ~Attached(c)' PROVE toServer'[c] = <<>>
    BY <1>1, <2>1, ServerWire DEF WireKept, WireTaken
  <2> QED BY <2>1 DEF NothingStray
<1>3. ASSUME NEW c \in Conns PROVE out'[c] \in Seq(Sensible)
  <2>1. out'[c] \in Seq(Message)
    BY <1>1 DEF ServerOK, RoomAndOut, Outbox
  <2>2. Brings(out', Sensible)
    BY <1>1, StepSensible
  <2> QED BY <2>1, <2>2, SensibleSeq DEF Brings
<1> QED BY <1>1, <1>2, <1>3 DEF ServerStep, pictureVars

LEMMA SystemOKNext ==
  ASSUME SystemOK, [SystemNext]_systemVars
  PROVE  SystemOK'
<1> USE DEF SystemOK
<1>1. CASE ServerStep
  <2>1. ASSUME NEW c \in Conns PROVE fromServer'[c] \in Seq(Sensible)
    <3>1. fromServer[c] \in Seq(Sensible) /\ out'[c] \in Seq(Sensible)
      BY <1>1, ServerStepFacts DEF PictureTyped
    <3>2. fromServer'[c] = IF peer[c] = "up" THEN fromServer[c] \o out'[c] ELSE <<>>
      BY <1>1, ServerStepFacts
    <3>3. fromServer[c] \o out'[c] \in Seq(Sensible) /\ <<>> \in Seq(Sensible)
      BY <3>1, ConcatProperties
    <3> QED BY <3>2, <3>3
  <2>2. fromServer' \in [Conns -> Seq(Sensible)]
    <3>1. \E g : fromServer' = [c \in Conns |-> g[c]]
      BY <1>1, ServerStepFacts
    <3> QED BY <2>1, <3>1
  <2> QED BY <1>1, <2>2, ServerStepFacts DEF PictureTyped
<1>2. CASE \E c \in Conns : Client(c)
  BY <1>2, ClientKeepsServer, ClientKeepsPicture
<1>3. CASE UNCHANGED systemVars
  <2>1. UNCHANGED vars /\ UNCHANGED clientVars
    BY <1>3 DEF systemVars
  <2>2. ServerOK'
    BY <2>1, ServerOKNext
  <2>3. NothingStray'
    BY <2>1 DEF vars, NothingStray, Attached, Accepted, Queued
  <2>4. PictureTyped'
    BY <2>1 DEF clientVars, PictureTyped
  <2> QED BY <2>2, <2>3, <2>4
<1> QED BY <1>1, <1>2, <1>3 DEF SystemNext

LEMMA SystemOKInit == SystemInit => SystemOK
<1> SUFFICES ASSUME SystemInit PROVE SystemOK
  OBVIOUS
<1>1. Init
  BY DEF SystemInit
<1>2. ServerOK
  BY <1>1, InitOK, InitMembers, IInvParts, UdataAssumption, ServerAssumption
     DEF ServerOK, RoomAndOut, Outbox
<1>3. NothingStray
  BY <1>1 DEF Init, NothingStray
<1>4. PictureTyped
  <2>1. <<>> \in Seq(Sensible)
    OBVIOUS
  <2> QED BY <2>1 DEF SystemInit, PictureTyped, Stages
<1> QED BY <1>2, <1>3, <1>4 DEF SystemOK

(* The invariant the theorems about the whole system rest on.              *)
LEMMA SystemAlwaysOK == SystemSpec => []SystemOK
BY SystemOKInit, SystemOKNext, PTL DEF SystemSpec

(* Every picture is typed, and a client in the room has a nickname         *)
(* to show (clchat.c:491, 1211, 1217): ClientTypeOK, whatever the          *)
(* programs send, the empty nickname included.                             *)
THEOREM ClientIsTyped == SystemSpec => []ClientTypeOK
<1>1. SystemOK => ClientTypeOK
  <2> SUFFICES ASSUME SystemOK PROVE ClientTypeOK
    OBVIOUS
  <2>1. PictureTyped /\ Sensible \subseteq Message
    BY DEF SystemOK, Sensible
  <2>2. \A c \in Conns : fromServer[c] \in Seq(Message)
    <3>1. ASSUME NEW q \in Seq(Sensible) PROVE q \in Seq(Message)
      BY <2>1, <3>1
    <3> QED BY <2>1, <3>1 DEF PictureTyped
  <2>3. fromServer \in [Conns -> Seq(Message)]
    BY <2>1, <2>2 DEF PictureTyped
  <2> QED BY <2>1, <2>3 DEF PictureTyped, ClientTypeOK
<1> QED BY <1>1, SystemAlwaysOK, PTL

-----------------------------------------------------------------------------
(* What a client knows.                                                    *)

(* A client that joins is the only command of its connection; one that     *)
(* leaves is a member until the command is handled.                        *)
DoorsInOrder(c) ==
  \A k \in 1..Len(Pipe(c)) : Pipe(c)[k].op = "CHATDOOR" =>
    /\ Pipe(c)[k].user = User(c) /\ k = Len(Pipe(c))
    /\ Leaves(Pipe(c)[k]) => Member(c) /\ stage[c] \in {"leaving", "off"}
    /\ Joins(Pipe(c)[k]) =>
         /\ k = 1 /\ ~Member(c) /\ fromServer[c] = <<>> /\ stage[c] \in {"joining", "off"}
         /\ stage[c] = "joining" => nick[c] = Pipe(c)[k].arg

(* How far the client is, and how far the server is with it.               *)
StageMeans(c) ==
  /\ peer[c] = "up" <=> stage[c] # "off"
  /\ stage[c] = "off" => fromServer[c] = <<>>
  /\ stage[c] = "connected" => Pipe(c) = <<>> /\ ~Member(c) /\ fromServer[c] = <<>>
  /\ stage[c] = "chatting" /\ Attached(c) => Member(c)

(* The answer to the wish to join comes first, and says what happened.     *)
AnswerMeans(c) ==
  /\ stage[c] = "joining" /\ Attached(c) =>
       \/ Pipe(c) # <<>> /\ Joins(Pipe(c)[1])
       \/ /\ Pipe(c) = <<>> /\ fromServer[c] # <<>>
          /\ fromServer[c][1] = NAK <=> ~Member(c)
  /\ \A k \in 1..Len(fromServer[c]) : fromServer[c][k] = NAK => k = 1 /\ stage[c] = "joining"

(* The nickname known and the messages under way make the server's.        *)
NickMeans(c) ==
  /\ stage[c] = "joining" /\ Member(c) =>
       nick[c] = NickOf(User(c)) /\ Fixes(NickOf(User(c)), fromServer[c])
  /\ stage[c] = "chatting" /\ Member(c) =>
       KnownAfter(nick[c], fromServer[c]) = NickOf(User(c))

ClientOK(c) == DoorsInOrder(c) /\ StageMeans(c) /\ AnswerMeans(c) /\ NickMeans(c)

(* A step that is none of this client's business.                          *)
LEMMA Untouched ==
  ASSUME NEW c \in Conns, ClientOK(c), WireSame(c), MemberSame(c),
         fromServer'[c] = fromServer[c], stage'[c] = stage[c], nick'[c] = nick[c]
  PROVE  ClientOK(c)'
<1>1. PICK u : u = User(c) /\ u = User(c)'
  BY UserFixed
<1>2. DoorsInOrder(c)'
  BY <1>1 DEF ClientOK, DoorsInOrder, WireSame, MemberSame
<1>3. StageMeans(c)' /\ AnswerMeans(c)'
  BY DEF ClientOK, StageMeans, AnswerMeans, WireSame, MemberSame
<1>4. NickMeans(c)'
  BY DEF ClientOK, NickMeans, MemberSame
<1> QED BY <1>2, <1>3, <1>4 DEF ClientOK

(* The messages that arrive behind those under way.                        *)
LEMMA NewsArrives ==
  ASSUME NEW q \in Seq(Sensible), NEW more \in Seq(Sensible)
  PROVE  /\ q \o more \in Seq(Sensible) /\ q # <<>> => (q \o more)[1] = q[1] /\ q \o more # <<>>
         /\ more = <<>> => q \o more = q
         /\ q = <<>> => q \o more = more
         /\ \A name : Fixes(name, q) /\ Fixes(name, more) => Fixes(name, q \o more)
         /\ NoNakIn(more) => \A k \in 1..Len(q \o more) :
              (q \o more)[k] = NAK => k \in 1..Len(q) /\ q[k] = NAK
<1>1. /\ q \o more \in Seq(Sensible) /\ Len(q \o more) = Len(q) + Len(more)
      /\ \A k \in 1..(Len(q) + Len(more)) :
           (q \o more)[k] = IF k <= Len(q) THEN q[k] ELSE more[k - Len(q)]
      /\ Len(q) \in Nat /\ Len(more) \in Nat
  BY ConcatProperties
<1>2. (q # <<>> => (q \o more)[1] = q[1] /\ q \o more # <<>>)
      /\ (more = <<>> => q \o more = q) /\ (q = <<>> => q \o more = more)
  <2>1. (more = <<>> => q \o more = q) /\ (q = <<>> => q \o more = more)
    BY ConcatEmptySeq
  <2>2. q # <<>> => Len(q) >= 1
    OBVIOUS
  <2>3. q # <<>> => (q \o more)[1] = q[1] /\ q \o more # <<>>
    BY <1>1, <2>2
  <2> QED BY <2>1, <2>3
<1>3. ASSUME NEW k \in 1..Len(q \o more)
      PROVE  \/ k \in 1..Len(q) /\ (q \o more)[k] = q[k]
             \/ k - Len(q) \in 1..Len(more) /\ (q \o more)[k] = more[k - Len(q)]
  BY <1>1
<1>4. \A name : Fixes(name, q) /\ Fixes(name, more) => Fixes(name, q \o more)
  BY <1>3 DEF Fixes
<1>5. NoNakIn(more) => \A k \in 1..Len(q \o more) :
        (q \o more)[k] = NAK => k \in 1..Len(q) /\ q[k] = NAK
  BY <1>3 DEF NoNakIn
<1> QED BY <1>1, <1>2, <1>4, <1>5

(* What the server does for the others, and to the clients it ends.        *)
LEMMA ClientStandsBy ==
  ASSUME SystemOK, ServerStep, NEW c \in Conns, ClientOK(c), StandsBy(c)
  PROVE  ClientOK(c)'
<1>1. /\ fromServer[c] \in Seq(Sensible) /\ out'[c] \in Seq(Sensible)
      /\ fromServer'[c] = (IF peer[c] = "up" THEN fromServer[c] \o out'[c] ELSE <<>>)
      /\ stage' = stage /\ nick' = nick
  BY ServerStepFacts DEF SystemOK, PictureTyped
<1>2. /\ ~Attached(c)' => Pipe(c)' = <<>> /\ ~Member(c)'
      /\ Attached(c)' => Attached(c) /\ Pipe(c)' = Pipe(c)
      /\ peer'[c] = "up" <=> peer[c] = "up"
  <2>1. ServerOK' /\ NothingStray'
    BY ServerStepFacts DEF SystemOK
  <2> QED BY <2>1, UnattachedPipeNext, AttachedMemberNext DEF StandsBy, WireKept
<1>3. /\ Member(c)' => Member(c)
      /\ Member(c) => Member(c)' \/ ~Attached(c)'
      /\ ~Member(c) => out'[c] = <<>>
      /\ NoNakIn(out'[c])
      /\ Member(c) /\ Member(c)' =>
           NickOf(User(c))' = NickOf(User(c)) /\ Fixes(NickOf(User(c)), out'[c])
  BY DEF StandsBy
<1>4. PICK q \in Seq(Sensible), more \in Seq(Sensible) :
        /\ q = fromServer[c] /\ more = out'[c]
  BY <1>1
<1>5. fromServer'[c] = IF stage[c] # "off" THEN q \o more ELSE <<>>
  BY <1>1, <1>4 DEF ClientOK, StageMeans
<1>6. PICK u : u = User(c) /\ u = User(c)'
  BY UserFixed
<1>7. ~Member(c) => fromServer'[c] = q
  BY <1>1, <1>3, <1>4, <1>5, NewsArrives DEF ClientOK, StageMeans
<1>8. DoorsInOrder(c)'
  <2> SUFFICES ASSUME Attached(c)' PROVE DoorsInOrder(c)'
    <3>1. ~Attached(c)' => Len(Pipe(c)') = 0
      BY <1>2
    <3> QED BY <3>1 DEF DoorsInOrder
  <2>1. Pipe(c)' = Pipe(c) /\ (Member(c)' <=> Member(c))
    BY <1>2, <1>3
  <2> QED BY <1>1, <1>4, <1>6, <1>7, <2>1 DEF ClientOK, DoorsInOrder
<1>9. StageMeans(c)'
  <2>1. stage[c] = "connected" => Pipe(c)' = <<>> /\ ~Member(c)' /\ fromServer'[c] = <<>>
    BY <1>2, <1>3, <1>4, <1>7 DEF ClientOK, StageMeans
  <2> QED BY <1>1, <1>2, <1>3, <1>5, <2>1 DEF ClientOK, StageMeans
<1>10. AnswerMeans(c)'
  <2>1. ASSUME NEW k \in 1..Len(fromServer'[c]), fromServer'[c][k] = NAK
        PROVE  k = 1 /\ stage[c] = "joining"
    <3>1. fromServer'[c] = q \o more
      BY <1>5, <2>1
    <3>2. \A n \in 1..Len(q \o more) : (q \o more)[n] = NAK => n \in 1..Len(q) /\ q[n] = NAK
      <4>1. NoNakIn(more)
        BY <1>3, <1>4
      <4> QED BY <4>1, NewsArrives
    <3>3. k \in 1..Len(q) /\ q[k] = NAK
      BY <2>1, <3>1, <3>2
    <3> QED BY <1>4, <3>3 DEF ClientOK, AnswerMeans
  <2>2. ASSUME stage[c] = "joining", Attached(c)', ~(Pipe(c) # <<>> /\ Joins(Pipe(c)[1]))
        PROVE  /\ Pipe(c)' = <<>> /\ fromServer'[c] # <<>>
               /\ fromServer'[c][1] = NAK <=> ~Member(c)'
    <3>1. Pipe(c) = <<>> /\ q # <<>> /\ (q[1] = NAK <=> ~Member(c))
      BY <1>2, <1>4, <2>2 DEF ClientOK, AnswerMeans
    <3>2. fromServer'[c] = q \o more
      BY <1>5, <2>2
    <3> QED BY <1>2, <1>3, <2>2, <3>1, <3>2, NewsArrives
  <2> QED BY <1>1, <1>2, <2>1, <2>2 DEF AnswerMeans
<1>11. NickMeans(c)'
  <2> SUFFICES ASSUME Member(c)' PROVE NickMeans(c)'
    BY DEF NickMeans
  <2>1. PICK name : name = NickOf(User(c)) /\ name = NickOf(User(c))'
    BY <1>3
  <2>2. Member(c) /\ Fixes(name, more)
    BY <1>3, <1>4, <2>1
  <2>3. stage[c] = "joining" => nick[c] = name /\ Fixes(name, q)
    BY <1>4, <2>1, <2>2 DEF ClientOK, NickMeans
  <2>4. stage[c] = "chatting" => KnownAfter(nick[c], q) = name
    BY <1>4, <2>1, <2>2 DEF ClientOK, NickMeans
  <2>5. stage[c] = "joining" => Fixes(name, q \o more)
    BY <2>2, <2>3, NewsArrives
  <2>6. stage[c] = "chatting" => KnownAfter(nick[c], q \o more) = name
    BY <2>2, <2>4, KnownKept DEF Fixes
  <2> QED BY <1>1, <1>5, <2>1, <2>3, <2>5, <2>6 DEF NickMeans
<1> QED BY <1>8, <1>9, <1>10, <1>11 DEF ClientOK

(* A pipe of which the first command was handled.                          *)
LEMMA PipeTail ==
  ASSUME ServerOK, NEW c \in Conns, Pipe(c) # <<>>
  PROVE  /\ Len(Pipe(c)) \in Nat /\ Len(Pipe(c)) >= 1
         /\ Head(Pipe(c)) = Pipe(c)[1]
         /\ Len(Tail(Pipe(c))) = Len(Pipe(c)) - 1
         /\ \A k \in 1..Len(Tail(Pipe(c))) : Tail(Pipe(c))[k] = Pipe(c)[k + 1]
         /\ Len(Pipe(c)) = 1 => Tail(Pipe(c)) = <<>>
<1>1. Pipe(c) \in Seq(Sayable(c))
  BY OKFits DEF Fits, PipesFit
<1>2. PICK p \in Seq(Sayable(c)) : p = Pipe(c)
  BY <1>1
<1>3. Len(p) \in Nat /\ Len(p) >= 1 /\ Head(p) = p[1]
  BY <1>2
<1>4. /\ Tail(p) \in Seq(Sayable(c)) /\ Len(Tail(p)) = Len(p) - 1
      /\ \A k \in 1..Len(Tail(p)) : Tail(p)[k] = p[k + 1]
  BY <1>2, HeadTailProperties
<1>5. Len(p) = 1 => Tail(p) = <<>>
  <2>1. PICK t \in Seq(Sayable(c)) : t = Tail(p) /\ Len(t) = Len(p) - 1
    BY <1>4
  <2>2. Len(t) = 0 => t = <<>>
    OBVIOUS
  <2> QED BY <2>1, <2>2
<1> QED BY <1>2, <1>3, <1>4, <1>5

(* A command that is no CHATDOOR, answered or not.                         *)
LEMMA TalkedTo ==
  ASSUME SystemOK, ServerStep, NEW c \in Conns, ClientOK(c), WireTaken(c),
         Talks(c, Head(Pipe(c)))
  PROVE  ClientOK(c)'
<1>1. /\ fromServer[c] \in Seq(Sensible) /\ out'[c] \in Seq(Sensible)
      /\ fromServer'[c] = (IF peer[c] = "up" THEN fromServer[c] \o out'[c] ELSE <<>>)
      /\ stage' = stage /\ nick' = nick
  BY ServerStepFacts DEF SystemOK, PictureTyped
<1>2. /\ peer'[c] = "up" <=> peer[c] = "up"
      /\ Attached(c) /\ Attached(c)' /\ Pipe(c) # <<>> /\ Pipe(c)' = Tail(Pipe(c))
  BY DEF WireTaken
<1>3. /\ Pipe(c)[1].op # "CHATDOOR"
      /\ Member(c)' <=> Member(c)
      /\ NoNakIn(out'[c])
      /\ Member(c) =>
           \/ NickOf(User(c))' = NickOf(User(c)) /\ Fixes(NickOf(User(c)), out'[c])
           \/ \E m \in Sensible : out'[c] = <<m>> /\ LearnNick(NickOf(User(c)), m) = NickOf(User(c))'
  BY <1>2, PipeTail DEF Talks, SystemOK
<1>4. PICK q \in Seq(Sensible), more \in Seq(Sensible) :
        /\ q = fromServer[c] /\ more = out'[c]
  BY <1>1
<1>5. fromServer'[c] = IF stage[c] # "off" THEN q \o more ELSE <<>>
  BY <1>1, <1>4 DEF ClientOK, StageMeans
<1>6. PICK u : u = User(c) /\ u = User(c)'
  BY UserFixed
<1>7. stage[c] # "connected" /\ stage[c] # "joining"
  BY <1>2, <1>3 DEF ClientOK, StageMeans, AnswerMeans, Joins
<1>8. DoorsInOrder(c)'
  <2>1. /\ Len(Pipe(c)) \in Nat /\ Len(Pipe(c)') = Len(Pipe(c)) - 1
        /\ \A k \in 1..Len(Pipe(c)') : Pipe(c)'[k] = Pipe(c)[k + 1]
    BY <1>2, PipeTail DEF SystemOK
  <2>2. ASSUME NEW k \in 1..Len(Pipe(c)'), Pipe(c)'[k].op = "CHATDOOR"
        PROVE  /\ Pipe(c)'[k].user = u /\ k = Len(Pipe(c)')
               /\ Leaves(Pipe(c)'[k]) => Member(c)' /\ stage[c] \in {"leaving", "off"}
               /\ ~Joins(Pipe(c)'[k])
    <3>1. k \in Nat /\ k + 1 \in 1..Len(Pipe(c)) /\ k + 1 # 1 /\ Pipe(c)'[k] = Pipe(c)[k + 1]
      BY <2>1, <2>2
    <3>2. Pipe(c)[k + 1].op = "CHATDOOR"
      BY <2>2, <3>1
    <3>3. /\ Pipe(c)[k + 1].user = u /\ k + 1 = Len(Pipe(c))
          /\ Leaves(Pipe(c)[k + 1]) => Member(c) /\ stage[c] \in {"leaving", "off"}
          /\ ~Joins(Pipe(c)[k + 1])
      BY <1>6, <3>1, <3>2 DEF ClientOK, DoorsInOrder
    <3>4. k = Len(Pipe(c)')
      BY <2>1, <3>1, <3>3
    <3> QED BY <1>3, <3>1, <3>3, <3>4
  <2> QED BY <1>1, <1>6, <2>2 DEF DoorsInOrder
<1>9. StageMeans(c)'
  BY <1>1, <1>2, <1>3, <1>5, <1>7 DEF ClientOK, StageMeans
<1>10. AnswerMeans(c)'
  <2>1. ASSUME NEW k \in 1..Len(fromServer'[c]), fromServer'[c][k] = NAK
        PROVE  FALSE
    <3>1. fromServer'[c] = q \o more
      BY <1>5, <2>1
    <3>2. \A n \in 1..Len(q \o more) : (q \o more)[n] = NAK => n \in 1..Len(q) /\ q[n] = NAK
      <4>1. NoNakIn(more)
        BY <1>3, <1>4
      <4> QED BY <4>1, NewsArrives
    <3>3. k \in 1..Len(q) /\ q[k] = NAK
      BY <2>1, <3>1, <3>2
    <3> QED BY <1>4, <1>7, <3>3 DEF ClientOK, AnswerMeans
  <2> QED BY <1>1, <1>7, <2>1 DEF AnswerMeans
<1>11. NickMeans(c)'
  <2> SUFFICES ASSUME Member(c)', stage[c] = "chatting"
               PROVE  KnownAfter(nick[c], fromServer'[c]) = NickOf(User(c))'
    BY <1>1, <1>7 DEF NickMeans
  <2>1. PICK name : name = NickOf(User(c))
    OBVIOUS
  <2>2. KnownAfter(nick[c], q) = name /\ fromServer'[c] = q \o more
    BY <1>3, <1>4, <1>5, <2>1 DEF ClientOK, NickMeans
  <2>3. CASE NickOf(User(c))' = name /\ Fixes(name, more)
    <3>1. KnownAfter(nick[c], q \o more) = name
      BY <2>2, <2>3, KnownKept DEF Fixes
    <3> QED BY <2>2, <2>3, <3>1
  <2>4. CASE \E m \in Sensible : more = <<m>> /\ LearnNick(name, m) = NickOf(User(c))'
    <3>1. PICK m \in Sensible : more = <<m>> /\ LearnNick(name, m) = NickOf(User(c))'
      BY <2>4
    <3>2. KnownAfter(nick[c], q \o <<m>>) = LearnNick(KnownAfter(nick[c], q), m)
      BY KnownAppend
    <3> QED BY <2>2, <3>1, <3>2
  <2> QED BY <1>3, <1>4, <2>1, <2>3, <2>4
<1> QED BY <1>8, <1>9, <1>10, <1>11 DEF ClientOK

(* CHATDOOR, refused or not.                                               *)
LEMMA DoorAnswered ==
  ASSUME SystemOK, ServerStep, NEW c \in Conns, ClientOK(c), WireTaken(c),
         \/ IsRefused(c, Head(Pipe(c))) \/ HasLeft(c, Head(Pipe(c)))
         \/ HasJoined(c, Head(Pipe(c)))
  PROVE  ClientOK(c)'
<1>1. /\ fromServer[c] \in Seq(Sensible) /\ out'[c] \in Seq(Sensible)
      /\ fromServer'[c] = (IF peer[c] = "up" THEN fromServer[c] \o out'[c] ELSE <<>>)
      /\ stage' = stage /\ nick' = nick
  BY ServerStepFacts DEF SystemOK, PictureTyped
<1>2. /\ peer'[c] = "up" <=> peer[c] = "up"
      /\ Attached(c) /\ Attached(c)' /\ Pipe(c) # <<>> /\ Pipe(c)' = Tail(Pipe(c))
      /\ Len(Pipe(c)) >= 1 /\ Len(Pipe(c)) \in Nat
  BY PipeTail DEF WireTaken, SystemOK
<1>3. PICK cmd : cmd = Pipe(c)[1] /\ cmd = Head(Pipe(c))
  BY <1>2, PipeTail DEF SystemOK
<1>4. cmd.op = "CHATDOOR" /\ 1 \in 1..Len(Pipe(c))
  BY <1>2, <1>3 DEF IsRefused, HasLeft, HasJoined, Joins, Leaves
<1>5. Len(Pipe(c)) = 1 /\ Pipe(c)' = <<>>
  <2>1. 1 = Len(Pipe(c))
    BY <1>3, <1>4 DEF ClientOK, DoorsInOrder
  <2> QED BY <1>2, <2>1, PipeTail DEF SystemOK
<1>6. DoorsInOrder(c)'
  <2>1. Len(Pipe(c)') = 0
    BY <1>5
  <2> QED BY <2>1 DEF DoorsInOrder
<1>7. stage[c] # "connected" /\ (peer[c] = "up" <=> stage[c] # "off")
  BY <1>2 DEF ClientOK, StageMeans
<1>8. CASE Joins(cmd)
  <2>1. /\ ~Member(c) /\ fromServer[c] = <<>> /\ stage[c] \in {"joining", "off"}
        /\ stage[c] = "joining" => nick[c] = cmd.arg
    BY <1>3, <1>4, <1>8 DEF ClientOK, DoorsInOrder
  <2>2. fromServer'[c] = IF stage[c] = "joining" THEN out'[c] ELSE <<>>
    BY <1>1, <1>7, <2>1, ConcatEmptySeq
  <2>3. CASE IsRefused(c, cmd)
    <3>1. out'[c] = <<NAK>> /\ ~Member(c)'
      BY <2>1, <2>3 DEF IsRefused
    <3>2. \A k \in 1..Len(fromServer'[c]) : k = 1 /\ stage[c] = "joining"
      BY <2>1, <2>2, <3>1
    <3>3. stage[c] = "joining" => fromServer'[c] # <<>> /\ fromServer'[c][1] = NAK
      BY <2>2, <3>1
    <3>4. AnswerMeans(c)' /\ NickMeans(c)'
      BY <1>1, <1>5, <2>1, <3>1, <3>2, <3>3 DEF AnswerMeans, NickMeans
    <3>5. StageMeans(c)'
      BY <1>1, <1>2, <1>7, <2>1, <2>2, <3>1 DEF StageMeans
    <3> QED BY <1>6, <3>4, <3>5 DEF ClientOK
  <2>4. CASE HasJoined(c, cmd)
    <3>1. out'[c] = <<ACK>> /\ Member(c)' /\ NickOf(User(c))' = cmd.arg
      BY <2>4 DEF HasJoined
    <3>2. ACK # NAK /\ \A name : LearnNick(name, ACK) = name
      BY DEF ACK, NAK, Msg, LearnNick
    <3>3. /\ \A k \in 1..Len(fromServer'[c]) : fromServer'[c][k] = ACK
          /\ stage[c] = "joining" => fromServer'[c] # <<>> /\ fromServer'[c][1] = ACK
      BY <2>1, <2>2, <3>1
    <3>4. AnswerMeans(c)'
      BY <1>1, <1>5, <3>1, <3>2, <3>3 DEF AnswerMeans
    <3>5. NickMeans(c)'
      BY <1>1, <2>1, <3>1, <3>2, <3>3 DEF NickMeans, Fixes
    <3>6. StageMeans(c)'
      BY <1>1, <1>2, <1>7, <2>1, <2>2, <3>1 DEF StageMeans
    <3> QED BY <1>6, <3>4, <3>5, <3>6 DEF ClientOK
  <2>5. ~HasLeft(c, cmd)
    BY <1>8 DEF Joins, HasLeft, Leaves
  <2> QED BY <1>3, <2>3, <2>4, <2>5
<1>9. CASE ~Joins(cmd)
  <2>1. HasLeft(c, cmd)
    BY <1>3, <1>9 DEF IsRefused, HasJoined
  <2>2. Leaves(cmd) /\ out'[c] = <<ACK>>
    BY <2>1 DEF HasLeft
  <2>3. stage[c] \in {"leaving", "off"}
    BY <1>3, <1>4, <2>2 DEF ClientOK, DoorsInOrder
  <2>4. NickMeans(c)'
    BY <1>1, <2>3 DEF NickMeans
  <2>5. StageMeans(c)'
    BY <1>1, <1>2, <1>7, <2>3 DEF StageMeans
  <2>6. AnswerMeans(c)'
    <3>1. ASSUME NEW k \in 1..Len(fromServer'[c]) PROVE fromServer'[c][k] # NAK
      <4>1. PICK q \in Seq(Sensible), more \in Seq(Sensible) : q = fromServer[c] /\ more = out'[c]
        BY <1>1
      <4>2. fromServer'[c] = q \o more
        <5>1. fromServer'[c] # <<>>
          BY <3>1
        <5> QED BY <1>1, <4>1, <5>1
      <4>3. NoNakIn(more)
        BY <2>2, <4>1 DEF NoNakIn, ACK, NAK, Msg
      <4>4. (q \o more)[k] = NAK => k \in 1..Len(q) /\ q[k] = NAK
        BY <3>1, <4>2, <4>3, NewsArrives
      <4>5. \A n \in 1..Len(q) : q[n] # NAK
        BY <2>3, <4>1 DEF ClientOK, AnswerMeans
      <4> QED BY <4>2, <4>4, <4>5
    <3> QED BY <1>1, <2>3, <3>1 DEF AnswerMeans
  <2> QED BY <1>6, <2>4, <2>5, <2>6 DEF ClientOK
<1> QED BY <1>8, <1>9

LEMMA ServerKeepsClients ==
  ASSUME SystemOK, ServerStep, \A c \in Conns : ClientOK(c)
  PROVE  \A c \in Conns : ClientOK(c)'
<1>1. DoorsMeant
  <2> SUFFICES ASSUME NEW c \in Conns, Pipe(c) # <<>> PROVE DoorMeant(Head(Pipe(c)), c)
    BY DEF DoorsMeant
  <2>1. Head(Pipe(c)) = Pipe(c)[1] /\ 1 \in 1..Len(Pipe(c))
    BY PipeTail DEF SystemOK
  <2> QED BY <2>1 DEF ClientOK, DoorsInOrder, DoorMeant
<1>2. ServerOK' /\ Server /\ ServerOK /\ NothingStray
  BY ServerStepFacts DEF SystemOK
<1>3. ASSUME NEW c \in Conns PROVE ClientOK(c)'
  <2>1. CASE StandsBy(c)
    BY <2>1, ClientStandsBy
  <2>2. CASE Answers(c)
    BY <2>2, TalkedTo, DoorAnswered DEF Answers
  <2> QED BY <1>1, <1>2, <2>1, <2>2, ServerSeen
<1> QED BY <1>3

(* What a client sends, connects or closes is its own connection's.        *)
LEMMA OthersUntouched ==
  ASSUME SystemOK, NEW c \in Conns, Client(c), NEW d \in Conns \ {c}
  PROVE  /\ WireSame(d) /\ MemberSame(d)
         /\ fromServer'[d] = fromServer[d] /\ stage'[d] = stage[d] /\ nick'[d] = nick[d]
<1>0. /\ ServerOK /\ NothingStray
      /\ fromServer \in [Conns -> Seq(Sensible)] /\ stage \in [Conns -> Stages]
      /\ nick \in [Conns -> Strings \cup {NoString}]
  BY DEF SystemOK, PictureTyped
<1>1. ASSUME NEW cmd \in Sayable(c), Send(c, cmd) PROVE WireSame(d) /\ MemberSame(d)
  BY <1>0, <1>1, SendWire
<1>2. ASSUME NEW left, Hangup(c, left)
      PROVE  /\ WireSame(d) /\ MemberSame(d)
             /\ fromServer'[d] = fromServer[d] /\ stage'[d] = stage[d] /\ nick'[d] = nick[d]
  BY <1>0, <1>2, CloseWire DEF Hangup
<1>3. ASSUME NEW n, StartChatting(c, n)
      PROVE  /\ WireSame(d) /\ MemberSame(d)
             /\ fromServer'[d] = fromServer[d] /\ stage'[d] = stage[d] /\ nick'[d] = nick[d]
  BY <1>0, <1>1, <1>3, SentIsSayable DEF StartChatting, pictureVars
<1>4. CASE Connect(c)
  BY <1>0, <1>4, ConnectWire DEF Connect, pictureVars
<1>5. CASE AskToJoin(c)
  BY <1>0, <1>1, <1>5, SentIsSayable DEF AskToJoin
<1>6. CASE JoinAnswer(c)
  BY <1>2, <1>3, <1>6 DEF JoinAnswer
<1>7. CASE HandleMessage(c)
  <2>1. \/ Send(c, [op |-> "C_WHO", user |-> NoUser, arg |-> NoString])
        \/ out' = Quiet /\ UNCHANGED <<serverVars, sock, backlog, toServer, peer>>
    BY <1>7 DEF HandleMessage
  <2>2. WireSame(d) /\ MemberSame(d)
    BY <1>0, <1>1, <2>1, SentIsSayable, StillKeeps
  <2>3. /\ \E x : fromServer' = [fromServer EXCEPT ![c] = x]
        /\ \E x : nick' = [nick EXCEPT ![c] = x]
        /\ stage' = stage
    BY <1>7 DEF HandleMessage
  <2> QED BY <1>0, <2>2, <2>3
<1>8. CASE Type(c)
  BY <1>1, <1>8, SentIsSayable DEF Type, clientVars
<1>9. CASE Quit(c)
  BY <1>0, <1>1, <1>9, SentIsSayable DEF Quit, pictureVars
<1>10. CASE ServerGone(c) \/ LeaveAnswer(c) \/ Killed(c)
  BY <1>2, <1>10 DEF ServerGone, LeaveAnswer, Killed
<1> QED BY <1>4, <1>5, <1>6, <1>7, <1>8, <1>9, <1>10 DEF Client

(* A client that ends takes only its picture along.                        *)
LEMMA HangupKeepsClient ==
  ASSUME SystemOK, NEW c \in Conns, ClientOK(c), NEW left, Hangup(c, left)
  PROVE  ClientOK(c)'
<1>1. /\ fromServer'[c] = <<>> /\ stage'[c] = "off"
      /\ fromServer \in [Conns -> Seq(Sensible)] /\ stage \in [Conns -> Stages]
  BY DEF SystemOK, PictureTyped, Hangup
<1>2. /\ peer'[c] # "up" /\ CutOf(Pipe(c)', Pipe(c)) /\ (Member(c)' <=> Member(c))
  BY CloseWire DEF Hangup, SystemOK, MemberSame
<1>3. Len(Pipe(c)) \in Nat /\ Len(Pipe(c)') \in Nat
  <2>1. ServerOK /\ ServerOK'
    BY CloseKeeps DEF Hangup, SystemOK
  <2>2. Pipe(c) \in Seq(Sayable(c)) /\ Pipe(c)' \in Seq(Sayable(c)')
    BY <2>1, OKFits, OKFitsNext DEF Fits, PipesFit
  <2> QED BY <2>2
<1>4. PICK u : u = User(c) /\ u = User(c)'
  BY UserFixed
<1>5. DoorsInOrder(c)'
  <2>1. ASSUME NEW k \in 1..Len(Pipe(c)'), Pipe(c)'[k].op = "CHATDOOR"
        PROVE  /\ Pipe(c)'[k].user = u /\ k = Len(Pipe(c)')
               /\ Leaves(Pipe(c)'[k]) => Member(c)'
               /\ Joins(Pipe(c)'[k]) => k = 1 /\ ~Member(c)'
    <3>1. k \in 1..Len(Pipe(c)) /\ Pipe(c)'[k] = Pipe(c)[k] /\ Len(Pipe(c)') <= Len(Pipe(c))
      BY <1>2, <1>3, <2>1 DEF CutOf
    <3>2. /\ Pipe(c)[k].user = u /\ k = Len(Pipe(c))
          /\ Leaves(Pipe(c)[k]) => Member(c)
          /\ Joins(Pipe(c)[k]) => k = 1 /\ ~Member(c)
      BY <1>4, <2>1, <3>1 DEF ClientOK, DoorsInOrder
    <3>3. k = Len(Pipe(c)')
      BY <1>3, <2>1, <3>1, <3>2
    <3> QED BY <1>2, <3>1, <3>2, <3>3
  <2> QED BY <1>1, <1>4, <2>1 DEF DoorsInOrder
<1>6. StageMeans(c)' /\ AnswerMeans(c)' /\ NickMeans(c)'
  BY <1>1, <1>2 DEF StageMeans, AnswerMeans, NickMeans
<1> QED BY <1>5, <1>6 DEF ClientOK

(* A command behind the others.                                            *)
LEMMA SentPipe ==
  ASSUME SystemOK, NEW c \in Conns, NEW cmd \in Sayable(c), Send(c, cmd)
  PROVE  /\ peer'[c] = peer[c] /\ (Attached(c)' <=> Attached(c)) /\ (Member(c)' <=> Member(c))
         /\ NickOf(User(c))' = NickOf(User(c))
         /\ ~Attached(c) => Pipe(c) = <<>> /\ Pipe(c)' = <<>> /\ ~Member(c)
         /\ Attached(c) =>
              /\ Len(Pipe(c)) \in Nat /\ Len(Pipe(c)') = Len(Pipe(c)) + 1
              /\ \A k \in 1..Len(Pipe(c)) : Pipe(c)'[k] = Pipe(c)[k]
              /\ Pipe(c)'[Len(Pipe(c)) + 1] = cmd
<1>1. ServerOK /\ NothingStray
  BY DEF SystemOK
<1>2. /\ MemberSame(c) /\ peer' = peer /\ (Attached(c)' <=> Attached(c))
      /\ Pipe(c)' = IF Attached(c) THEN Append(Pipe(c), cmd) ELSE Pipe(c)
  BY <1>1, SendWire
<1>3. ~Attached(c) => Pipe(c) = <<>> /\ ~Member(c)
  BY <1>1, UnattachedPipe, AttachedMember
<1>4. PICK p \in Seq(Sayable(c)) : p = Pipe(c)
  BY <1>1, OKFits DEF Fits, PipesFit
<1>5. /\ Len(p) \in Nat /\ Len(Append(p, cmd)) = Len(p) + 1
      /\ \A k \in 1..Len(p) : Append(p, cmd)[k] = p[k]
      /\ Append(p, cmd)[Len(p) + 1] = cmd
  BY AppendProperties
<1> QED BY <1>2, <1>3, <1>4, <1>5 DEF MemberSame

LEMMA ConnectKeepsClient ==
  ASSUME SystemOK, NEW c \in Conns, ClientOK(c), Connect(c)
  PROVE  ClientOK(c)'
<1>1. /\ fromServer'[c] = <<>> /\ stage'[c] = "connected"
  BY DEF SystemOK, PictureTyped, Connect, ClientOK, StageMeans
<1>2. peer'[c] = "up" /\ Pipe(c)' = <<>> /\ ~Member(c)'
  <2>1. MemberSame(c) /\ peer'[c] = "up" /\ ~Attached(c) /\ Pipe(c)' = <<>>
    BY ConnectWire DEF Connect, SystemOK
  <2> QED BY <2>1, AttachedMember DEF MemberSame, SystemOK
<1>3. Len(Pipe(c)') = 0
  BY <1>2
<1> QED BY <1>1, <1>2, <1>3 DEF ClientOK, DoorsInOrder, StageMeans, AnswerMeans, NickMeans

LEMMA AskKeepsClient ==
  ASSUME NicknamesGiven, SystemOK, NEW c \in Conns, ClientOK(c), AskToJoin(c)
  PROVE  ClientOK(c)'
<1>1. PICK door \in Cmds[c] :
        door.op = "CHATDOOR" /\ Send(c, door) /\ nick' = [nick EXCEPT ![c] = door.arg]
  BY DEF AskToJoin
<1>2. /\ fromServer'[c] = <<>> /\ stage'[c] = "joining" /\ nick'[c] = door.arg
      /\ Pipe(c) = <<>> /\ ~Member(c) /\ peer[c] = "up"
  BY <1>1 DEF AskToJoin, SystemOK, PictureTyped, ClientOK, StageMeans
<1>3. PICK u : u = User(c) /\ u = User(c)'
  BY UserFixed
<1>4. Joins(door) /\ ~Leaves(door) /\ door.user = u
  <2>1. door.arg # NoString /\ door.arg # EmptyString /\ door.user # NoUser
    BY <1>1, ClientAssumption DEF NicknamesGiven
  <2>2. door.user \in Names(c)
    BY <1>1, <2>1 DEF Names
  <2> QED BY <1>1, <1>3, <2>1, <2>2, UserIs, ServerAssumption, ClientAssumption DEF Joins, Leaves
<1>5. /\ peer'[c] = peer[c] /\ (Attached(c)' <=> Attached(c)) /\ (Member(c)' <=> Member(c))
      /\ ~Attached(c) => Pipe(c)' = <<>>
      /\ Attached(c) => Len(Pipe(c)') = 1 /\ Pipe(c)'[1] = door /\ Pipe(c)' # <<>>
  <2>1. Len(Pipe(c)) = 0
    BY <1>2
  <2>2. door \in Sayable(c)
    BY SentIsSayable
  <2>3. /\ peer'[c] = peer[c] /\ (Attached(c)' <=> Attached(c)) /\ (Member(c)' <=> Member(c))
        /\ ~Attached(c) => Pipe(c)' = <<>>
        /\ Attached(c) => Len(Pipe(c)') = Len(Pipe(c)) + 1 /\ Pipe(c)'[Len(Pipe(c)) + 1] = door
    BY <1>1, <2>2, SentPipe
  <2>4. Attached(c) => Len(Pipe(c)') = 1 /\ Pipe(c)'[1] = door
    BY <2>1, <2>3
  <2>5. Len(Pipe(c)') = 1 => Pipe(c)' # <<>>
    OBVIOUS
  <2> QED BY <2>3, <2>4, <2>5
<1>6. DoorsInOrder(c)'
  <2>1. CASE Attached(c)
    <3>3. PICK p : p = Pipe(c)'
      OBVIOUS
    <3>4. Len(p) = 1 /\ p[1] = door
      BY <1>5, <2>1, <3>3
    <3>5. \A k \in 1..Len(p) : k = 1
      BY <3>4
    <3>1. \A k \in 1..Len(Pipe(c)') : k = Len(Pipe(c)') /\ Pipe(c)'[k] = door
      BY <3>3, <3>4, <3>5, Zenon
    <3>2. /\ door.user = User(c)' /\ ~Leaves(door) /\ ~Member(c)'
          /\ fromServer'[c] = <<>> /\ stage'[c] = "joining" /\ nick'[c] = door.arg
      BY <1>2, <1>3, <1>4, <1>5
    <3> QED BY <3>1, <3>2 DEF DoorsInOrder
  <2>2. CASE ~Attached(c)
    <3>1. Len(Pipe(c)') = 0
      BY <1>5, <2>2
    <3> QED BY <3>1 DEF DoorsInOrder
  <2> QED BY <2>1, <2>2
<1>7. Len(fromServer'[c]) = 0
  BY <1>2
<1>8. StageMeans(c)' /\ AnswerMeans(c)' /\ NickMeans(c)'
  BY <1>2, <1>4, <1>5, <1>7 DEF StageMeans, AnswerMeans, NickMeans
<1> QED BY <1>6, <1>8 DEF ClientOK

(* A command that is no CHATDOOR behind others that are none.              *)
LEMMA NoDoorSent ==
  ASSUME SystemOK, NEW c \in Conns, NEW cmd \in Sayable(c), cmd.op # "CHATDOOR", Send(c, cmd),
         Attached(c) => \A k \in 1..Len(Pipe(c)) : Pipe(c)[k].op # "CHATDOOR"
  PROVE  DoorsInOrder(c)'
<1>1. /\ Attached(c)' <=> Attached(c)
      /\ ~Attached(c) => Pipe(c)' = <<>>
      /\ Attached(c) =>
              /\ Len(Pipe(c)) \in Nat /\ Len(Pipe(c)') = Len(Pipe(c)) + 1
              /\ \A k \in 1..Len(Pipe(c)) : Pipe(c)'[k] = Pipe(c)[k]
              /\ Pipe(c)'[Len(Pipe(c)) + 1] = cmd
  BY SentPipe
<1>2. ASSUME NEW k \in 1..Len(Pipe(c)') PROVE Pipe(c)'[k].op # "CHATDOOR"
  <2>1. Attached(c)
    <3>1. ~Attached(c) => Len(Pipe(c)') = 0
      BY <1>1
    <3> QED BY <1>2, <3>1
  <2>2. CASE k = Len(Pipe(c)) + 1
    BY <1>1, <2>1, <2>2
  <2>3. CASE k # Len(Pipe(c)) + 1
    <3>1. k \in 1..Len(Pipe(c))
      BY <1>1, <2>1, <2>3
    <3> QED BY <1>1, <2>1, <3>1
  <2> QED BY <2>2, <2>3
<1> QED BY <1>2 DEF DoorsInOrder

LEMMA NoDoorsWhileChatting ==
  ASSUME NEW c \in Conns, ClientOK(c), stage[c] = "chatting"
  PROVE  \A k \in 1..Len(Pipe(c)) : Pipe(c)[k].op # "CHATDOOR"
BY DEF ClientOK, DoorsInOrder, Leaves, Joins

LEMMA StartKeepsClient ==
  ASSUME SystemOK, NEW c \in Conns, ClientOK(c), stage[c] = "joining",
         NEW n \in 0..Len(fromServer[c]), StartChatting(c, n),
         \/ n # 0 /\ fromServer[c] # <<>> /\ fromServer[c][1] # NAK
         \/ n = 0 /\ Ended(c)
  PROVE  ClientOK(c)'
<1> DEFINE who == [op |-> "C_WHO", user |-> NoUser, arg |-> NoString]
<1>1. /\ fromServer[c] \in Seq(Sensible) /\ fromServer'[c] = After(c, n)
      /\ stage'[c] = "chatting" /\ nick' = nick /\ Send(c, who)
      /\ who \in Sayable(c) /\ who.op # "CHATDOOR"
  BY SentIsSayable DEF SystemOK, PictureTyped, StartChatting, pictureVars
<1> HIDE DEF who
<1>2. /\ peer'[c] = peer[c] /\ (Attached(c)' <=> Attached(c)) /\ (Member(c)' <=> Member(c))
      /\ NickOf(User(c))' = NickOf(User(c))
      /\ ~Attached(c) => Pipe(c)' = <<>> /\ ~Member(c)
  BY <1>1, SentPipe
<1>3. Attached(c) => Pipe(c) = <<>> /\ Member(c)
  <2> SUFFICES ASSUME Attached(c) PROVE Pipe(c) = <<>> /\ Member(c)
    OBVIOUS
  <2>1. fromServer[c] # <<>> /\ fromServer[c][1] # NAK
    BY DEF Ended
  <2>2. ~(Pipe(c) # <<>> /\ Joins(Pipe(c)[1]))
    <3> SUFFICES ASSUME Pipe(c) # <<>>, Joins(Pipe(c)[1]) PROVE FALSE
      OBVIOUS
    <3>1. 1 \in 1..Len(Pipe(c))
      BY PipeTail DEF SystemOK
    <3> QED BY <2>1, <3>1 DEF ClientOK, DoorsInOrder, Joins
  <2> QED BY <2>1, <2>2 DEF ClientOK, AnswerMeans
<1>4. DoorsInOrder(c)'
  <2>1. Attached(c) => Len(Pipe(c)) = 0
    BY <1>3
  <2> QED BY <1>1, <2>1, NoDoorSent
<1>5. PICK q \in Seq(Sensible), r \in Seq(Sensible) :
        /\ q = fromServer[c] /\ r = fromServer'[c] /\ Len(r) = Len(q) - n
        /\ n \in 0..Len(q) /\ Len(q) \in Nat
        /\ \A k \in 1..(Len(q) - n) : r[k] = q[n + k]
  <2>1. PICK q \in Seq(Sensible) : q = fromServer[c]
    BY <1>1
  <2>2. PICK r : r = SubSeq(q, n + 1, Len(q))
    OBVIOUS
  <2>3. n \in 0..Len(q) /\ Len(q) \in Nat /\ r = fromServer'[c]
    BY <1>1, <2>1, <2>2 DEF After
  <2>4. /\ r \in Seq(Sensible) /\ Len(r) = Len(q) - n
        /\ \A k \in 1..(Len(q) - n) : r[k] = q[n + k]
    <3>1. n \in 0..Len(q) /\ q \in Seq(Sensible)
      BY <2>1, <2>3
    <3> QED BY <2>2, <3>1, RestOf, Zenon
  <2> QED BY <2>1, <2>3, <2>4
<1>6. ASSUME NEW k \in 1..Len(r) PROVE n + k \in 1..Len(q) /\ r[k] = q[n + k] /\ (n # 0 => n + k # 1)
  BY <1>5
<1>7. \A k \in 1..Len(r) : r[k] # NAK
  <2> SUFFICES ASSUME NEW k \in 1..Len(r), r[k] = NAK PROVE FALSE
    OBVIOUS
  <2>1. n # 0
    <3>1. n = 0 => Len(q) = 0
      BY <1>5 DEF Ended
    <3> QED BY <1>5, <3>1
  <2>2. n + k \in 1..Len(q) /\ q[n + k] = NAK /\ n + k # 1
    BY <1>6, <2>1
  <2> QED BY <1>5, <2>2 DEF ClientOK, AnswerMeans
<1>8. Member(c) => KnownAfter(nick[c], r) = NickOf(User(c))
  <2> SUFFICES ASSUME Member(c) PROVE KnownAfter(nick[c], r) = NickOf(User(c))
    OBVIOUS
  <2>1. PICK name : name = nick[c]
    OBVIOUS
  <2>2. name = NickOf(User(c)) /\ \A k \in 1..Len(q) : LearnNick(name, q[k]) = name
    BY <1>5, <2>1 DEF ClientOK, NickMeans, Fixes
  <2>3. \A k \in 1..Len(r) : LearnNick(name, r[k]) = name
    BY <1>6, <2>2
  <2>4. KnownAfter(name, r) = name
    BY <2>3, KnownFixed
  <2> QED BY <2>1, <2>2, <2>4
<1>9. StageMeans(c)'
  BY <1>1, <1>2, <1>3 DEF ClientOK, StageMeans
<1>10. AnswerMeans(c)' /\ NickMeans(c)'
  BY <1>1, <1>2, <1>5, <1>7, <1>8 DEF AnswerMeans, NickMeans
<1> QED BY <1>4, <1>9, <1>10 DEF ClientOK

LEMMA AnswerKeepsClient ==
  ASSUME SystemOK, NEW c \in Conns, ClientOK(c), JoinAnswer(c)
  PROVE  ClientOK(c)'
<1>1. fromServer[c] \in Seq(Sensible) /\ Len(fromServer[c]) \in Nat /\ stage[c] = "joining"
  BY DEF SystemOK, PictureTyped, JoinAnswer
<1>2. CASE \E n \in 1..Len(fromServer[c]) :
             IF Head(fromServer[c]) = NAK THEN Hangup(c, After(c, n)) ELSE StartChatting(c, n)
  <2>1. PICK n \in 1..Len(fromServer[c]) :
          IF Head(fromServer[c]) = NAK THEN Hangup(c, After(c, n)) ELSE StartChatting(c, n)
    BY <1>2
  <2>2. n \in 0..Len(fromServer[c]) /\ n # 0 /\ fromServer[c] # <<>>
        /\ Head(fromServer[c]) = fromServer[c][1]
    BY <1>1, <2>1
  <2> QED BY <1>1, <2>1, <2>2, HangupKeepsClient, StartKeepsClient
<1>3. CASE Ended(c) /\ StartChatting(c, 0)
  <2>1. 0 \in 0..Len(fromServer[c])
    BY <1>1
  <2> QED BY <1>1, <1>3, <2>1, StartKeepsClient
<1> QED BY <1>2, <1>3 DEF JoinAnswer

LEMMA HandleKeepsClient ==
  ASSUME SystemOK, NEW c \in Conns, ClientOK(c), HandleMessage(c)
  PROVE  ClientOK(c)'
<1> DEFINE who == [op |-> "C_WHO", user |-> NoUser, arg |-> NoString]
<1>1. PICK q \in Seq(Sensible), m \in Sensible : q = fromServer[c] /\ m = Head(q) /\ q # <<>>
  BY DEF SystemOK, PictureTyped, HandleMessage
<1>2. /\ nick'[c] = LearnNick(nick[c], m) /\ stage'[c] = "chatting" /\ stage[c] = "chatting"
      /\ fromServer'[c] = After(c, 1)
      /\ \/ Send(c, who)
         \/ out' = Quiet /\ UNCHANGED <<serverVars, sock, backlog, toServer, peer>>
      /\ who \in Sayable(c) /\ who.op # "CHATDOOR"
  BY <1>1, SentIsSayable DEF SystemOK, PictureTyped, HandleMessage
<1> HIDE DEF who
<1>3. /\ fromServer'[c] = Tail(q) /\ Tail(q) \in Seq(Sensible) /\ Len(Tail(q)) = Len(q) - 1
      /\ \A k \in 1..Len(Tail(q)) : Tail(q)[k] = q[k + 1]
      /\ Len(q) \in Nat
  <2>1. 1 \in 0..Len(q)
    BY <1>1
  <2>2. SubSeq(q, 2, Len(q)) = Tail(q)
    BY <1>1, TailIsSubSeq
  <2> QED BY <1>1, <1>2, <2>2, HeadTailProperties DEF After
<1>4. /\ DoorsInOrder(c)' /\ (peer'[c] = "up" <=> peer[c] = "up")
      /\ (Attached(c)' <=> Attached(c)) /\ (Member(c)' <=> Member(c))
      /\ NickOf(User(c))' = NickOf(User(c))
  <2>1. CASE Send(c, who)
    <3>1. DoorsInOrder(c)'
      BY <1>2, <2>1, NoDoorSent, NoDoorsWhileChatting
    <3> QED BY <1>2, <2>1, <3>1, SentPipe
  <2>2. CASE out' = Quiet /\ UNCHANGED <<serverVars, sock, backlog, toServer, peer>>
    <3>1. WireSame(c) /\ MemberSame(c)
      BY <2>2, StillKeeps DEF SystemOK
    <3>2. \A k \in 1..Len(Pipe(c)') : Pipe(c)'[k].op # "CHATDOOR"
      BY <1>2, <3>1, NoDoorsWhileChatting DEF WireSame
    <3>3. DoorsInOrder(c)'
      BY <3>2 DEF DoorsInOrder
    <3> QED BY <3>1, <3>3 DEF WireSame, MemberSame
  <2> QED BY <1>2, <2>1, <2>2
<1>5. StageMeans(c)'
  BY <1>2, <1>4 DEF ClientOK, StageMeans
<1>6. AnswerMeans(c)'
  <2>1. ASSUME NEW k \in 1..Len(Tail(q)) PROVE Tail(q)[k] # NAK
    <3>1. k + 1 \in 1..Len(q) /\ Tail(q)[k] = q[k + 1]
      BY <1>3
    <3> QED BY <1>1, <1>2, <3>1 DEF ClientOK, AnswerMeans
  <2> QED BY <1>2, <1>3, <2>1 DEF AnswerMeans
<1>7. NickMeans(c)'
  <2>1. KnownAfter(nick[c], q) = KnownAfter(LearnNick(nick[c], m), Tail(q))
    BY <1>1, KnownHead
  <2>2. Member(c) => KnownAfter(nick[c], q) = NickOf(User(c))
    BY <1>1, <1>2 DEF ClientOK, NickMeans
  <2> QED BY <1>2, <1>3, <1>4, <2>1, <2>2 DEF NickMeans
<1> QED BY <1>4, <1>5, <1>6, <1>7 DEF ClientOK

LEMMA TypeKeepsClient ==
  ASSUME SystemOK, NEW c \in Conns, ClientOK(c), Type(c)
  PROVE  ClientOK(c)'
<1>1. PICK cmd \in Typed(c) : Send(c, cmd)
  BY DEF Type
<1>2. cmd \in Sayable(c) /\ cmd.op # "CHATDOOR"
  BY SentIsSayable DEF Typed
<1>3. stage[c] = "chatting" /\ UNCHANGED <<fromServer, stage, nick>>
  BY DEF Type, clientVars
<1>4. DoorsInOrder(c)'
  BY <1>1, <1>2, <1>3, NoDoorSent, NoDoorsWhileChatting
<1>5. /\ peer'[c] = peer[c] /\ (Attached(c)' <=> Attached(c)) /\ (Member(c)' <=> Member(c))
      /\ NickOf(User(c))' = NickOf(User(c))
  BY <1>1, <1>2, SentPipe
<1> QED BY <1>3, <1>4, <1>5 DEF ClientOK, StageMeans, AnswerMeans, NickMeans

LEMMA QuitKeepsClient ==
  ASSUME SystemOK, NEW c \in Conns, ClientOK(c), Quit(c)
  PROVE  ClientOK(c)'
<1>1. PICK cmd : cmd = [op |-> "CHATDOOR", user |-> User(c), arg |-> NoString]
  OBVIOUS
<1>2. PICK u : u = User(c) /\ u = User(c)'
  BY UserFixed
<1>3. /\ cmd \in Sayable(c) /\ cmd.user = u /\ Leaves(cmd) /\ ~Joins(cmd)
      /\ Send(c, cmd)
  BY <1>1, <1>2, SentIsSayable DEF Quit, Leaves, Joins
<1>4. /\ stage[c] = "chatting" /\ stage'[c] = "leaving" /\ nick' = nick
      /\ fromServer' = fromServer
  BY DEF Quit, pictureVars, SystemOK, PictureTyped
<1>5. /\ peer'[c] = peer[c] /\ (Attached(c)' <=> Attached(c)) /\ (Member(c)' <=> Member(c))
      /\ ~Attached(c) => Pipe(c)' = <<>>
      /\ Attached(c) =>
           /\ Len(Pipe(c)) \in Nat /\ Len(Pipe(c)') = Len(Pipe(c)) + 1
           /\ \A k \in 1..Len(Pipe(c)) : Pipe(c)'[k] = Pipe(c)[k]
           /\ Pipe(c)'[Len(Pipe(c)) + 1] = cmd
  BY <1>3, SentPipe
<1>6. DoorsInOrder(c)'
  <2>1. ASSUME NEW k \in 1..Len(Pipe(c)'), Pipe(c)'[k].op = "CHATDOOR"
        PROVE  Attached(c) /\ k = Len(Pipe(c)') /\ Pipe(c)'[k] = cmd
    <3>1. Attached(c)
      <4>1. ~Attached(c) => Len(Pipe(c)') = 0
        BY <1>5
      <4> QED BY <2>1, <4>1
    <3>2. CASE k = Len(Pipe(c)) + 1
      BY <1>5, <3>1, <3>2
    <3>3. CASE k # Len(Pipe(c)) + 1
      <4>1. k \in 1..Len(Pipe(c))
        BY <1>5, <3>1, <3>3
      <4>2. Pipe(c)[k].op = "CHATDOOR"
        BY <1>5, <2>1, <3>1, <4>1
      <4> QED BY <1>4, <4>1, <4>2, NoDoorsWhileChatting
    <3> QED BY <3>2, <3>3
  <2>2. Attached(c) => Member(c)'
    BY <1>4, <1>5 DEF ClientOK, StageMeans
  <2> QED BY <1>2, <1>3, <1>4, <2>1, <2>2 DEF DoorsInOrder
<1>7. StageMeans(c)' /\ AnswerMeans(c)' /\ NickMeans(c)'
  BY <1>4, <1>5 DEF ClientOK, StageMeans, AnswerMeans, NickMeans
<1> QED BY <1>6, <1>7 DEF ClientOK

LEMMA ClientKeepsClients ==
  ASSUME NicknamesGiven, SystemOK, NEW c \in Conns, Client(c), \A d \in Conns : ClientOK(d)
  PROVE  \A d \in Conns : ClientOK(d)'
<1>1. ASSUME NEW d \in Conns \ {c} PROVE ClientOK(d)'
  BY OthersUntouched, Untouched
<1>2. ClientOK(c)'
  <2>1. CASE ServerGone(c) \/ LeaveAnswer(c) \/ Killed(c)
    <3>1. \E left : Hangup(c, left)
      BY <2>1 DEF ServerGone, LeaveAnswer, Killed
    <3> QED BY <3>1, HangupKeepsClient
  <2>2. CASE Connect(c) \/ AskToJoin(c) \/ JoinAnswer(c)
    BY <2>2, ConnectKeepsClient, AskKeepsClient, AnswerKeepsClient
  <2>3. CASE HandleMessage(c) \/ Type(c) \/ Quit(c)
    BY <2>3, HandleKeepsClient, TypeKeepsClient, QuitKeepsClient
  <2> QED BY <2>1, <2>2, <2>3 DEF Client
<1> QED BY <1>1, <1>2

ClientsOK == SystemOK /\ \A c \in Conns : ClientOK(c)

LEMMA ClientsOKNext ==
  ASSUME NicknamesGiven, ClientsOK, [SystemNext]_systemVars
  PROVE  ClientsOK'
<1> USE DEF ClientsOK
<1>1. SystemOK'
  BY SystemOKNext
<1>2. CASE ServerStep
  BY <1>1, <1>2, ServerKeepsClients
<1>3. CASE \E c \in Conns : Client(c)
  BY <1>1, <1>3, ClientKeepsClients
<1>4. CASE UNCHANGED systemVars
  <2>1. ASSUME NEW c \in Conns PROVE ClientOK(c)'
    <3>1. UNCHANGED <<serverVars, sock, backlog, toServer, peer>>
          /\ UNCHANGED <<fromServer, stage, nick>>
      BY <1>4 DEF systemVars, vars, serverVars, clientVars
    <3>2. (Queued(c)' <=> Queued(c)) /\ ServerOK /\ ServerOK'
      BY <1>1, <3>1 DEF Queued, SystemOK
    <3>3. WireSame(c) /\ MemberSame(c)
      BY <3>1, <3>2, ProgramWireSame, ProgramMemberSame
    <3> QED BY <3>1, <3>3, Untouched
  <2> QED BY <1>1, <2>1
<1> QED BY <1>2, <1>3, <1>4 DEF SystemNext

LEMMA ClientsOKInit == SystemInit => ClientsOK
<1> SUFFICES ASSUME SystemInit PROVE ClientsOK
  OBVIOUS
<1>1. SystemOK /\ Init /\ ServerOK /\ NothingStray
  BY SystemOKInit DEF SystemInit, SystemOK
<1>2. ASSUME NEW c \in Conns PROVE ClientOK(c)
  <2>1. stage[c] = "off" /\ fromServer[c] = <<>> /\ peer[c] = "idle"
    BY <1>1 DEF SystemInit, Init
  <2>2. ~Attached(c)
    BY <1>1, ServerAssumption DEF Init, Attached, Accepted, Queued
  <2>3. Pipe(c) = <<>> /\ Len(Pipe(c)) = 0 /\ Len(fromServer[c]) = 0
    BY <1>1, <2>1, <2>2, UnattachedPipe
  <2> QED BY <2>1, <2>2, <2>3 DEF ClientOK, DoorsInOrder, StageMeans, AnswerMeans, NickMeans
<1> QED BY <1>1, <1>2 DEF ClientsOK

LEMMA ClientsAlwaysOK ==
  ASSUME NicknamesGiven
  PROVE  SystemSpec => []ClientsOK
BY ClientsOKInit, ClientsOKNext, PTL DEF SystemSpec

(* When every client joins under some nickname, the answer to a leave is   *)
(* never a NAK (client.c:394), whatever the others do before the leave     *)
(* arrives: LeaveIsNotRefused.                                             *)
THEOREM LeaveIsNeverRefused ==
  ASSUME NicknamesGiven
  PROVE  SystemSpec => []LeaveIsNotRefused
<1>1. ClientsOK => LeaveIsNotRefused
  BY DEF ClientsOK, ClientOK, AnswerMeans, LeaveIsNotRefused
<1> QED BY <1>1, ClientsAlwaysOK, PTL

(* When every client joins under some nickname, the nickname a client      *)
(* shows becomes, with the messages under way, the one the server has for  *)
(* its user: NickCatchesUp.                                                *)
THEOREM NickAlwaysCatchesUp ==
  ASSUME NicknamesGiven
  PROVE  SystemSpec => []NickCatchesUp
<1>1. ClientsOK => NickCatchesUp
  BY DEF ClientsOK, ClientOK, NickMeans, NickCatchesUp, InRoom, Member, NickToCome
<1> QED BY <1>1, ClientsAlwaysOK, PTL

-----------------------------------------------------------------------------
(* What the sidebar will show after a sequence of messages.                *)

LastList(q, names) ==
  \E n \in 1..Len(q) :
    /\ Lists(q[n]) /\ NamesIn(q[n]) = names
    /\ \A j \in (n + 1)..Len(q) : ~Lists(q[j])

(* A sidebar that shows old will show names when q was handled.            *)
Shows(old, q, names) ==
  \/ LastList(q, names)
  \/ NoList(q) /\ old = names

LEMMA ShowsKept ==
  ASSUME NEW q \in Seq(Sensible), NEW more \in Seq(Sensible), NoList(more),
         NEW old, NEW names, Shows(old, q, names)
  PROVE  Shows(old, q \o more, names)
<1> DEFINE all == q \o more
<1>1. /\ Len(q) \in Nat /\ Len(more) \in Nat /\ Len(all) = Len(q) + Len(more)
      /\ \A k \in 1..Len(q) : all[k] = q[k]
      /\ \A k \in (Len(q) + 1)..Len(all) : k - Len(q) \in 1..Len(more) /\ all[k] = more[k - Len(q)]
  OBVIOUS
<1> HIDE DEF all
<1>2. \A k \in (Len(q) + 1)..Len(all) : ~Lists(all[k])
  BY <1>1 DEF NoList
<1>3. CASE LastList(q, names)
  <2>1. PICK n \in 1..Len(q) : /\ Lists(q[n]) /\ NamesIn(q[n]) = names
                               /\ \A j \in (n + 1)..Len(q) : ~Lists(q[j])
    BY <1>3 DEF LastList
  <2>2. n \in 1..Len(all) /\ all[n] = q[n]
    BY <1>1
  <2>3. ASSUME NEW j \in (n + 1)..Len(all) PROVE ~Lists(all[j])
    <3>1. CASE j <= Len(q)
      <4>1. j \in (n + 1)..Len(q) /\ j \in 1..Len(q)
        BY <1>1, <3>1
      <4> QED BY <1>1, <2>1, <4>1
    <3>2. CASE j > Len(q)
      <4>1. j \in (Len(q) + 1)..Len(all)
        BY <1>1, <3>2
      <4> QED BY <1>2, <4>1
    <3> QED BY <1>1, <3>1, <3>2
  <2>4. LastList(all, names)
    BY <2>1, <2>2, <2>3 DEF LastList
  <2> QED BY <2>4 DEF Shows, all
<1>4. CASE NoList(q) /\ old = names
  <2>1. ASSUME NEW k \in 1..Len(all) PROVE ~Lists(all[k])
    <3>1. k \in 1..Len(q) \/ k \in (Len(q) + 1)..Len(all)
      BY <1>1
    <3> QED BY <1>1, <1>2, <1>4, <3>1 DEF NoList
  <2> QED BY <1>4, <2>1 DEF Shows, NoList, all
<1> QED BY <1>3, <1>4 DEF Shows

LEMMA ShowsNew ==
  ASSUME NEW q \in Seq(Sensible), NEW m \in Sensible, Lists(m), NEW old
  PROVE  Shows(old, q \o <<m>>, NamesIn(m))
<1>1. PICK all, n : all = q \o <<m>> /\ n = Len(q) + 1
  OBVIOUS
<1>2. n \in 1..Len(all) /\ all[n] = m /\ Len(all) = n /\ n \in Nat
  BY <1>1
<1>3. \A j \in (n + 1)..Len(all) : FALSE
  BY <1>2
<1>4. LastList(all, NamesIn(m))
  BY <1>2, <1>3 DEF LastList
<1> QED BY <1>1, <1>4 DEF Shows

LEMMA ShowsHead ==
  ASSUME NEW q \in Seq(Sensible), q # <<>>, NEW old, NEW names, Shows(old, q, names)
  PROVE  Shows(LearnNames(old, Head(q)), Tail(q), names)
<1> DEFINE t == Tail(q)
<1>1. /\ Len(q) \in Nat /\ Len(t) = Len(q) - 1 /\ q[1] = Head(q) /\ Len(q) >= 1
      /\ \A k \in 1..Len(t) : k + 1 \in 2..Len(q) /\ t[k] = q[k + 1]
  OBVIOUS
<1> HIDE DEF t
<1>2. LearnNames(old, q[1]) = IF Lists(q[1]) THEN NamesIn(q[1]) ELSE old
  BY DEF LearnNames, Lists, NamesIn
<1>3. CASE LastList(q, names)
  <2>1. PICK n \in 1..Len(q) : /\ Lists(q[n]) /\ NamesIn(q[n]) = names
                               /\ \A j \in (n + 1)..Len(q) : ~Lists(q[j])
    BY <1>3 DEF LastList
  <2>2. CASE n = 1
    <3>1. NoList(t)
      BY <1>1, <2>1, <2>2 DEF NoList
    <3> QED BY <1>1, <1>2, <2>1, <2>2, <3>1 DEF Shows, t
  <2>3. CASE n # 1
    <3>1. n - 1 \in 1..Len(t) /\ t[n - 1] = q[n]
      <4>1. n - 1 \in 1..Len(t) /\ (n - 1) + 1 = n
        BY <1>1, <2>3
      <4> QED BY <1>1, <4>1
    <3>2. PICK p \in 1..Len(t) : p = n - 1 /\ t[p] = q[n]
      BY <3>1
    <3>3. ASSUME NEW j \in (p + 1)..Len(t) PROVE ~Lists(t[j])
      <4>1. j \in 1..Len(t) /\ j + 1 \in (n + 1)..Len(q)
        BY <1>1, <3>2
      <4> QED BY <1>1, <2>1, <4>1
    <3>4. LastList(t, names)
      BY <2>1, <3>2, <3>3 DEF LastList
    <3> QED BY <3>4 DEF Shows, t
  <2> QED BY <2>2, <2>3
<1>4. CASE NoList(q) /\ old = names
  <2>1. ~Lists(q[1]) /\ \A k \in 1..Len(t) : ~Lists(t[k])
    BY <1>1, <1>4 DEF NoList
  <2> QED BY <1>1, <1>2, <1>4, <2>1 DEF Shows, NoList, t
<1> QED BY <1>3, <1>4 DEF Shows

LEMMA AskKept ==
  ASSUME NEW q \in Seq(Sensible), NEW more \in Seq(Sensible), WillAsk(q) \/ WillAsk(more)
  PROVE  WillAsk(q \o more)
<1> DEFINE all == q \o more
<1>1. /\ Len(q) \in Nat /\ Len(more) \in Nat /\ Len(all) = Len(q) + Len(more)
      /\ \A k \in 1..Len(q) : k \in 1..Len(all) /\ all[k] = q[k]
      /\ \A k \in 1..Len(more) : k + Len(q) \in 1..Len(all) /\ all[k + Len(q)] = more[k]
  OBVIOUS
<1> HIDE DEF all
<1>2. WillAsk(all)
  BY <1>1 DEF WillAsk
<1> QED BY <1>2 DEF all

LEMMA AskHead ==
  ASSUME NEW q \in Seq(Sensible), q # <<>>, WillAsk(q), ~AsksWho(Head(q))
  PROVE  WillAsk(Tail(q))
<1>1. PICK k \in 1..Len(q) : AsksWho(q[k])
  BY DEF WillAsk
<1>2. k # 1
  BY <1>1
<1>3. k - 1 \in 1..Len(Tail(q)) /\ Tail(q)[k - 1] = q[k]
  BY <1>2
<1> QED BY <1>1, <1>3 DEF WillAsk

-----------------------------------------------------------------------------
(* The invariant of the sidebar.                                           *)

WhoUnderWay(c) == \E k \in 1..Len(Pipe(c)) : Asks(Pipe(c)[k])

(* While a client is in the room, its question is on its way to the server, *)
(* or a message that makes it ask is on its way to the client, or the      *)
(* messages on their way make its sidebar what the room is now.            *)
SidebarMeans(c) ==
  stage[c] = "chatting" /\ Member(c) =>
    \/ WhoUnderWay(c)
    \/ WillAsk(fromServer[c])
    \/ Shows(culist[c], fromServer[c], NamesInRoom)

SidebarOK == ClientsOK /\ NobodyBans /\ \A c \in Conns : SidebarMeans(c)

(* What is under way to the server only shortens by a step of the server.  *)
LEMMA ServerNobodyBans ==
  ASSUME SystemOK, SystemOK', ServerStep, NobodyBans
  PROVE  NobodyBans'
<1> SUFFICES ASSUME NEW c \in Conns PROVE NoBan(Pipe(c)')
  BY DEF NobodyBans
<1>0. ServerOK /\ ServerOK' /\ NothingStray /\ NothingStray' /\ Server
  BY ServerStepFacts DEF SystemOK
<1>1. CASE Pipe(c)' = <<>>
  BY <1>1 DEF NoBan
<1>2. CASE Pipe(c)' = Pipe(c)
  BY <1>2 DEF NobodyBans
<1>3. CASE WireTaken(c)
  <2>1. /\ Len(Pipe(c)) \in Nat /\ Len(Tail(Pipe(c))) = Len(Pipe(c)) - 1
        /\ \A k \in 1..Len(Tail(Pipe(c))) : Tail(Pipe(c))[k] = Pipe(c)[k + 1]
    BY <1>0, <1>3, PipeTail DEF WireTaken
  <2>2. ASSUME NEW k \in 1..Len(Tail(Pipe(c))) PROVE Tail(Pipe(c))[k].op # "C_BAN"
    <3>1. k + 1 \in 1..Len(Pipe(c))
      BY <2>1
    <3> QED BY <2>1, <3>1 DEF NobodyBans, NoBan
  <2> QED BY <1>3, <2>2 DEF WireTaken, NoBan
<1>4. CASE WireKept(c)
  <2>1. ~Attached(c)' => Pipe(c)' = <<>>
    BY <1>0, UnattachedPipeNext
  <2> QED BY <1>1, <1>2, <1>4, <2>1 DEF WireKept
<1> QED BY <1>0, <1>3, <1>4, ServerWire

(* No client sends the command.                                            *)
LEMMA ClientNobodyBans ==
  ASSUME SystemOK, SystemOK', NEW c \in Conns, Client(c), NobodyBans
  PROVE  NobodyBans'
<1> SUFFICES ASSUME NEW d \in Conns PROVE NoBan(Pipe(d)')
  BY DEF NobodyBans
<1>0. ServerOK /\ ServerOK' /\ NothingStray
  BY DEF SystemOK
<1>1. CASE d # c
  BY <1>1, OthersUntouched DEF WireSame, NobodyBans
<1>2. NoBan(Pipe(c)')
  <2>1. ASSUME NEW cmd \in Sayable(c), Send(c, cmd), cmd.op # "C_BAN"
        PROVE  NoBan(Pipe(c)')
    <3>1. CASE ~Attached(c)
      <4>1. Pipe(c)' = <<>>
        BY <2>1, <3>1, SentPipe
      <4> QED BY <4>1 DEF NoBan
    <3>2. CASE Attached(c)
      <4>1. ASSUME NEW k \in 1..Len(Pipe(c)') PROVE Pipe(c)'[k].op # "C_BAN"
        <5>1. /\ Len(Pipe(c)) \in Nat /\ Len(Pipe(c)') = Len(Pipe(c)) + 1
              /\ \A j \in 1..Len(Pipe(c)) : Pipe(c)'[j] = Pipe(c)[j]
              /\ Pipe(c)'[Len(Pipe(c)) + 1] = cmd
          BY <2>1, <3>2, SentPipe
        <5>2. k \in 1..Len(Pipe(c)) \/ k = Len(Pipe(c)) + 1
          BY <5>1
        <5> QED BY <2>1, <5>1, <5>2 DEF NobodyBans, NoBan
      <4> QED BY <4>1 DEF NoBan
    <3> QED BY <3>1, <3>2
  <2>2. ASSUME NEW left, Hangup(c, left)
        PROVE  NoBan(Pipe(c)')
    <3>1. CutOf(Pipe(c)', Pipe(c))
      BY <1>0, <2>2, CloseWire DEF Hangup
    <3>2. Len(Pipe(c)) \in Nat /\ Len(Pipe(c)') \in Nat
      <4>1. Pipe(c) \in Seq(Sayable(c)) /\ Pipe(c)' \in Seq(Sayable(c)')
        BY <1>0, OKFits, OKFitsNext DEF Fits, PipesFit
      <4> QED BY <4>1
    <3> QED BY <3>1, <3>2 DEF CutOf, NobodyBans, NoBan
  <2>3. CASE Connect(c)
    <3>1. Pipe(c)' = <<>>
      BY <1>0, <2>3, ConnectWire DEF Connect
    <3> QED BY <3>1 DEF NoBan
  <2>4. PICK who : who = [op |-> "C_WHO", user |-> NoUser, arg |-> NoString]
    OBVIOUS
  <2>5. who \in Sayable(c) /\ who.op # "C_BAN"
    BY <2>4, SentIsSayable
  <2>6. CASE AskToJoin(c)
    <3>1. PICK door \in Cmds[c] : door.op = "CHATDOOR" /\ Send(c, door)
      BY <2>6 DEF AskToJoin
    <3>2. door \in Sayable(c) /\ door.op # "C_BAN"
      BY <3>1, SentIsSayable
    <3> QED BY <2>1, <3>1, <3>2
  <2>7. CASE JoinAnswer(c)
    <3>1. (\E left : Hangup(c, left)) \/ Send(c, who)
      BY <2>4, <2>7 DEF JoinAnswer, StartChatting
    <3> QED BY <2>1, <2>2, <2>5, <3>1
  <2>8. CASE HandleMessage(c)
    <3>1. \/ Send(c, who)
          \/ out' = Quiet /\ UNCHANGED <<serverVars, sock, backlog, toServer, peer>>
      BY <2>4, <2>8 DEF HandleMessage
    <3>2. CASE out' = Quiet /\ UNCHANGED <<serverVars, sock, backlog, toServer, peer>>
      BY <1>0, <3>2, StillKeeps DEF WireSame, NobodyBans
    <3> QED BY <2>1, <2>5, <3>1, <3>2
  <2>9. CASE Type(c)
    <3>1. PICK cmd \in Typed(c) : Send(c, cmd)
      BY <2>9 DEF Type
    <3>2. cmd \in Sayable(c) /\ cmd.op # "C_BAN"
      BY SentIsSayable DEF Typed
    <3> QED BY <2>1, <3>1, <3>2
  <2>10. CASE Quit(c)
    <3>1. PICK cmd : cmd = [op |-> "CHATDOOR", user |-> User(c), arg |-> NoString]
      OBVIOUS
    <3>2. cmd \in Sayable(c) /\ cmd.op # "C_BAN" /\ Send(c, cmd)
      BY <2>10, <3>1, SentIsSayable DEF Quit
    <3> QED BY <2>1, <3>2
  <2>11. CASE ServerGone(c) \/ LeaveAnswer(c) \/ Killed(c)
    BY <2>2, <2>11 DEF ServerGone, LeaveAnswer, Killed
  <2> QED BY <2>3, <2>6, <2>7, <2>8, <2>9, <2>10, <2>11 DEF Client
<1> QED BY <1>1, <1>2

(* A step of the server: the room changed and the client will ask; or its  *)
(* question was answered; or nothing on the way became untrue.             *)
LEMMA ServerKeepsSidebar ==
  ASSUME SystemOK, SystemOK', ServerStep, \A d \in Conns : ClientOK(d), NobodyBans,
         NEW c \in Conns, SidebarMeans(c)
  PROVE  SidebarMeans(c)'
<1>0. /\ ServerOK /\ ServerOK' /\ NothingStray /\ Server
      /\ stage' = stage /\ culist' = culist
      /\ fromServer' = [d \in Conns |->
                          IF peer[d] = "up" THEN fromServer[d] \o out'[d] ELSE <<>>]
  BY ServerStepFacts DEF SystemOK
<1> SUFFICES ASSUME stage'[c] = "chatting", Member(c)'
             PROVE  \/ WhoUnderWay(c)'
                    \/ WillAsk(fromServer'[c])
                    \/ Shows(culist'[c], fromServer'[c], NamesInRoom')
  BY DEF SidebarMeans
<1>1. DoorsMeant
  <2> SUFFICES ASSUME NEW d \in Conns, Pipe(d) # <<>> PROVE DoorMeant(Head(Pipe(d)), d)
    BY DEF DoorsMeant
  <2>1. Head(Pipe(d)) = Pipe(d)[1] /\ 1 \in 1..Len(Pipe(d))
    BY <1>0, PipeTail
  <2> QED BY <2>1 DEF ClientOK, DoorsInOrder, DoorMeant
<1>2. stage[c] = "chatting" /\ Attached(c)' /\ peer[c] = "up"
  <2>1. stage[c] = "chatting" /\ Attached(c)'
    BY <1>0, AttachedMemberNext
  <2> QED BY <2>1 DEF ClientOK, StageMeans
<1>3. Member(c)
  <2>1. CASE StandsBy(c)
    BY <2>1 DEF StandsBy
  <2>2. CASE Answers(c)
    <3>1. Pipe(c) # <<>> /\ Head(Pipe(c)) = Pipe(c)[1] /\ 1 \in 1..Len(Pipe(c))
      BY <1>0, <2>2, PipeTail DEF Answers, WireTaken
    <3>2. Head(Pipe(c)).op # "CHATDOOR"
      BY <1>2, <3>1, NoDoorsWhileChatting
    <3> QED BY <2>2, <3>2 DEF Answers, Talks, IsRefused, HasLeft, HasJoined, Joins, Leaves
  <2> QED BY <1>0, <1>1, <2>1, <2>2, ServerSeen
<1>4. PICK q \in Seq(Sensible), more \in Seq(Sensible) :
        q = fromServer[c] /\ more = out'[c] /\ fromServer'[c] = q \o more
  BY <1>0, <1>2, ServerStepFacts DEF SystemOK, PictureTyped
<1>5. CASE NamesInRoom' # NamesInRoom
  <2>1. WillAsk(more)
    BY <1>0, <1>1, <1>3, <1>4, <1>5, ChangeIsTold
  <2> QED BY <1>4, <2>1, AskKept
<1>6. CASE NamesInRoom' = NamesInRoom
  <2>1. CASE IsTrueList(more)
    <3>1. PICK m \in Sensible : more = <<m>> /\ Lists(m) /\ NamesIn(m) = NamesInRoom
      BY <2>1 DEF IsTrueList
    <3>2. Shows(culist[c], q \o <<m>>, NamesIn(m))
      BY <3>1, ShowsNew
    <3> QED BY <1>0, <1>4, <1>6, <3>1, <3>2
  <2>2. CASE NoList(more) /\ ~IsTrueList(more)
    <3>1. CASE WillAsk(q)
      BY <1>4, <3>1, AskKept
    <3>2. CASE Shows(culist[c], q, NamesInRoom)
      BY <1>0, <1>4, <1>6, <2>2, <3>2, ShowsKept
    <3>3. CASE WhoUnderWay(c)
      <4>1. PICK k \in 1..Len(Pipe(c)) : Asks(Pipe(c)[k])
        BY <3>3 DEF WhoUnderWay
      <4>2. CASE WireKept(c)
        BY <1>2, <4>1, <4>2 DEF WireKept, WhoUnderWay
      <4>3. CASE WireTaken(c)
        <5>1. /\ Pipe(c) # <<>> /\ Head(Pipe(c)) = Pipe(c)[1] /\ Len(Pipe(c)) \in Nat
              /\ Len(Tail(Pipe(c))) = Len(Pipe(c)) - 1
              /\ \A j \in 1..Len(Tail(Pipe(c))) : Tail(Pipe(c))[j] = Pipe(c)[j + 1]
          BY <1>0, <4>3, PipeTail DEF WireTaken
        <5>2. k # 1
          BY <1>0, <1>3, <1>4, <2>2, <4>1, <4>3, <5>1, AskedIsListed
        <5>3. k - 1 \in 1..Len(Tail(Pipe(c))) /\ (k - 1) + 1 = k
          BY <5>1, <5>2
        <5>4. Asks(Tail(Pipe(c))[k - 1])
          BY <4>1, <5>1, <5>3
        <5> QED BY <4>3, <5>3, <5>4 DEF WireTaken, WhoUnderWay
      <4> QED BY <1>0, <4>2, <4>3, ServerWire
    <3> QED BY <1>2, <1>3, <1>4, <3>1, <3>2, <3>3 DEF SidebarMeans
  <2> QED BY <1>0, <1>4, <2>1, <2>2, ServerLists
<1> QED BY <1>5, <1>6

-----------------------------------------------------------------------------
(* The steps of the clients.                                               *)

LEMMA ClientKeepsNames ==
  ASSUME NEW c \in Conns, Client(c)
  PROVE  udata' = udata /\ NamesInRoom' = NamesInRoom
<1> SUFFICES udata' = udata
  BY SameNames
<1>1. \A cmd : Send(c, cmd) => udata' = udata
  BY DEF Send, PeerSend, serverVars
<1>2. \A left : Hangup(c, left) => udata' = udata
  BY DEF Hangup, PeerReset, PeerClose, serverVars
<1>3. CASE Connect(c)
  BY <1>3 DEF Connect, PeerConnect, serverVars
<1>4. CASE AskToJoin(c) \/ Type(c) \/ Quit(c)
  BY <1>1, <1>4 DEF AskToJoin, Type, Quit
<1>5. CASE JoinAnswer(c)
  BY <1>1, <1>2, <1>5 DEF JoinAnswer, StartChatting
<1>6. CASE HandleMessage(c)
  BY <1>1, <1>6 DEF HandleMessage, serverVars
<1>7. CASE ServerGone(c) \/ LeaveAnswer(c) \/ Killed(c)
  BY <1>2, <1>7 DEF ServerGone, LeaveAnswer, Killed
<1> QED BY <1>3, <1>4, <1>5, <1>6, <1>7 DEF Client

LEMMA OthersSidebar ==
  ASSUME SystemOK, NEW c \in Conns, Client(c), NEW d \in Conns \ {c}
  PROVE  culist'[d] = culist[d]
<1>1. culist \in [Conns -> SUBSET [nick : Strings, marks : SUBSET {"AWAY", "OPERATOR"}]]
  BY DEF SystemOK, PictureTyped
<1>2. culist' = culist \/ \E x : culist' = [culist EXCEPT ![c] = x]
  BY DEF Client, Connect, AskToJoin, JoinAnswer, StartChatting, HandleMessage, ServerGone, Type,
     Quit, LeaveAnswer, Killed, Hangup, pictureVars, clientVars
<1> QED BY <1>1, <1>2

(* A client that asks has its question under way.                          *)
LEMMA AskedIsUnderWay ==
  ASSUME SystemOK, NEW c \in Conns, Member(c)',
         Send(c, [op |-> "C_WHO", user |-> NoUser, arg |-> NoString])
  PROVE  WhoUnderWay(c)'
<1>1. PICK who : who = [op |-> "C_WHO", user |-> NoUser, arg |-> NoString]
  OBVIOUS
<1>2. who \in Sayable(c) /\ Asks(who) /\ Send(c, who)
  <2>1. WHO_SYSTEM # NoString
    BY ServerAssumption, UdataAssumption DEF ServerAssumption, UdataAssumption
  <2> QED BY <1>1, <2>1, SentIsSayable DEF Asks
<1>3. /\ Len(Pipe(c)) \in Nat /\ Len(Pipe(c)') = Len(Pipe(c)) + 1
      /\ Pipe(c)'[Len(Pipe(c)) + 1] = who
  BY <1>2, SentPipe
<1>4. Len(Pipe(c)) + 1 \in 1..Len(Pipe(c)')
  BY <1>3
<1> QED BY <1>2, <1>3, <1>4 DEF WhoUnderWay

(* What is under way stays so when the client sends something else.        *)
LEMMA StillUnderWay ==
  ASSUME SystemOK, NEW c \in Conns, NEW cmd \in Sayable(c), Send(c, cmd), WhoUnderWay(c)
  PROVE  WhoUnderWay(c)'
<1>1. PICK k \in 1..Len(Pipe(c)) : Asks(Pipe(c)[k])
  BY DEF WhoUnderWay
<1>2. CASE ~Attached(c)
  <2>1. Len(Pipe(c)) = 0
    BY <1>2, SentPipe
  <2> QED BY <1>1, <2>1
<1>3. CASE Attached(c)
  <2>1. /\ Len(Pipe(c)) \in Nat /\ Len(Pipe(c)') = Len(Pipe(c)) + 1
        /\ Pipe(c)'[k] = Pipe(c)[k]
    BY <1>1, <1>3, SentPipe
  <2>2. k \in 1..Len(Pipe(c)')
    BY <2>1
  <2> QED BY <1>1, <2>1, <2>2 DEF WhoUnderWay
<1> QED BY <1>2, <1>3

LEMMA HandleKeepsSidebar ==
  ASSUME SystemOK, NEW c \in Conns, HandleMessage(c), SidebarMeans(c)
  PROVE  SidebarMeans(c)'
<1> DEFINE who == [op |-> "C_WHO", user |-> NoUser, arg |-> NoString]
<1> SUFFICES ASSUME Member(c)'
             PROVE  \/ WhoUnderWay(c)'
                    \/ WillAsk(fromServer'[c])
                    \/ Shows(culist'[c], fromServer'[c], NamesInRoom')
  BY DEF SidebarMeans
<1>1. PICK q \in Seq(Sensible), m \in Sensible : q = fromServer[c] /\ m = Head(q) /\ q # <<>>
  BY DEF SystemOK, PictureTyped, HandleMessage
<1>2. /\ stage[c] = "chatting" /\ fromServer'[c] = After(c, 1)
      /\ culist'[c] = LearnNames(culist[c], m)
      /\ IF AsksWho(m) THEN Send(c, who)
         ELSE out' = Quiet /\ UNCHANGED <<serverVars, sock, backlog, toServer, peer>>
  BY <1>1 DEF SystemOK, PictureTyped, HandleMessage
<1>3. fromServer'[c] = Tail(q)
  <2>1. SubSeq(q, 2, Len(q)) = Tail(q)
    BY <1>1, TailIsSubSeq
  <2> QED BY <1>1, <1>2, <2>1 DEF After
<1>4. CASE AsksWho(m)
  BY <1>2, <1>4, AskedIsUnderWay
<1>5. CASE ~AsksWho(m)
  <2>1. WireSame(c) /\ MemberSame(c)
    BY <1>2, <1>5, StillKeeps DEF SystemOK
  <2>2. Member(c) /\ NamesInRoom' = NamesInRoom
    BY <2>1, ClientKeepsNames DEF MemberSame, Client
  <2>3. CASE WhoUnderWay(c)
    BY <2>1, <2>3 DEF WireSame, WhoUnderWay
  <2>4. CASE WillAsk(q)
    BY <1>1, <1>3, <1>5, <2>4, AskHead
  <2>5. CASE Shows(culist[c], q, NamesInRoom)
    BY <1>1, <1>2, <1>3, <2>2, <2>5, ShowsHead
  <2> QED BY <1>1, <1>2, <2>2, <2>3, <2>4, <2>5 DEF SidebarMeans
<1> QED BY <1>4, <1>5

LEMMA ClientKeepsSidebar ==
  ASSUME SystemOK, NEW c \in Conns, Client(c), NEW d \in Conns, SidebarMeans(d)
  PROVE  SidebarMeans(d)'
<1>0. /\ stage \in [Conns -> Stages] /\ NamesInRoom' = NamesInRoom
  BY ClientKeepsNames DEF SystemOK, PictureTyped
<1>1. CASE d # c
  <2>1. /\ WireSame(d) /\ MemberSame(d) /\ culist'[d] = culist[d]
        /\ fromServer'[d] = fromServer[d] /\ stage'[d] = stage[d]
    BY <1>1, OthersUntouched, OthersSidebar
  <2>2. WhoUnderWay(d)' <=> WhoUnderWay(d)
    BY <2>1 DEF WireSame, WhoUnderWay
  <2> QED BY <1>0, <2>1, <2>2 DEF SidebarMeans, MemberSame
<1>2. ASSUME stage'[c] # "chatting" PROVE SidebarMeans(c)'
  BY <1>2 DEF SidebarMeans
<1>3. ASSUME NEW n, StartChatting(c, n) PROVE SidebarMeans(c)'
  BY <1>3, AskedIsUnderWay DEF StartChatting, SidebarMeans
<1>4. ASSUME NEW left, Hangup(c, left) PROVE SidebarMeans(c)'
  BY <1>0, <1>2, <1>4 DEF Hangup
<1>5. CASE d = c /\ (Connect(c) \/ AskToJoin(c) \/ Quit(c))
  BY <1>0, <1>2, <1>5 DEF Connect, AskToJoin, Quit
<1>6. CASE d = c /\ JoinAnswer(c)
  BY <1>3, <1>4, <1>6 DEF JoinAnswer
<1>7. CASE d = c /\ HandleMessage(c)
  BY <1>7, HandleKeepsSidebar
<1>8. CASE d = c /\ Type(c)
  <2>1. PICK cmd \in Typed(c) : Send(c, cmd)
    BY <1>8 DEF Type
  <2>2. cmd \in Sayable(c)
    BY SentIsSayable
  <2>3. UNCHANGED <<fromServer, stage, culist>>
    BY <1>8 DEF Type, clientVars
  <2>4. Member(c)' <=> Member(c)
    BY <2>1, <2>2, SentPipe
  <2>5. WhoUnderWay(c) => WhoUnderWay(c)'
    BY <2>1, <2>2, StillUnderWay
  <2> QED BY <1>0, <1>8, <2>3, <2>4, <2>5 DEF SidebarMeans
<1>9. CASE d = c /\ (ServerGone(c) \/ LeaveAnswer(c) \/ Killed(c))
  BY <1>4, <1>9 DEF ServerGone, LeaveAnswer, Killed
<1> QED BY <1>1, <1>5, <1>6, <1>7, <1>8, <1>9 DEF Client

LEMMA SidebarOKNext ==
  ASSUME NicknamesGiven, SidebarOK, [SystemNext]_systemVars
  PROVE  SidebarOK'
<1> USE DEF SidebarOK
<1>1. ClientsOK' /\ SystemOK /\ SystemOK' /\ \A c \in Conns : ClientOK(c)
  BY ClientsOKNext DEF ClientsOK
<1>2. CASE ServerStep
  BY <1>1, <1>2, ServerNobodyBans, ServerKeepsSidebar
<1>3. CASE \E c \in Conns : Client(c)
  BY <1>1, <1>3, ClientNobodyBans, ClientKeepsSidebar
<1>4. CASE UNCHANGED systemVars
  <2>1. ASSUME NEW c \in Conns PROVE NoBan(Pipe(c)') /\ SidebarMeans(c)'
    <3>1. UNCHANGED <<serverVars, sock, backlog, toServer, peer>>
          /\ UNCHANGED <<fromServer, stage, culist>> /\ udata' = udata
      BY <1>4 DEF systemVars, vars, serverVars, clientVars
    <3>2. (Queued(c)' <=> Queued(c)) /\ ServerOK /\ ServerOK'
      BY <1>1, <3>1 DEF Queued, SystemOK
    <3>3. WireSame(c) /\ MemberSame(c)
      BY <3>1, <3>2, ProgramWireSame, ProgramMemberSame
    <3>4. NamesInRoom' = NamesInRoom
      BY <3>1, SameNames
    <3>5. WhoUnderWay(c)' <=> WhoUnderWay(c)
      BY <3>3 DEF WireSame, WhoUnderWay
    <3> QED BY <3>1, <3>3, <3>4, <3>5 DEF WireSame, MemberSame, NobodyBans, SidebarMeans
  <2> QED BY <1>1, <2>1 DEF NobodyBans
<1> QED BY <1>2, <1>3, <1>4 DEF SystemNext

LEMMA SidebarOKInit == SystemInit => SidebarOK
<1> SUFFICES ASSUME SystemInit PROVE SidebarOK
  OBVIOUS
<1>1. ClientsOK /\ Init /\ ServerOK /\ NothingStray
  BY ClientsOKInit DEF SystemInit, ClientsOK, SystemOK
<1>2. ASSUME NEW c \in Conns PROVE NoBan(Pipe(c)) /\ SidebarMeans(c)
  <2>1. stage[c] = "off" /\ ~Attached(c)
    BY <1>1, ServerAssumption DEF SystemInit, Init, Attached, Accepted, Queued
  <2>2. Pipe(c) = <<>>
    BY <1>1, <2>1, UnattachedPipe
  <2> QED BY <2>1, <2>2 DEF NoBan, SidebarMeans
<1> QED BY <1>1, <1>2 DEF SidebarOK, NobodyBans

(* Nothing under way in either direction.                                  *)
LEMMA SettledIsQuiet ==
  ASSUME ServerOK, NEW c \in Conns, Settled(c)
  PROVE  Pipe(c) = <<>> /\ fromServer[c] = <<>> /\ stage[c] = "chatting" /\ Member(c)
<1>1. fromServer[c] = <<>> /\ toServer[c] = <<>> /\ stage[c] = "chatting" /\ Member(c)
  BY DEF Settled, InRoom, Member
<1>2. PICK j \in Slots : Holds(j, c)
  BY <1>1, OKFits DEF Fits, MembersFit
<1>3. Pipe(c) = clients[j].buf \o toServer[c] /\ clients[j].buf \in Seq(Sayable(c))
  BY <1>2, OKFits DEF Fits, PipesFit
<1>4. clients[j].buf = <<>>
  <2>1. \A k \in 1..Len(clients[j].buf) : <<j, k>> \in Buffered(c)
    BY <1>2 DEF Buffered, Holds
  <2>2. \A k \in 1..Len(clients[j].buf) : FALSE
    BY <2>1 DEF Settled
  <2>3. Len(clients[j].buf) = 0
    BY <1>3, <2>2
  <2> QED BY <1>3, <2>3, EmptySeq
<1>5. clients[j].buf \o toServer[c] = <<>>
  BY <1>1, <1>4
<1> QED BY <1>1, <1>3, <1>5

(* When every client joins under some nickname, a client with nothing      *)
(* under way shows exactly the names and marks in the room, however the    *)
(* changes, the questions and the lists crossed on the way (clchat.c:131): *)
(* SidebarIsTrue.                                                          *)
THEOREM SidebarIsAlwaysTrue ==
  ASSUME NicknamesGiven
  PROVE  SystemSpec => []SidebarIsTrue
<1>1. SidebarOK => SidebarIsTrue
  <2> SUFFICES ASSUME SidebarOK, NEW c \in Conns, Settled(c) PROVE culist[c] = NamesInRoom
    BY DEF SidebarIsTrue
  <2>1. Pipe(c) = <<>> /\ fromServer[c] = <<>> /\ stage[c] = "chatting" /\ Member(c)
    BY SettledIsQuiet DEF SidebarOK, ClientsOK, SystemOK
  <2>2. ~WhoUnderWay(c) /\ ~WillAsk(fromServer[c]) /\ ~LastList(fromServer[c], NamesInRoom)
    BY <2>1 DEF WhoUnderWay, WillAsk, LastList
  <2> QED BY <2>1, <2>2 DEF SidebarOK, SidebarMeans, Shows
<1>2. SidebarOK /\ [SystemNext]_systemVars => SidebarOK'
  BY SidebarOKNext
<1> QED BY <1>1, <1>2, SidebarOKInit, PTL DEF SystemSpec
=============================================================================
