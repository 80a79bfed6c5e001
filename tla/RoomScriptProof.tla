-------------------------- MODULE RoomScriptProof --------------------------
(***************************************************************************)
(* The rooms of rchat, for any number of people, rooms, ports and servers: *)
(* the scripts and files are typed, and, when people come and go one after *)
(* the other (OneAtATime), every running server has one room and nobody is *)
(* in a server that a script ends.                                         *)
(***************************************************************************)
EXTENDS RoomScriptProps, TLAPS

Stages == {"home", "truncate", "find_port", "start", "cat", "rm_tmp", "write",
           "read_port", "read_pid", "chat", "chatting", "count", "kill", "rm"}

LEMMA NoneFacts ==
  /\ None \notin Pids /\ None \notin Ports
  /\ \A id \in Pids : id \in Nat
  /\ \A p \in Ports : p \in Nat
  BY RoomAssumption DEF None, Pids, Ports

(* A script goes to its next command and the others stay where they are.   *)
LEMMA GoesIs ==
  ASSUME RoomTypeOK, NEW x \in People, NEW next \in Stages, Goes(x, next)
  PROVE  /\ pc' \in [People -> Stages] /\ pc'[x] = next
         /\ \A y \in People \ {x} : pc'[y] = pc[y]
  BY DEF RoomTypeOK, Goes, Stages

-----------------------------------------------------------------------------
(* Types.  That a script reads an existing temporary file needs PortFound. *)

RoomTyped == RoomTypeOK /\ PortFound

(* What a script does between the prompt and the chat.                     *)
LEMMA EnterTyped ==
  ASSUME RoomTypeOK, NEW x \in People, NEW next \in Stages, Goes(x, next),
         pc[x] # "chatting", next # "chatting", chat' = chat
  PROVE  /\ pc' \in [People -> Stages] /\ chat' \in [People -> Pids \cup {None}]
         /\ \A y \in People : chat'[y] # None <=> pc'[y] = "chatting"
<1>1. /\ pc' \in [People -> Stages] /\ pc'[x] = next
      /\ \A y \in People \ {x} : pc'[y] = pc[y]
  BY GoesIs
<1>2. chat' \in [People -> Pids \cup {None}]
  BY DEF RoomTypeOK
<1>3. \A y \in People : chat[y] # None <=> pc[y] = "chatting"
  BY DEF RoomTypeOK
<1> QED BY <1>1, <1>2, <1>3

LEMMA ScriptTyped ==
  ASSUME RoomTypeOK, PortFound, NEW x \in People, Script(x)
  PROVE  RoomTypeOK'
<1> DEFINE TypedRest == /\ rfile' \in [Rooms -> FileRecord]
                        /\ tmp' \in [Ports -> Seq(Pids)]
                        /\ others' \subseteq Ports
                        /\ server' \in [Pids -> [port : Ports \cup {None},
                                                 state : {"free", "up", "told", "gone", "crashed"}]]
                        /\ room' \in [People -> Rooms]
                        /\ port' \in [People -> Ports \cup {None}]
                        /\ pid' \in [People -> Pids \cup {None}]
<1>0. SUFFICES /\ TypedRest
               /\ pc' \in [People -> Stages] /\ chat' \in [People -> Pids \cup {None}]
               /\ \A y \in People : chat'[y] # None <=> pc'[y] = "chatting"
  BY DEF RoomTypeOK, Stages
<1> USE DEF RoomTypeOK
<1>1. CASE Truncate(x)
  <2>1. TypedRest
    BY <1>1 DEF Truncate, EmptyFile, FileRecord
  <2> QED BY <1>1, <2>1, EnterTyped DEF Truncate, Stages
<1>2. CASE FindPort(x)
  <2>1. PICK p \in FreePorts : port' = [port EXCEPT ![x] = p]
    BY <1>2 DEF FindPort
  <2>2. TypedRest
    BY <1>2, <2>1 DEF FindPort, FreePorts
  <2> QED BY <1>2, <2>2, EnterTyped DEF FindPort, Stages
<1>3. CASE StartServer(x)
  <2>1. CASE UNCHANGED <<server, tmp>>
    <3>1. TypedRest
      BY <1>3, <2>1 DEF StartServer
    <3> QED BY <1>3, <3>1, EnterTyped DEF StartServer, Stages
  <2>2. CASE \E id \in Pids :
               /\ server' = [server EXCEPT ![id] = [port |-> port[x], state |-> "up"]]
               /\ tmp' = [tmp EXCEPT ![port[x]] = Append(@, id)]
    <3>1. PICK id \in Pids :
            /\ server' = [server EXCEPT ![id] = [port |-> port[x], state |-> "up"]]
            /\ tmp' = [tmp EXCEPT ![port[x]] = Append(@, id)]
      BY <2>2
    <3>2. tmp' \in [Ports -> Seq(Pids)]
      <4>1. \A s \in Seq(Pids) : Append(s, id) \in Seq(Pids)
        OBVIOUS
      <4> QED BY <3>1, <4>1
    <3>3. TypedRest
      BY <1>3, <3>1, <3>2 DEF StartServer
    <3> QED BY <1>3, <3>3, EnterTyped DEF StartServer, Stages
  <2> QED BY <1>3, <2>1, <2>2 DEF StartServer
<1>4. CASE ReadTmp(x)
  <2>1. pid'[x] \in Pids \cup {None}
    <3>1. tmp[port[x]] \in Seq(Pids)
      BY <1>4 DEF PortFound, ReadTmp
    <3>2. tmp[port[x]] # <<>> => Head(tmp[port[x]]) \in Pids
      BY <3>1
    <3> QED BY <1>4, <3>2 DEF ReadTmp
  <2>2. TypedRest
    BY <1>4, <2>1 DEF ReadTmp
  <2> QED BY <1>4, <2>2, EnterTyped DEF ReadTmp, Stages
<1>5. CASE RemoveTmp(x)
  <2>1. tmp' \in [Ports -> Seq(Pids)]
    <3>1. <<>> \in Seq(Pids)
      OBVIOUS
    <3> QED BY <1>5, <3>1 DEF RemoveTmp
  <2>2. TypedRest
    BY <1>5, <2>1 DEF RemoveTmp
  <2> QED BY <1>5, <2>2, EnterTyped DEF RemoveTmp, Stages
<1>6. CASE WriteFile(x)
  <2>1. TypedRest
    BY <1>6 DEF WriteFile, FullFile, FileRecord
  <2> QED BY <1>6, <2>1, EnterTyped DEF WriteFile, Stages
<1>7. CASE ReadPort(x)
  <2>1. TypedRest
    BY <1>7 DEF ReadPort, FileRecord
  <2> QED BY <1>7, <2>1, EnterTyped DEF ReadPort, Stages
<1>8. CASE ReadPid(x)
  <2>1. TypedRest
    BY <1>8 DEF ReadPid, FileRecord
  <2> QED BY <1>8, <2>1, EnterTyped DEF ReadPid, Stages
<1>9. CASE Chat(x)
  <2>1. TypedRest
    BY <1>9 DEF Chat
  <2>2. CASE chat' = chat /\ Goes(x, "count")
    BY <1>9, <2>1, <2>2, EnterTyped DEF Chat, Stages
  <2>3. CASE \E id \in ListensAt(port[x]) : chat' = [chat EXCEPT ![x] = id] /\ Goes(x, "chatting")
    <3>1. PICK id \in ListensAt(port[x]) : chat' = [chat EXCEPT ![x] = id] /\ Goes(x, "chatting")
      BY <2>3
    <3>2. id \in Pids /\ id # None
      BY NoneFacts DEF ListensAt
    <3>3. /\ pc' \in [People -> Stages] /\ pc'[x] = "chatting"
          /\ \A y \in People \ {x} : pc'[y] = pc[y]
      BY <3>1, GoesIs DEF Stages
    <3> QED BY <2>1, <3>1, <3>2, <3>3
  <2> QED BY <1>9, <2>2, <2>3 DEF Chat
<1>10. CASE Count(x)
  <2>1. TypedRest
    BY <1>10 DEF Count
  <2> QED BY <1>10, <2>1, EnterTyped DEF Count, Stages
<1>11. CASE Kill(x)
  <2>1. \A id \in Pids : server'[id] \in [port : Ports \cup {None},
                                          state : {"free", "up", "told", "gone", "crashed"}]
    BY <1>11 DEF Kill
  <2>2. TypedRest
    BY <1>11, <2>1 DEF Kill
  <2> QED BY <1>11, <2>2, EnterTyped DEF Kill, Stages
<1>12. CASE RemoveFile(x)
  <2>1. TypedRest
    BY <1>12 DEF RemoveFile, AbsentFile, FileRecord
  <2> QED BY <1>12, <2>1, EnterTyped DEF RemoveFile, Stages
<1> QED BY <1>1, <1>2, <1>3, <1>4, <1>5, <1>6, <1>7, <1>8, <1>9, <1>10, <1>11, <1>12 DEF Script

LEMMA EndTyped ==
  ASSUME RoomTypeOK, NEW id \in Pids, NEW how \in {"gone", "crashed"}, End(id, how)
  PROVE  RoomTypeOK'
<1>1. chat' \in [People -> Pids \cup {None}] /\ pc' \in [People -> Stages]
  BY DEF RoomTypeOK, End, Stages
<1>2. \A y \in People : chat'[y] # None <=> pc'[y] = "chatting"
  <2> TAKE y \in People
  <2>1. chat[y] # None <=> pc[y] = "chatting"
    BY DEF RoomTypeOK
  <2>2. /\ chat'[y] = IF chat[y] = id THEN None ELSE chat[y]
        /\ pc'[y] = IF chat[y] = id THEN "count" ELSE pc[y]
    BY DEF End
  <2> QED BY <2>1, <2>2
<1>3. server' \in [Pids -> [port : Ports \cup {None}, state : {"free", "up", "told", "gone", "crashed"}]]
  BY DEF RoomTypeOK, End
<1> QED BY <1>1, <1>2, <1>3 DEF RoomTypeOK, End, Stages

(* A step of a script, of a server or of another program.                  *)
LEMMA NextTyped ==
  ASSUME RoomTyped, Next
  PROVE  RoomTyped'
<1> USE DEF RoomTyped
<1>1. RoomTypeOK'
  <2>1. CASE \E x \in People : Script(x)
    BY <2>1, ScriptTyped
  <2>2. CASE \E x \in People : Leave(x)
    <3>1. PICK x \in People : Leave(x)
      BY <2>2
    <3>2. /\ pc' \in [People -> Stages] /\ pc'[x] = "count"
          /\ \A y \in People \ {x} : pc'[y] = pc[y]
      BY <3>1, GoesIs DEF Leave, Stages
    <3>3. /\ chat' \in [People -> Pids \cup {None}] /\ chat'[x] = None
          /\ \A y \in People \ {x} : chat'[y] = chat[y]
      BY <3>1 DEF RoomTypeOK, Leave
    <3> QED BY <3>1, <3>2, <3>3 DEF RoomTypeOK, Leave, Stages
  <2>3. CASE \E x \in People, r \in Rooms : Ask(x, r)
    <3>1. PICK x \in People, r \in Rooms : Ask(x, r)
      BY <2>3
    <3>2. PICK next \in {"read_port", "truncate"} : Goes(x, next)
      BY <3>1 DEF Ask
    <3>3. /\ pc' \in [People -> Stages] /\ chat' \in [People -> Pids \cup {None}]
          /\ \A y \in People : chat'[y] # None <=> pc'[y] = "chatting"
      BY <3>1, <3>2, EnterTyped DEF Ask, Stages
    <3> QED BY <3>1, <3>3 DEF RoomTypeOK, Ask, Stages
  <2>4. CASE \E id \in Pids : ServerExits(id) \/ ServerCrashes(id)
    BY <2>4, EndTyped DEF ServerExits, ServerCrashes
  <2>5. CASE \E p \in Ports : Take(p)
    BY <2>5 DEF Take, RoomTypeOK
  <2> QED BY <2>1, <2>2, <2>3, <2>4, <2>5 DEF Next
<1>2. PortFound'
  <2> DEFINE Finding == {"start", "cat", "rm_tmp", "write"}
  <2>1. SUFFICES ASSUME NEW y \in People, pc'[y] \in Finding PROVE port'[y] \in Ports
    BY DEF PortFound
  <2>2. CASE \E x \in People : FindPort(x)
    <3>1. PICK x \in People : FindPort(x)
      BY <2>2
    <3>2. PICK p \in Ports : port' = [port EXCEPT ![x] = p]
      BY <3>1 DEF FindPort, FreePorts
    <3>3. \A z \in People \ {x} : pc'[z] = pc[z]
      BY <3>1, GoesIs DEF FindPort, Stages
    <3> QED BY <2>1, <3>2, <3>3 DEF PortFound, RoomTypeOK
  <2>3. CASE port'[y] = port[y] /\ pc[y] \in Finding
    BY <2>3 DEF PortFound
  <2>4. ASSUME ~ \E x \in People : FindPort(x) PROVE port'[y] = port[y] /\ pc[y] \in Finding
    <3>1. ASSUME NEW x \in People, Script(x) PROVE port'[y] = port[y] /\ pc[y] \in Finding
      BY <2>1, <2>4, <3>1
         DEF Script, Truncate, StartServer, ReadTmp, RemoveTmp, WriteFile, ReadPort, ReadPid, Chat, Count,
             Kill, RemoveFile, Goes, RoomTypeOK
    <3>2. ASSUME NEW x \in People, NEW r \in Rooms, Ask(x, r)
          PROVE  port'[y] = port[y] /\ pc[y] \in Finding
      BY <2>1, <3>2 DEF Ask, Goes, RoomTypeOK
    <3>3. ASSUME NEW id \in Pids, NEW how \in {"gone", "crashed"}, End(id, how)
          PROVE  port'[y] = port[y] /\ pc[y] \in Finding
      BY <2>1, <3>3 DEF End
    <3>4. ASSUME NEW p \in Ports, Take(p) PROVE port'[y] = port[y] /\ pc[y] \in Finding
      BY <2>1, <3>4 DEF Take
    <3>5. ASSUME NEW x \in People, Leave(x) PROVE port'[y] = port[y] /\ pc[y] \in Finding
      BY <2>1, <3>5 DEF Leave, Goes, RoomTypeOK
    <3> QED BY <3>1, <3>2, <3>3, <3>4, <3>5 DEF Next, ServerExits, ServerCrashes
  <2> QED BY <2>2, <2>3, <2>4
<1> QED BY <1>1, <1>2

LEMMA InitTyped ==
  ASSUME Init
  PROVE  RoomTyped
<1>1. <<>> \in Seq(Pids)
  OBVIOUS
<1> QED BY <1>1 DEF Init, RoomTyped, RoomTypeOK, PortFound, AbsentFile, FileRecord

(* However the scripts interleave and whichever servers crash, files,      *)
(* scripts and servers hold what the script takes them for, and exactly    *)
(* those who chat are in a server (rchat.substah:112-148): RoomTypeOK.     *)
THEOREM RoomIsTyped == Spec => []RoomTypeOK
<1>1. RoomTyped /\ [Next]_vars => RoomTyped'
  <2>1. RoomTyped /\ UNCHANGED vars => RoomTyped'
    BY DEF RoomTyped, RoomTypeOK, PortFound, vars
  <2> QED BY <2>1, NextTyped
<1>2. RoomTyped => RoomTypeOK
  BY DEF RoomTyped
<1> QED BY <1>1, <1>2, InitTyped, PTL DEF Spec

-----------------------------------------------------------------------------
(* What a step keeps that does not touch it.                               *)

(* Nobody starts, finishes or continues the start of a server.             *)
HandStill ==
  /\ tmp' = tmp
  /\ \A y \in People : pc[y] \in {"cat", "rm_tmp", "write"} \/ pc'[y] \in {"cat", "rm_tmp", "write"} =>
       pc'[y] = pc[y] /\ port'[y] = port[y] /\ pid'[y] = pid[y]

(* No server is started, and each keeps its port.                          *)
NoServerStarts ==
  \A id \in Pids :
    /\ server'[id].port = server[id].port
    /\ server'[id].state = "free" <=> server[id].state = "free"
    /\ server'[id].state = "up" => server[id].state = "up"

LEMMA TmpKept ==
  ASSUME TmpRemoved, HandStill
  PROVE  TmpRemoved'
<1>1. ASSUME NEW p \in Ports, tmp'[p] # <<>>
      PROVE  \E x \in People : pc'[x] \in {"cat", "rm_tmp"} /\ port'[x] = p
  <2>1. PICK x \in People : pc[x] \in {"cat", "rm_tmp"} /\ port[x] = p
    BY <1>1 DEF TmpRemoved, HandStill
  <2> QED BY <2>1 DEF HandStill
<1> QED BY <1>1 DEF TmpRemoved

LEMMA InHandKept ==
  ASSUME ServerInHand, HandStill, NoServerStarts,
         \A r \in Rooms : rfile'[r].pid \in {rfile[r].pid, None}
  PROVE  ServerInHand'
<1>1. ASSUME NEW x \in People, NEW id, New(x, id), port'[x] = port[x] PROVE New(x, id)'
  <2>1. id # None
    BY <1>1, NoneFacts DEF New
  <2> QED BY <1>1, <2>1 DEF New, NoServerStarts
<1>2. ASSUME NEW x \in People, pc'[x] = "cat"
      PROVE  (tmp[port[x]] = <<>> \/ \E id \in Pids : tmp[port[x]] = <<id>> /\ New(x, id))'
  <2>1. pc[x] = "cat" /\ port'[x] = port[x] /\ tmp' = tmp
    BY <1>2 DEF HandStill
  <2> QED BY <1>1, <2>1 DEF ServerInHand
<1>3. ASSUME NEW x \in People, pc'[x] \in {"rm_tmp", "write"}
      PROVE  (pid[x] = None \/ New(x, pid[x]))'
  <2>1. pc[x] \in {"rm_tmp", "write"} /\ port'[x] = port[x] /\ pid'[x] = pid[x]
    BY <1>3 DEF HandStill
  <2>2. pid[x] = None \/ New(x, pid[x])
    BY <2>1 DEF ServerInHand
  <2>3. CASE New(x, pid[x])
    <3>1. PICK id : id = pid[x]
      OBVIOUS
    <3>2. New(x, id)'
      BY <1>1, <2>1, <2>3, <3>1
    <3> QED BY <2>1, <3>1, <3>2 DEF New
  <2> QED BY <2>1, <2>2, <2>3
<1> QED BY <1>2, <1>3 DEF ServerInHand

LEMMA RunningKept ==
  ASSUME RunningNamed, HandStill, NoServerStarts,
         \A r \in Rooms : rfile[r].state = "full" /\ Up(rfile[r].pid) => rfile'[r] = rfile[r]
  PROVE  RunningNamed'
<1>1. SUFFICES ASSUME NEW id \in Pids, Up(id)'
               PROVE  InHand(id)' \/ \E r \in Rooms : Names(r, id)'
  BY DEF RunningNamed
<1>2. Up(id) /\ server'[id].port = server[id].port
  BY <1>1 DEF Up, NoServerStarts
<1>3. CASE InHand(id)
  <2>1. PICK x \in People : \/ pc[x] = "cat" /\ tmp[port[x]] = <<id>>
                            \/ pc[x] \in {"rm_tmp", "write"} /\ pid[x] = id /\ port[x] = server[id].port
    BY <1>3 DEF InHand
  <2>2. tmp' = tmp /\ pc'[x] = pc[x] /\ port'[x] = port[x] /\ pid'[x] = pid[x]
    BY <2>1 DEF HandStill
  <2> QED BY <1>2, <2>1, <2>2 DEF InHand
<1>4. CASE \E r \in Rooms : Names(r, id)
  <2>1. PICK r \in Rooms : Names(r, id)
    BY <1>4
  <2>2. rfile'[r] = rfile[r]
    BY <1>2, <2>1 DEF Names
  <2> QED BY <1>2, <2>1, <2>2 DEF Names
<1> QED BY <1>2, <1>3, <1>4 DEF RunningNamed

-----------------------------------------------------------------------------
(* Making a room and reading its file.                                     *)

Entering(x) == Making(x) \/ Reading(x)

(* x goes on towards the chat; the servers and the others stay.            *)
GoesOn(x) ==
  /\ Entering(x) /\ Entering(x)' /\ (Making(x)' => Making(x))
  /\ server' = server /\ chat' = chat /\ room' = room
  /\ \A y \in People \ {x} : pc'[y] = pc[y] /\ port'[y] = port[y] /\ pid'[y] = pid[y]

(* What does not depend on the files.                                      *)
LEMMA GoesOnKeeps ==
  ASSUME RoomInv, NEW x \in People, GoesOn(x)
  PROVE  OneActs' /\ OneListens' /\ RoomsApart' /\ InServer' /\ EndsEmpty'
<1> USE DEF RoomInv, GoesOn
<1>1. \A id : Up(id)' <=> Up(id)
  BY DEF Up
<1>2. \A y \in People \ {x} : /\ Making(y)' <=> Making(y)
                              /\ Reading(y)' <=> Reading(y)
                              /\ Leaving(y)' <=> Leaving(y)
                              /\ Busy(y)' <=> Busy(y)
                              /\ Acting(y)' <=> Acting(y)
  BY <1>1 DEF Making, Reading, Leaving, Busy, Acting
<1>3. /\ Acting(x) /\ ~Leaving(x) /\ ~Leaving(x)' /\ pc[x] # "chatting" /\ pc'[x] # "chatting"
      /\ Busy(x) /\ pc'[x] \notin {"home", "kill", "rm"}
  BY DEF Entering, Making, Reading, Leaving, Acting, Busy
<1>4. OneActs'
  <2>1. SUFFICES ASSUME NEW z \in People, NEW y \in People, z # y, Acting(z)', Busy(y)'
                 PROVE  Leaving(y)' /\ ~Up(pid[y])'
    BY DEF OneActs
  <2>2. Acting(z) /\ Busy(y)
    BY <1>2, <1>3, <2>1
  <2>3. Leaving(y) /\ ~Up(pid[y])
    BY <2>1, <2>2 DEF OneActs
  <2> QED BY <1>1, <1>2, <1>3, <2>3 DEF Up
<1>5. OneListens'
  BY DEF OneListens, Listening
<1>6. \A p : ListensAt(p)' = ListensAt(p)
  BY DEF ListensAt, Listening
<1>7. RoomsApart'
  <2>1. SUFFICES ASSUME NEW z \in People, NEW y \in People, z # y
                 PROVE  /\ Making(z)' /\ pc'[y] # "home" => room[y] # room[z]
                        /\ (Reading(z)' \/ pc'[z] = "chatting") /\ Leaving(y)' /\ room[y] = room[z] => pc'[y] = "count"
                        /\ Reading(z)' /\ Leaving(y)' /\ room[y] = room[z] => ListensAt(port[y])' = {}
    BY DEF RoomsApart
  <2>2. CASE z = x
    <3>1. Leaving(y) => pc[y] # "home"
      BY DEF Leaving
    <3>2. Making(x) /\ pc[y] # "home" => room[y] # room[x]
      BY <2>1, <2>2 DEF RoomsApart
    <3>3. Reading(x) /\ Leaving(y) /\ room[y] = room[x] => pc[y] = "count" /\ ListensAt(port[y]) = {}
      BY <2>1, <2>2 DEF RoomsApart
    <3>4. port'[y] = port[y] /\ pc'[y] = pc[y] /\ (Leaving(y)' <=> Leaving(y))
      BY <1>2, <2>1, <2>2
    <3>5. ListensAt(port[y])' = ListensAt(port[y])
      BY <3>4 DEF ListensAt, Listening
    <3> QED BY <1>3, <2>2, <3>1, <3>2, <3>3, <3>4, <3>5 DEF Entering
  <2>3. CASE z # x
    <3>1. ~Making(z) /\ ~Reading(z)
      BY <1>3, <2>3 DEF OneActs, Making, Reading, Leaving, Busy
    <3> QED BY <1>2, <1>3, <2>1, <2>3, <3>1 DEF RoomsApart
  <2> QED BY <2>2, <2>3
<1>8. InServer'
  <2>1. SUFFICES ASSUME NEW y \in People, pc'[y] = "chatting" PROVE chat[y] \in ListensAt(port[y])'
    BY DEF InServer
  <2>2. y # x /\ pc[y] = "chatting" /\ port'[y] = port[y]
    BY <1>3, <2>1
  <2> QED BY <2>2 DEF InServer, ListensAt, Listening
<1>9. EndsEmpty'
  BY <1>1, <1>3 DEF EndsEmpty, Members, Up
<1> QED BY <1>4, <1>5, <1>7, <1>8, <1>9

LEMMA OthersFileRead ==
  ASSUME RoomInv, NEW x \in People, GoesOn(x), FileReadBy(x)',
         \A y \in People \ {x} : pc[y] # "home" => rfile'[room[y]] = rfile[room[y]]
  PROVE  FileRead'
<1>1. SUFFICES ASSUME NEW y \in People, y # x PROVE FileReadBy(y)'
  BY DEF FileRead
<1>2. FileReadBy(y)
  BY DEF RoomInv, FileRead
<1>3. /\ pc'[y] = pc[y] /\ port'[y] = port[y] /\ pid'[y] = pid[y] /\ room' = room /\ server' = server
      /\ pc[y] # "home" => rfile'[room[y]] = rfile[room[y]]
  BY <1>1 DEF GoesOn
<1>4. CASE pc[y] = "home"
  BY <1>3, <1>4 DEF FileReadBy, Making, Reading, Leaving
<1>5. CASE pc[y] # "home"
  BY <1>2, <1>3, <1>5 DEF FileReadBy, Making, Reading, Leaving, Up, FullFile, AbsentFile
<1> QED BY <1>4, <1>5

(* A file changes only under the one who makes its room, and no process    *)
(* number gets into it.                                                    *)
LEMMA FilesKept ==
  ASSUME RoomInv, server' = server,
         \A r \in Rooms : rfile'[r] = rfile[r] \/ (rfile'[r].state # "full" /\ rfile'[r].pid = None)
  PROVE  FilesTrue'
<1>1. SUFFICES ASSUME NEW r \in Rooms, Up(rfile[r].pid)'
               PROVE  /\ rfile'[r].state = "full" /\ rfile'[r].port = server[rfile'[r].pid].port
                      /\ \A q \in Rooms : rfile'[q].pid = rfile'[r].pid => q = r
  BY DEF FilesTrue
<1>2. rfile'[r].pid \in Pids /\ rfile'[r].pid # None
  BY <1>1, NoneFacts DEF Up
<1>3. rfile'[r] = rfile[r] /\ Up(rfile[r].pid)
  BY <1>1, <1>2 DEF Up
<1>4. \A q \in Rooms : rfile'[q].pid = rfile'[r].pid => rfile'[q] = rfile[q]
  BY <1>2
<1> QED BY <1>3, <1>4 DEF RoomInv, FilesTrue

LEMMA TruncateKeeps ==
  ASSUME RoomInv, RoomTyped', NEW x \in People, Truncate(x)
  PROVE  RoomInv'
<1>1. /\ pc[x] = "truncate" /\ pc'[x] = "find_port"
      /\ \A y \in People \ {x} : pc'[y] = pc[y]
      /\ rfile'[room[x]] = EmptyFile /\ rfile[room[x]].state # "full"
      /\ \A r \in Rooms \ {room[x]} : rfile'[r] = rfile[r]
  <2>1. Making(x) => rfile[room[x]].state # "full"
    BY DEF RoomInv, FileRead, FileReadBy
  <2>2. room[x] \in Rooms /\ rfile \in [Rooms -> FileRecord]
    BY DEF RoomInv, RoomTypeOK
  <2> QED BY <2>1, <2>2, GoesIs DEF RoomInv, Truncate, Making, Stages
<1>2. GoesOn(x)
  BY <1>1 DEF Truncate, GoesOn, Entering, Making, Reading
<1>3. OneActs' /\ OneListens' /\ RoomsApart' /\ InServer' /\ EndsEmpty'
  BY <1>2, GoesOnKeeps
<1>4. PidsStarted'
  BY <1>1 DEF RoomInv, PidsStarted, Started, Truncate, EmptyFile
<1>5. FilesTrue'
  BY <1>1, FilesKept DEF EmptyFile, Truncate
<1>6. HandStill /\ NoServerStarts
  BY <1>1 DEF HandStill, NoServerStarts, Truncate
<1>7. ServerInHand' /\ TmpRemoved' /\ RunningNamed'
  <2>1. \A r \in Rooms : rfile'[r].pid \in {rfile[r].pid, None}
    BY <1>1 DEF EmptyFile
  <2>2. \A r \in Rooms : rfile[r].state = "full" => rfile'[r] = rfile[r]
    BY <1>1
  <2> QED BY <1>6, <2>1, <2>2, InHandKept, TmpKept, RunningKept DEF RoomInv
<1>8. FileRead'
  <2>1. FileReadBy(x)'
    BY <1>1 DEF FileReadBy, Making, Reading, Leaving, EmptyFile, Truncate
  <2>2. \A y \in People \ {x} : pc[y] # "home" => room[y] \in Rooms \ {room[x]}
    BY <1>1 DEF RoomInv, RoomTypeOK, RoomsApart, Making
  <2> QED BY <1>1, <1>2, <2>1, <2>2, OthersFileRead
<1> QED BY <1>3, <1>4, <1>5, <1>7, <1>8 DEF RoomInv, RoomTyped

LEMMA FindPortKeeps ==
  ASSUME RoomInv, RoomTyped', NEW x \in People, FindPort(x)
  PROVE  RoomInv'
<1>1. /\ pc[x] = "find_port" /\ pc'[x] = "start"
      /\ \A y \in People \ {x} : pc'[y] = pc[y] /\ port'[y] = port[y]
  <2>1. PICK p : port' = [port EXCEPT ![x] = p]
    BY DEF FindPort
  <2> QED BY <2>1, GoesIs DEF RoomInv, RoomTypeOK, FindPort, Stages
<1>2. GoesOn(x)
  BY <1>1 DEF FindPort, GoesOn, Entering, Making, Reading
<1>3. OneActs' /\ OneListens' /\ RoomsApart' /\ InServer' /\ EndsEmpty'
  BY <1>2, GoesOnKeeps
<1>4. PidsStarted' /\ FilesTrue'
  BY FilesKept DEF RoomInv, PidsStarted, Started, FindPort
<1>5. HandStill /\ NoServerStarts
  BY <1>1 DEF HandStill, NoServerStarts, FindPort
<1>6. ServerInHand' /\ TmpRemoved' /\ RunningNamed'
  BY <1>5, InHandKept, TmpKept, RunningKept DEF RoomInv, FindPort
<1>7. FileRead'
  <2>1. FileReadBy(x)'
    BY <1>1 DEF RoomInv, FileRead, FileReadBy, Making, Reading, Leaving, FindPort
  <2> QED BY <1>1, <1>2, <2>1, OthersFileRead DEF FindPort
<1> QED BY <1>3, <1>4, <1>6, <1>7 DEF RoomInv, RoomTyped

LEMMA ReadPortKeeps ==
  ASSUME RoomInv, RoomTyped', NEW x \in People, ReadPort(x)
  PROVE  RoomInv'
<1>1. /\ pc[x] = "read_port" /\ pc'[x] = "read_pid" /\ port'[x] = rfile[room[x]].port
      /\ \A y \in People \ {x} : pc'[y] = pc[y] /\ port'[y] = port[y]
  BY GoesIs DEF RoomInv, RoomTypeOK, ReadPort, Stages
<1>2. GoesOn(x)
  BY <1>1 DEF ReadPort, GoesOn, Entering, Making, Reading
<1>3. OneActs' /\ OneListens' /\ RoomsApart' /\ InServer' /\ EndsEmpty'
  BY <1>2, GoesOnKeeps
<1>4. PidsStarted' /\ FilesTrue'
  BY FilesKept DEF RoomInv, PidsStarted, Started, ReadPort
<1>5. HandStill /\ NoServerStarts
  BY <1>1 DEF HandStill, NoServerStarts, ReadPort
<1>6. ServerInHand' /\ TmpRemoved' /\ RunningNamed'
  BY <1>5, InHandKept, TmpKept, RunningKept DEF RoomInv, ReadPort
<1>7. FileRead'
  <2>1. FileReadBy(x)'
    BY <1>1 DEF RoomInv, FileRead, FileReadBy, Making, Reading, Leaving, ReadPort
  <2> QED BY <1>1, <1>2, <2>1, OthersFileRead DEF ReadPort
<1> QED BY <1>3, <1>4, <1>6, <1>7 DEF RoomInv, RoomTyped

LEMMA ReadPidKeeps ==
  ASSUME RoomInv, RoomTyped', NEW x \in People, ReadPid(x)
  PROVE  RoomInv'
<1>1. /\ pc[x] = "read_pid" /\ pc'[x] = "chat" /\ pid'[x] = rfile[room[x]].pid
      /\ \A y \in People \ {x} : pc'[y] = pc[y] /\ pid'[y] = pid[y]
  BY GoesIs DEF RoomInv, RoomTypeOK, ReadPid, Stages
<1>2. GoesOn(x)
  BY <1>1 DEF ReadPid, GoesOn, Entering, Making, Reading
<1>3. OneActs' /\ OneListens' /\ RoomsApart' /\ InServer' /\ EndsEmpty'
  BY <1>2, GoesOnKeeps
<1>4. PidsStarted' /\ FilesTrue'
  <2>1. room[x] \in Rooms
    BY DEF RoomInv, RoomTypeOK
  <2> QED BY <1>1, <2>1, FilesKept DEF RoomInv, PidsStarted, Started, ReadPid
<1>5. HandStill /\ NoServerStarts
  BY <1>1 DEF HandStill, NoServerStarts, ReadPid
<1>6. ServerInHand' /\ TmpRemoved' /\ RunningNamed'
  BY <1>5, InHandKept, TmpKept, RunningKept DEF RoomInv, ReadPid
<1>7. FileRead'
  <2>1. FileReadBy(x) /\ rfile[room[x]] \in FileRecord
    BY DEF RoomInv, FileRead, RoomTypeOK
  <2>2. rfile[room[x]] = FullFile(port[x], pid'[x])
    BY <1>1, <2>1 DEF FileReadBy, Reading, FullFile, FileRecord
  <2>3. FileReadBy(x)'
    BY <1>1, <2>2 DEF FileReadBy, Making, Reading, Leaving, ReadPid, FullFile
  <2> QED BY <1>1, <1>2, <2>3, OthersFileRead DEF ReadPid
<1> QED BY <1>3, <1>4, <1>6, <1>7 DEF RoomInv, RoomTyped

(* While a script makes a room no other does, nor reads the file of one.   *)
LEMMA OnlyOneEnters ==
  ASSUME RoomInv, NEW x \in People, Entering(x), NEW y \in People, y # x
  PROVE  ~Entering(y)
  BY DEF RoomInv, OneActs, Entering, Making, Reading, Leaving, Acting, Busy

LEMMA ReadTmpKeeps ==
  ASSUME RoomInv, RoomTyped', NEW x \in People, ReadTmp(x)
  PROVE  RoomInv'
<1>1. /\ pc[x] = "cat" /\ pc'[x] = "rm_tmp"
      /\ pid'[x] = IF tmp[port[x]] = <<>> THEN None ELSE Head(tmp[port[x]])
      /\ \A y \in People \ {x} : pc'[y] = pc[y] /\ pid'[y] = pid[y]
  BY GoesIs DEF RoomInv, RoomTypeOK, ReadTmp, Stages
<1>2. GoesOn(x)
  BY <1>1 DEF ReadTmp, GoesOn, Entering, Making, Reading
<1>3. OneActs' /\ OneListens' /\ RoomsApart' /\ InServer' /\ EndsEmpty'
  BY <1>2, GoesOnKeeps
<1>4. \/ tmp[port[x]] = <<>> /\ pid'[x] = None
      \/ tmp[port[x]] = <<pid'[x]>> /\ New(x, pid'[x])
  <2>1. CASE tmp[port[x]] = <<>>
    BY <1>1, <2>1
  <2>2. CASE tmp[port[x]] # <<>>
    <3>1. PICK id \in Pids : tmp[port[x]] = <<id>> /\ New(x, id)
      BY <1>1, <2>2 DEF RoomInv, ServerInHand
    <3>2. pid'[x] = id
      BY <1>1, <3>1
    <3> QED BY <3>1, <3>2
  <2> QED BY <2>1, <2>2
<1>5. PidsStarted' /\ FilesTrue'
  <2>1. Started(pid[x])'
    BY <1>4 DEF Started, New, ReadTmp
  <2> QED BY <1>1, <2>1, FilesKept DEF RoomInv, PidsStarted, Started, ReadTmp
<1>6. ServerInHand'
  <2>1. SUFFICES ASSUME NEW y \in People
                 PROVE  /\ (pc[y] = "cat" => tmp[port[y]] = <<>> \/ \E id \in Pids : tmp[port[y]] = <<id>> /\ New(y, id))'
                        /\ (pc[y] \in {"rm_tmp", "write"} => pid[y] = None \/ New(y, pid[y]))'
    BY DEF ServerInHand
  <2>2. CASE y = x
    BY <1>1, <1>4, <2>2 DEF New, ReadTmp
  <2>3. CASE y # x
    <3>1. ~Making(y)
      BY <1>2, <2>3, OnlyOneEnters DEF GoesOn, Entering
    <3> QED BY <1>1, <2>3, <3>1 DEF Making
  <2> QED BY <2>2, <2>3
<1>7. TmpRemoved'
  <2>1. SUFFICES ASSUME NEW p \in Ports, tmp[p] # <<>>
                 PROVE  \E y \in People : pc'[y] \in {"cat", "rm_tmp"} /\ port[y] = p
    BY DEF TmpRemoved, ReadTmp
  <2>2. PICK y \in People : pc[y] \in {"cat", "rm_tmp"} /\ port[y] = p
    BY <2>1 DEF RoomInv, TmpRemoved
  <2> QED BY <1>1, <2>2
<1>8. FileRead'
  <2>1. FileReadBy(x)'
    BY <1>1 DEF RoomInv, FileRead, FileReadBy, Making, Reading, Leaving, ReadTmp
  <2> QED BY <1>1, <1>2, <2>1, OthersFileRead DEF ReadTmp
<1>9. RunningNamed'
  <2>1. SUFFICES ASSUME NEW id \in Pids, Up(id)
                 PROVE  InHand(id)' \/ \E r \in Rooms : Names(r, id)'
    BY DEF RunningNamed, Up, ReadTmp
  <2>2. CASE \E r \in Rooms : Names(r, id)
    BY <2>2 DEF Names, ReadTmp
  <2>3. CASE InHand(id)
    <3>1. PICK y \in People : pc[y] \in {"cat", "rm_tmp", "write"} /\ (pc[y] = "cat" => tmp[port[y]] = <<id>>)
      BY <2>3 DEF InHand
    <3>2. y = x
      BY <1>2, <3>1, OnlyOneEnters DEF GoesOn, Entering, Making
    <3>3. pid'[x] = id /\ port[x] = server[id].port
      BY <1>1, <1>4, <3>1, <3>2 DEF New
    <3> QED BY <1>1, <3>3 DEF InHand, ReadTmp
  <2> QED BY <2>1, <2>2, <2>3 DEF RoomInv, RunningNamed
<1> QED BY <1>3, <1>5, <1>6, <1>7, <1>8, <1>9 DEF RoomInv, RoomTyped

LEMMA RemoveTmpKeeps ==
  ASSUME RoomInv, RoomTyped', NEW x \in People, RemoveTmp(x)
  PROVE  RoomInv'
<1>1. /\ pc[x] = "rm_tmp" /\ pc'[x] = "write"
      /\ \A y \in People \ {x} : pc'[y] = pc[y]
      /\ \A p \in Ports : tmp'[p] = IF p = port[x] THEN <<>> ELSE tmp[p]
  BY GoesIs DEF RoomInv, RoomTypeOK, RemoveTmp, Stages
<1>2. GoesOn(x)
  BY <1>1 DEF RemoveTmp, GoesOn, Entering, Making, Reading
<1>3. OneActs' /\ OneListens' /\ RoomsApart' /\ InServer' /\ EndsEmpty'
  BY <1>2, GoesOnKeeps
<1>4. \A y \in People \ {x} : ~Making(y)
  BY <1>2, OnlyOneEnters DEF GoesOn, Entering
<1>5. PidsStarted' /\ FilesTrue'
  BY <1>1, FilesKept DEF RoomInv, PidsStarted, Started, RemoveTmp
<1>6. ServerInHand'
  <2>1. pid[x] = None \/ New(x, pid[x])
    BY <1>1 DEF RoomInv, ServerInHand
  <2>2. (pid[x] = None \/ New(x, pid[x]))'
    BY <2>1 DEF New, RemoveTmp
  <2> QED BY <1>1, <1>4, <2>2 DEF ServerInHand, Making
<1>7. TmpRemoved'
  <2>1. SUFFICES ASSUME NEW p \in Ports, tmp'[p] # <<>> PROVE FALSE
    BY DEF TmpRemoved
  <2>2. PICK y \in People : pc[y] \in {"cat", "rm_tmp"} /\ port[y] = p
    BY <1>1, <2>1 DEF RoomInv, TmpRemoved
  <2> QED BY <1>1, <1>4, <2>1, <2>2 DEF Making
<1>8. FileRead'
  <2>1. FileReadBy(x)'
    BY <1>1 DEF RoomInv, FileRead, FileReadBy, Making, Reading, Leaving, RemoveTmp
  <2> QED BY <1>1, <1>2, <2>1, OthersFileRead DEF RemoveTmp
<1>9. RunningNamed'
  <2>1. SUFFICES ASSUME NEW id \in Pids, Up(id)
                 PROVE  InHand(id)' \/ \E r \in Rooms : Names(r, id)'
    BY DEF RunningNamed, Up, RemoveTmp
  <2>2. CASE \E r \in Rooms : Names(r, id)
    BY <2>2 DEF Names, RemoveTmp
  <2>3. CASE InHand(id)
    <3>1. PICK y \in People : pc[y] \in {"cat", "rm_tmp", "write"}
                              /\ (pc[y] # "cat" => pid[y] = id /\ port[y] = server[id].port)
      BY <2>3 DEF InHand
    <3>2. y = x
      BY <1>4, <3>1 DEF Making
    <3> QED BY <1>1, <3>1, <3>2 DEF InHand, RemoveTmp
  <2> QED BY <2>1, <2>2, <2>3 DEF RoomInv, RunningNamed
<1> QED BY <1>3, <1>5, <1>6, <1>7, <1>8, <1>9 DEF RoomInv, RoomTyped

LEMMA WriteFileKeeps ==
  ASSUME RoomInv, RoomTyped', NEW x \in People, WriteFile(x)
  PROVE  RoomInv'
<1>1. /\ pc[x] = "write" /\ pc'[x] = "read_port" /\ room[x] \in Rooms
      /\ \A y \in People \ {x} : pc'[y] = pc[y]
      /\ rfile'[room[x]] = FullFile(port[x], pid[x]) /\ rfile[room[x]].state # "full"
      /\ \A r \in Rooms \ {room[x]} : rfile'[r] = rfile[r]
  <2>1. Making(x) => rfile[room[x]].state # "full"
    BY DEF RoomInv, FileRead, FileReadBy
  <2>2. room[x] \in Rooms /\ rfile \in [Rooms -> FileRecord]
    BY DEF RoomInv, RoomTypeOK
  <2> QED BY <2>1, <2>2, GoesIs DEF RoomInv, WriteFile, Making, Stages
<1>2. GoesOn(x)
  BY <1>1 DEF WriteFile, GoesOn, Entering, Making, Reading
<1>3. OneActs' /\ OneListens' /\ RoomsApart' /\ InServer' /\ EndsEmpty'
  BY <1>2, GoesOnKeeps
<1>4. \A y \in People \ {x} : ~Making(y)
  BY <1>2, OnlyOneEnters DEF GoesOn, Entering
<1>5. pid[x] = None \/ New(x, pid[x])
  BY <1>1 DEF RoomInv, ServerInHand
<1>6. PidsStarted'
  BY <1>1 DEF RoomInv, PidsStarted, Started, WriteFile, FullFile
<1>7. FilesTrue'
  <2>1. SUFFICES ASSUME NEW r \in Rooms, Up(rfile[r].pid)'
                 PROVE  /\ rfile'[r].state = "full" /\ rfile'[r].port = server[rfile'[r].pid].port
                        /\ \A q \in Rooms : rfile'[q].pid = rfile'[r].pid => q = r
    BY DEF FilesTrue, WriteFile
  <2>2. CASE r = room[x]
    <3>1. rfile'[r].pid = pid[x] /\ New(x, pid[x])
      BY <1>1, <1>5, <2>1, <2>2, NoneFacts DEF Up, FullFile
    <3>2. rfile'[r].state = "full" /\ rfile'[r].port = port[x]
      BY <1>1, <2>2 DEF FullFile
    <3> QED BY <1>1, <2>2, <3>1, <3>2 DEF New
  <2>3. CASE r # room[x]
    <3>1. rfile'[r] = rfile[r] /\ Up(rfile[r].pid)
      BY <1>1, <2>1, <2>3 DEF Up, WriteFile
    <3>2. pid[x] # rfile[r].pid
      BY <1>5, <3>1, NoneFacts DEF New, Up
    <3> QED BY <1>1, <3>1, <3>2 DEF RoomInv, FilesTrue, FullFile
  <2> QED BY <2>2, <2>3
<1>8. ServerInHand'
  BY <1>1, <1>4 DEF ServerInHand, Making
<1>9. TmpRemoved'
  BY <1>1, <1>4 DEF RoomInv, TmpRemoved, Making, WriteFile
<1>10. FileRead'
  <2>1. FileReadBy(x)'
    BY <1>1 DEF FileReadBy, Making, Reading, Leaving, FullFile, WriteFile
  <2>2. \A y \in People \ {x} : pc[y] # "home" => room[y] \in Rooms \ {room[x]}
    BY <1>1 DEF RoomInv, RoomTypeOK, RoomsApart, Making
  <2> QED BY <1>1, <1>2, <2>1, <2>2, OthersFileRead
<1>11. RunningNamed'
  <2>1. SUFFICES ASSUME NEW id \in Pids, Up(id)
                 PROVE  InHand(id)' \/ \E r \in Rooms : Names(r, id)'
    BY DEF RunningNamed, Up, WriteFile
  <2>2. CASE \E r \in Rooms : Names(r, id)
    BY <1>1, <2>2 DEF Names, WriteFile
  <2>3. CASE InHand(id)
    <3>1. PICK y \in People : pc[y] \in {"cat", "rm_tmp", "write"}
                              /\ (pc[y] # "cat" => pid[y] = id /\ port[y] = server[id].port)
      BY <2>3 DEF InHand
    <3>2. y = x
      BY <1>4, <3>1 DEF Making
    <3> QED BY <1>1, <3>1, <3>2 DEF Names, FullFile, WriteFile
  <2> QED BY <2>1, <2>2, <2>3 DEF RoomInv, RunningNamed
<1> QED BY <1>3, <1>6, <1>7, <1>8, <1>9, <1>10, <1>11 DEF RoomInv, RoomTyped

LEMMA CannotBindKeeps ==
  ASSUME RoomInv, RoomTyped', NEW x \in People, StartServer(x), UNCHANGED <<server, tmp>>
  PROVE  RoomInv'
<1>1. /\ pc[x] = "start" /\ pc'[x] = "cat"
      /\ \A y \in People \ {x} : pc'[y] = pc[y]
  BY GoesIs DEF RoomInv, StartServer, Stages
<1>2. GoesOn(x)
  BY <1>1 DEF StartServer, GoesOn, Entering, Making, Reading
<1>3. OneActs' /\ OneListens' /\ RoomsApart' /\ InServer' /\ EndsEmpty'
  BY <1>2, GoesOnKeeps
<1>4. \A y \in People \ {x} : ~Making(y)
  BY <1>2, OnlyOneEnters DEF GoesOn, Entering
<1>5. \A p \in Ports : tmp[p] = <<>>
  BY <1>1, <1>4 DEF RoomInv, TmpRemoved, Making
<1>6. PidsStarted' /\ FilesTrue'
  BY FilesKept DEF RoomInv, PidsStarted, Started, StartServer
<1>7. ServerInHand' /\ TmpRemoved'
  <2>1. port[x] \in Ports
    BY <1>1 DEF RoomInv, PortFound
  <2> QED BY <1>1, <1>4, <1>5, <2>1 DEF ServerInHand, TmpRemoved, Making, StartServer
<1>8. FileRead'
  <2>1. FileReadBy(x)'
    BY <1>1 DEF RoomInv, FileRead, FileReadBy, Making, Reading, Leaving, StartServer
  <2> QED BY <1>1, <1>2, <2>1, OthersFileRead DEF StartServer
<1>9. RunningNamed'
  <2>1. \A id : ~InHand(id)
    BY <1>1, <1>4 DEF InHand, Making
  <2>2. \A id \in Pids : Up(id) => \E r \in Rooms : Names(r, id)
    BY <2>1 DEF RoomInv, RunningNamed
  <2> QED BY <2>2 DEF RunningNamed, Up, Names, StartServer
<1> QED BY <1>3, <1>6, <1>7, <1>8, <1>9 DEF RoomInv, RoomTyped

LEMMA StartServerKeeps ==
  ASSUME RoomInv, RoomTyped', NEW x \in People, StartServer(x), ~ UNCHANGED <<server, tmp>>
  PROVE  RoomInv'
<1>1. PICK id \in Pids : /\ server[id].state = "free"
                         /\ server' = [server EXCEPT ![id] = [port |-> port[x], state |-> "up"]]
                         /\ tmp' = [tmp EXCEPT ![port[x]] = Append(@, id)]
  BY DEF StartServer
<1>2. /\ pc[x] = "start" /\ pc'[x] = "cat" /\ port[x] \in Ports
      /\ \A y \in People \ {x} : pc'[y] = pc[y]
  BY GoesIs DEF RoomInv, StartServer, Stages, PortFound
<1>3. /\ Entering(x) /\ Making(x) /\ Making(x)' /\ ~Reading(x)' /\ ~Leaving(x)'
      /\ \A y \in People \ {x} : ~Making(y) /\ ~Reading(y) /\ ~Making(y)' /\ ~Reading(y)'
  <2>1. Entering(x) /\ Making(x)
    BY <1>2 DEF Entering, Making
  <2>2. \A y \in People \ {x} : ~Making(y) /\ ~Reading(y)
    BY <2>1, OnlyOneEnters DEF Entering
  <2> QED BY <1>2, <2>1, <2>2 DEF Making, Reading, Leaving
<1>4. /\ server'[id].port = port[x] /\ server'[id].state = "up"
      /\ \A k \in Pids \ {id} : server'[k] = server[k]
  BY <1>1 DEF RoomInv, RoomTypeOK
<1>6. /\ \A y \in People : pid[y] # id
      /\ \A r \in Rooms : rfile[r].pid # id
  BY <1>1, NoneFacts DEF RoomInv, PidsStarted, Started
<1>7. /\ \A y \in People : Up(pid[y])' <=> Up(pid[y])
      /\ \A r \in Rooms : Up(rfile[r].pid)' <=> Up(rfile[r].pid)
  BY <1>4, <1>6 DEF Up, StartServer
<1>8. tmp'[port[x]] = <<id>> /\ \A p \in Ports \ {port[x]} : tmp'[p] = <<>>
  <2>1. \A p \in Ports : tmp[p] = <<>>
    BY <1>2, <1>3 DEF RoomInv, TmpRemoved, Making
  <2>2. Append(<<>>, id) = <<id>>
    OBVIOUS
  <2> QED BY <1>1, <1>2, <2>1, <2>2 DEF RoomInv, RoomTypeOK
<1>9. OneActs'
  <2>1. \A y \in People \ {x} : (Leaving(y)' <=> Leaving(y)) /\ (Busy(y)' <=> Busy(y)) /\ (Acting(y)' <=> Acting(y))
    BY <1>2, <1>3, <1>7 DEF Leaving, Busy, Acting, StartServer
  <2>2. Acting(x) /\ Busy(x)
    BY <1>2 DEF Acting, Making, Busy
  <2>3. \A z, y \in People : z # y /\ Acting(z)' /\ Busy(y)' => Leaving(y) /\ ~Up(pid[y]) /\ y # x
    BY <1>3, <2>1, <2>2 DEF RoomInv, OneActs, Making, Leaving
  <2> QED BY <1>7, <2>1, <2>3 DEF OneActs, Up, StartServer
<1>10. PidsStarted'
  <2>1. /\ \A y \in People : pid[y] \in Pids \cup {None}
        /\ \A r \in Rooms : rfile[r].pid \in Pids \cup {None}
    BY DEF RoomInv, RoomTypeOK, FileRecord
  <2>2. \A k \in Pids \cup {None} : Started(k) /\ k # id => Started(k)'
    BY <1>4 DEF Started
  <2>3. PidsStarted
    BY DEF RoomInv
  <2> QED BY <1>6, <2>1, <2>2, <2>3 DEF PidsStarted, Started, StartServer
<1>11. OneListens'
  <2>1. \A k \in Pids : Listening(k) => server[k].port # port[x]
    BY <1>1 DEF StartServer, InUse, ListensAt
  <2>2. \A k \in Pids \ {id} : Listening(k)' <=> Listening(k)
    BY <1>4 DEF Listening
  <2> QED BY <1>4, <2>1, <2>2 DEF RoomInv, OneListens
<1>12. FilesTrue'
  <2>1. \A r \in Rooms : Up(rfile[r].pid) => server'[rfile[r].pid] = server[rfile[r].pid]
    BY <1>4, <1>6 DEF Up
  <2> QED BY <1>7, <2>1 DEF RoomInv, FilesTrue, StartServer
<1>13. ServerInHand'
  <2>1. New(x, id)'
    BY <1>1, <1>4, <1>6 DEF New, StartServer
  <2> QED BY <1>2, <1>3, <1>8, <2>1 DEF ServerInHand, Making, StartServer
<1>14. TmpRemoved'
  BY <1>2, <1>8 DEF TmpRemoved, StartServer
<1>15. FileRead'
  <2>1. SUFFICES ASSUME NEW y \in People PROVE FileReadBy(y)'
    BY DEF FileRead
  <2>2. FileReadBy(y)
    BY DEF RoomInv, FileRead
  <2>3. server'[pid[y]] = server[pid[y]] \/ pid[y] \notin Pids
    BY <1>4, <1>6
  <2>4. UNCHANGED <<rfile, room, port, pid>>
    BY DEF StartServer
  <2>5. CASE y = x
    BY <1>2, <2>2, <2>4, <2>5 DEF FileReadBy, Making, Reading, Leaving
  <2>6. CASE y # x
    BY <1>2, <2>2, <2>3, <2>4, <2>6 DEF FileReadBy, Making, Reading, Leaving, Up, FullFile, AbsentFile
  <2> QED BY <2>5, <2>6
<1>16. RoomsApart'
  BY <1>2, <1>3 DEF RoomInv, RoomsApart, Leaving, StartServer
<1>17. InServer'
  <2>1. SUFFICES ASSUME NEW y \in People, pc'[y] = "chatting" PROVE chat[y] \in ListensAt(port[y])'
    BY DEF InServer, StartServer
  <2>2. chat[y] \in ListensAt(port[y])
    BY <1>2, <2>1 DEF RoomInv, InServer
  <2>3. chat[y] \in Pids \ {id}
    BY <1>1, <2>2 DEF ListensAt, Listening
  <2> QED BY <1>4, <2>2, <2>3 DEF ListensAt, Listening, StartServer
<1>18. EndsEmpty'
  BY <1>2, <1>7 DEF RoomInv, EndsEmpty, Members, Up, StartServer
<1>19. RunningNamed'
  <2>1. SUFFICES ASSUME NEW k \in Pids, Up(k)'
                 PROVE  InHand(k)' \/ \E r \in Rooms : Names(r, k)'
    BY DEF RunningNamed
  <2>2. CASE k = id
    BY <1>2, <1>8, <2>2 DEF InHand, StartServer
  <2>3. CASE k # id
    <3>1. Up(k) /\ server'[k] = server[k]
      BY <1>4, <2>1, <2>3 DEF Up
    <3>2. ~InHand(k)
      BY <1>2, <1>3 DEF InHand, Making
    <3>3. PICK r \in Rooms : Names(r, k)
      BY <3>1, <3>2 DEF RoomInv, RunningNamed
    <3> QED BY <3>1, <3>3 DEF Names, StartServer
  <2> QED BY <2>2, <2>3
<1> QED BY <1>9, <1>10, <1>11, <1>12, <1>13, <1>14, <1>15, <1>16, <1>17, <1>18, <1>19 DEF RoomInv, RoomTyped

-----------------------------------------------------------------------------
(* Entering the chat and leaving it.                                       *)

(* Files, servers and what scripts have read stay.                         *)
OnlyStages ==
  /\ UNCHANGED <<rfile, tmp, server, port, pid>>
  /\ \A y \in People : pc[y] \in {"cat", "rm_tmp", "write"} \/ pc'[y] \in {"cat", "rm_tmp", "write"} =>
       pc'[y] = pc[y]

LEMMA OnlyStagesKeep ==
  ASSUME RoomInv, OnlyStages
  PROVE  PidsStarted' /\ OneListens' /\ FilesTrue' /\ ServerInHand' /\ TmpRemoved' /\ RunningNamed'
<1>1. HandStill /\ NoServerStarts /\ rfile' = rfile
  BY DEF OnlyStages, HandStill, NoServerStarts
<1>2. PidsStarted' /\ OneListens' /\ FilesTrue'
  BY FilesKept DEF RoomInv, OnlyStages, PidsStarted, Started, OneListens, Listening
<1> QED BY <1>1, <1>2, InHandKept, TmpKept, RunningKept DEF RoomInv

(* A script has read what is true of the server it names.                  *)
LEMMA PortIsTrue ==
  ASSUME RoomInv, NEW x \in People, pc[x] \in {"chat", "chatting"} \/ Leaving(x), Up(pid[x])
  PROVE  server[pid[x]].port = port[x]
<1>1. FileReadBy(x) /\ room[x] \in Rooms
  BY DEF RoomInv, FileRead, RoomTypeOK
<1>2. CASE Leaving(x)
  BY <1>1, <1>2 DEF FileReadBy
<1>3. CASE ~Leaving(x)
  <2>1. rfile[room[x]] = FullFile(port[x], pid[x])
    BY <1>1, <1>3 DEF FileReadBy
  <2>2. rfile[room[x]].pid = pid[x] /\ rfile[room[x]].port = port[x]
    BY <2>1 DEF FullFile
  <2> QED BY <1>1, <2>2 DEF RoomInv, FilesTrue
<1> QED BY <1>2, <1>3

LEMMA ChatKeeps ==
  ASSUME RoomInv, RoomTyped', NEW x \in People, Chat(x)
  PROVE  RoomInv'
<1>1. /\ pc[x] = "chat" /\ pc'[x] \in {"chatting", "count"}
      /\ \A y \in People \ {x} : pc'[y] = pc[y] /\ chat'[y] = chat[y]
      /\ pc'[x] = "chatting" => chat'[x] \in ListensAt(port[x])
  <2>1. CASE \E id \in ListensAt(port[x]) : chat' = [chat EXCEPT ![x] = id] /\ Goes(x, "chatting")
    BY <2>1, GoesIs DEF RoomInv, RoomTypeOK, Chat, Stages
  <2>2. CASE chat' = chat /\ Goes(x, "count")
    BY <2>2, GoesIs DEF RoomInv, Chat, Stages
  <2> QED BY <2>1, <2>2 DEF Chat
<1>2. UNCHANGED <<rfile, tmp, server, room, port, pid>>
  BY DEF Chat
<1>3. PidsStarted' /\ OneListens' /\ FilesTrue' /\ ServerInHand' /\ TmpRemoved' /\ RunningNamed'
  BY <1>1, <1>2, OnlyStagesKeep DEF OnlyStages
<1>4. /\ Acting(x) /\ Reading(x) /\ Busy(x)
      /\ \A y \in People \ {x} : ~Making(y) /\ ~Reading(y) /\ (Busy(y) => Leaving(y) /\ ~Up(pid[y]))
  <2>1. Acting(x) /\ Reading(x) /\ Busy(x)
    BY <1>1 DEF Acting, Reading, Busy
  <2>2. \A y \in People \ {x} : ~Entering(y)
    BY <2>1, OnlyOneEnters DEF Entering
  <2> QED BY <2>1, <2>2 DEF RoomInv, OneActs, Entering
<1>5. OneActs'
  BY <1>1, <1>2, <1>4 DEF OneActs, Acting, Making, Reading, Leaving, Busy, Up
<1>6. FileRead'
  <2>1. SUFFICES ASSUME NEW y \in People PROVE FileReadBy(y)'
    BY DEF FileRead
  <2>2. FileReadBy(y)
    BY DEF RoomInv, FileRead
  <2>3. CASE y = x
    BY <1>1, <1>2, <2>2, <2>3, PortIsTrue DEF FileReadBy, Making, Reading, Leaving, Up, FullFile, AbsentFile
  <2>4. CASE y # x
    BY <1>1, <1>2, <2>2, <2>4 DEF FileReadBy, Making, Reading, Leaving, Up, FullFile, AbsentFile
  <2> QED BY <2>3, <2>4
<1>7. RoomsApart'
  BY <1>1, <1>2, <1>4 DEF RoomInv, RoomsApart, Making, Reading, Leaving
<1>8. InServer'
  BY <1>1, <1>2 DEF RoomInv, InServer, ListensAt, Listening
<1>9. EndsEmpty'
  BY <1>1, <1>2, <1>4 DEF EndsEmpty, Busy, Up
<1> QED BY <1>3, <1>5, <1>6, <1>7, <1>8, <1>9 DEF RoomInv, RoomTyped

LEMMA LeaveKeeps ==
  ASSUME RoomInv, RoomTyped', OneAtATime, NEW x \in People, Leave(x)
  PROVE  RoomInv'
<1>1. /\ pc[x] = "chatting" /\ pc'[x] = "count"
      /\ \A y \in People \ {x} : pc'[y] = pc[y] /\ chat'[y] = chat[y] /\ ~Busy(y)
  BY GoesIs DEF RoomInv, RoomTypeOK, Leave, Alone, Stages
<1>2. UNCHANGED <<rfile, tmp, server, room, port, pid>>
  BY DEF Leave
<1>3. PidsStarted' /\ OneListens' /\ FilesTrue' /\ ServerInHand' /\ TmpRemoved' /\ RunningNamed'
  BY <1>1, <1>2, OnlyStagesKeep DEF OnlyStages
<1>4. OneActs'
  BY <1>1 DEF OneActs, Busy, Acting, Making, Reading, Leaving
<1>5. FileRead'
  <2>1. SUFFICES ASSUME NEW y \in People PROVE FileReadBy(y)'
    BY DEF FileRead
  <2>2. FileReadBy(y)
    BY DEF RoomInv, FileRead
  <2>3. CASE y = x
    BY <1>1, <1>2, <2>2, <2>3, PortIsTrue DEF FileReadBy, Making, Reading, Leaving, Up, FullFile, AbsentFile
  <2>4. CASE y # x
    BY <1>1, <1>2, <2>2, <2>4 DEF FileReadBy, Making, Reading, Leaving, Up, FullFile, AbsentFile
  <2> QED BY <2>3, <2>4
<1>6. RoomsApart'
  BY <1>1, <1>2 DEF RoomsApart, Making, Reading, Leaving, Busy
<1>7. InServer'
  BY <1>1, <1>2 DEF RoomInv, InServer, ListensAt, Listening
<1>8. EndsEmpty'
  BY <1>1 DEF EndsEmpty, Busy
<1> QED BY <1>3, <1>4, <1>5, <1>6, <1>7, <1>8 DEF RoomInv, RoomTyped

LEMMA CountKeeps ==
  ASSUME RoomInv, RoomTyped', NEW x \in People, Count(x)
  PROVE  RoomInv'
<1>1. /\ pc[x] = "count" /\ pc'[x] \in {"kill", "home"}
      /\ \A y \in People \ {x} : pc'[y] = pc[y]
      /\ pc'[x] = "kill" => NobodyThere(port[x])
  BY GoesIs DEF RoomInv, Count, Stages
<1>2. UNCHANGED <<rfile, tmp, server, room, port, pid, chat>>
  BY DEF Count
<1>3. PidsStarted' /\ OneListens' /\ FilesTrue' /\ ServerInHand' /\ TmpRemoved' /\ RunningNamed'
  BY <1>1, <1>2, OnlyStagesKeep DEF OnlyStages
<1>4. OneActs'
  BY <1>1, <1>2 DEF RoomInv, OneActs, Busy, Acting, Making, Reading, Leaving, Up
<1>5. FileRead'
  <2>1. SUFFICES ASSUME NEW y \in People PROVE FileReadBy(y)'
    BY DEF FileRead
  <2>2. FileReadBy(y)
    BY DEF RoomInv, FileRead
  <2>3. /\ Making(y)' => Making(y)
        /\ Reading(y)' => Reading(y)
        /\ Leaving(y)' => Leaving(y)
        /\ pc'[y] \in {"read_pid", "chat", "chatting"} => pc'[y] = pc[y]
    BY <1>1 DEF Making, Reading, Leaving
  <2> QED BY <1>2, <2>2, <2>3 DEF FileReadBy, Up, FullFile, AbsentFile
<1>6. ASSUME pc'[x] = "kill"
      PROVE  \E id \in ListensAt(port[x]) : Members(id) = {} /\ ListensAt(port[x]) = {id}
  BY <1>1, <1>6 DEF NobodyThere, RoomInv, OneListens, ListensAt
<1>7. ASSUME pc'[x] = "kill", NEW z \in People, z # x, room[z] = room[x]
      PROVE  ~Reading(z) /\ pc[z] # "chatting"
  <2>1. PICK id \in ListensAt(port[x]) : Members(id) = {} /\ ListensAt(port[x]) = {id}
    BY <1>6, <1>7
  <2>2. ~Reading(z)
    BY <1>1, <1>7, <2>1 DEF RoomInv, RoomsApart, Leaving
  <2>3. ASSUME pc[z] = "chatting" PROVE FALSE
    <3>1. chat[z] \in ListensAt(port[z])
      BY <2>3 DEF RoomInv, InServer
    <3>2. FileReadBy(z) /\ FileReadBy(x)
      BY DEF RoomInv, FileRead
    <3>3. rfile[room[x]] = FullFile(port[z], pid[z]) /\ rfile[room[x]] \in {FullFile(port[x], pid[x]), AbsentFile}
      BY <1>1, <1>7, <2>3, <3>2 DEF FileReadBy, Leaving
    <3>4. port[z] = port[x]
      BY <3>3 DEF FullFile, AbsentFile
    <3>5. z \in Members(id)
      BY <2>1, <3>1, <3>4 DEF Members
    <3> QED BY <2>1, <3>5
  <2> QED BY <2>2, <2>3
<1>8. RoomsApart'
  BY <1>1, <1>2, <1>7 DEF RoomInv, RoomsApart, Making, Reading, Leaving, ListensAt, Listening
<1>9. InServer'
  BY <1>1, <1>2 DEF RoomInv, InServer, ListensAt, Listening
<1>10. EndsEmpty'
  <2>1. ASSUME pc'[x] = "kill", Up(pid[x]) PROVE Members(pid[x]) = {}
    <3>1. pid[x] \in ListensAt(port[x])
      BY <1>1, <2>1, PortIsTrue DEF Leaving, Up, ListensAt, Listening
    <3> QED BY <1>6, <2>1, <3>1
  <2> QED BY <1>1, <1>2, <2>1 DEF RoomInv, EndsEmpty, Members, Up
<1> QED BY <1>3, <1>4, <1>5, <1>8, <1>9, <1>10 DEF RoomInv, RoomTyped

LEMMA KillKeeps ==
  ASSUME RoomInv, RoomTyped', NEW x \in People, Kill(x)
  PROVE  RoomInv'
<1>1. /\ pc[x] = "kill" /\ pc'[x] = "rm"
      /\ \A y \in People \ {x} : pc'[y] = pc[y]
  BY GoesIs DEF RoomInv, Kill, Stages
<1>2. UNCHANGED <<rfile, tmp, room, port, pid, chat>>
  BY DEF Kill
<1>3. \A id \in Pids : /\ server'[id].port = server[id].port
                       /\ server'[id].state = IF id = pid[x] /\ server[id].state = "up"
                                                THEN "told" ELSE server[id].state
  BY DEF RoomInv, RoomTypeOK, Kill
<1>4. /\ HandStill /\ NoServerStarts
      /\ \A id : Up(id)' <=> Up(id) /\ id # pid[x]
      /\ \A id \in Pids : Listening(id)' <=> Listening(id)
  BY <1>1, <1>2, <1>3 DEF HandStill, NoServerStarts, Up, Listening
<1>5. PidsStarted'
  <2>1. /\ \A y \in People : pid[y] \in Pids \cup {None}
        /\ \A r \in Rooms : rfile[r].pid \in Pids \cup {None}
    BY DEF RoomInv, RoomTypeOK, FileRecord
  <2> QED BY <1>2, <1>4, <2>1 DEF RoomInv, PidsStarted, Started, NoServerStarts
<1>6. OneListens'
  BY <1>3, <1>4 DEF RoomInv, OneListens
<1>7. FilesTrue'
  <2>1. \A r \in Rooms : Up(rfile[r].pid)' => Up(rfile[r].pid) /\ server'[rfile[r].pid].port = server[rfile[r].pid].port
    BY <1>2, <1>3, <1>4 DEF Up
  <2> QED BY <1>2, <2>1 DEF RoomInv, FilesTrue
<1>8. ServerInHand' /\ TmpRemoved' /\ RunningNamed'
  BY <1>2, <1>4, InHandKept, TmpKept, RunningKept DEF RoomInv
<1>9. \A y \in People : /\ Making(y)' <=> Making(y)
                        /\ Reading(y)' <=> Reading(y)
                        /\ Leaving(y)' <=> Leaving(y)
                        /\ Busy(y)' <=> Busy(y)
                        /\ Up(pid[y])' => Up(pid[y])
  BY <1>1, <1>2, <1>4 DEF Making, Reading, Leaving, Busy, Up
<1>10. OneActs'
  BY <1>9 DEF RoomInv, OneActs, Acting
<1>11. FileRead'
  <2>1. SUFFICES ASSUME NEW y \in People PROVE FileReadBy(y)'
    BY DEF FileRead
  <2>2. FileReadBy(y)
    BY DEF RoomInv, FileRead
  <2>3. Up(pid[y])' => server'[pid[y]].port = server[pid[y]].port
    BY <1>2, <1>3 DEF Up
  <2> QED BY <1>1, <1>2, <1>9, <2>2, <2>3 DEF FileReadBy, FullFile, AbsentFile
<1>12. \A p : ListensAt(p)' = ListensAt(p)
  BY <1>3, <1>4 DEF ListensAt
<1>13. RoomsApart'
  <2>1. SUFFICES ASSUME NEW z \in People, NEW y \in People, z # y
                 PROVE  /\ Making(z)' /\ pc'[y] # "home" => room[y] # room[z]
                        /\ (Reading(z)' \/ pc'[z] = "chatting") /\ Leaving(y)' /\ room[y] = room[z] => pc'[y] = "count"
                        /\ Reading(z)' /\ Leaving(y)' /\ room[y] = room[z] => ListensAt(port[y])' = {}
    BY <1>2 DEF RoomsApart
  <2>2. ListensAt(port[y])' = ListensAt(port[y])
    BY <1>2, <1>12 DEF ListensAt
  <2> QED BY <1>1, <1>9, <2>1, <2>2 DEF RoomInv, RoomsApart
<1>14. InServer'
  <2>1. SUFFICES ASSUME NEW y \in People, pc'[y] = "chatting" PROVE chat[y] \in ListensAt(port[y])'
    BY <1>2 DEF InServer
  <2>2. chat[y] \in ListensAt(port[y])
    BY <1>1, <2>1 DEF RoomInv, InServer
  <2> QED BY <1>2, <1>3, <1>4, <2>2 DEF ListensAt
<1>15. EndsEmpty'
  BY <1>1, <1>2, <1>4 DEF RoomInv, EndsEmpty, Members, Up
<1> QED BY <1>5, <1>6, <1>7, <1>8, <1>10, <1>11, <1>13, <1>14, <1>15 DEF RoomInv, RoomTyped

LEMMA RemoveFileKeeps ==
  ASSUME RoomInv, RoomTyped', NEW x \in People, RemoveFile(x)
  PROVE  RoomInv'
<1>1. /\ pc[x] = "rm" /\ pc'[x] = "home" /\ Leaving(x) /\ room[x] \in Rooms
      /\ \A y \in People \ {x} : pc'[y] = pc[y]
      /\ rfile'[room[x]] = AbsentFile
      /\ \A r \in Rooms \ {room[x]} : rfile'[r] = rfile[r]
  BY GoesIs DEF RoomInv, RoomTypeOK, RemoveFile, Leaving, Stages
<1>2. UNCHANGED <<tmp, server, room, port, pid, chat>>
  BY DEF RemoveFile
<1>3. HandStill /\ NoServerStarts
  BY <1>1, <1>2 DEF HandStill, NoServerStarts
<1>4. PidsStarted'
  BY <1>1, <1>2 DEF RoomInv, PidsStarted, Started, AbsentFile
<1>5. OneListens' /\ FilesTrue'
  BY <1>1, <1>2, FilesKept DEF RoomInv, OneListens, Listening, AbsentFile
<1>6. ServerInHand' /\ TmpRemoved' /\ RunningNamed'
  <2>1. \A r \in Rooms : rfile'[r].pid \in {rfile[r].pid, None}
    BY <1>1 DEF AbsentFile
  <2>2. ~Up(rfile[room[x]].pid)
    <3>1. FileReadBy(x) /\ ~Up(pid[x])
      BY <1>1 DEF RoomInv, FileRead, EndsEmpty
    <3>2. rfile[room[x]].pid \in {pid[x], None}
      BY <1>1, <3>1 DEF FileReadBy, FullFile, AbsentFile
    <3> QED BY <3>1, <3>2, NoneFacts DEF Up
  <2>3. \A r \in Rooms : rfile[r].state = "full" /\ Up(rfile[r].pid) => rfile'[r] = rfile[r]
    BY <1>1, <2>2
  <2> QED BY <1>3, <2>1, <2>3, InHandKept, TmpKept, RunningKept DEF RoomInv
<1>7. OneActs'
  BY <1>1, <1>2 DEF RoomInv, OneActs, Busy, Acting, Making, Reading, Leaving, Up
<1>8. FileRead'
  <2>1. SUFFICES ASSUME NEW y \in People PROVE FileReadBy(y)'
    BY DEF FileRead
  <2>2. FileReadBy(y) /\ room[y] \in Rooms
    BY DEF RoomInv, FileRead, RoomTypeOK
  <2>3. CASE y = x
    BY <1>1, <2>3 DEF FileReadBy, Making, Reading, Leaving
  <2>4. CASE y # x /\ room[y] # room[x]
    BY <1>1, <1>2, <2>2, <2>4 DEF FileReadBy, Making, Reading, Leaving, Up, FullFile, AbsentFile
  <2>5. CASE y # x /\ room[y] = room[x]
    <3>1. ~Reading(y) /\ pc[y] # "chatting"
      BY <1>1, <2>5 DEF RoomInv, RoomsApart
    <3>2. ~Reading(y)' /\ pc'[y] \notin {"read_pid", "chat", "chatting"}
      BY <1>1, <2>5, <3>1 DEF Reading
    <3>3. rfile'[room[y]] = AbsentFile /\ AbsentFile.state # "full"
      BY <1>1, <2>5 DEF AbsentFile
    <3>4. Leaving(y)' /\ Up(pid[y])' => server[pid[y]].port = port[y]
      BY <1>1, <1>2, <2>2, <2>5 DEF FileReadBy, Leaving, Up
    <3> QED BY <1>2, <3>2, <3>3, <3>4 DEF FileReadBy
  <2> QED BY <2>3, <2>4, <2>5
<1>9. RoomsApart'
  BY <1>1, <1>2 DEF RoomInv, RoomsApart, Making, Reading, Leaving, ListensAt, Listening
<1>10. InServer'
  BY <1>1, <1>2 DEF RoomInv, InServer, ListensAt, Listening
<1>11. EndsEmpty'
  BY <1>1, <1>2 DEF RoomInv, EndsEmpty, Members, Up
<1> QED BY <1>4, <1>5, <1>6, <1>7, <1>8, <1>9, <1>10, <1>11 DEF RoomInv, RoomTyped

LEMMA AskKeeps ==
  ASSUME RoomInv, RoomTyped', OneAtATime, NEW x \in People, NEW r \in Rooms, Ask(x, r)
  PROVE  RoomInv'
<1>1. /\ pc[x] = "home" /\ room'[x] = r
      /\ \A y \in People \ {x} : pc'[y] = pc[y] /\ room'[y] = room[y] /\ ~Busy(y)
      /\ pc'[x] = IF rfile[r].state = "full" THEN "read_port" ELSE "truncate"
  BY GoesIs DEF RoomInv, RoomTypeOK, Ask, Alone, Stages
<1>2. UNCHANGED <<rfile, tmp, server, port, pid, chat>>
  BY DEF Ask
<1>3. PidsStarted' /\ OneListens' /\ FilesTrue' /\ ServerInHand' /\ TmpRemoved' /\ RunningNamed'
  BY <1>1, <1>2, OnlyStagesKeep DEF OnlyStages
<1>4. OneActs'
  BY <1>1 DEF OneActs, Busy, Acting, Making, Reading, Leaving
<1>5. FileRead'
  <2>1. SUFFICES ASSUME NEW y \in People PROVE FileReadBy(y)'
    BY DEF FileRead
  <2>2. CASE y = x
    BY <1>1, <1>2, <2>2 DEF FileReadBy, Making, Reading, Leaving
  <2>3. CASE y # x
    <3>1. FileReadBy(y)
      BY DEF RoomInv, FileRead
    <3> QED BY <1>1, <1>2, <2>3, <3>1 DEF FileReadBy, Making, Reading, Leaving, Up, FullFile, AbsentFile
  <2> QED BY <2>2, <2>3
<1>6. RoomsApart'
  <2>1. ASSUME NEW y \in People, pc[y] = "chatting" PROVE rfile[room[y]].state = "full"
    <3>1. rfile[room[y]] = FullFile(port[y], pid[y])
      BY <2>1 DEF RoomInv, FileRead, FileReadBy
    <3> QED BY <3>1 DEF FullFile
  <2>2. \A y \in People \ {x} : pc'[y] \in {"home", "chatting"}
    BY <1>1 DEF Busy
  <2> QED BY <1>1, <1>2, <2>1, <2>2 DEF RoomsApart, Making, Reading, Leaving
<1>7. InServer'
  BY <1>1, <1>2 DEF RoomInv, InServer, ListensAt, Listening
<1>8. EndsEmpty'
  BY <1>1 DEF EndsEmpty, Busy
<1> QED BY <1>3, <1>4, <1>5, <1>6, <1>7, <1>8 DEF RoomInv, RoomTyped

LEMMA TakeKeeps ==
  ASSUME RoomInv, RoomTyped', NEW p \in Ports, Take(p)
  PROVE  RoomInv'
<1>1. UNCHANGED <<rfile, tmp, server, pc, room, port, pid, chat>>
  BY DEF Take
<1>2. PidsStarted' /\ OneListens' /\ FilesTrue' /\ ServerInHand' /\ TmpRemoved' /\ RunningNamed'
  BY <1>1, OnlyStagesKeep DEF OnlyStages
<1>3. OneActs' /\ RoomsApart' /\ InServer' /\ EndsEmpty'
  BY <1>1 DEF RoomInv, OneActs, RoomsApart, InServer, EndsEmpty, Acting, Making, Reading, Leaving, Busy, Up,
              ListensAt, Listening, Members
<1>4. FileRead'
  BY <1>1 DEF RoomInv, FileRead, FileReadBy, Making, Reading, Leaving, Up, FullFile, AbsentFile
<1> QED BY <1>2, <1>3, <1>4 DEF RoomInv, RoomTyped

-----------------------------------------------------------------------------
(* The end of a server.                                                    *)

LEMMA EndKeeps ==
  ASSUME RoomInv, RoomTyped', NEW id \in Pids, Listening(id), NEW how \in {"gone", "crashed"}, End(id, how)
  PROVE  RoomInv'
<1> DEFINE Driven(y) == chat[y] = id
<1>1. \A y \in People : /\ pc'[y] = IF Driven(y) THEN "count" ELSE pc[y]
                        /\ chat'[y] = IF Driven(y) THEN None ELSE chat[y]
                        /\ Driven(y) => pc[y] = "chatting"
  BY NoneFacts DEF RoomInv, RoomTypeOK, End
<1>2. UNCHANGED <<rfile, tmp, room, port, pid>>
  BY DEF End
<1>3. \A k \in Pids : /\ server'[k].port = server[k].port
                      /\ server'[k].state = IF k = id THEN how ELSE server[k].state
  BY DEF RoomInv, RoomTypeOK, End
<1>4. /\ HandStill /\ NoServerStarts
      /\ \A k : Up(k)' <=> Up(k) /\ k # id
      /\ \A k \in Pids : Listening(k)' <=> Listening(k) /\ k # id
  BY <1>1, <1>2, <1>3 DEF HandStill, NoServerStarts, Up, Listening
<1>5. PidsStarted'
  <2>1. /\ \A y \in People : pid[y] \in Pids \cup {None}
        /\ \A r \in Rooms : rfile[r].pid \in Pids \cup {None}
    BY DEF RoomInv, RoomTypeOK, FileRecord
  <2> QED BY <1>2, <1>4, <2>1 DEF RoomInv, PidsStarted, Started, NoServerStarts
<1>6. OneListens'
  BY <1>3, <1>4 DEF RoomInv, OneListens
<1>7. FilesTrue'
  <2>1. \A r \in Rooms : Up(rfile[r].pid)' => Up(rfile[r].pid) /\ server'[rfile[r].pid].port = server[rfile[r].pid].port
    BY <1>2, <1>3, <1>4 DEF Up
  <2> QED BY <1>2, <2>1 DEF RoomInv, FilesTrue
<1>8. ServerInHand' /\ TmpRemoved' /\ RunningNamed'
  BY <1>2, <1>4, InHandKept, TmpKept, RunningKept DEF RoomInv
(* Whoever is driven out was in the only server at the port, and has read  *)
(* no process that still runs.                                             *)
<1>9. ASSUME NEW y \in People, Driven(y)
      PROVE  ListensAt(port[y]) = {id} /\ ListensAt(port[y])' = {} /\ ~Up(pid[y])'
  <2>1. pc[y] = "chatting" /\ id \in ListensAt(port[y])
    BY <1>1, <1>9 DEF RoomInv, InServer
  <2>2. ListensAt(port[y]) = {id}
    BY <2>1 DEF RoomInv, OneListens, ListensAt
  <2>3. ListensAt(port[y])' = {}
    BY <1>2, <1>3, <1>4, <2>2 DEF ListensAt
  <2>4. ~Up(pid[y])'
    <3>1. SUFFICES ASSUME Up(pid[y]) PROVE pid[y] = id
      BY <1>2, <1>4 DEF Up
    <3>2. pid[y] \in ListensAt(port[y])
      BY <2>1, <3>1, PortIsTrue DEF Up, ListensAt, Listening
    <3> QED BY <2>2, <3>2
  <2> QED BY <2>2, <2>3, <2>4
<1>10. \A y \in People : /\ Making(y)' <=> Making(y)
                         /\ Reading(y)' <=> Reading(y)
                         /\ Leaving(y)' <=> Leaving(y) \/ Driven(y)
                         /\ Busy(y)' <=> Busy(y) \/ Driven(y)
                         /\ Up(pid[y])' => Up(pid[y])
                         /\ Acting(y)' => Acting(y) /\ ~Driven(y)
  <2>1. SUFFICES ASSUME NEW y \in People
                 PROVE  /\ Making(y)' <=> Making(y)
                        /\ Reading(y)' <=> Reading(y)
                        /\ Leaving(y)' <=> Leaving(y) \/ Driven(y)
                        /\ Busy(y)' <=> Busy(y) \/ Driven(y)
                        /\ Up(pid[y])' => Up(pid[y])
                        /\ Acting(y)' => Acting(y) /\ ~Driven(y)
    OBVIOUS
  <2>2. /\ Making(y)' <=> Making(y)
        /\ Reading(y)' <=> Reading(y)
        /\ Leaving(y)' <=> Leaving(y) \/ Driven(y)
        /\ Busy(y)' <=> Busy(y) \/ Driven(y)
    BY <1>1 DEF Making, Reading, Leaving, Busy
  <2>3. Up(pid[y])' => Up(pid[y])
    BY <1>2, <1>4 DEF Up
  <2>4. Driven(y) => ~Making(y) /\ ~Reading(y) /\ ~Up(pid[y])'
    BY <1>1, <1>9 DEF Making, Reading
  <2> QED BY <2>2, <2>3, <2>4 DEF Acting
<1>11. OneActs'
  <2>1. SUFFICES ASSUME NEW z \in People, NEW y \in People, z # y, Acting(z)', Busy(y)'
                 PROVE  Leaving(y)' /\ ~Up(pid[y])'
    BY DEF OneActs
  <2> QED BY <1>9, <1>10, <2>1 DEF RoomInv, OneActs
<1>12. FileRead'
  <2>1. SUFFICES ASSUME NEW y \in People PROVE FileReadBy(y)'
    BY DEF FileRead
  <2>2. FileReadBy(y)
    BY DEF RoomInv, FileRead
  <2>3. CASE Driven(y)
    BY <1>1, <1>2, <1>9, <2>2, <2>3 DEF FileReadBy, Making, Reading, FullFile, AbsentFile
  <2>4. CASE ~Driven(y)
    <3>1. Up(pid[y])' => server'[pid[y]].port = server[pid[y]].port
      BY <1>2, <1>3 DEF Up
    <3> QED BY <1>1, <1>2, <1>10, <2>2, <2>4, <3>1 DEF FileReadBy, FullFile, AbsentFile
  <2> QED BY <2>3, <2>4
<1>13. RoomsApart'
  <2>1. SUFFICES ASSUME NEW z \in People, NEW y \in People, z # y
                 PROVE  /\ Making(z)' /\ pc'[y] # "home" => room[y] # room[z]
                        /\ (Reading(z)' \/ pc'[z] = "chatting") /\ Leaving(y)' /\ room[y] = room[z] => pc'[y] = "count"
                        /\ Reading(z)' /\ Leaving(y)' /\ room[y] = room[z] => ListensAt(port[y])' = {}
    BY <1>2 DEF RoomsApart
  <2>2. ListensAt(port[y])' \subseteq ListensAt(port[y])
    BY <1>2, <1>3, <1>4 DEF ListensAt
  <2>3. CASE Driven(y)
    BY <1>1, <1>9, <1>10, <2>1, <2>3 DEF RoomInv, RoomsApart
  <2>4. CASE ~Driven(y)
    BY <1>1, <1>10, <2>1, <2>2, <2>4 DEF RoomInv, RoomsApart
  <2> QED BY <2>3, <2>4
<1>14. InServer'
  <2>1. SUFFICES ASSUME NEW y \in People, pc'[y] = "chatting" PROVE chat'[y] \in ListensAt(port[y])'
    BY DEF InServer
  <2>2. chat'[y] = chat[y] /\ chat[y] # id /\ chat[y] \in ListensAt(port[y])
    BY <1>1, <2>1 DEF RoomInv, InServer
  <2> QED BY <1>2, <1>3, <1>4, <2>2 DEF ListensAt
<1>15. EndsEmpty'
  <2>1. \A k \in Pids : Members(k) = {} => Members(k)' = {}
    BY <1>1, NoneFacts DEF Members
  <2> QED BY <1>1, <1>2, <1>4, <2>1 DEF RoomInv, EndsEmpty, Up, Members
<1> QED BY <1>5, <1>6, <1>7, <1>8, <1>11, <1>12, <1>13, <1>14, <1>15 DEF RoomInv, RoomTyped

-----------------------------------------------------------------------------
(* The theorems.                                                           *)

LEMMA RoomInvInit ==
  ASSUME Init
  PROVE  RoomInv
<1>1. RoomTyped /\ RoomTypeOK
  BY InitTyped DEF RoomTyped
<1>2. OneActs /\ PidsStarted /\ TmpRemoved /\ RoomsApart /\ InServer /\ EndsEmpty
  BY DEF Init, OneActs, PidsStarted, Started, TmpRemoved, RoomsApart, InServer, EndsEmpty, Acting, Making, Reading,
         Leaving, Busy, AbsentFile
<1>3. OneListens /\ FilesTrue /\ RunningNamed
  BY NoneFacts DEF Init, OneListens, FilesTrue, RunningNamed, Listening, Up, AbsentFile
<1>4. ServerInHand /\ FileRead
  BY DEF Init, ServerInHand, FileRead, FileReadBy, Making, Reading, Leaving
<1> QED BY <1>1, <1>2, <1>3, <1>4 DEF RoomInv, RoomTyped

LEMMA RoomInvNext ==
  ASSUME RoomInv, OneAtATime, [Next]_vars
  PROVE  RoomInv'
<1>1. CASE UNCHANGED vars
  <2>1. UNCHANGED <<rfile, tmp, others, server, pc, room, port, pid, chat>>
    BY <1>1 DEF vars
  <2>2. RoomTypeOK' /\ PortFound'
    BY <2>1 DEF RoomInv, RoomTypeOK, PortFound
  <2>3. OnlyStages
    BY <2>1 DEF OnlyStages
  <2>4. OneActs' /\ RoomsApart' /\ InServer' /\ EndsEmpty'
    BY <2>1 DEF RoomInv, OneActs, RoomsApart, InServer, EndsEmpty, Acting, Making, Reading, Leaving, Busy, Up,
                ListensAt, Listening, Members
  <2>5. FileRead'
    BY <2>1 DEF RoomInv, FileRead, FileReadBy, Making, Reading, Leaving, Up, FullFile, AbsentFile
  <2> QED BY <2>2, <2>3, <2>4, <2>5, OnlyStagesKeep DEF RoomInv
<1>2. CASE Next
  <2>1. RoomTyped'
    BY <1>2, NextTyped DEF RoomInv, RoomTyped
  <2>2. ASSUME NEW x \in People, Script(x) PROVE RoomInv'
    BY <2>1, <2>2, TruncateKeeps, FindPortKeeps, CannotBindKeeps, StartServerKeeps, ReadTmpKeeps, RemoveTmpKeeps,
       WriteFileKeeps, ReadPortKeeps, ReadPidKeeps, ChatKeeps, CountKeeps, KillKeeps, RemoveFileKeeps DEF Script
  <2>3. ASSUME NEW x \in People, Leave(x) \/ \E r \in Rooms : Ask(x, r) PROVE RoomInv'
    BY <2>1, <2>3, LeaveKeeps, AskKeeps
  <2>4. ASSUME NEW id \in Pids, ServerExits(id) \/ ServerCrashes(id) PROVE RoomInv'
    BY <2>1, <2>4, EndKeeps DEF ServerExits, ServerCrashes, Listening
  <2>5. ASSUME NEW p \in Ports, Take(p) PROVE RoomInv'
    BY <2>1, <2>5, TakeKeeps
  <2> QED BY <1>2, <2>2, <2>3, <2>4, <2>5 DEF Next
<1> QED BY <1>1, <1>2

(* When people come and go one after the other, what each script has read  *)
(* and written down stays true of the servers, also after crashes and when *)
(* ports go to others: RoomInv (rchat.substah:112-148).                    *)
THEOREM RoomInvHolds ==
  ASSUME OneAtATime
  PROVE  Spec => []RoomInv
<1>1. RoomInv /\ [Next]_vars => RoomInv'
  BY RoomInvNext
<1> QED BY <1>1, RoomInvInit, PTL DEF Spec

(* Then every running server is the server of exactly one room, whose file *)
(* has its port and its process, so that it can be entered and ended       *)
(* (rchat.substah:112-135, 145-147): ServersHaveRooms.                     *)
THEOREM EveryServerHasARoom ==
  ASSUME OneAtATime
  PROVE  Spec => []ServersHaveRooms
<1>1. RoomInv => ServersHaveRooms
  <2>1. ASSUME RoomInv, NEW id \in Pids, server[id].state = "up"
        PROVE  InHand(id) \/ \E r \in Rooms : Names(r, id) /\ \A q \in Rooms : Names(q, id) => q = r
    <3>1. Up(id)
      BY <2>1 DEF Up
    <3>2. \A q, r \in Rooms : Names(q, id) /\ Names(r, id) => q = r
      BY <2>1, <3>1 DEF RoomInv, FilesTrue, Names
    <3> QED BY <2>1, <3>1, <3>2 DEF RoomInv, RunningNamed
  <2> QED BY <2>1 DEF ServersHaveRooms
<1> QED BY <1>1, RoomInvHolds, PTL

(* Then a script ends a server only when nobody is in it, although it      *)
(* counted a while ago, at a port, and kills by a number it read when its  *)
(* user came (rchat.substah:145-146): NobodyIsCut.                         *)
THEOREM NobodyIsCutOff ==
  ASSUME OneAtATime
  PROVE  Spec => NobodyIsCut
<1> DEFINE Spares == \A id \in Pids : server[id].state = "up" /\ server'[id].state = "told" => Members(id) = {}
<1>1. ASSUME RoomInv, [Next]_vars PROVE [Spares]_vars
  <2>1. SUFFICES ASSUME Next, NEW id \in Pids, server[id].state = "up", server'[id].state = "told"
                 PROVE  Members(id) = {}
    BY <1>1
  <2>2. ASSUME NEW x \in People, Kill(x) PROVE Members(id) = {}
    <3>1. pc[x] = "kill" /\ pid[x] = id
      BY <2>1, <2>2 DEF Kill
    <3> QED BY <1>1, <2>1, <3>1 DEF RoomInv, EndsEmpty, Up
  <2>3. ASSUME NEW x \in People, StartServer(x) PROVE FALSE
    BY <1>1, <2>1, <2>3 DEF RoomInv, RoomTypeOK, StartServer
  <2>4. ASSUME NEW k \in Pids, NEW how \in {"gone", "crashed"}, End(k, how) PROVE FALSE
    BY <1>1, <2>1, <2>4 DEF RoomInv, RoomTypeOK, End
  <2>5. CASE server' = server
    BY <2>1, <2>5
  <2>6. \/ \E x \in People : Kill(x) \/ StartServer(x)
        \/ \E k \in Pids : End(k, "gone") \/ End(k, "crashed")
        \/ server' = server
    BY <2>1 DEF Next, Script, Truncate, FindPort, ReadTmp, RemoveTmp, WriteFile, ReadPort, ReadPid, Chat, Count,
                RemoveFile, Leave, Ask, Take, ServerExits, ServerCrashes
  <2> QED BY <2>2, <2>3, <2>4, <2>5, <2>6
<1>2. RoomInv /\ [Next]_vars => [Spares]_vars
  BY <1>1
<1> HIDE DEF Spares
<1>3. Spec => [][Spares]_vars
  BY <1>2, RoomInvHolds, PTL DEF Spec
<1> QED BY <1>3 DEF NobodyIsCut, Spares
=============================================================================
