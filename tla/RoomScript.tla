----------------------------- MODULE RoomScript -----------------------------
(***************************************************************************)
(* rchat (src/src/rchat.substah): rooms out of servers.  Everybody runs a  *)
(* script of their own; what the scripts share is one file per room, which *)
(* names the port and the process of the room's server, one temporary file *)
(* per port, and the servers.                                              *)
(*                                                                         *)
(* A step is one command of the script: between any two of them another    *)
(* script may run.  The default room, which has no file, and the lists are *)
(* left out.  A server is started by smsg server, asked by smsgwho -c how  *)
(* many are in the room, and ended by kill.                                *)
(*                                                                         *)
(* An operator whose name ends in Slip is a plausible mistake in the       *)
(* definition below it; nothing uses it.                                   *)
(***************************************************************************)
EXTENDS Integers, Sequences, FiniteSets

CONSTANTS
  People,
  Rooms,         \* names of rooms
  START_PORT,    \* the first port for a room
  MaxPorts,      \* bound: ports tried
  MaxServers,    \* bound: servers ever started
  OtherPorts,    \* bound: ports other programs of the machine may take
  OneAtATime     \* bound: whether people open and leave rooms one after the other

Ports == START_PORT..(START_PORT + MaxPorts - 1)

ASSUME RoomAssumption ==
  /\ START_PORT \in Nat \ {0}
  /\ MaxPorts \in Nat \ {0}
  /\ MaxServers \in Nat
  /\ OtherPorts \subseteq Ports
  /\ OneAtATime \in BOOLEAN

Pids  == 1..MaxServers
None  == 0                \* an empty string: no port, no process

VARIABLES
  rfile,     \* the file of a room: "absent", "empty" or "full", and its two lines
  tmp,       \* the temporary file of a port: the processes that wrote to it
  others,    \* the ports other programs listen at
  server,    \* every process: its port, and "free", "up", "told" to end, "gone", "crashed"
  pc,        \* the next command of each script
  room,      \* its variables: $room,
  port,      \* $port and
  pid,       \* $pid
  chat       \* the server somebody chats in

scriptVars == <<pc, room, port, pid>>
vars       == <<rfile, tmp, others, server, pc, room, port, pid, chat>>

AbsentFile      == [state |-> "absent", port |-> None, pid |-> None]
EmptyFile       == [state |-> "empty", port |-> None, pid |-> None]
\* The two lines in the other order.
FullFileSlip(p, id) == [state |-> "full", port |-> id, pid |-> p]

FullFile(p, id) == [state |-> "full", port |-> p, pid |-> id]

Init ==
  /\ rfile = [r \in Rooms |-> AbsentFile]
  /\ tmp = [p \in Ports |-> <<>>]
  /\ others = {}
  /\ server = [id \in Pids |-> [port |-> None, state |-> "free"]]
  /\ pc = [x \in People |-> "home"]
  /\ room \in [People -> Rooms]
  /\ port = [x \in People |-> None]
  /\ pid = [x \in People |-> None]
  /\ chat = [x \in People |-> None]

-----------------------------------------------------------------------------
(* The servers.                                                            *)

\* A server that was told to end listens until it notices.
Listening(id)  == server[id].state \in {"up", "told"}
ListensAt(p)   == {id \in Pids : Listening(id) /\ server[id].port = p}
InUse(p)       == p \in others \/ ListensAt(p) # {}
Members(id)    == {x \in People : chat[x] = id}

\* Whoever chats in a server that ends finds the connection closed.
End(id, how) ==
  /\ server' = [server EXCEPT ![id].state = how]
  /\ chat' = [x \in People |-> IF chat[x] = id THEN None ELSE chat[x]]
  /\ pc' = [x \in People |-> IF chat[x] = id THEN "count" ELSE pc[x]]
  /\ UNCHANGED <<rfile, tmp, others, room, port, pid>>

\* Another program takes a port.
Take(p) ==
  /\ p \in OtherPorts /\ ~InUse(p)
  /\ others' = others \cup {p}
  /\ UNCHANGED <<rfile, tmp, server, pc, room, port, pid, chat>>

ServerExits(id)   == server[id].state = "told" /\ End(id, "gone")
ServerCrashes(id) == server[id].state = "up" /\ End(id, "crashed")

-----------------------------------------------------------------------------
(* Entering a room.                                                        *)

Busy(x) == pc[x] \notin {"home", "chatting"}

\* Bound: nobody else is between the prompt and the chat, or after it.
Alone(x) == OneAtATime => \A y \in People \ {x} : ~Busy(y)

Goes(x, next) == pc' = [pc EXCEPT ![x] = next]

\* [ ! -s $rfile ]
Ask(x, r) ==
  /\ pc[x] = "home" /\ Alone(x)
  /\ room' = [room EXCEPT ![x] = r]
  /\ Goes(x, IF rfile[r].state = "full" THEN "read_port" ELSE "truncate")
  /\ UNCHANGED <<rfile, tmp, others, server, port, pid, chat>>

\* >"$rfile"
Truncate(x) ==
  /\ pc[x] = "truncate"
  /\ rfile' = [rfile EXCEPT ![room[x]] = EmptyFile]
  /\ Goes(x, "find_port")
  /\ UNCHANGED <<tmp, others, server, room, port, pid, chat>>

\* The ports nobody listens at, as netstat sees them.
FreePorts == {p \in Ports : ~InUse(p)}

FindPort(x) ==
  /\ pc[x] = "find_port"
  /\ \E p \in FreePorts :
       /\ \A q \in FreePorts : p <= q
       /\ port' = [port EXCEPT ![x] = p]
  /\ Goes(x, "start")
  /\ UNCHANGED <<rfile, tmp, others, server, room, pid, chat>>

\* smsg server >> tmp: the process prints its number, or cannot bind.
StartServer(x) ==
  /\ pc[x] = "start"
  /\ \/ /\ ~InUse(port[x])
        /\ \E id \in Pids :
             /\ server[id].state = "free" /\ \A k \in Pids : server[k].state = "free" => id <= k
             /\ server' = [server EXCEPT ![id] = [port |-> port[x], state |-> "up"]]
             /\ tmp' = [tmp EXCEPT ![port[x]] = Append(@, id)]
     \/ InUse(port[x]) /\ UNCHANGED <<server, tmp>>
  /\ Goes(x, "cat")
  /\ UNCHANGED <<rfile, others, room, port, pid, chat>>

\* The first number in the temporary file; the second line of the room's file
\* is what counts later.
ReadTmp(x) ==
  /\ pc[x] = "cat"
  /\ pid' = [pid EXCEPT ![x] = IF tmp[port[x]] = <<>> THEN None ELSE Head(tmp[port[x]])]
  /\ Goes(x, "rm_tmp")
  /\ UNCHANGED <<rfile, tmp, others, server, room, port, chat>>

\* The temporary file stays.
RemoveTmpSlip(x) ==
  /\ pc[x] = "rm_tmp"
  /\ Goes(x, "write")
  /\ UNCHANGED <<rfile, tmp, others, server, room, port, pid, chat>>

RemoveTmp(x) ==
  /\ pc[x] = "rm_tmp"
  /\ tmp' = [tmp EXCEPT ![port[x]] = <<>>]
  /\ Goes(x, "write")
  /\ UNCHANGED <<rfile, others, server, room, port, pid, chat>>

WriteFile(x) ==
  /\ pc[x] = "write"
  /\ rfile' = [rfile EXCEPT ![room[x]] = FullFile(port[x], pid[x])]
  /\ Goes(x, "read_port")
  /\ UNCHANGED <<tmp, others, server, room, port, pid, chat>>

\* sed -n 1p, sed -n 2p
ReadPort(x) ==
  /\ pc[x] = "read_port"
  /\ port' = [port EXCEPT ![x] = rfile[room[x]].port]
  /\ Goes(x, "read_pid")
  /\ UNCHANGED <<rfile, tmp, others, server, room, pid, chat>>

ReadPid(x) ==
  /\ pc[x] = "read_pid"
  /\ pid' = [pid EXCEPT ![x] = rfile[room[x]].pid]
  /\ Goes(x, "chat")
  /\ UNCHANGED <<rfile, tmp, others, server, room, port, chat>>

\* smsg chat: enters the room of the server at the port, or fails (nobody is
\* there, or the nickname is in use).
Chat(x) ==
  /\ pc[x] = "chat"
  /\ \/ \E id \in ListensAt(port[x]) : chat' = [chat EXCEPT ![x] = id] /\ Goes(x, "chatting")
     \/ chat' = chat /\ Goes(x, "count")
  /\ UNCHANGED <<rfile, tmp, others, server, room, port, pid>>

-----------------------------------------------------------------------------
(* Leaving it.                                                             *)

Leave(x) ==
  /\ pc[x] = "chatting" /\ Alone(x)
  /\ chat' = [chat EXCEPT ![x] = None]
  /\ Goes(x, "count")
  /\ UNCHANGED <<rfile, tmp, others, server, room, port, pid>>

\* One member is taken for none, and one is counted too many.
NobodyThereSlip(p)     == \E id \in ListensAt(p) : Cardinality(Members(id)) <= 1
NobodyThereMoreSlip(p) == \E id \in ListensAt(p) : Cardinality(Members(id)) + 1 = 0

\* smsgwho -c counts none; when it fails it prints nothing and the test fails.
NobodyThere(p) == \E id \in ListensAt(p) : Members(id) = {}

Count(x) ==
  /\ pc[x] = "count"
  /\ \/ NobodyThere(port[x]) /\ Goes(x, "kill")
     \/ ~NobodyThere(port[x]) /\ Goes(x, "home")
     \/ (\A id \in ListensAt(port[x]) : server[id].state = "told") /\ Goes(x, "home")
  /\ UNCHANGED <<rfile, tmp, others, server, room, port, pid, chat>>

Kill(x) ==
  /\ pc[x] = "kill"
  /\ server' = [id \in Pids |->
                  IF id = pid[x] /\ server[id].state = "up"
                    THEN [server[id] EXCEPT !.state = "told"] ELSE server[id]]
  /\ Goes(x, "rm")
  /\ UNCHANGED <<rfile, tmp, others, room, port, pid, chat>>

RemoveFile(x) ==
  /\ pc[x] = "rm"
  /\ rfile' = [rfile EXCEPT ![room[x]] = AbsentFile]
  /\ Goes(x, "home")
  /\ UNCHANGED <<tmp, others, server, room, port, pid, chat>>

-----------------------------------------------------------------------------
\* The commands that follow each other without anybody's doing.
Script(x) ==
  \/ Truncate(x) \/ FindPort(x) \/ StartServer(x) \/ ReadTmp(x) \/ RemoveTmp(x) \/ WriteFile(x)
  \/ ReadPort(x) \/ ReadPid(x) \/ Chat(x)
  \/ Count(x) \/ Kill(x) \/ RemoveFile(x)

Next ==
  \/ \E x \in People : Script(x) \/ Leave(x) \/ \E r \in Rooms : Ask(x, r)
  \/ \E id \in Pids : ServerExits(id) \/ ServerCrashes(id)
  \/ \E p \in Ports : Take(p)

Spec == Init /\ [][Next]_vars

\* A script that was started runs on; its user may chat for ever.
FairSpec == Spec /\ \A x \in People : WF_vars(Script(x))
=============================================================================
