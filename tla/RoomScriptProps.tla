-------------------------- MODULE RoomScriptProps --------------------------
(***************************************************************************)
(* What is claimed of the rooms.                                           *)
(***************************************************************************)
EXTENDS RoomScript

FileRecord == [state : {"absent", "empty", "full"}, port : Ports \cup {None}, pid : Pids \cup {None}]

\* Every variable holds a value of its type, and only those who chat are in a
\* server (rchat.substah:112-148).
RoomTypeOK ==
  /\ rfile \in [Rooms -> FileRecord]
  /\ tmp \in [Ports -> Seq(Pids)]
  /\ others \subseteq Ports
  /\ server \in [Pids -> [port : Ports \cup {None}, state : {"free", "up", "told", "gone", "crashed"}]]
  /\ pc \in [People -> {"home", "truncate", "find_port", "start", "cat", "rm_tmp", "write",
                        "read_port", "read_pid", "chat", "chatting", "count", "kill", "rm"}]
  /\ room \in [People -> Rooms]
  /\ port \in [People -> Ports \cup {None}]
  /\ pid \in [People -> Pids \cup {None}]
  /\ chat \in [People -> Pids \cup {None}]
  /\ \A x \in People : chat[x] # None <=> pc[x] = "chatting"

\* Somebody is about to write down, or to end, the process.
InHand(id) ==
  \E x \in People :
    \/ pc[x] = "cat" /\ tmp[port[x]] = <<id>>
    \/ pc[x] \in {"rm_tmp", "write"} /\ pid[x] = id /\ port[x] = server[id].port

Names(r, id) == rfile[r].state = "full" /\ rfile[r].pid = id /\ rfile[r].port = server[id].port

\* Every running server is the server of exactly one room, whose file has its
\* port and its process, so that it can be entered and ended; also after
\* servers have crashed and their ports have gone to others
\* (rchat.substah:112-135, 145-147).
ServersHaveRooms ==
  \A id \in Pids : server[id].state = "up" =>
    InHand(id) \/ \E r \in Rooms : Names(r, id) /\ \A q \in Rooms : Names(q, id) => q = r

\* A script ends a server only when nobody is in it, although it asked a
\* while ago, by port, and kills by a number it read when its user came
\* (rchat.substah:145-146).
NobodyIsCut ==
  [][\A id \in Pids :
       server[id].state = "up" /\ server'[id].state = "told" => Members(id) = {}]_vars

Crashed == \E id \in Pids : server[id].state = "crashed"

\* A server that is started, or left by the last one, is ended, unless
\* somebody enters or a server has crashed (rchat.substah:145-146).
EmptyRoomsEnd ==
  \A id \in Pids :
    server[id].state = "up" /\ Members(id) = {} ~> server[id].state # "up" \/ Members(id) # {} \/ Crashed

-----------------------------------------------------------------------------
(* The inductive invariant, for people who come and go one after the other. *)

Up(id)      == id \in Pids /\ server[id].state = "up"
Started(id) == id = None \/ server[id].state # "free"

\* The stages of a script: it makes a room, it reads the file of one, it leaves.
Making(x)  == pc[x] \in {"truncate", "find_port", "start", "cat", "rm_tmp", "write"}
Reading(x) == pc[x] \in {"read_port", "read_pid", "chat"}
Leaving(x) == pc[x] \in {"count", "kill", "rm"}

\* A script that can still start, enter or end a server.
Acting(x) == Making(x) \/ Reading(x) \/ (Leaving(x) /\ Up(pid[x]))

\* Whoever is driven out by the end of a server may leave while somebody acts,
\* but the process in hand is none that runs.
OneActs ==
  \A x, y \in People : x # y /\ Acting(x) /\ Busy(y) => Leaving(y) /\ ~Up(pid[y])

\* Process numbers in files and scripts are of servers that were started: what
\* was not running is not started again under the number.
PidsStarted ==
  /\ \A x \in People : Started(pid[x])
  /\ \A r \in Rooms : Started(rfile[r].pid)

OneListens == \A a, b \in Pids : Listening(a) /\ Listening(b) /\ server[a].port = server[b].port => a = b

\* What a file says of a running server is true, and no other file says it.
FilesTrue ==
  \A r \in Rooms : Up(rfile[r].pid) =>
    /\ rfile[r].state = "full" /\ rfile[r].port = server[rfile[r].pid].port
    /\ \A q \in Rooms : rfile[q].pid = rfile[r].pid => q = r

\* A script that starts a server has found a port for it.
PortFound == \A x \in People : pc[x] \in {"start", "cat", "rm_tmp", "write"} => port[x] \in Ports

\* The server a script has started, which no file names yet.
New(x, id) ==
  /\ id \in Pids /\ server[id].state # "free" /\ server[id].port = port[x]
  /\ \A r \in Rooms : rfile[r].pid # id

ServerInHand ==
  \A x \in People :
    /\ pc[x] = "cat" => tmp[port[x]] = <<>> \/ \E id \in Pids : tmp[port[x]] = <<id>> /\ New(x, id)
    /\ pc[x] \in {"rm_tmp", "write"} => pid[x] = None \/ New(x, pid[x])

TmpRemoved ==
  \A p \in Ports : tmp[p] # <<>> => \E x \in People : pc[x] \in {"cat", "rm_tmp"} /\ port[x] = p

\* What a script has read is what the file of its room still says, or the file
\* is gone.
FileReadBy(x) == LET file == rfile[room[x]] IN
  /\ Making(x)  => file.state # "full"
  /\ Reading(x) => file.state = "full"
  /\ pc[x] = "read_pid" => file.port = port[x]
  /\ pc[x] \in {"chat", "chatting"} => file = FullFile(port[x], pid[x])
  /\ Leaving(x) => file = FullFile(port[x], pid[x]) \/ file = AbsentFile
  /\ Leaving(x) /\ Up(pid[x]) => server[pid[x]].port = port[x]

FileRead == \A x \in People : FileReadBy(x)

\* Nobody removes the file of a room somebody else makes, enters or is in.
RoomsApart ==
  \A x, y \in People : x # y =>
    /\ Making(x) /\ pc[y] # "home" => room[y] # room[x]
    /\ (Reading(x) \/ pc[x] = "chatting") /\ Leaving(y) /\ room[y] = room[x] => pc[y] = "count"
    /\ Reading(x) /\ Leaving(y) /\ room[y] = room[x] => ListensAt(port[y]) = {}

InServer == \A x \in People : pc[x] = "chatting" => chat[x] \in ListensAt(port[x])

\* Nobody is in a server that a script is about to end, and it has ended the
\* one whose file it is about to remove.
EndsEmpty ==
  \A x \in People :
    /\ pc[x] = "kill" /\ Up(pid[x]) => Members(pid[x]) = {}
    /\ pc[x] = "rm" => ~Up(pid[x])

RunningNamed == \A id \in Pids : Up(id) => InHand(id) \/ \E r \in Rooms : Names(r, id)

\* Every server that runs is the server of a room, or about to be.
RoomInv ==
  /\ RoomTypeOK /\ PortFound /\ OneActs /\ PidsStarted /\ OneListens /\ FilesTrue /\ ServerInHand
  /\ TmpRemoved /\ FileRead /\ RoomsApart /\ InServer /\ EndsEmpty /\ RunningNamed

-----------------------------------------------------------------------------
(* What the documents say and the code does not do.                        *)

\* README:9-11: rchat "works by starting a server on a different port for every
\* room": no two rooms have the same one.
DifferentPorts ==
  \A q, r \in Rooms :
    rfile[q].state = "full" /\ rfile[r].state = "full" /\ rfile[q].port = rfile[r].port => q = r
=============================================================================
