# A verification project for smsg

smsg sends messages to the terminals of logged-in users, keeps their
preferences, and lets them chat. One server process (`src/src/server.c`) serves
many client programs over TCP; everything that travels between them is a *net
command* (`src/ncmd.c`). This directory holds TLA+ modules that model the
program, TLC configurations that check them on small instances, and proofs
about them that TLAPS checks for every value of their constants.

Paths below are relative to the repository (`src/src/server.c` is the file
`src/server.c` of the source tree); a name such as `servchat.c:403` is a file and
a line.

## 1. Inventory

### The parts of the system

| part | code | state it keeps | operations |
|---|---|---|---|
| user data store | `udata.c`, `smsg.h` | a list of entries, one per user name: terminal, beep, mode, queue, descriptor, nickname, flags | get (by user, nickname, descriptor), add, update, set and unset flags, queue pointer |
| server loop | `server.c` (`runserver`), `serv.h` | `clients[]` (descriptor and receive buffer per slot), `num_clients`, the watched set `master`, the copy `read_fds` | select, accept or refuse, receive, end of file, kill a slot |
| chat room | `server.c` (CHATDOOR), `servchat.c` | only the store | enter, leave, nick, away, beep, oper, say, psay, me, who, op, deop, kick, ban, unban |
| requests | `server.c` (MSG, GETLIST, SETPREF, GETPREF, GETQMSG), `servmisc.c` | only the store; reads the login records and the terminals' modes | deliver a message to a terminal, list users, set and get preferences, fetch a queued message |
| message queue | `servmisc.c` (`mq_*`) | a byte array per user, with lengths and a count in it | add, get, count |
| net command codec | `ncmd.c` | a receive buffer that grows and shrinks | complete?, opcode, argument, remove, build |
| client commands | `client.c` | one connection, one request | connect, ask, read one answer; join and leave the chat |
| chat client | `clchat.c` | nickname, flags, list of names, line being edited and the lines before it | keys, commands, messages of the server |
| smsgwho | `smsgwho.c` | none | asks a server who is in its room |
| rchat | `rchat.substah` | the run file: room, port, process | start, enter, list and end rooms, one server each |
| main program | `smsg.c` | options | parse, dispatch |
| Java classes | `java/*.java` | none | an unfinished codec nothing uses |

### How the parts interact

* A client program connects and writes net commands; the server's loop reads
  them, **one `recv()` and one command at a time**, and runs a handler to its end.
  The handlers are the only code that changes the store. There are no threads.
* The chat handlers write to *other* clients' sockets, and a kick or ban tells
  the loop, through its return value, to close another client's slot.
* Handlers find people by nickname or by descriptor in the store, and slots by
  descriptor in `clients[]`; three tables (store, slots, the kernel's
  descriptors) must therefore agree whenever a handler runs.
* `rchat` counts the people `smsgwho` sees and kills the server when there is
  nobody.

### Which behaviours are hard

* *Interleaving*: handlers are atomic, but commands of different programs,
  newcomers, closes and resets interleave freely between the check of one
  handler and the next, and inside one round of the loop, which works from a
  copy of what `select()` reported.
* *Stale state*: descriptors are reused by the kernel as soon as they are closed,
  possibly in the same round, while the entry of the user who had one keeps its
  number (`udata.c:168`).
* *Copies*: four paths take a user out of the room, three set or change a
  nickname; each repeats the code of the others.
* *Bounds*: slots, descriptors, the listen queue, and the high-water mark
  `num_clients`.
* *Streams*: a `recv()` returns any part of what was sent; several commands may
  arrive at once and only one is handled.

### What makes each part correct

* store: look-ups find whom they should; "leave alone" values leave alone.
* loop: slots, watched set and kernel agree; no `recv()` or `accept()` blocks; the
  closed are cleaned up and the queued are served whatever others do.
* room: nicknames are distinct, whoever is in the room is connected, rights
  end with presence, bans last, the others hear of every change, talk reaches
  the room and nobody else, and only the expelled are cut off.
* requests: a message goes to a terminal of its recipient that accepts messages;
  preferences are what was last set.
* codec and queue: what is put in comes out, in order and once, however the stream was cut.
* client: its picture of the room follows the server's.
* rchat: a room in the run file has a server; nobody is in a room whose server
  is killed.

`PROJECT.json` lists every hazard at its line with the properties that cover it.

## 2. The modules

| module | what it is |
|---|---|
| `Udata` | the store as a value, the functions of `udata.c` as operators on it |
| `SmsgServer` | the server process, its peers and the kernel between them; EXTENDS `Udata` |
| `ChatRoom` | the abstract room: members, nicknames, operators, away, banned, one action per event |
| `SmsgServerProps` | type invariant, invariants, action properties, liveness, the inductive invariant `IInv`, and `Room == INSTANCE ChatRoom WITH ...` |
| `MCServer` | the commands that programs send in each TLC run |
| `SmsgServerProof` | what the look-ups of the store return; `IInv` is inductive, and the invariants that follow; `SmsgServer` implements `ChatRoom`; bans last |
| `ServerWireProof` | what a step of the server is for one connection and the client at its other end: what is taken, answered, learnt and listed |
| `ServerMembersProof` | members stay connected, who is cut off, and who is told what, with one name per program |
| `ChatClient` | the chat client at the other end of each connection; EXTENDS the server |
| `ChatClientProps` | the properties of clients and server together |
| `MCClient` | what users type in each TLC run |
| `SmsgRequests` | the five requests against the store, the login records and the terminals; EXTENDS `Udata` |
| `Preferences` | the abstract promise of the requests: a preference per user |
| `SmsgRequestsProps` | the properties of `SmsgRequests`, its inductive invariant `RequestInv`, and `Promise == INSTANCE Preferences WITH ...` |
| `MCRequests` | the requests sent in each TLC run |
| `LineHistory` | the line editor of the chat client, its history and the C heap |
| `LineHistoryProps`, `MCLines` | its properties; the symmetry of the heap |
| `RoomScript` | rchat: many scripts, the files they share, the servers they start and end |
| `RoomScriptProps` | the properties of the rooms, and the inductive invariant `RoomInv` |
| `Ncmd` | the codec: net commands as bytes |
| `NetStream` | server, chat clients and smsgwho exchange bytes over bounded sockets; EXTENDS `Ncmd` |
| `NetStreamProps` | the properties of the streams, and their inductive invariant `StreamInv` |
| `NetStreamProof` | what is encoded is what is read; `StreamInv` is inductive, and all safety properties of the streams |
| `SmsgRequestsProof` | `RequestInv` is inductive, the properties that follow, and `SmsgRequests` implements `Preferences` |
| `LineHistoryProof` | `HistoryInv` is inductive, and the properties of `LineHistory` that follow |
| `ChatClientProof` | server and clients together: pictures are typed, no leave is refused, nicknames catch up, the sidebar is true |
| `RoomScriptProof` | `RoomInv` is inductive: every server has its room, and nobody is cut off |

### Udata

A store is a record: `list`, the users with an entry in list order (entries are
never removed: the removal in `udata_update()` is commented out), and `ent`, the
entry of each. A handler that makes several calls composes several operators
and is still one step. `UdataUpdate` has the semantics of the code: a field with
a "leave alone" value keeps what it was, and a negative descriptor is such a
value. Allocation succeeds.

### SmsgServer

State and code: `udata` is the list of `udata.c`; `clients`, `num_clients` are
those of `serv.h`; `master` and `read_fds` are the sets of `runserver()` without the
listener, which is `servfd_ready`. The kernel is `sock` (which connection a
descriptor is), `backlog` (the listen queue) and `toServer` (commands received
and not read). `peer` is the other end. `out` holds what the latest step wrote,
per connection; it is a history of one step and nothing reads it.

One round of the loop is `Select`, then `Accept`, `AcceptRefuse` or `AcceptFails` if
the listener was reported, then one receive per reported slot in slot order
(`Turn`). A receive is `RecvIncomplete`, `RecvError`, `RecvEof`, or one of the handlers
of `HandleCmd`; each handler ends with `Done`, which closes the slot to kill, if
any, and takes the one command off the buffer, as `server.c:669-686` does.
Between two of these steps peers connect, send, close and reset at will.

How the data is abstracted:

* A net command is a record of its opcode, its user (CHATDOOR only) and its
  first argument. Texts, reasons and the l33t translation are left out; the
  *form* of an answer (notice, denied, absent, ...) stands for its number of
  arguments, which is how the client tells them apart.
* Each command travels in two fragments, so a `recv()` can end inside one.
* Opcodes the server has no case for are "UNEXPECTED". The five requests MSG,
  GETLIST, SETPREF, GETPREF and GETQMSG are not commands of this module; they are in `SmsgRequests`.
* Writes always succeed at once: send buffers have no bound here.

The constants are the sets of users, strings, terminals and programs, the
commands each program may send (`Cmds`), and the limits: `MAX_CLIENTS`,
`SERVER_BACKLOG`, `FdLimit` (descriptors for connections) and the one artificial
bound, `MaxUnread` (commands sent by one peer and not handled yet).

### ChatClient

`chatter()` and `chatter_func()` at the other end of every connection: the module EXTENDS
`SmsgServer`, takes its server as it is (`ServerStep`) and replaces its arbitrary peers
with clients. `fromServer` is what the server wrote and a client has not read; `stage` is
how far `chatter()` is; `nick`, `flags` and `culist` are the picture the client shows.

| action | code |
|---|---|
| `Connect`, `AskToJoin`, `JoinAnswer` | `client.c:342-370`: connect, send CHATDOOR, one `recv()`; a NAK ends the program, anything else starts the chat |
| `HandleMessage` | one round of the loop `clchat.c:1117-1386`: learn from the message, ask /who if the message calls for it |
| `Type`, `Quit` | a line of the user (`clchat.c:932-1081`), /quit and the leave command (`client.c:372-382`) |
| `LeaveAnswer` | one `recv()`, whatever it brings, then close (`client.c:384-405`) |
| `ServerGone`, `Killed` | end of file; a signal at any moment |

A client reads any number of messages at a time and handles them one by one, each with the
`send()` it may cause, so one step is one message; only where messages are never handled (with
the answers to join and leave) does the number read matter. A close with unread input
resets the connection. Left out: the editor, the screen, and texts (with them `kicked`,
which only chooses a text). A message is never split; a split answer to a join would leave
the client out of step with the stream (`client.c:368`).

### ChatRoom

Eleven kinds of events over `members`, `nick`, `ops`, `away` and `banned`. There is no
event that lifts a ban, because the code has none that works. The refinement
reads the members from the PRESENT flag, the nicknames and marks from the
entries (`Room` in `SmsgServerProps`).

### SmsgRequests

MSG, GETLIST, SETPREF, GETPREF and GETQMSG against the store of `Udata` and a world the
server does not own: `login`, who is on each terminal line (the utmp records), and
`mesg`, which lines accept messages. A handler runs alone in the server, but between its
system calls people log in and out and switch `mesg`, so each handler is split there:

| actions | code |
|---|---|
| `Receive` | a command is complete (`server.c:90`) |
| `MsgCheck`, `MsgPrefer`, `MsgFirst`, `MsgMode`, `MsgWrite` | does the recipient exist and is logged in; is the preferred terminal still theirs (if not it is forgotten); otherwise the first line of theirs; does it accept messages; open and write |
| `GetList`, `GetListName`, `GetListEnd` | one look at the login records, then one at the terminal of each name |
| `SetPref`, `GetPref`, `GetQMsg` | one step each; the checks of user and address are part of it |
| `ChatRefused`, `ChatJoin`, `ChatLeave` | what CHATDOOR does to the same entries, between two requests |
| `Login`, `Logout`, `Mesg` | the world |

`tty` and `tbeep` are `tptr0` and the beep of the handler, `pending` and `list` the loop of
GETLIST. `seen` and `modes` are history: who was on each line, and which modes it had,
since the request arrived; a request's answer can be true of that time only, not of
one instant. They are emptied with the answer, so they cost few states.

What is abstracted: texts; the order of utmp (any line of a user may be the first);
`get_userlist()` is one look at utmp; a terminal that does not exist is a member of
`Ttys` outside `Lines`; `open()` and `isatty()` may fail. The server and the requests are
two modules over one store and not composed: a request changes no field the chat reads
(`tty`, `beep`, `mode`), and `SmsgRequests` has the three ways the chat changes entries.

### Preferences

The promise: a preference per user, set by a request (`Set`), told as it is (`Tell`), its
terminal forgotten by a message only (`Forget`), followed by a delivery (`Deliver`) in terminal and beep. The
refinement reads a preference off every entry, the default for a user without one, and
so says that creating entries, joining, leaving and logging in change no preference.

### LineHistory

`iqueue[k][0]`, the line k steps back, is `line[k]`, and `iqueue[k][1]`, its backup, `backup[k]`: a buffer, the length it
is taken to have (`ttlen`) and the length used. `heap` has the real size of every allocated object. One step is
the allocation before a key is read (`MakeRoom`, `clchat.c:659-667`) or a key; the characters are left
out, a completed word is an insertion of any length. The C heap is modelled as the language has
it: an object never comes back under the same pointer while something refers to it, and a write or read
outside of an object, or a free of what is none, is undefined; the model then ends and `fault` has its name.
So the model says both what always holds (nobody shares a buffer, none is lost) and which sequences of keys lead outside.

### RoomScript

One step is one command of the script (`rchat.substah:99-148`): test the room's file, empty it, find a
port, start a server, read its process number from the temporary file, write the room's file, read
it, chat, count, kill, remove the file. The files, the ports and the servers are shared; `port` and `pid` are shell variables. A
server that is told to end listens until it notices, and may crash. Left out: the default room, the lists,
scripts that are interrupted, and process numbers that are used again.

### Ncmd and NetStream

`Ncmd` has the codec as functions on sequences of bytes, offsets as in the source; a position 0 means "not
there" in `ArgEnd` as it does in `ncmd_iscomplete()`. `NetStream` puts it to work: `up` and `down` are the two directions of a connection in the
kernel, at most `SockBuf` bytes each; `sbuf` and `rbuf` are the receive buffers; `sending` and `outbox` are
what a blocked `send()` has left, and who has something there does nothing else. A `recv()` takes any of `Pieces`. The server handles one
command per `recv()`, a chat client all that are whole, smsgwho waits for the first. `said`, `handled`, `told`, `heard` are histories of whole commands, against which
the bytes are compared. Three operations stand for all: one answered to the sender (who), one passed on (say), one that makes
every receiver ask (away); a client connects and joins before the model begins. What the server sends is as
long as the room makes it, so the two directions can fill at the same time: the server then waits in a `send()`
to a client that waits in a `send()` to the server (`Gridlock`). TLC reaches that state within the bounds of `stream`, and it lasts for ever;
the properties say that it is the only way to be stuck.

### Slips

Next to some definitions stands one with the name plus `Slip`: the same code with
a plausible mistake (a missing test, a wrong bound, a forgotten call). Nothing
uses them. Each shows that a property has teeth: with the slip in place of the
definition TLC finds the property violated in the same run.
`PROJECT.json` "mutants" pairs them with properties.

## 3. The runs

All runs of `SmsgServer` and `ChatClient` use two users, the nicknames "ann", "bob" and the few strings the code
treats specially, and take their commands from `MCServer` or `MCClient`; `requests` takes
its requests from `MCRequests`.

| run | properties | what it shows | bounds |
|---|---|---|---|
| `room` | `NicksDistinct`, `MembersConnected`, `WhoListsTheRoom`, `SnapshotHolds`, `TalkStaysInRoom`, `ChangesAreAnnounced` | Two programs join, rename themselves, talk, close or reset at any point of the server's round: nicknames stay distinct, everybody in the room is connected, /who counts right, talk reaches the room, every change is announced, and the select() snapshot stays true. | 2 programs, 3 slots, 2 descriptors, listen queue of 1, 1 unread command each; nicknames "ann", "bob" |
| `moderation` | `RightsNeedPresence`, `BanIsFinal`, `OnlyTheExpelledAreCut`, `ImplementsRoom` | An operator makes somebody an operator who may then ban the first, while both come and go: rights end with presence, bans last, only the expelled are cut off, and every step is an event of the abstract room. | 2 programs, 3 slots, 2 descriptors, listen queue of 1, 1 unread command each; an operator and one who may become one |
| `anyname` | `IInv` | Programs that join under several names on one descriptor and leave somebody behind in the room: what holds without the discipline of the client. | 2 programs that join under either name, 2 slots, 1 descriptor |
| `slots` | `TypeOK`, `SlotsMatchKernel`, `ClosedAreCleanedUp`, `QueueIsServed` | Two programs come and go until every slot was used: slots, the watched set and the kernel's table agree, through refusals and resets, and with the server process scheduled closed connections are cleaned up and queued ones served although others keep sending. | 2 programs, 2 slots, 2 descriptors, listen queue of 1, 1 unread command each; with fairness |
| `refused` (violation) | `RefusedOnlyWhenFull` | Once every slot was used, a newcomer is refused although a slot is free. | 3 programs, 2 slots, 2 descriptors, listen queue of 1 |
| `requests` | `RequestInv`, `MessageReachesRecipient`, `SteadyPreferenceKept`, `ListIsTrue`, `ImplementsPreferences` | Every request, local and not, for users with and without an account and a terminal that does not exist, while people log in and out, switch mesg and chat: messages reach a terminal of their recipient, a preference is not forgotten while it is good, the user list is true of the time of the request, and every step does to the preferences what Preferences allows. | 2 users, 1 account, 2 lines, 1 user chats; every request, local and not |
| `client` | `ClientTypeOK`, `SidebarIsTrue`, `NickCatchesUp`, `LeaveIsNotRefused` | Two chat clients and the server: while they join, rename themselves, become operator, kick, quit or die, with notices and commands under way in both directions and several read at once, the sidebar is right once things settle, a client never loses track of its own nickname, and a leave is never refused. | 2 clients, 2 slots, 2 descriptors, listen queue of 1, 1 unread command each; MaxBehind 1, WholeReads |
| `lines` | `HistoryInv`, `LinesOwned`, `NothingLeaks`, `NoHoles`, `FaultsNeedHistory` | Every sequence of keys that types, recalls, edits and sends lines: the entries of the history never share a buffer and lose none, the history has no holes, and a write outside of a buffer or a bad free() needs a recalled line. | 3 lines, 5 buffers, buffers of 2 bytes that grow by 2, lines of 2 characters at most |
| `rooms` | `RoomTypeOK`, `ServersHaveRooms`, `RoomInv`, `NobodyIsCut`, `EmptyRoomsEnd` | Two people open, share, leave and end rooms while servers crash and another program takes a port: a running server has exactly one room, whose file names its port and process, nobody is cut off, and empty rooms end. | 2 people, 2 rooms, 2 ports of which another program may take one, 3 servers, OneAtATime; with fairness |
| `stream` | `NothingLostOrTwice`, `FramingIsExact`, `CountIsRight`, `StreamInv`, `ServerComesBack`, `AskersAreAnswered` | The server, a chat client and smsgwho exchange commands as bytes over sockets that hold few of them: nothing is lost, doubled or framed wrongly wherever the streams are cut, smsgwho counts right and gets its answer, and the server waits for ever in a send() only when the receiver does too. | 1 chat client that types 2 commands, 1 smsgwho, sockets of 12 bytes, pieces of 7 or of up to 12; with fairness |
| `overrun` (violation) | `NoOverrun` | Editing a recalled line after it was restored from its backup writes behind the buffer. | 3 lines, 5 buffers, lines of 2 characters at most, buffers of 2 bytes that grow when 1 is left |
| `rooms_shared` (violation) | `DifferentPorts` | Two people who open rooms at the same time get two rooms with one port. | 2 people, 2 rooms, 2 ports, 2 servers |

Deadlock is not checked in the server runs: when every program has closed and none
connects again the system has stopped, which is no error. It is checked in
`requests`, where the world can always move. `lines`, `rooms` and `stream` stop when an undefined
behaviour was reached, no server can be started any more, or everybody has got what they asked for (or waits for ever, see `Gridlock`).

*Bounds and why they are enough.* Two programs are enough for every pair-wise
conflict (a nickname, a slot, an operator and a target, a speaker and a
listener). They get three slots where programs leave and come back (`room`,
`moderation`): once all slots were in use at once the server refuses everybody
(`refused`), and with two the run would end there. `slots` has two, so that refusals
happen, and `anyname` one descriptor, so that accept() fails for want of one and
every join reuses the descriptor of somebody who may be left behind. `MaxUnread = 1`
means that a program's next command arrives after the last was handled; what happens to
several in one `recv()` is the subject of `stream`. In `client` the limit makes a client
ask for the list again only when the server has taken its last question; answers and
notices still cross with the next one, and one read of the client takes any number of them. There a `recv()` of the server ends between commands
(`WholeReads`; the other runs split them), and a user types when nobody has unread messages and
the server has handled what this client sent before (`MaxBehind`): what piles up is
what clients send by themselves, and what both users type at once. `requests` has two users and two
lines: the recipient and somebody else, the preferred line and another, which is all
the handlers distinguish; it has no artificial bound. In `lines` there are a newest line, an oldest one and one
between, which is all the history distinguishes, and a buffer for every line and every backup: only then can a line be
recalled that was replaced by its backup before, which is where the faults are. Lines are so short that every character meets an end;
a completion longer than the room a buffer has left does not occur there, and is left to the theorem. In `rooms` two ports, of which another program may take the first, let a search go past a port that is
taken, and let both rooms be up at once when it is not; people
open and leave rooms one after the other (`OneAtATime`), servers crash and ports are taken at any
time; without the bound the rooms get mixed up in the way `rooms_shared` shows, and every property of
the run with them. In `stream` a socket holds less than two commands, and one answer of /who does not fit, so every sender
waits in the middle of a command at times; pieces of seven bytes, and what is left over when twelve
are full, end in the opcode, the count, the length and the text of a
command. The theorems have no bounds.

*Fairness.* `FairSpec` adds `WF_vars(Server)`: the server process is scheduled
when it has something to do. That is what the operating system gives a process
that no handler blocks; the peers get no fairness at all, so a program may be
silent for ever. Nothing stronger is needed, because a round is finite and
serves everybody `select()` reported. In `rooms` the scripts are fair
(a shell runs the next command), the people are not: they may chat for ever. In `stream` the
server's loop serves every connection that has input, since a round goes over all of them, and
the programs go on when they can; who types is free not to. There every client sends finitely many commands, so
weak fairness is enough.

### Where documents and code differ

The three violation runs are disagreements between a comment or document of the
repository and the code:

* `refused`: `smsg.h:29` says `MAX_CLIENTS` bounds the connected clients; it bounds the
  slots ever used, and once they all were, everybody new is refused
  (`server.c:585`).
* `overrun`: `clchat.c:65-67` says a line's buffer starts with LCC_BUF_ADD_LEN bytes and grows when
  few are left. The backup of a recalled line has as many bytes as the line has characters, but its
  entry says as many as the line's buffer (`clchat.c:895-896`); when it is restored
  (`clchat.c:1085`), recalled again and edited, the characters go behind its end.
* `rooms_shared`: `src/README:9-11` says rchat starts a server on a different port for every room. Between the
  search for a free port (`rchat.substah:122-131`) and the start of a server there (line 132) another
  script may find the same; the server that comes second cannot bind, and its script writes the
  port, with no process, into the file of its room. Two rooms then share a server.

The models have other behaviours a document says otherwise of; no run is spent on them, each
follows from a few lines:

* `CHATCMD.protocol:49` says a kick is told to everyone, also "you're being kicked"; the target is
  out of the room before the room is told, and its connection just ends (`servchat.c:428`,
  `Expel` of `SmsgServer`).
* `CHATCMD.protocol:96` says unban lets a user enter again; the target is looked up among those
  present, where no banned user is (`servchat.c:403`). That no event of `ChatRoom` lifts a
  ban is checked by `ImplementsRoom`.
* `NETCMD.protocol:36` says leaving is always answered; a leave that arrives in one `recv()` with an
  earlier command stays in the buffer of a peer that sends nothing more (`server.c:670`).
* `NETCMD.protocol:16` says a GETQMSG is replied to with QMSG or NAK; every user with an entry has a
  null queue, which `mq_getnum()` reads (`servmisc.c:255`), and the process ends (`GetQMsg` of
  `SmsgRequests`, its step "crashed").
* `clchat.c:125`, the client's help, says the status bar shows one's marks; a notice that
  arrives with the answer to the join is never handled, and nothing asks for marks
  later (`client.c:351`, `JoinAnswer` of `ChatClient`).

## 4. What is proved

Each theorem is stated for every value of the constants, in contrast to the runs: for every set of users, programs, terminals, strings, commands and requests and for
all limits that satisfy `UdataAssumption`, `ServerAssumption`, `ClientAssumption`, `RequestsAssumption`, `LineAssumption`, `RoomAssumption` and `StreamAssumption` (null
values differ from real ones, limits are positive, the special strings are strings,
a client joins under one login name, lines are terminals, the beep and mode arguments are bytes, a history has at least one line, ports and processes are positive numbers, buffers grow by more than the room they keep free,
and the clients of the streams are finitely many, with names of one byte):

* `ServerInvariant` (`SmsgServerProof`): IInv, the inductive strengthening behind the safety invariants, holds in every reachable state: the store is a room, slots, watched set and kernel agree, connections are told apart, and what select() reported stays true.
* `TypeCorrect` (`SmsgServerProof`): Every variable always holds a value of its type.
* `NicksAlwaysDistinct` (`SmsgServerProof`): No two users in the room ever have the same nickname, for any number of users, programs, slots and commands.
* `RightsEndWithPresence` (`SmsgServerProof`): Operator rights and the away mark never outlive the presence they were obtained in.
* `SlotsAlwaysMatch` (`SmsgServerProof`): Slots, the set given to select() and the kernel's descriptor table always agree.
* `ServerNeverBlocksReading` (`SmsgServerProof`): Every recv() and accept() of a round finds something, although handlers close descriptors that the same round reported.
* `ServerIsARoom` (`SmsgServerProof`): SmsgServer implements ChatRoom: every step of the server is one event of the abstract room or none.
* `BansLast` (`SmsgServerProof`): Whoever is banned stays banned and out of the room.
* `RequestsInvariant` (`SmsgRequestsProof`): What the handler of a request has found out between its looks at the login records and the terminals was true during the request.
* `RequestsTypeCorrect` (`SmsgRequestsProof`): The request handlers keep every variable, the store included, in its type.
* `MessagesReachRecipients` (`SmsgRequestsProof`): A message is written to a terminal that was its recipient's and accepted messages during the request.
* `ListsAreTrue` (`SmsgRequestsProof`): The user list in an answer is true of the time of the request.
* `SteadyPreferencesKept` (`SmsgRequestsProof`): A preferred terminal that its user did not leave during the request is replaced by a SETPREF of that user only.
* `RequestsImplementPreferences` (`SmsgRequestsProof`): The request handlers, among chat and logins, implement Preferences.
* `HistoryInvariant` (`LineHistoryProof`): whatever keys are pressed, for any number of lines, any buffer length and any heap: every line has a buffer of its own, so has every backup but the oldest, no buffer is lost, there are no holes, and a line fits its buffer; this is inductive.
* `LinesAlwaysOwned` (`LineHistoryProof`): no two lines, no two backups, and no line and backup ever share a buffer, and all but the oldest backup are allocated.
* `NothingEverLeaks` (`LineHistoryProof`): every buffer on the heap is reachable from an entry, so none is lost by recalling, restoring or returning.
* `NeverAHole` (`LineHistoryProof`): the lines have no gaps, backups belong to lines, and a key always finds a line to edit.
* `FaultsComeFromHistory` (`LineHistoryProof`): a write or read outside of a buffer happens only while a recalled line is edited, a bad free only when the oldest backup is a pointer to what is gone.
* `MembersAlwaysConnected` (`ServerMembersProof`): when each program joins under one name only: whoever is in the room is at the other end of an open connection, held by a slot, that is theirs alone.
* `OnlyExpelledAreCut` (`ServerMembersProof`): when each program joins under one name only: the server closes the connection of a program that has not closed it only to expel the user who speaks through it.
* `WhoAlwaysListsTheRoom` (`ServerMembersProof`): when each program joins under one name only: the users a /who answer lists are those in the room.
* `TalkAlwaysStaysInRoom` (`ServerMembersProof`): when each program joins under one name only: public talk reaches everybody in the room and nobody else, under the speaker's nickname and marks, and private talk reaches its two ends.
* `ChangesAreAlwaysAnnounced` (`ServerMembersProof`): when each program joins under one name only: whoever is in the room is told of everybody else who enters, leaves, is expelled, changes nickname or gains or loses a mark.
* `ClientIsTyped` (`ChatClientProof`): however server and clients interleave, the picture a client keeps and the messages on their way to it are what the code takes them for.
* `LeaveIsNeverRefused` (`ChatClientProof`): when every client joins under a nickname: the answer to a leave is never a NAK, whatever the other programs and the server do between the keys and the answer.
* `NickAlwaysCatchesUp` (`ChatClientProof`): when every client joins under a nickname: the nickname in the status bar is, once everything on its way has been handled, the one the server has for the user, as long as the user is in the room.
* `SidebarIsAlwaysTrue` (`ChatClientProof`): when every client joins under a nickname: a client with nothing under way shows exactly the names and marks in the room, however changes, questions and lists crossed on the way.
* `RoomIsTyped` (`RoomScriptProof`): however scripts interleave and servers crash, the files and the variables of the scripts hold ports and processes, and exactly those who chat are in a server.
* `RoomInvHolds` (`RoomScriptProof`): when people come and go one after the other: what each script has read and written stays true of the servers, also after crashes and when ports go to others.
* `EveryServerHasARoom` (`RoomScriptProof`): when people come and go one after the other: every running server is the server of exactly one room, whose file has its port and its process.
* `NobodyIsCutOff` (`RoomScriptProof`): when people come and go one after the other: a script ends a server only when nobody is in it.
* `StreamInvariant` (`NetStreamProof`): however the kernel cuts the streams and the server and the clients take turns, what was said and told is what was handled and what waits, byte for byte, and smsgwho gets nothing but its list.
* `EverythingArrives` (`NetStreamProof`): every byte of every command is in exactly one place and in order, for any number of clients, any size of buffers and any cuts.
* `FramesAreExact` (`NetStreamProof`): in every receive buffer a command is taken for whole exactly when its last byte has arrived, whatever follows it.
* `CountIsTheRoom` (`NetStreamProof`): smsgwho prints the number of those in the room, for any room of at most 255.
* `AskersHearTheList` (`NetStreamProof`): nothing that is passed on in the room reaches smsgwho, and it says nothing but its question.
* `CommandsSurvive` (`NetStreamProof`): a command of any number of arguments of any bytes, encoded, is found whole, read as it was built and removed with its last byte, whatever follows it.
* `GridlockIsForEver` (`NetStreamProof`): once the server and the client it sends to wait for each other in a send(), no step of anybody ends it, so the exception in the two liveness properties of the streams is a dead end.

The argument. `IInv` is the inductive invariant; the properties alone are not
inductive. Its parts and why they are needed:

* `GoodRoom(udata)`: whoever is present has an entry, an open descriptor number and
  a nickname of their own and is not banned; a user without an entry has no
  state; marks need presence. The look-up by nickname finds a present user only
  with a non-negative descriptor (`udata.c:34`), so distinct nicknames need it.
* `SlotsMatchKernel` with `ConnectionsDistinct`: that a kill of another slot leaves the
  tables in agreement needs each descriptor in one slot and each connection
  under one descriptor.
* `SnapshotTrue`: every descriptor still in `read_fds` has something to read. It
  survives a handler that closes a descriptor because the connection of another
  is a different one.

`SmsgServerProof` shows what each sequence of store calls amounts to (`FlagSetIs`,
`UpdateIs`, `JoinedIs`, `BanIs`, ...: one entry is replaced), that each handler keeps
`GoodRoom` (one lemma per handler), that each step of the loop keeps the tables
(`DoneKeeps`, `AcceptKeeps`, ...), and combines them in `NextKeeps`. Its second half turns
the same replaced entries into events of `ChatRoom`, one lemma per handler, and
combines them in `StepIsEvent`.

`ServerMembersProof` assumes `OneNameEach`: each program joins under one name, as `chatter()`
of `client.c` does. Without it the server is not to be trusted with its members, and the
run `anyname` is about what holds even then: CHATDOOR does not compare the connection it
comes on with the one its user joined on, so one program could take another's user out of the room, and an
end of file takes out only the first of the users who share a descriptor. `MembersInv` is what has to be carried
along with `IInv`. Its first half, `Owned`, says that every command on its way to the server, in the
kernel or in the buffer of a slot, is one that the program at the other end may send;
descriptors are handed out again, so a buffer that outlived its connection would break it. Its second half,
`Connected`, says that the descriptor of whoever is in the room is open and that the program
behind it owns the name. Two members on one descriptor would then be two names of one program
(`OwnDescriptor`), so an end of file, a kick or a ban takes out exactly the user whose
connection it closes. `SpeakersAreMembers` follows: the slots that speak for somebody and the users in the room
correspond one to one, which is what a `/who` answer and a message to the room are made
of. `MemberIsTold` says that a broadcast reaches a member whose slot is not left out, and
one lemma per handler (`NickIsTold`, `ExpulsionIsTold`, `JoinIsTold`, ...) that the slot left out is never that of a
bystander.

`RequestInv` is the inductive invariant of the requests, and is checked by TLC as well.
`HistoryTrue` ties the world to the history; `TerminalFits` says of the terminal a handler has
chosen that it was the recipient's at some time of the request and is the preferred one
if any is preferred still; `ListFits` says that who stayed logged in is in the list or
still to be listed. `Stored`, a user without an entry has the default preference, is
what makes the refinement mapping total. `UpdateMerges` is the lemma the preferences
rest on: `udata_update()`, whether it creates an entry, changes one or does nothing,
merges the fields given into the preference the user had. One lemma per handler turns
its step into an action of `Preferences` (`PreferIsForget`, `WriteIsDeliver`, ...).

`HistoryInv` is the inductive invariant of the line editor, and is checked by TLC as well. `LinesOwned`,
`NothingLeaks` and `NoHoles` need each other: that sending a line frees what nobody else refers to
needs distinct buffers, that a recall finds a line needs a history without holes, and that nothing is lost when the lines
move on needs both. `LinesFit` is what keeps insertion and deletion inside the line that is edited, and
says how far: a restored line may claim more than it has. One lemma per key (`InsertKeeps`, `GoToKeeps`,
`EnterKeeps`, ...); `GrownKeeps` and `EditedKeeps` say once what replacing the buffer of the current line and
changing it in place keep.

`ServerWireProof` and `ChatClientProof` are about the server and its clients at once, and assume of the clients what
`ClientAssumption` says of them and, for the theorems about leaving, nicknames and the sidebar, that every client joins under
a nickname (`NicknamesGiven`): `-n ""` (`smsg.c:308`) makes the join a request to leave, and then the first two do not hold.
A client and the server meet in two places only, and the proofs are about these: `Pipe(c)`, everything the client has
sent that the server has not handled, whether it is in the kernel, in a slot or half read; and `fromServer[c]`.

* A step of the server is one of two things for a connection (`ServerSeen`). Either it *stands by* (`StandsBy`): it takes
  nothing from the pipe, the user keeps the membership and the nickname, or is thrown out and the connection closed, and
  what is written teaches the client no other nickname. Or it *answers* (`Answers`): it takes the head
  of the pipe, which was a chat command, a refused request, a leave or a join, and what it writes to the connection is what that calls for. One lemma per kind of step says so,
  for the handlers all at once in `HandlerAnswers` and `OthersStandBy`. `MembersInv` carries this: a handler that runs for one program must not
  change another's member, and a connection that is closed must not leave a member behind.
* `SystemOK` adds to the server's invariants that messages are what the server writes (`Sensible`) and that
  pictures are typed; it is inductive and gives `ClientIsTyped`.
* `ClientOK(c)` is the inductive invariant of one client. `DoorsInOrder` says which CHATDOORs are in the pipe at which stage: a join
  is alone in it, a leave is the last in it. `StageMeans` and `AnswerMeans` say what the absence of an
  unanswered join means: while chatting the user is a member, unless the connection is being closed, and no NAK is
  on its way. `NickMeans` says that the nickname known after everything on its way is the one the server has
  (`KnownAfter`, a fold of `LearnNick` over the messages), and that nothing that
  may arrive together with the answer to the join, and is thrown away with it, brings another. `NickCatchesUp` alone is not inductive: it
  says nothing while the join is unanswered, and `chatter()` throws away what arrives together with that answer.
  `ServerKeepsClients` and `ClientKeepsClients` show that steps of the server and of clients keep it for everybody, which needs that
  a client touches its own connection only (`OthersUntouched`).
* `SidebarMeans(c)`, in `SidebarOK`, is what is true of a sidebar at every moment and not only when all is quiet: a
  question of the client is in its pipe, or a message that makes it ask is on its way to it, or the messages on
  their way make the sidebar what the room is now (`Shows`: the last list among them, or, if there is none, the sidebar as it
  is). Three lemmas about the server keep it: every list it writes is true when it is written (`ServerLists`, which needs
  the correspondence of slots and members), the one who asked gets one
  (`AskedIsListed`), and a step that changes a name, a mark or who is in the room sends something that makes
  each other member ask (`ChangeIsTold`) (it rests on `MemberIsTold`). A ban notice makes nobody
  ask (`clchat.c:1241`), so the invariant holds only because the client refuses to send a
  `/ban` (`clchat.c:1060`): `NobodyBans` carries that through the pipes. The server itself is ready
  for bans, and the theorems about it allow them.

`RoomScriptProof` is about any number of people, rooms, ports and servers. `RoomIsTyped` holds however the scripts interleave; the
others assume `OneAtATime`, without which `rooms_shared` shows what happens. That bound does not make the scripts sequential:
whoever was in a server that ends goes on at once, several at a time, while another may be half way into a room, and
may count at a port that has a new server by then. `RoomInv`, which TLC checks as well, says what keeps them out of each other's way:

* `OneActs`: at most one script can still start, enter or end a server; the rest hold a process number that runs no more.
  `PidsStarted` keeps it so: a number in a file or a script is not of a server that is still to come.
* `FileRead` and `RoomsApart`: what a script has read is what the file says or the file is gone, and nobody
  removes the file of a room in which another is, or into which another is on the way. Whoever counts nobody at a port finds
  everybody who came in by the same file there (`InServer`, `OneListens`).
* `ServerInHand`, `TmpRemoved` and `FilesTrue` follow a new server from the temporary file into the file of its room, so that
  `RunningNamed`: it is always in somebody's hand or named by one file.

A server ends with `EndKeeps`: whoever is driven out was in the only server at the port and holds no process that still
runs (`PortIsTrue`). One lemma per command of the script does the rest.

`NetStreamProof` is about any number of chat clients and smsgwhos, sockets and receive buffers of any size, and any way
of cutting the streams. Its first part is the codec. `ncmd_iscomplete()` walks from argument to argument, `FlattenSeq` joins the
pieces of a command and of a stream, and both are defined from the step before; what holds of every number of steps is proved from the
least number for which it would fail (`LeastNatural`: the natural numbers are well-founded). So `FlattenConcat` says that
joining pieces and joining sequences of pieces agree, and `ArgStartFound` that, in a buffer that begins like an encoded
command, the walk stands where the next argument starts, or at 0 as soon as the buffer has ended before it. `FrameFound` and
`DecodeFound` follow: a length is only read when its four bytes are there, and
what is behind the command is not looked at. Numbers are read as written when they fit their two or four bytes, which
is what `Commands` says of an opcode, a number of arguments and a length; the answer to /who has 2n + 1 arguments for a room of n, which is why names
of one byte, and so a room of at most 255, are assumed.

Its second part is one direction of a connection, `Flow`: what was sent is, as bytes, what was handled followed by
the receiver's buffer, the kernel and the sender. Sending and receiving move bytes from one place to the next (`FlowMoves`,
`FlowArrives`), saying more adds them at the end (`FlowGrows`), and a receiver that finds a whole command finds the next
one that was sent, and takes away exactly its bytes (`FlowHandled`). The server has one queue of sends for all connections;
`SentCons` and `Posting` say what of it is for whom, and `RepliesShape` that an answer or a notice goes to nobody twice.
`StreamInv` joins the flows of all connections with the types and with `OnlyTheList`, which the count needs: smsgwho counts the
arguments of whatever is whole first, and that is its list because nothing else is ever sent to it. One lemma per action
(`InvServe`, `InvServerSends`, `InvHear`, ...). TLC checks `StreamInv` in the run `stream`.
`GridlockIsForEver` adds that the one state in which the server never comes back is final: that `ServerComesBack` excepts it is no
weakness of the fairness assumed.


Only model-checked: the liveness properties, those of the rooms and of the streams among them, and what the violation runs show. Liveness under
fairness is out of the prover's reach, as is ENABLED; a disagreement is a state of a small instance and needs no proof.

## 5. Not modelled


* *Message queue* (`mq_*` of `servmisc.c`): nothing in the program calls `mq_add()`, so the server never has a queue.
  What reads it, the GETQMSG request, is in `SmsgRequests`.
* *User data store*: the queue pointer of an entry belongs to the message queue; nothing calls `udata_remove()`.
* *Server loop*: start-up and the signals that end it. The flag a signal handler sets is tested once per round, and
  nothing says how soon the server has to notice.
* *Client commands*: the join and the leave of a chat are in `ChatClient`; the other commands ask once, read once and print.
  What the server does with their requests is in `SmsgRequests`.
* *Chat client*: screen output, mailbox checking, session logs and which characters a line has. Tab completion is an insertion of some length.
* *rchat*: the default room, whose server it does not start, and the lists it prints.
* *Composition*: `ChatClient` is the clients together with the server; `SmsgRequests` and the chat share the store but not its
  fields, `NetStream` is below the commands of both, and `RoomScript` uses a server only as something that listens, counts and ends. A
  module of all of them would have far more states and no property that one of them does not have.


Also left out: option parsing and dispatch (`smsg.c`), screen output, mailbox
checking and session logs of the chat client, start-up code that only makes system calls, and
the Java classes, which nothing uses.
