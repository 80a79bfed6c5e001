---------------------------- MODULE SmsgRequests ----------------------------
(***************************************************************************)
(* The requests a smsg server answers one at a time (src/src/server.c,     *)
(* ls_handle_netcmd): MSG, GETLIST, SETPREF, GETPREF and GETQMSG.          *)
(*                                                                         *)
(* The handlers look at what they do not own: the login records (utmp) and *)
(* the terminals' modes.  Between two looks, people log in and out and say *)
(* "mesg y" or "mesg n".  A handler is therefore split where it makes a    *)
(* system call whose result it goes on to use.  The store is the server's  *)
(* own; the chat changes it only between two requests.                     *)
(***************************************************************************)
EXTENDS Udata

CONSTANTS
  Lines,     \* terminal devices (utmp lines), some of the Ttys
  Accounts,  \* the users getpwnam() knows
  Bytes,     \* values of a beep or mode argument
  Requests,  \* what clients ask
  Chatters,  \* the users who also chat
  Fds        \* descriptors of chat clients

ASSUME RequestsAssumption ==
  /\ Lines \subseteq Ttys \ {TTYSET_UNSET}
  /\ Accounts \subseteq Users
  /\ Chatters \subseteq Users
  /\ Bytes \subseteq -128..127
  /\ {UDATA_LEAVE, UDATA_DEF} \subseteq Bytes
  /\ Fds \subseteq Nat
  /\ Requests \subseteq
       [op   : {"MSG", "GETLIST", "SETPREF", "GETPREF", "GETQMSG"},
        user : Users \cup {NoUser},     \* NoUser is the empty string
        tty  : Ttys \cup {NoTty},       \* NoTty is the empty string
        beep : Bytes, mode : Bytes,
        local : BOOLEAN]                \* the peer's address is LOCAL_ADDRESS

VARIABLES
  udata,     \* the store
  login,     \* who is logged in on each line
  mesg,      \* which lines let others write to them
  step,      \* what the handler does next
  req,       \* the request being handled
  tty,       \* tptr0: the terminal the message is to go to
  tbeep,     \* the beep preference
  pending,   \* GETLIST: users not in the answer yet, with their first line
  list,      \* GETLIST: users in the answer, with their mesg state
  answer,    \* the answer to the latest request
  seen,      \* history: who was logged in on each line during the request
  modes      \* history: the modes of each line during the request

world  == <<login, mesg>>
past   == <<seen, modes>>
local  == <<tty, tbeep, pending, list>>
vars   == <<udata, world, step, req, local, answer, past>>

UDATA_BEEPDEF == 1

\* A net command of the server: its name and its arguments.  "DELIVERED" is
\* an ACK together with what was written to which terminal, and whether it
\* beeped.
Answer(kind, args) == [kind |-> kind, args |-> args]
NoAnswer == Answer("NONE", <<>>)

NoRequest == [op |-> "NONE", user |-> NoUser, tty |-> NoTty,
              beep |-> UDATA_DEF, mode |-> UDATA_DEF, local |-> FALSE]

Nobody == [u \in {} |-> TRUE]

Init ==
  /\ udata = EmptyStore
  /\ login \in [Lines -> Users \cup {NoUser}]
  /\ mesg \in [Lines -> BOOLEAN]
  /\ step = "idle"
  /\ req = NoRequest
  /\ tty = NoTty
  /\ tbeep = UDATA_DEF
  /\ pending = Nobody
  /\ list = Nobody
  /\ answer = NoAnswer
  /\ seen = [l \in Lines |-> {}]
  /\ modes = [l \in Lines |-> {}]

-----------------------------------------------------------------------------
(* The world around the server.  The history is that of one request, from  *)
(* its arrival to its answer.                                              *)

Recorded(history, l, x) ==
  IF step = "idle" THEN history
  ELSE [history EXCEPT ![l] = @ \cup {x}]

Occupy(l, u) ==
  /\ login' = [login EXCEPT ![l] = u]
  /\ seen' = Recorded(seen, l, u)
  /\ UNCHANGED <<udata, mesg, step, req, local, answer, modes>>

Login(l, u) == login[l] = NoUser /\ Occupy(l, u)
Logout(l)   == login[l] # NoUser /\ Occupy(l, NoUser)

Mesg(l) ==
  /\ mesg' = [mesg EXCEPT ![l] = ~@]
  /\ modes' = Recorded(modes, l, ~mesg[l])
  /\ UNCHANGED <<udata, login, step, req, local, answer, seen>>

-----------------------------------------------------------------------------
(* What the chat does to the store between two requests: CHATDOOR creates  *)
(* an entry for whoever names a user, and joining fills in the rest.       *)

DoorOpened(u) == UdataAdd(udata, UdataDefEntry(u, NoString, -1))

ChatRefused(u) ==
  /\ step = "idle"
  /\ udata' = DoorOpened(u)
  /\ UNCHANGED <<world, step, req, local, answer, past>>

Joined(db, u, nick, fd) ==
  UdataFlagSet(UdataFlagUnset(UdataUpdate(db, UdataDefEntry(u, nick, fd)),
                              u, UdataFlags),
               u, {"PRESENT"})

ChatJoin(u, nick, fd) ==
  /\ step = "idle"
  /\ udata' = Joined(DoorOpened(u), u, nick, fd)
  /\ UNCHANGED <<world, step, req, local, answer, past>>

ChatLeave(u) ==
  /\ step = "idle"
  /\ Listed(udata, u)
  /\ udata' = UdataFlagUnset(udata,
                             u, {"PRESENT", "AWAY", "OPERATOR", "SUPERUSER"})
  /\ UNCHANGED <<world, step, req, local, answer, past>>

-----------------------------------------------------------------------------
(* Requests.                                                               *)

Receive(r) ==
  /\ step = "idle"
  /\ req' = r
  /\ step' = "handle"
  /\ answer' = NoAnswer
  /\ seen' = [l \in Lines |-> {login[l]}]
  /\ modes' = [l \in Lines |-> {mesg[l]}]
  /\ UNCHANGED <<udata, world, local>>

\* The locals of the handler end with it, and so does the history.
Reply(a) ==
  /\ answer' = a
  /\ step' = "idle"
  /\ tty' = NoTty
  /\ tbeep' = UDATA_DEF
  /\ pending' = Nobody
  /\ list' = Nobody
  /\ req' = NoRequest
  /\ seen' = [l \in Lines |-> {}]
  /\ modes' = [l \in Lines |-> {}]

\* The handler goes on.
GoOn(next) == step' = next /\ UNCHANGED <<req, local, answer, past>>

Nak == Reply(Answer("NAK", <<>>))

Handling(op) == step = "handle" /\ req.op = op

\* Slips: whoever is on the line, and the result of strncmp() taken for a
\* Boolean.
IsOnTtySlip(user, t)         == t \in Lines /\ login[t] # NoUser
IsOnTtyInvertedSlip(user, t) == t \in Lines /\ login[t] # user

\* getutxline() and getutxent()
IsOnTty(user, t) == t \in Lines /\ login[t] = user
LinesOf(user)    == {l \in Lines : login[l] = user}
IsLoggedIn(user) == LinesOf(user) # {}

-----------------------------------------------------------------------------
(* MSG                                                                     *)

MsgCheck ==
  /\ Handling("MSG")
  /\ \/ /\ ~(req.user \in Accounts /\ IsLoggedIn(req.user))
        /\ Nak
     \/ /\ req.user \in Accounts
        /\ IsLoggedIn(req.user)
        /\ GoOn("prefer")
  /\ UNCHANGED <<udata, world>>

\* "Leave everything alone" but the terminal.
NewTty(user, t) == [UdataDefEntry(user, NoString, -1) EXCEPT !.tty = t]

\* The preferred terminal is used if the user is on it, and forgotten if not.
\* For "none", isontty() compares what lies behind the string; whatever it
\* finds, the first terminal is used and the preference remains "none".
MsgPrefer ==
  /\ step = "prefer"
  /\ LET u == req.user
         p == udata.ent[u]
         stale == Listed(udata, u) /\ ~IsOnTty(u, p.tty)
     IN  /\ tbeep' = p.beep
         /\ udata' = IF stale THEN UdataUpdate(udata, NewTty(u, TTYSET_UNSET))
                     ELSE udata
         /\ IF Listed(udata, u) /\ ~stale
              THEN tty' = p.tty /\ step' = "mode"
              ELSE tty' = tty /\ step' = "first"
  /\ UNCHANGED <<world, req, pending, list, answer, past>>

\* get_userlist(user)[0].tty: the first line of the user in utmp, whose order
\* is arbitrary, or the empty string of the terminating entry.
MsgFirst ==
  /\ step = "first"
  /\ \/ tty' \in LinesOf(req.user)
     \/ ~IsLoggedIn(req.user) /\ tty' = NoTty
  /\ step' = "mode"
  /\ UNCHANGED <<udata, world, req, tbeep, pending, list, answer, past>>

IsWritableTty(t) == t \in Lines /\ mesg[t]

MsgMode ==
  /\ step = "mode"
  /\ \/ ~IsWritableTty(tty) /\ Nak
     \/ IsWritableTty(tty) /\ GoOn("write")
  /\ UNCHANGED <<udata, world>>

Rings == (IF tbeep = -1 THEN UDATA_BEEPDEF ELSE tbeep) = 1

\* open() and isatty() may fail.
MsgWrite ==
  /\ step = "write"
  /\ Nak \/ Reply(Answer("DELIVERED", <<tty, Rings>>))
  /\ UNCHANGED <<udata, world>>

-----------------------------------------------------------------------------
(* GETLIST                                                                 *)

\* Slip: names and lines get out of step.
FirstLinesSlip(lines) ==
  [{login[l] : l \in lines} \ {NoUser} -> lines]

\* get_userlist(NULL): every user logged in, with a first line.
FirstLines(lines) ==
  {f \in [{login[l] : l \in lines} \ {NoUser} -> Lines] :
     \A u \in DOMAIN f : f[u] \in LinesOf(u)}

GetList ==
  /\ Handling("GETLIST")
  /\ pending' \in FirstLines(Lines)
  /\ step' = "list"
  /\ UNCHANGED <<udata, world, req, tty, tbeep, list, answer, past>>

Without(f, u) == [v \in DOMAIN f \ {u} |-> f[v]]
With(f, u, x) == [v \in DOMAIN f \cup {u} |-> IF v = u THEN x ELSE f[v]]

\* One name and the mesg state of its line, in the arbitrary order of utmp.
GetListName(u) ==
  /\ step = "list"
  /\ u \in DOMAIN pending
  /\ list' = With(list, u, IsWritableTty(pending[u]))
  /\ pending' = Without(pending, u)
  /\ UNCHANGED <<udata, world, step, req, tty, tbeep, answer, past>>

GetListEnd ==
  /\ step = "list"
  /\ DOMAIN pending = {}
  /\ Reply(Answer("LIST", <<list>>))
  /\ UNCHANGED <<udata, world>>

-----------------------------------------------------------------------------
(* SETPREF, GETPREF, GETQMSG                                               *)

SetPref ==
  /\ Handling("SETPREF")
  /\ \/ /\ ~(req.local /\ req.user \in Accounts /\ IsLoggedIn(req.user))
        /\ Nak
        /\ UNCHANGED udata
     \/ /\ req.local
        /\ req.user \in Accounts
        /\ IsLoggedIn(req.user)
        /\ udata' = UdataUpdate(udata,
                     [NewTty(req.user, req.tty) EXCEPT !.beep = req.beep,
                                                       !.mode = req.mode])
        /\ Reply(Answer("ACK", <<>>))
  /\ UNCHANGED world

\* Without an entry the answer is made up of the defaults, which are those of
\* BlankEntry.
GetPref ==
  /\ Handling("GETPREF")
  /\ LET p == udata.ent[req.user]
     IN  \/ ~(req.local /\ req.user \in Accounts) /\ Nak
         \/ /\ req.local
            /\ req.user \in Accounts
            /\ Reply(Answer("PREF",
                 IF Listed(udata, req.user) THEN <<p.tty, p.beep, p.mode>>
                 ELSE <<TTYSET_UNSET, -1, -1>>))
  /\ UNCHANGED <<udata, world>>

\* The queue of an entry is always null, for nothing calls mq_add();
\* mq_getnum() reads behind it, which ends the process.
GetQMsg ==
  /\ Handling("GETQMSG")
  /\ \/ ~(req.local /\ req.user \in Accounts) /\ Nak
     \/ /\ req.local
        /\ req.user \in Accounts
        /\ IF Listed(udata, req.user)
             THEN GoOn("crashed")
             ELSE Reply(Answer("QMSG", <<0>>))
  /\ UNCHANGED <<udata, world>>

-----------------------------------------------------------------------------
Handler ==
  \/ MsgCheck \/ MsgPrefer \/ MsgFirst \/ MsgMode \/ MsgWrite
  \/ GetList \/ (\E u \in DOMAIN pending : GetListName(u)) \/ GetListEnd
  \/ SetPref \/ GetPref \/ GetQMsg

Chat ==
  \E u \in Chatters : \/ ChatRefused(u) \/ ChatLeave(u)
                     \/ \E nick \in Strings, fd \in Fds : ChatJoin(u, nick, fd)

World ==
  \E l \in Lines : Mesg(l) \/ Logout(l) \/ \E u \in Users : Login(l, u)

Next == (\E r \in Requests : Receive(r)) \/ Handler \/ Chat \/ World

Spec == Init /\ [][Next]_vars
=============================================================================
