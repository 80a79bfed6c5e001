------------------------------ MODULE ChatRoom ------------------------------
(***************************************************************************)
(* What the server promises of the room, without connections, buffers or   *)
(* descriptors: who is in, under which nickname, who is an operator or     *)
(* away, and who is banned.  One action per event the room can see.        *)
(* CHATDOOR is in doc/NETCMD.protocol, the others in doc/CHATCMD.protocol; *)
(* the definitions state what src/src/servchat.c makes of them.            *)
(***************************************************************************)
EXTENDS Integers

CONSTANTS Users, Strings, NoString

VARIABLES
  members,   \* the users in the room
  nick,      \* [Users -> Strings \cup {NoString}], NoString outside the room
  ops,       \* the operators
  away,      \* the members marked away
  banned     \* the users who may not enter

roomVars == <<members, nick, ops, away, banned>>

RoomInit ==
  /\ members = {}
  /\ nick = [u \in Users |-> NoString]
  /\ ops = {}
  /\ away = {}
  /\ banned = {}

Taken(n) == \E v \in members : nick[v] = n

Enter(u, n) ==
  /\ u \notin members /\ u \notin banned /\ ~Taken(n)
  /\ members' = members \cup {u}
  /\ nick' = [nick EXCEPT ![u] = n]
  /\ UNCHANGED <<ops, away, banned>>

\* Leaving, by command or by closing the connection, takes everything along.
Gone(u) ==
  /\ members' = members \ {u}
  /\ nick' = [nick EXCEPT ![u] = NoString]
  /\ ops' = ops \ {u}
  /\ away' = away \ {u}

Leave(u) == u \in members /\ Gone(u) /\ UNCHANGED banned

Rename(u, n) ==
  /\ u \in members /\ ~Taken(n)
  /\ nick' = [nick EXCEPT ![u] = n]
  /\ UNCHANGED <<members, ops, away, banned>>

ToggleAway(u) ==
  /\ u \in members
  /\ away' = IF u \in away THEN away \ {u} ELSE away \cup {u}
  /\ UNCHANGED <<members, nick, ops, banned>>

\* By password.
BecomeOperator(u) ==
  /\ u \in members
  /\ ops' = ops \cup {u}
  /\ UNCHANGED <<members, nick, away, banned>>

\* By another operator, or by oneself.
GiveRights(by, u) ==
  /\ by \in ops /\ u \in members
  /\ ops' = ops \cup {u}
  /\ UNCHANGED <<members, nick, away, banned>>

TakeRights(by, u) ==
  /\ by \in ops /\ u \in members
  /\ ops' = ops \ {u}
  /\ UNCHANGED <<members, nick, away, banned>>

Kick(by, u) == by \in ops /\ u \in members /\ Gone(u) /\ UNCHANGED banned

\* Nobody is ever unbanned: a banned user is not in the room, and /unban
\* finds its user by the nickname of somebody who is.
Ban(by, u) == by \in ops /\ u \in members /\ Gone(u) /\ banned' = banned \cup {u}

RoomNext ==
  \E u \in Users :
    \/ \E n \in Strings : Enter(u, n) \/ Rename(u, n)
    \/ Leave(u) \/ ToggleAway(u) \/ BecomeOperator(u)
    \/ \E by \in Users : GiveRights(by, u) \/ TakeRights(by, u) \/ Kick(by, u) \/ Ban(by, u)

RoomSpec == RoomInit /\ [][RoomNext]_roomVars
=============================================================================
