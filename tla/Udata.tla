------------------------------- MODULE Udata -------------------------------
(***************************************************************************)
(* The server's user data store (src/src/udata.c): one entry per user      *)
(* name, kept in a linked list in insertion order and never removed (the   *)
(* "auto-removal" of udata_update() is commented out in the source and     *)
(* nothing calls udata_remove()).                                          *)
(*                                                                         *)
(* A store is a value, and the functions of udata.c are operators from     *)
(* stores to stores, so that a handler that makes several calls is one     *)
(* step.  Allocation is assumed to succeed.                                *)
(***************************************************************************)
EXTENDS Integers, Sequences

CONSTANTS
  Users,          \* login names
  NoUser,         \* a null user name
  Strings,        \* every string used as a nickname or command argument
  NoString,       \* a null string
  Ttys,           \* terminal paths, and TTYSET_UNSET
  TTYSET_UNSET,   \* the terminal name "none"
  NoTty           \* a null terminal name

ASSUME UdataAssumption ==
  /\ NoUser \notin Users
  /\ NoString \notin Strings
  /\ TTYSET_UNSET \in Ttys
  /\ NoTty \notin Ttys

UDATA_LEAVE == -2
UDATA_DEF   == -1

\* UDATA_CFLAGS; nothing in the code sets "SUPERUSER".
UdataFlags == {"OPERATOR", "AWAY", "PRESENT", "BANNED", "SUPERUSER"}

\* The fields of an entry that the chat and the preference commands use.
Entry == [tty   : Ttys,
          beep  : Int,
          mode  : Int,
          fd    : Int,
          nick  : Strings \cup {NoString},
          flags : SUBSET UdataFlags]

Store == [list : Seq(Users), ent : [Users -> Entry]]

\* The value ent has for a user without an entry in the list.
BlankEntry ==
  [tty |-> TTYSET_UNSET, beep |-> UDATA_DEF, mode |-> UDATA_DEF,
   fd |-> -1, nick |-> NoString, flags |-> {}]

EmptyStore == [list |-> <<>>, ent |-> [u \in Users |-> BlankEntry]]

\* UDATA_DEF_ENTRY, "leave everything alone", with the fields the chat fills
\* in; NoString and -1 leave the nickname and the descriptor alone too.
UdataDefEntry(user, nick, fd) ==
  [user |-> user, tty |-> NoTty, beep |-> UDATA_LEAVE, mode |-> UDATA_LEAVE,
   fd |-> fd, nick |-> nick, flags |-> {}]

-----------------------------------------------------------------------------
Listed(db, user) == \E k \in 1..Len(db.list) : db.list[k] = user

\* udata_get() finds an entry exactly when there is one: the "entry" it
\* returns is the name that indexes db.ent.
UdataGet(db, user) == IF Listed(db, user) THEN user ELSE NoUser

IsPresent(e) == "PRESENT" \in e.flags

\* The list is walked from its head: the first entry that matches wins.
FirstListed(db, hits) ==
  IF hits = {} THEN NoUser
  ELSE db.list[CHOOSE k \in hits : \A j \in hits : k <= j]

UdataGetByNick(db, nick) ==
  FirstListed(db, {k \in 1..Len(db.list) :
                     LET e == db.ent[db.list[k]]
                     IN  e.fd >= 0 /\ IsPresent(e) /\ e.nick = nick})

UdataGetByFd(db, fd) ==
  FirstListed(db, {k \in 1..Len(db.list) :
                     LET e == db.ent[db.list[k]]
                     IN  e.fd = fd /\ IsPresent(e)})

-----------------------------------------------------------------------------
\* Slip: a null terminal is not replaced by "none".
UdataAddSlip(db, ne) ==
  IF ne.user = NoUser \/ Listed(db, ne.user) THEN db
  ELSE [list |-> Append(db.list, ne.user),
        ent  |-> [db.ent EXCEPT ![ne.user] =
                    [BlankEntry EXCEPT !.tty = ne.tty]]]

\* A new entry goes to the end of the list, without any flag.
UdataAdd(db, ne) ==
  IF ne.user = NoUser \/ Listed(db, ne.user) THEN db
  ELSE [list |-> Append(db.list, ne.user),
        ent  |-> [db.ent EXCEPT ![ne.user] =
                    [tty   |-> IF ne.tty = NoTty THEN TTYSET_UNSET ELSE ne.tty,
                     beep  |-> IF ne.beep = UDATA_LEAVE THEN UDATA_DEF ELSE ne.beep,
                     mode  |-> IF ne.mode = UDATA_LEAVE THEN UDATA_DEF ELSE ne.mode,
                     fd    |-> IF ne.fd < 0 THEN -1 ELSE ne.fd,
                     nick  |-> ne.nick,
                     flags |-> {}]]]

\* Slip: only the terminal is looked at.
NothingSetSlip(e) == e.tty \in {NoTty, TTYSET_UNSET}

NothingSet(e) ==
  /\ e.tty \in {NoTty, TTYSET_UNSET}
  /\ e.beep \in {UDATA_LEAVE, UDATA_DEF}
  /\ e.mode \in {UDATA_LEAVE, UDATA_DEF}
  /\ e.flags = {}

\* A field that says "leave alone" keeps its value.  A negative fd is such a
\* value, so the fd of an entry is never reset.
Updated(old, e) ==
  [tty   |-> IF e.tty = NoTty THEN old.tty ELSE e.tty,
   beep  |-> IF e.beep = UDATA_LEAVE THEN old.beep ELSE e.beep,
   mode  |-> IF e.mode = UDATA_LEAVE THEN old.mode ELSE e.mode,
   fd    |-> IF e.fd >= 0 THEN e.fd ELSE old.fd,
   nick  |-> IF e.nick = NoString THEN old.nick ELSE e.nick,
   flags |-> old.flags]

UdataUpdate(db, e) ==
  IF Listed(db, e.user)
    THEN [db EXCEPT !.ent[e.user] = Updated(db.ent[e.user], e)]
    ELSE IF NothingSet(e) THEN db ELSE UdataAdd(db, e)

UdataFlagSet(db, user, f) ==
  IF Listed(db, user)
    THEN [db EXCEPT !.ent[user].flags = @ \cup f] ELSE db

UdataFlagUnset(db, user, f) ==
  IF Listed(db, user)
    THEN [db EXCEPT !.ent[user].flags = @ \ f] ELSE db
=============================================================================
