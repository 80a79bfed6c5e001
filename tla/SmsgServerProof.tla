-------------------------- MODULE SmsgServerProof --------------------------
(***************************************************************************)
(* Theorems about SmsgServer for every value of its constants: IInv is an  *)
(* inductive invariant, and what follows from it; then SmsgServer          *)
(* implements ChatRoom, each handler being one event of the room or none.  *)
(***************************************************************************)
EXTENDS SmsgServerProps, TLAPS, WellFoundedInduction

-----------------------------------------------------------------------------
(* What the look-ups of the store find, and what each change of it keeps.  *)

Below == {p \in Nat \X Nat : p[1] < p[2]}

(* A non-empty set of naturals has a least element.                        *)
LEMMA LeastNatural ==
  ASSUME NEW S \in SUBSET Nat, S # {}
  PROVE  \E m \in S : \A k \in S : m <= k
<1>1. IsWellFoundedOn({p \in Nat \X Nat : p[1] < p[2]}, Nat)
  BY NatLessThanWellFounded DEF OpToRel
<1>2. IsWellFoundedOn(Below, Nat)
  BY <1>1 DEF Below
<1>3. PICK m \in S : \A k \in S : ~ (<<k, m>> \in Below)
  BY <1>2, WFMin
<1>4. \A k \in S : ~ (k < m)
  BY <1>3 DEF Below
<1> QED BY <1>4

(* A look-up walks the list from its head: it returns an entry that is in  *)
(* the list and matches, and nothing only when nothing matches.            *)
LEMMA FirstListedFinds ==
  ASSUME NEW db \in Store, NEW hits \in SUBSET (1..Len(db.list)), hits # {}
  PROVE  \E k \in hits : FirstListed(db, hits) = db.list[k]
<1>1. hits \in SUBSET Nat
  BY DEF Store
<1>2. \E m \in hits : \A k \in hits : m <= k
  BY <1>1, LeastNatural
<1> QED BY <1>2 DEF FirstListed

(* udata_get_by_fd() and udata_get_by_nick() return users who are in the   *)
(* room and match.                                                         *)
LEMMA GetByFdFinds ==
  ASSUME UdataAssumption, NEW db \in Store, NEW fd
  PROVE  LET r == UdataGetByFd(db, fd)
         IN  /\ r # NoUser => /\ r \in Users /\ Listed(db, r)
                              /\ IsPresent(db.ent[r]) /\ db.ent[r].fd = fd
             /\ r = NoUser => \A u \in Users :
                  ~(Listed(db, u) /\ IsPresent(db.ent[u]) /\ db.ent[u].fd = fd)
<1> DEFINE hits == {k \in 1..Len(db.list) :
                      LET e == db.ent[db.list[k]] IN e.fd = fd /\ IsPresent(e)}
<1>1. UdataGetByFd(db, fd) = FirstListed(db, hits)
  BY DEF UdataGetByFd
<1>2. ASSUME NEW k \in 1..Len(db.list) PROVE db.list[k] \in Users
  BY DEF Store
<1>3. CASE hits = {}
  <2>1. UdataGetByFd(db, fd) = NoUser
    BY <1>1, <1>3 DEF FirstListed
  <2>2. ASSUME NEW u \in Users, Listed(db, u), IsPresent(db.ent[u]), db.ent[u].fd = fd
        PROVE FALSE
    BY <1>3, <2>2 DEF Listed
  <2> QED BY <2>1, <2>2
<1>4. CASE hits # {}
  <2>1. PICK k \in hits : UdataGetByFd(db, fd) = db.list[k]
    BY <1>1, <1>4, FirstListedFinds
  <2> HIDE DEF hits
  <2>2. k \in 1..Len(db.list) /\ db.ent[db.list[k]].fd = fd /\ IsPresent(db.ent[db.list[k]])
    BY DEF hits
  <2>3. db.list[k] \in Users /\ Listed(db, db.list[k])
    BY <1>2, <2>2 DEF Listed
  <2> QED BY <2>1, <2>2, <2>3 DEF UdataAssumption
<1> QED BY <1>3, <1>4

LEMMA GetByNickFinds ==
  ASSUME UdataAssumption, NEW db \in Store, NEW nick
  PROVE  LET r == UdataGetByNick(db, nick)
         IN  /\ r # NoUser => /\ r \in Users /\ Listed(db, r) /\ IsPresent(db.ent[r])
                              /\ db.ent[r].fd >= 0 /\ db.ent[r].nick = nick
             /\ r = NoUser => \A u \in Users :
                  ~(/\ Listed(db, u) /\ IsPresent(db.ent[u])
                    /\ db.ent[u].fd >= 0 /\ db.ent[u].nick = nick)
<1> DEFINE hits == {k \in 1..Len(db.list) :
                      LET e == db.ent[db.list[k]]
                      IN  e.fd >= 0 /\ IsPresent(e) /\ e.nick = nick}
<1>1. UdataGetByNick(db, nick) = FirstListed(db, hits)
  BY DEF UdataGetByNick
<1>2. ASSUME NEW k \in 1..Len(db.list) PROVE db.list[k] \in Users
  BY DEF Store
<1>3. CASE hits = {}
  <2>1. UdataGetByNick(db, nick) = NoUser
    BY <1>1, <1>3 DEF FirstListed
  <2>2. ASSUME NEW u \in Users, Listed(db, u), IsPresent(db.ent[u]),
               db.ent[u].fd >= 0, db.ent[u].nick = nick
        PROVE FALSE
    BY <1>3, <2>2 DEF Listed
  <2> QED BY <2>1, <2>2
<1>4. CASE hits # {}
  <2>1. PICK k \in hits : UdataGetByNick(db, nick) = db.list[k]
    BY <1>1, <1>4, FirstListedFinds
  <2> HIDE DEF hits
  <2>2. /\ k \in 1..Len(db.list) /\ db.ent[db.list[k]].fd >= 0
        /\ IsPresent(db.ent[db.list[k]]) /\ db.ent[db.list[k]].nick = nick
    BY DEF hits
  <2>3. db.list[k] \in Users /\ Listed(db, db.list[k])
    BY <1>2, <2>2 DEF Listed
  <2> QED BY <2>1, <2>2, <2>3 DEF UdataAssumption
<1> QED BY <1>3, <1>4

-----------------------------------------------------------------------------
(* What the handlers do to the store.                                      *)

(* A store with the entry of one user replaced.                            *)
With(db, user, e) == [db EXCEPT !.ent[user] = e]

LEMMA WithFacts ==
  ASSUME NEW db \in Store, NEW user \in Users, NEW e \in Entry
  PROVE  /\ With(db, user, e) \in Store
         /\ With(db, user, e).list = db.list
         /\ With(db, user, e).ent = [db.ent EXCEPT ![user] = e]
         /\ With(db, user, e).ent[user] = e
         /\ \A u \in Users : u # user => With(db, user, e).ent[u] = db.ent[u]
         /\ \A u : Listed(With(db, user, e), u) <=> Listed(db, u)
BY DEF With, Store, Listed

LEMMA WithEntry ==
  ASSUME NEW db \in Store, NEW user \in Users, NEW e \in Entry, Listed(db, user)
  PROVE  /\ With(db, user, e) \in Store
         /\ With(db, user, e).ent[user] = e
         /\ Listed(With(db, user, e), user)
BY DEF With, Store, Listed

(* A store stays a room when the new entry fits into it.                   *)
LEMMA EntryChanges ==
  ASSUME NEW db, GoodRoom(db), NEW user \in Users, Listed(db, user), NEW e \in Entry,
         IsPresent(e) =>
           /\ e.fd \in Fds /\ e.nick \in Strings
           /\ "BANNED" \notin e.flags
           /\ \A u \in Users \ {user} : IsPresent(db.ent[u]) => db.ent[u].nick # e.nick,
         e.flags \cap {"OPERATOR", "AWAY"} # {} => IsPresent(e)
  PROVE  GoodRoom(With(db, user, e))
<1> DEFINE new == With(db, user, e)
<1>1. /\ new \in Store /\ new.ent[user] = e
      /\ \A u \in Users : u # user => new.ent[u] = db.ent[u]
      /\ \A u \in Users : Listed(new, u) <=> Listed(db, u)
  <2>1. db \in Store
    BY DEF GoodRoom
  <2> QED BY <2>1 DEF With, Store, Listed
<1> HIDE DEF new
<1>2. ASSUME NEW u \in Users, IsPresent(new.ent[u])
      PROVE  /\ Listed(new, u) /\ new.ent[u].fd \in Fds /\ new.ent[u].nick \in Strings
             /\ "BANNED" \notin new.ent[u].flags
  BY <1>1, <1>2 DEF GoodRoom
<1>3. ASSUME NEW u \in Users, new.ent[u].flags \cap {"OPERATOR", "AWAY"} # {}
      PROVE  IsPresent(new.ent[u])
  BY <1>1, <1>3 DEF GoodRoom
<1>4. ASSUME NEW u \in Users, NEW v \in Users, IsPresent(new.ent[u]), IsPresent(new.ent[v]),
             new.ent[u].nick = new.ent[v].nick
      PROVE  u = v
  BY <1>1, <1>4 DEF GoodRoom
<1>5. \A u \in Users : Listed(new, u) \/ new.ent[u] = BlankEntry
  BY <1>1 DEF GoodRoom
<1>6. GoodRoom(new)
  BY <1>1, <1>2, <1>3, <1>4, <1>5 DEF GoodRoom
<1> QED BY <1>6 DEF new

(* udata_add() of a user without an entry: nobody enters the room.         *)
LEMMA AddFacts ==
  ASSUME UdataAssumption, NEW db, GoodRoom(db), NEW user \in Users \cup {NoUser}
  PROVE  LET new == UdataAdd(db, UdataDefEntry(user, NoString, -1))
         IN  /\ GoodRoom(new)
             /\ user # NoUser => Listed(new, user)
             /\ \A u \in Users : new.ent[u] = db.ent[u]
<1> DEFINE new == UdataAdd(db, UdataDefEntry(user, NoString, -1))
<1>1. CASE user = NoUser \/ Listed(db, user)
  <2>1. new = db
    BY <1>1 DEF UdataAdd, UdataDefEntry
  <2> QED BY <1>1, <2>1
<1>2. CASE user # NoUser /\ ~Listed(db, user)
  <2>1. user \in Users /\ db \in Store /\ db.ent[user] = BlankEntry
    BY <1>2 DEF GoodRoom
  <2>2. new = [list |-> Append(db.list, user), ent |-> [db.ent EXCEPT ![user] = BlankEntry]]
    BY <1>2, <2>1 DEF UdataAdd, UdataDefEntry, BlankEntry, UDATA_DEF, UDATA_LEAVE
  <2>3. BlankEntry \in Entry /\ ~IsPresent(BlankEntry) /\ BlankEntry.flags = {}
    BY DEF BlankEntry, Entry, IsPresent, UdataFlags, UDATA_DEF, UdataAssumption
  <2>4. new \in Store
    <3>1. db.list \in Seq(Users) /\ db.ent \in [Users -> Entry]
      BY <2>1 DEF Store
    <3>2. Append(db.list, user) \in Seq(Users)
      BY <2>1, <3>1
    <3>3. [db.ent EXCEPT ![user] = BlankEntry] \in [Users -> Entry]
      BY <2>1, <2>3, <3>1
    <3> QED BY <2>2, <3>2, <3>3 DEF Store
  <2>5. \A u \in Users : new.ent[u] = db.ent[u]
    BY <2>1, <2>2 DEF Store
  <2>6. /\ Listed(new, user)
        /\ \A u : Listed(db, u) => Listed(new, u)
    <3>1. PICK l : l = db.list
      OBVIOUS
    <3>2. l \in Seq(Users) /\ new.list = Append(l, user)
      BY <2>1, <2>2, <3>1 DEF Store
    <3>3. /\ Len(Append(l, user)) = Len(l) + 1 /\ Len(l) \in Nat
          /\ Append(l, user)[Len(l) + 1] = user
          /\ \A k \in 1..Len(l) : Append(l, user)[k] = l[k]
      BY <2>1, <3>2
    <3> HIDE DEF new
    <3> QED BY <3>1, <3>2, <3>3 DEF Listed
  <2> HIDE DEF new
  <2>7. GoodRoom(new)
    BY <2>1, <2>3, <2>4, <2>5, <2>6 DEF GoodRoom
  <2> QED BY <1>2, <2>1, <2>3, <2>5, <2>6, <2>7 DEF new
<1> QED BY <1>1, <1>2

LEMMA SameEntry ==
  ASSUME NEW e \in Entry, NEW f \in Entry,
         e.tty = f.tty, e.beep = f.beep, e.mode = f.mode, e.fd = f.fd,
         e.nick = f.nick, e.flags = f.flags
  PROVE  e = f
BY DEF Entry

(* An entry with another nickname, descriptor and set of flags.            *)
Ent(old, nick, fd, flags) ==
  [tty |-> old.tty, beep |-> old.beep, mode |-> old.mode,
   fd |-> fd, nick |-> nick, flags |-> flags]
Flagged(old, flags) == Ent(old, old.nick, old.fd, flags)

LEMMA EntFacts ==
  ASSUME NEW e \in Entry, NEW nick \in Strings \cup {NoString}, NEW fd \in Int,
         NEW flags \in SUBSET UdataFlags
  PROVE  /\ Ent(e, nick, fd, flags) \in Entry
         /\ Ent(e, nick, fd, flags).nick = nick
         /\ Ent(e, nick, fd, flags).fd = fd
         /\ Ent(e, nick, fd, flags).flags = flags
         /\ Ent(e, e.nick, e.fd, e.flags) = e
BY DEF Ent, Entry

LEMMA FlagsExcept ==
  ASSUME NEW e \in Entry, NEW flags
  PROVE  [e EXCEPT !.flags = flags] = Flagged(e, flags)
BY DEF Flagged, Ent, Entry

(* The lemmas below say what a sequence of calls comes to.                 *)
LEMMA FlagSetIs ==
  ASSUME NEW db \in Store, NEW user \in Users, NEW f, Listed(db, user)
  PROVE  UdataFlagSet(db, user, f)
           = With(db, user, Flagged(db.ent[user], db.ent[user].flags \cup f))
<1>1. db.ent[user] \in Entry
  BY DEF Store
<1>2. UdataFlagSet(db, user, f)
        = With(db, user, [db.ent[user] EXCEPT !.flags = db.ent[user].flags \cup f])
  BY DEF UdataFlagSet, With, Store
<1> QED BY <1>1, <1>2, FlagsExcept

LEMMA FlagUnsetIs ==
  ASSUME NEW db \in Store, NEW user \in Users, NEW f, Listed(db, user)
  PROVE  UdataFlagUnset(db, user, f)
           = With(db, user, Flagged(db.ent[user], db.ent[user].flags \ f))
<1>1. db.ent[user] \in Entry
  BY DEF Store
<1>2. UdataFlagUnset(db, user, f)
        = With(db, user, [db.ent[user] EXCEPT !.flags = db.ent[user].flags \ f])
  BY DEF UdataFlagUnset, With, Store
<1> QED BY <1>1, <1>2, FlagsExcept

(* udata_update() with a nickname, a descriptor, or neither.               *)
LEMMA UpdateIs ==
  ASSUME NEW db \in Store, NEW user \in Users, Listed(db, user),
         NEW n \in Strings \cup {NoString}, NEW fd \in Int
  PROVE  UdataUpdate(db, UdataDefEntry(user, n, fd))
           = With(db, user, Ent(db.ent[user],
                                IF n = NoString THEN db.ent[user].nick ELSE n,
                                IF fd >= 0 THEN fd ELSE db.ent[user].fd,
                                db.ent[user].flags))
BY DEF UdataUpdate, UdataDefEntry, Updated, With, Ent, Store, Entry

LEMMA LeaveRoomIs ==
  ASSUME NEW db \in Store, NEW user \in Users, Listed(db, user)
  PROVE  LeaveRoom(db, user)
           = With(db, user, Flagged(db.ent[user], db.ent[user].flags \ InRoomFlags))
<1>1. db.ent[user] \in Entry
  BY DEF Store
<1>2. UdataUpdate(db, UdataDefEntry(user, NoString, -1)) = With(db, user, db.ent[user])
  BY <1>1, UpdateIs DEF Ent, Entry
<1>3. With(db, user, db.ent[user]) = db
  BY DEF With, Store
<1> QED BY <1>2, <1>3, FlagUnsetIs DEF LeaveRoom

LEMMA RenameIs ==
  ASSUME NEW db \in Store, NEW user \in Users, Listed(db, user),
         NEW n \in Strings, n # NoString
  PROVE  UdataUpdate(db, UdataDefEntry(user, n, -1))
           = With(db, user, Ent(db.ent[user], n, db.ent[user].fd, db.ent[user].flags))
BY UpdateIs

LEMMA JoinedIs ==
  ASSUME NEW db \in Store, NEW user \in Users, Listed(db, user),
         NEW n \in Strings, n # NoString, NEW fd \in Nat
  PROVE  Joined(db, user, n, fd) = With(db, user, Ent(db.ent[user], n, fd, {"PRESENT"}))
<1> DEFINE named == Ent(db.ent[user], n, fd, db.ent[user].flags)
           bare  == Ent(db.ent[user], n, fd, {})
           new   == Ent(db.ent[user], n, fd, {"PRESENT"})
           db1   == With(db, user, named)
           db2   == With(db1, user, bare)
<1>1. db.ent[user] \in Entry
  BY DEF Store
<1>2. /\ named \in Entry /\ Flagged(named, named.flags \ UdataFlags) = bare
      /\ bare \in Entry /\ Flagged(bare, bare.flags \cup {"PRESENT"}) = new
  BY <1>1 DEF Ent, Flagged, Entry
<1>3. UdataUpdate(db, UdataDefEntry(user, n, fd)) = db1
  BY UpdateIs
<1>4. With(db2, user, new) = With(db, user, new)
  BY DEF With, Store
<1> HIDE DEF named, bare, new
<1>5. db1 \in Store /\ db1.ent[user] = named /\ Listed(db1, user)
  BY <1>2, WithEntry
<1> HIDE DEF db1
<1>6. UdataFlagUnset(db1, user, UdataFlags) = db2
  BY <1>2, <1>5, FlagUnsetIs
<1>7. db2 \in Store /\ db2.ent[user] = bare /\ Listed(db2, user)
  BY <1>2, <1>5, WithEntry
<1> HIDE DEF db2
<1>8. UdataFlagSet(db2, user, {"PRESENT"}) = With(db2, user, new)
  <2>1. UdataFlagSet(db2, user, {"PRESENT"})
          = With(db2, user, Flagged(db2.ent[user], db2.ent[user].flags \cup {"PRESENT"}))
    BY <1>7, FlagSetIs
  <2>2. Flagged(db2.ent[user], db2.ent[user].flags \cup {"PRESENT"}) = new
    BY <1>2, <1>7
  <2> QED BY <2>1, <2>2
<1> QED BY <1>3, <1>4, <1>6, <1>8 DEF Joined, new


(* ban: the flag is set before the target is taken out of the room.        *)
LEMMA BanIs ==
  ASSUME NEW db \in Store, NEW user \in Users, Listed(db, user)
  PROVE  LeaveRoom(UdataFlagSet(db, user, {"BANNED"}), user)
           = With(db, user, Flagged(db.ent[user],
                                    (db.ent[user].flags \cup {"BANNED"}) \ InRoomFlags))
<1> DEFINE fl  == db.ent[user].flags
           e   == Flagged(db.ent[user], fl \cup {"BANNED"})
           new == Flagged(db.ent[user], (fl \cup {"BANNED"}) \ InRoomFlags)
           db1 == With(db, user, e)
<1>1. UdataFlagSet(db, user, {"BANNED"}) = db1
  BY FlagSetIs
<1>2. e \in Entry /\ Flagged(e, e.flags \ InRoomFlags) = new
  BY DEF Flagged, Ent, Store, Entry, UdataFlags
<1>3. \A x : With(With(db, user, e), user, x) = With(db, user, x)
  BY DEF With, Store
<1> HIDE DEF e, new
<1>4. db1 \in Store /\ db1.ent[user] = e /\ Listed(db1, user)
  BY <1>2, WithEntry
<1>5. With(db1, user, new) = With(db, user, new)
  BY <1>3
<1> HIDE DEF db1
<1>6. LeaveRoom(db1, user) = With(db1, user, new)
  BY <1>2, <1>4, LeaveRoomIs
<1> QED BY <1>1, <1>5, <1>6 DEF new

-----------------------------------------------------------------------------
(* The store stays a room.                                                 *)

(* The flags of somebody with an entry change; nobody enters and nobody    *)
(* in the room is banned.                                                  *)
LEMMA FlagsKeepRoom ==
  ASSUME NEW db, GoodRoom(db), NEW user \in Users, Listed(db, user),
         NEW fl \in SUBSET UdataFlags,
         "PRESENT" \in fl => IsPresent(db.ent[user]) /\ "BANNED" \notin fl,
         fl \cap {"OPERATOR", "AWAY"} # {} => "PRESENT" \in fl
  PROVE  GoodRoom(With(db, user, Flagged(db.ent[user], fl)))
<1> DEFINE e == Flagged(db.ent[user], fl)
<1>1. db.ent[user] \in Entry
  BY DEF GoodRoom, Store
<1>2. /\ e \in Entry /\ e.flags = fl
      /\ e.fd = db.ent[user].fd /\ e.nick = db.ent[user].nick
  BY <1>1 DEF Flagged, Ent, Entry
<1> HIDE DEF e
<1>3. ASSUME IsPresent(e)
      PROVE  /\ e.fd \in Fds /\ e.nick \in Strings /\ "BANNED" \notin e.flags
             /\ \A u \in Users \ {user} : IsPresent(db.ent[u]) => db.ent[u].nick # e.nick
  BY <1>2, <1>3 DEF GoodRoom, IsPresent
<1>4. e.flags \cap {"OPERATOR", "AWAY"} # {} => IsPresent(e)
  BY <1>2 DEF IsPresent
<1>5. GoodRoom(With(db, user, e))
  BY <1>2, <1>3, <1>4, EntryChanges
<1> QED BY <1>5 DEF e

(* Somebody in the room, or entering it, takes a nickname nobody there has.*)
LEMMA NickKeepsRoom ==
  ASSUME NEW db, GoodRoom(db), NEW user \in Users, Listed(db, user),
         NEW n \in Strings, NEW fd \in Fds, NEW fl \in SUBSET UdataFlags,
         "BANNED" \notin fl, "PRESENT" \in fl,
         \A u \in Users : IsPresent(db.ent[u]) => db.ent[u].nick # n
  PROVE  GoodRoom(With(db, user, Ent(db.ent[user], n, fd, fl)))
<1> DEFINE e == Ent(db.ent[user], n, fd, fl)
<1>1. db.ent[user] \in Entry /\ fd \in Int
  BY DEF GoodRoom, Store, Fds
<1>2. e \in Entry /\ e.flags = fl /\ e.fd = fd /\ e.nick = n
  BY <1>1, EntFacts
<1> HIDE DEF e
<1>3. GoodRoom(With(db, user, e))
  BY <1>2, EntryChanges DEF IsPresent
<1> QED BY <1>3 DEF e

(* Whoever has the room's nickname n is found by udata_get_by_nick().      *)
LEMMA FreeNick ==
  ASSUME UdataAssumption, NEW db, GoodRoom(db), NEW n, ~NickInUse(db, n)
  PROVE  \A u \in Users : IsPresent(db.ent[u]) => db.ent[u].nick # n
<1>1. db \in Store /\ UdataGetByNick(db, n) = NoUser
  BY DEF GoodRoom, NickInUse
<1>2. \A u \in Users : ~(/\ Listed(db, u) /\ IsPresent(db.ent[u])
                         /\ db.ent[u].fd >= 0 /\ db.ent[u].nick = n)
  BY <1>1, GetByNickFinds
<1> QED BY <1>2 DEF GoodRoom, Fds

(* The user a look-up finds is in the room.                                *)
LEMMA FoundIsPresent ==
  ASSUME UdataAssumption, NEW db, GoodRoom(db), NEW user,
         \/ \E n : user = UdataGetByNick(db, n)
         \/ \E fd : user = UdataGetByFd(db, fd),
         user # NoUser
  PROVE  /\ user \in Users /\ Listed(db, user) /\ IsPresent(db.ent[user])
         /\ db.ent[user].fd \in Fds /\ db.ent[user].nick \in Strings
         /\ "BANNED" \notin db.ent[user].flags
         /\ db.ent[user].flags \in SUBSET UdataFlags
<1>1. db \in Store
  BY DEF GoodRoom
<1>2. user \in Users /\ Listed(db, user) /\ IsPresent(db.ent[user])
  <2>1. CASE \E n : user = UdataGetByNick(db, n)
    BY <1>1, <2>1, GetByNickFinds
  <2>2. CASE \E fd : user = UdataGetByFd(db, fd)
    BY <1>1, <2>2, GetByFdFinds
  <2> QED BY <2>1, <2>2
<1>3. db.ent[user].flags \in SUBSET UdataFlags
  BY <1>1, <1>2 DEF Store, Entry
<1> QED BY <1>2, <1>3 DEF GoodRoom


-----------------------------------------------------------------------------
(* The slots, the descriptors and the connections.                         *)

KernelOK ==
  /\ clients \in [Slots -> SlotRecord] /\ num_clients \in 0..MAX_CLIENTS
  /\ master \subseteq Fds /\ read_fds \subseteq Fds /\ servfd_ready \in BOOLEAN
  /\ sock \in [Fds -> Conns \cup {NoConn}] /\ backlog \in Seq(Conns)
  /\ toServer \in [Conns -> Seq(Commands)]
  /\ peer \in [Conns -> {"idle", "up", "fin", "rst"}]
  /\ SlotsMatchKernel /\ ConnectionsDistinct /\ SnapshotTrue

LEMMA IInvParts ==
  IInv <=> KernelOK /\ GoodRoom(udata) /\ out \in [Conns -> Seq(Message)]
BY DEF IInv, TypeOK, KernelOK, GoodRoom

(* The slot whose turn it is holds a descriptor that is open and readable. *)
LEMMA TurnFacts ==
  ASSUME ServerAssumption, KernelOK, NEW i \in Slots, Turn(i)
  PROVE  /\ i \in Nat /\ i < num_clients
         /\ clients[i].fd \in Fds /\ clients[i].fd \in read_fds
         /\ clients[i].fd \notin {-1, 0} /\ clients[i] \in SlotRecord
         /\ Sock(i) \in Conns
<1>1. i \in Nat /\ i < num_clients /\ clients[i].fd \in read_fds
  BY DEF Turn, Pending, Slots
<1>2. clients[i].fd \in Fds /\ clients[i] \in SlotRecord
  BY <1>1 DEF KernelOK
<1>3. Readable(clients[i].fd)
  BY <1>1 DEF KernelOK, SnapshotTrue
<1>4. Sock(i) \in Conns
  BY <1>2, <1>3 DEF Readable, Sock, KernelOK
<1>5. clients[i].fd \notin {-1, 0}
  BY <1>2 DEF Fds
<1> QED BY <1>1, <1>2, <1>4, <1>5

(* What a recv() reads is part of what the connection has sent.            *)
LEMMA RecvFacts ==
  ASSUME ServerAssumption, KernelOK, NEW i \in Slots, NEW k \in RecvSizes, RecvData(i, k)
  PROVE  /\ Received(i, k) \in Seq(Commands) /\ Unread(i, k) \in Seq(Commands)
         /\ Part(i, k) \in BOOLEAN
         /\ Received(i, k) # <<>> =>
              Request(i, k) \in Commands /\ Tail(Received(i, k)) \in Seq(Commands)
<1> DEFINE q == toServer[Sock(i)]
           w == Whole(i, k)
<1>1. Sock(i) \in Conns /\ clients[i] \in SlotRecord
  BY TurnFacts DEF RecvData
<1>2. q \in Seq(Commands) /\ Len(q) \in Nat
  BY <1>1 DEF KernelOK
<1>3. k \in Nat /\ 1 <= k /\ k <= Fragments(i)
  BY <1>1, <1>2 DEF RecvData, Fragments, RecvSizes, ServerAssumption
<1>4. w \in Nat /\ w <= Len(q)
  <2>1. CASE clients[i].part
    BY <1>2, <1>3, <2>1 DEF Whole, Fragments
  <2>2. CASE ~clients[i].part
    BY <1>2, <1>3, <2>2 DEF Whole, Fragments
  <2> QED BY <2>1, <2>2
<1> HIDE DEF q, w
<1>5. SubSeq(q, 1, w) \in Seq(Commands)
  BY <1>2, <1>4
<1>6. SubSeq(q, w + 1, Len(q)) \in Seq(Commands)
  BY <1>2, <1>4
<1>7. clients[i].buf \in Seq(Commands)
  BY <1>1 DEF SlotRecord
<1>8. Received(i, k) \in Seq(Commands) /\ Unread(i, k) \in Seq(Commands)
  BY <1>5, <1>6, <1>7 DEF Received, Unread, q, w
<1>9. Part(i, k) \in BOOLEAN
  BY DEF Part
<1>10. ASSUME NEW r \in Seq(Commands), r # <<>>
       PROVE  Head(r) \in Commands /\ Tail(r) \in Seq(Commands)
  BY <1>10
<1> QED BY <1>8, <1>9, <1>10 DEF Request


(* Closing descriptors that slots hold, and the end of a recv(): what is   *)
(* common to every way slot i gives up its turn.                           *)
LEMMA TurnEnds ==
  ASSUME ServerAssumption, KernelOK, NEW i \in Slots, Turn(i),
         NEW F \in SUBSET Fds, NEW newSlots \in [Slots -> SlotRecord],
         \A j \in Slots : newSlots[j].fd = IF clients[j].fd \in F THEN -1 ELSE clients[j].fd,
         \A j \in Slots : j >= num_clients => newSlots[j] = clients[j],
         clients' = newSlots, CloseFds(F),
         read_fds' = read_fds \ ({clients[i].fd} \cup F),
         toServer' \in [Conns -> Seq(Commands)],
         \A c \in Conns : c # Sock(i) /\ (\A f \in F : sock[f] # c) => toServer'[c] = toServer[c],
         UNCHANGED <<num_clients, servfd_ready, backlog>>
  PROVE  KernelOK'
<1>1. /\ sock \in [Fds -> Conns \cup {NoConn}] /\ master \subseteq Fds
      /\ clients \in [Slots -> SlotRecord] /\ read_fds \subseteq Fds
      /\ peer \in [Conns -> {"idle", "up", "fin", "rst"}] /\ backlog \in Seq(Conns)
  BY DEF KernelOK
<1>2. /\ sock' \in [Fds -> Conns \cup {NoConn}]
      /\ \A f \in Fds : sock'[f] = IF f \in F THEN NoConn ELSE sock[f]
      /\ master' = master \ F /\ master' \subseteq Fds /\ read_fds' \subseteq Fds
      /\ peer' \in [Conns -> {"idle", "up", "fin", "rst"}]
      /\ \A c \in Conns : (\A f \in F : sock[f] # c) => peer'[c] = peer[c]
  BY <1>1 DEF CloseFds
<1>3. SlotsMatchKernel'
  <2>1. master' = {f \in Fds : sock'[f] # NoConn}
    BY <1>1, <1>2 DEF KernelOK, SlotsMatchKernel
  <2>2. master' = {clients'[j].fd : j \in Slots} \ {-1, 0}
    <3>1. ASSUME NEW f \in master' PROVE f \in {clients'[j].fd : j \in Slots} \ {-1, 0}
      <4>1. f \in master /\ f \notin F
        BY <1>2, <3>1
      <4>4. f \in {clients[j].fd : j \in Slots} \ {-1, 0}
        BY <4>1 DEF KernelOK, SlotsMatchKernel
      <4>2. PICK j \in Slots : clients[j].fd = f /\ f \notin {-1, 0}
        BY <4>4
      <4>3. clients'[j].fd = f
        BY <4>1, <4>2
      <4> QED BY <4>2, <4>3
    <3>2. ASSUME NEW j \in Slots, clients'[j].fd \notin {-1, 0} PROVE clients'[j].fd \in master'
      <4>1. clients'[j].fd = clients[j].fd /\ clients[j].fd \notin F
        BY <3>2
      <4>2. clients[j].fd \in {clients[h].fd : h \in Slots} \ {-1, 0}
        BY <3>2, <4>1
      <4>3. clients[j].fd \in master
        BY <4>2 DEF KernelOK, SlotsMatchKernel
      <4> QED BY <1>2, <4>1, <4>3
    <3> QED BY <3>1, <3>2
  <2>3. ASSUME NEW j \in Slots, NEW h \in Slots, clients'[j].fd \in Fds,
               clients'[j].fd = clients'[h].fd
        PROVE  j = h
    <3>1. -1 \notin Fds
      BY DEF Fds
    <3> QED BY <2>3, <3>1 DEF KernelOK, SlotsMatchKernel
  <2>4. ASSUME NEW j \in Slots, j >= num_clients' PROVE clients'[j] = UnusedSlot
    BY <2>4 DEF KernelOK, SlotsMatchKernel
  <2> QED BY <2>1, <2>2, <2>3, <2>4 DEF SlotsMatchKernel
<1>4. ConnectionsDistinct'
  <2>1. /\ \A f \in Fds, g \in Fds : sock'[f] # NoConn /\ sock'[f] = sock'[g] => f = g
        /\ \A f \in Fds, k \in 1..Len(backlog) : sock'[f] # backlog[k]
    <3>1. \A k \in 1..Len(backlog) : backlog[k] # NoConn
      BY <1>1 DEF ServerAssumption
    <3> QED BY <1>2, <3>1 DEF KernelOK, ConnectionsDistinct
  <2> QED BY <2>1 DEF KernelOK, ConnectionsDistinct
<1>5. SnapshotTrue'
  <2>1. ASSUME NEW f \in read_fds' PROVE Readable(f)'
    <3>1. f \in read_fds /\ f \in Fds /\ f # clients[i].fd /\ f \notin F
      BY <1>1, <2>1
    <3>2. Readable(f)
      BY <3>1 DEF KernelOK, SnapshotTrue
    <3>3. sock[f] \in Conns
      BY <1>1, <3>1, <3>2 DEF Readable
    <3>4. sock[f] # Sock(i) /\ \A g \in F : sock[g] # sock[f]
      BY <3>1, <3>2, TurnFacts DEF KernelOK, ConnectionsDistinct, Readable, Sock
    <3>5. toServer'[sock[f]] = toServer[sock[f]] /\ peer'[sock[f]] = peer[sock[f]]
      BY <1>2, <3>3, <3>4
    <3>6. sock'[f] = sock[f]
      BY <1>2, <3>1
    <3> QED BY <3>2, <3>5, <3>6 DEF Readable
  <2>2. servfd_ready' => backlog' # <<>>
    BY DEF KernelOK, SnapshotTrue
  <2> QED BY <2>1, <2>2 DEF SnapshotTrue
<1> QED BY <1>1, <1>2, <1>3, <1>4, <1>5 DEF KernelOK


LEMMA DoneKeeps ==
  ASSUME ServerAssumption, KernelOK, NEW i \in Slots, NEW k \in RecvSizes,
         RecvData(i, k), Received(i, k) # <<>>, NEW killed \in Slots \cup {NoSlot},
         killed # NoSlot => clients[killed].fd \in Fds,
         Done(i, k, killed)
  PROVE  KernelOK'
<1> DEFINE F == IF killed = NoSlot THEN {} ELSE {clients[killed].fd}
           newSlots == [j \in Slots |->
              CASE j = killed -> ClosedSlot
                [] j = i /\ j # killed -> [fd   |-> clients[i].fd,
                                           buf  |-> Tail(Received(i, k)),
                                           part |-> Part(i, k)]
                [] OTHER -> clients[j]]
<1>1. Turn(i) /\ NoSlot \notin Slots
  BY DEF RecvData, NoSlot, Slots
<1>2. /\ i \in Nat /\ i < num_clients /\ clients[i].fd \in Fds /\ Sock(i) \in Conns
      /\ clients \in [Slots -> SlotRecord] /\ num_clients \in Nat
  BY <1>1, TurnFacts DEF KernelOK
<1>3. Unread(i, k) \in Seq(Commands) /\ Part(i, k) \in BOOLEAN /\ Tail(Received(i, k)) \in Seq(Commands)
  BY RecvFacts
<1>4. F \in SUBSET Fds
  OBVIOUS
<1>5. ClosedSlot \in SlotRecord
  BY DEF ClosedSlot, SlotRecord
<1>6. [fd |-> clients[i].fd, buf |-> Tail(Received(i, k)), part |-> Part(i, k)] \in SlotRecord
  BY <1>2, <1>3 DEF SlotRecord
<1>7. newSlots \in [Slots -> SlotRecord]
  BY <1>2, <1>5, <1>6
<1>8. ASSUME NEW j \in Slots
      PROVE  newSlots[j].fd = IF clients[j].fd \in F THEN -1 ELSE clients[j].fd
  <2>1. clients[j].fd \in F <=> j = killed
    BY <1>1 DEF KernelOK, SlotsMatchKernel
  <2> QED BY <2>1 DEF ClosedSlot
<1>9. ASSUME NEW j \in Slots, j >= num_clients PROVE newSlots[j] = clients[j]
  <2>1. clients[j] = UnusedSlot
    BY <1>9 DEF KernelOK, SlotsMatchKernel
  <2>2. clients[j].fd \notin Fds
    BY <2>1 DEF UnusedSlot, Fds
  <2>3. j # killed /\ j # i
    BY <1>1, <1>2, <2>2
  <2> QED BY <2>3
<1>10. toServer \in [Conns -> Seq(Commands)]
  BY DEF KernelOK
<1>11. toServer' \in [Conns -> Seq(Commands)]
  BY <1>3, <1>10 DEF Done
<1>12. ASSUME NEW c \in Conns, c # Sock(i), \A f \in F : sock[f] # c
       PROVE  toServer'[c] = toServer[c]
  BY <1>12 DEF Done
<1>13. /\ clients' = newSlots /\ CloseFds(F) /\ read_fds' = read_fds \ ({clients[i].fd} \cup F)
       /\ UNCHANGED <<num_clients, servfd_ready, backlog>>
  BY DEF Done
<1> HIDE DEF F, newSlots
<1> QED BY <1>1, <1>4, <1>7, <1>8, <1>9, <1>11, <1>12, <1>13, TurnEnds

LEMMA RecvIncompleteKeeps ==
  ASSUME ServerAssumption, KernelOK, NEW i \in Slots, NEW k \in RecvSizes, RecvIncomplete(i, k)
  PROVE  KernelOK'
<1> DEFINE newSlots == [clients EXCEPT ![i].part = Part(i, k)]
<1>1. Turn(i) /\ RecvData(i, k)
  BY DEF RecvIncomplete, RecvData
<1>2. /\ i \in Nat /\ i < num_clients /\ Sock(i) \in Conns /\ num_clients \in Nat
      /\ clients \in [Slots -> SlotRecord]
      /\ Unread(i, k) \in Seq(Commands) /\ Part(i, k) \in BOOLEAN
      /\ toServer \in [Conns -> Seq(Commands)]
      /\ sock \in [Fds -> Conns \cup {NoConn}] /\ master \subseteq Fds
      /\ peer \in [Conns -> {"idle", "up", "fin", "rst"}]
  BY <1>1, TurnFacts, RecvFacts DEF KernelOK
<1>3. newSlots \in [Slots -> SlotRecord] /\ \A j \in Slots : newSlots[j].fd = clients[j].fd
  <2>1. clients[i] \in SlotRecord
    BY <1>2
  <2>2. /\ [clients[i] EXCEPT !.part = Part(i, k)] \in SlotRecord
        /\ [clients[i] EXCEPT !.part = Part(i, k)].fd = clients[i].fd
    BY <1>2, <2>1 DEF SlotRecord
  <2>3. newSlots = [clients EXCEPT ![i] = [clients[i] EXCEPT !.part = Part(i, k)]]
    OBVIOUS
  <2> QED BY <1>2, <2>2, <2>3
<1>3a. \A j \in Slots : j >= num_clients => newSlots[j] = clients[j]
  BY <1>2
<1>4. CloseFds({})
  BY <1>2 DEF RecvIncomplete, CloseFds
<1>5. /\ toServer' \in [Conns -> Seq(Commands)]
      /\ \A c \in Conns : c # Sock(i) => toServer'[c] = toServer[c]
  BY <1>2 DEF RecvIncomplete
<1>6. /\ clients' = newSlots /\ read_fds' = read_fds \ ({clients[i].fd} \cup {})
      /\ UNCHANGED <<num_clients, servfd_ready, backlog>>
  BY DEF RecvIncomplete
<1> HIDE DEF newSlots
<1> QED BY <1>1, <1>3, <1>3a, <1>4, <1>5, <1>6, TurnEnds

LEMMA RecvEofKeeps ==
  ASSUME ServerAssumption, KernelOK, NEW i \in Slots, RecvEof(i)
  PROVE  KernelOK'
<1> DEFINE newSlots == [clients EXCEPT ![i] = ClosedSlot]
           F == {clients[i].fd}
<1>1. Turn(i)
  BY DEF RecvEof
<1>2. /\ i \in Nat /\ i < num_clients /\ clients[i].fd \in Fds /\ num_clients \in Nat
      /\ clients \in [Slots -> SlotRecord] /\ ClosedSlot \in SlotRecord
  BY <1>1, TurnFacts DEF KernelOK, ClosedSlot, SlotRecord
<1>3. \A j \in Slots : clients[j].fd = clients[i].fd => j = i
  BY <1>2 DEF KernelOK, SlotsMatchKernel
<1>4. /\ newSlots \in [Slots -> SlotRecord]
      /\ \A j \in Slots : newSlots[j].fd = IF clients[j].fd \in F THEN -1 ELSE clients[j].fd
      /\ \A j \in Slots : j >= num_clients => newSlots[j] = clients[j]
  BY <1>2, <1>3 DEF ClosedSlot
<1>5. /\ clients' = newSlots /\ CloseFds(F) /\ read_fds' = read_fds \ ({clients[i].fd} \cup F)
      /\ F \in SUBSET Fds
      /\ UNCHANGED <<num_clients, servfd_ready, backlog>>
  BY <1>2 DEF RecvEof
<1>6. toServer' = toServer /\ toServer \in [Conns -> Seq(Commands)]
  BY DEF RecvEof, KernelOK
<1> HIDE DEF newSlots, F
<1> QED BY <1>1, <1>4, <1>5, <1>6, TurnEnds


(* A step after which the slots and the descriptors are as before, and     *)
(* what is read and written concerns connections out of the snapshot.      *)
LEMMA SlotsUntouched ==
  ASSUME KernelOK,
         UNCHANGED <<clients, num_clients, master, sock>>,
         read_fds' \in SUBSET Fds, servfd_ready' \in BOOLEAN, backlog' \in Seq(Conns),
         toServer' \in [Conns -> Seq(Commands)],
         peer' \in [Conns -> {"idle", "up", "fin", "rst"}],
         ConnectionsDistinct',
         \A f \in read_fds' : Readable(f)',
         servfd_ready' => backlog' # <<>>
  PROVE  KernelOK'
<1>1. SlotsMatchKernel'
  BY DEF KernelOK, SlotsMatchKernel
<1> QED BY <1>1 DEF KernelOK, SnapshotTrue

LEMMA RecvErrorKeeps ==
  ASSUME ServerAssumption, KernelOK, NEW i \in Slots, RecvError(i)
  PROVE  KernelOK'
<1>1. clients[i].fd \in Fds /\ Sock(i) \in Conns /\ read_fds \subseteq Fds
  BY TurnFacts DEF RecvError, KernelOK
<1>2. peer' \in [Conns -> {"idle", "up", "fin", "rst"}]
  BY DEF RecvError, KernelOK
<1>3. ConnectionsDistinct'
  BY DEF RecvError, KernelOK, ConnectionsDistinct
<1>4. ASSUME NEW f \in read_fds' PROVE Readable(f)'
  <2>1. f \in read_fds /\ f \in Fds /\ f # clients[i].fd
    BY <1>1, <1>4 DEF RecvError
  <2>2. Readable(f)
    BY <2>1 DEF KernelOK, SnapshotTrue
  <2>3. sock[f] # Sock(i)
    BY <1>1, <2>1, <2>2 DEF KernelOK, ConnectionsDistinct, Readable, Sock
  <2>4. peer'[sock[f]] = peer[sock[f]]
    BY <2>3 DEF RecvError, KernelOK
  <2> QED BY <2>2, <2>4 DEF RecvError, Readable
<1>5. read_fds' \in SUBSET Fds
  BY <1>1 DEF RecvError
<1>6. /\ UNCHANGED <<clients, num_clients, master, servfd_ready, sock, backlog, toServer>>
      /\ servfd_ready \in BOOLEAN /\ backlog \in Seq(Conns)
      /\ toServer \in [Conns -> Seq(Commands)]
      /\ servfd_ready => backlog # <<>>
  BY DEF RecvError, KernelOK, SnapshotTrue
<1> QED BY <1>2, <1>3, <1>4, <1>5, <1>6, SlotsUntouched

LEMMA SelectKeeps ==
  ASSUME KernelOK, Select
  PROVE  KernelOK'
<1>1. ConnectionsDistinct'
  BY DEF Select, KernelOK, ConnectionsDistinct
<1>2. \A f \in read_fds' : Readable(f)'
  BY DEF Select, Reported, Readable
<1>3. read_fds' \in SUBSET Fds
  BY DEF Select, Reported, KernelOK
<1>4. servfd_ready' \in BOOLEAN /\ (servfd_ready' => backlog' # <<>>)
  BY DEF Select, ListenerReady
<1>5. /\ UNCHANGED <<clients, num_clients, master, sock, backlog, toServer, peer>>
      /\ backlog \in Seq(Conns) /\ toServer \in [Conns -> Seq(Commands)]
      /\ peer \in [Conns -> {"idle", "up", "fin", "rst"}]
  BY DEF Select, KernelOK
<1> QED BY <1>1, <1>2, <1>3, <1>4, <1>5, SlotsUntouched

(* The head of the listen queue is not accepted, and the rest of the queue *)
(* is another queue of distinct connections.                               *)
LEMMA HeadFacts ==
  ASSUME KernelOK, backlog # <<>>
  PROVE  /\ Head(backlog) \in Conns /\ Tail(backlog) \in Seq(Conns)
         /\ \A f \in Fds : sock[f] # Head(backlog)
         /\ \A k \in 1..Len(Tail(backlog)) :
              /\ Tail(backlog)[k] # Head(backlog) /\ Tail(backlog)[k] = backlog[k + 1]
              /\ k + 1 \in 1..Len(backlog)
<1>1. backlog \in Seq(Conns) /\ Len(backlog) \in Nat /\ 1 \in 1..Len(backlog)
  BY DEF KernelOK
<1>2. Head(backlog) = backlog[1] /\ Head(backlog) \in Conns /\ Tail(backlog) \in Seq(Conns)
  BY <1>1
<1>3. \A f \in Fds : sock[f] # Head(backlog)
  BY <1>1, <1>2 DEF KernelOK, ConnectionsDistinct
<1>4. ASSUME NEW k \in 1..Len(Tail(backlog))
      PROVE  Tail(backlog)[k] = backlog[k + 1] /\ k + 1 \in 1..Len(backlog)
  BY <1>1
<1>5. ASSUME NEW k \in 1..Len(Tail(backlog)) PROVE Tail(backlog)[k] # Head(backlog)
  <2>1. k + 1 \in 1..Len(backlog) /\ k + 1 # 1 /\ Tail(backlog)[k] = backlog[k + 1]
    BY <1>4
  <2> QED BY <1>1, <1>2, <2>1 DEF KernelOK, ConnectionsDistinct
<1> QED BY <1>2, <1>3, <1>4, <1>5

LEMMA DropHeadKeeps ==
  ASSUME KernelOK, backlog # <<>>, DropHead, servfd_ready' = FALSE,
         UNCHANGED <<clients, num_clients, master, read_fds, sock>>
  PROVE  KernelOK'
<1>1. /\ backlog' = Tail(backlog) /\ Head(backlog) \in Conns /\ Tail(backlog) \in Seq(Conns)
      /\ \A f \in Fds : sock[f] # Head(backlog)
  BY HeadFacts DEF DropHead
<1>2. /\ toServer' \in [Conns -> Seq(Commands)]
      /\ peer' \in [Conns -> {"idle", "up", "fin", "rst"}]
      /\ \A c \in Conns : c # Head(backlog) => toServer'[c] = toServer[c] /\ peer'[c] = peer[c]
  <2>1. /\ toServer \in [Conns -> Seq(Commands)] /\ <<>> \in Seq(Commands)
        /\ peer \in [Conns -> {"idle", "up", "fin", "rst"}]
    BY DEF KernelOK
  <2> QED BY <1>1, <2>1 DEF DropHead
<1>3. ConnectionsDistinct'
  <2>1. ASSUME NEW j \in 1..Len(backlog'), NEW k \in 1..Len(backlog'), backlog'[j] = backlog'[k]
        PROVE  j = k
    <3>1. /\ j + 1 \in 1..Len(backlog) /\ k + 1 \in 1..Len(backlog)
          /\ backlog[j + 1] = backlog[k + 1]
      BY <1>1, <2>1, HeadFacts
    <3>2. j + 1 = k + 1
      BY <3>1 DEF KernelOK, ConnectionsDistinct
    <3> QED BY <3>2
  <2>2. ASSUME NEW f \in Fds, NEW k \in 1..Len(backlog') PROVE sock'[f] # backlog'[k]
    BY <1>1, HeadFacts DEF KernelOK, ConnectionsDistinct
  <2>3. \A f, g \in Fds : sock'[f] # NoConn /\ sock'[f] = sock'[g] => f = g
    BY DEF KernelOK, ConnectionsDistinct
  <2> QED BY <2>1, <2>2, <2>3 DEF ConnectionsDistinct
<1>4. ASSUME NEW f \in read_fds' PROVE Readable(f)'
  <2>1. f \in Fds /\ Readable(f) /\ sock[f] \in Conns
    BY <1>4 DEF KernelOK, SnapshotTrue, Readable
  <2> QED BY <1>1, <1>2, <2>1 DEF Readable
<1>5. read_fds' \in SUBSET Fds /\ servfd_ready' \in BOOLEAN /\ backlog' \in Seq(Conns)
  BY <1>1 DEF KernelOK
<1> QED BY <1>2, <1>3, <1>4, <1>5, SlotsUntouched


LEMMA AcceptFailsKeeps ==
  ASSUME KernelOK, AcceptFails \/ AcceptRefuse
  PROVE  KernelOK'
<1>1. /\ backlog # <<>> /\ servfd_ready' = FALSE
      /\ UNCHANGED <<clients, num_clients, master, read_fds, sock>>
  BY DEF AcceptFails, AcceptRefuse, KernelOK, SnapshotTrue
<1>2. CASE DropHead
  BY <1>1, <1>2, DropHeadKeeps
<1>3. CASE UNCHANGED <<backlog, toServer, peer>>
  <2>1. ConnectionsDistinct' /\ \A f \in read_fds' : Readable(f)'
    BY <1>1, <1>3 DEF KernelOK, ConnectionsDistinct, SnapshotTrue, Readable
  <2> QED BY <1>1, <1>3, <2>1, SlotsUntouched DEF KernelOK
<1> QED BY <1>2, <1>3 DEF AcceptFails, AcceptRefuse

(* accept() takes a free descriptor; the slot is one that holds none.      *)
LEMMA NewSlotFacts ==
  ASSUME ServerAssumption, KernelOK, RoomForMore, FreeFds # {}
  PROVE  /\ LowestFree \in Fds /\ sock[LowestFree] = NoConn
         /\ SlotForNew \in Slots /\ clients[SlotForNew].fd \in {-1, 0}
         /\ SlotForNew <= num_clients
<1>1. FreeFds \in SUBSET Nat
  BY DEF FreeFds, Fds
<1>2. \E f \in FreeFds : \A g \in FreeFds : f <= g
  BY <1>1, LeastNatural
<1>3. LowestFree \in FreeFds
  BY <1>2 DEF LowestFree
<1> DEFINE closed == {i \in Slots : i < num_clients /\ clients[i].fd = -1}
<1>4. CASE closed = {}
  <2>1. SlotForNew = num_clients
    BY <1>4 DEF SlotForNew
  <2>2. num_clients \in Slots
    BY DEF Slots, RoomForMore, KernelOK, ServerAssumption
  <2>3. clients[num_clients] = UnusedSlot
    BY <2>2 DEF KernelOK, SlotsMatchKernel, Slots
  <2> QED BY <1>3, <2>1, <2>2, <2>3 DEF FreeFds, UnusedSlot, Slots
<1>5. CASE closed # {}
  <2>1. closed \in SUBSET Nat
    BY DEF Slots
  <2>2. \E i \in closed : \A j \in closed : i <= j
    BY <1>5, <2>1, LeastNatural
  <2>3. SlotForNew = CHOOSE i \in closed : \A j \in closed : i <= j
    BY <1>5 DEF SlotForNew
  <2> HIDE DEF closed
  <2>4. SlotForNew \in closed
    BY <2>2, <2>3
  <2> QED BY <1>3, <2>4 DEF closed, FreeFds, Slots, KernelOK
<1> QED BY <1>4, <1>5

LEMMA AcceptKeeps ==
  ASSUME ServerAssumption, KernelOK, Accept
  PROVE  KernelOK'
<1> DEFINE s == SlotForNew
           f0 == LowestFree
           c0 == Head(backlog)
           rec == [fd |-> f0, buf |-> <<>>, part |-> FALSE]
<1>1. /\ f0 \in Fds /\ sock[f0] = NoConn /\ s \in Slots /\ clients[s].fd \in {-1, 0}
      /\ s <= num_clients
  BY NewSlotFacts DEF Accept
<1>2. /\ clients' = [clients EXCEPT ![s] = rec]
      /\ num_clients' = IF s = num_clients THEN num_clients + 1 ELSE num_clients
      /\ master' = master \cup {f0}
      /\ sock' = [sock EXCEPT ![f0] = c0]
      /\ backlog' = Tail(backlog) /\ servfd_ready' = FALSE
      /\ UNCHANGED <<read_fds, toServer, peer>> /\ servfd_ready /\ num_clients < MAX_CLIENTS
  BY DEF Accept, RoomForMore
<1>3. /\ clients \in [Slots -> SlotRecord] /\ num_clients \in Nat /\ MAX_CLIENTS \in Nat
      /\ sock \in [Fds -> Conns \cup {NoConn}] /\ master \subseteq Fds /\ read_fds \subseteq Fds
      /\ -1 \notin Fds /\ 0 \notin Fds
  BY DEF KernelOK, Fds, ServerAssumption
<1>4. backlog # <<>>
  BY <1>2 DEF KernelOK, SnapshotTrue
<1>5. /\ c0 \in Conns /\ c0 # NoConn /\ Tail(backlog) \in Seq(Conns)
      /\ \A f \in Fds : sock[f] # c0
      /\ \A k \in 1..Len(Tail(backlog)) :
           /\ Tail(backlog)[k] # c0 /\ Tail(backlog)[k] = backlog[k + 1]
           /\ k + 1 \in 1..Len(backlog)
  BY <1>4, HeadFacts DEF ServerAssumption
<1>6. rec \in SlotRecord /\ rec.fd = f0
  BY <1>1 DEF SlotRecord
<1> HIDE DEF s, f0, c0, rec
<1>7. /\ clients' \in [Slots -> SlotRecord] /\ num_clients' \in 0..MAX_CLIENTS
      /\ master' \subseteq Fds /\ read_fds' \subseteq Fds /\ servfd_ready' \in BOOLEAN
      /\ sock' \in [Fds -> Conns \cup {NoConn}] /\ backlog' \in Seq(Conns)
      /\ toServer' \in [Conns -> Seq(Commands)]
      /\ peer' \in [Conns -> {"idle", "up", "fin", "rst"}]
  <2>1. clients' \in [Slots -> SlotRecord] /\ sock' \in [Fds -> Conns \cup {NoConn}]
    BY <1>1, <1>2, <1>3, <1>5, <1>6
  <2>2. num_clients' \in 0..MAX_CLIENTS
    BY <1>2, <1>3
  <2> QED BY <1>1, <1>2, <1>3, <1>5, <2>1, <2>2 DEF KernelOK
<1>8. /\ clients'[s].fd = f0 /\ \A j \in Slots : j # s => clients'[j] = clients[j]
      /\ sock'[f0] = c0 /\ \A f \in Fds : f # f0 => sock'[f] = sock[f]
  BY <1>1, <1>2, <1>3, <1>6
<1>9. SlotsMatchKernel'
  <2>1. master' = {f \in Fds : sock'[f] # NoConn}
    BY <1>1, <1>2, <1>3, <1>5, <1>8 DEF KernelOK, SlotsMatchKernel
  <2>2. master' = {clients'[j].fd : j \in Slots} \ {-1, 0}
    <3>1. ASSUME NEW f \in master' PROVE f \in {clients'[j].fd : j \in Slots} \ {-1, 0}
      <4>1. CASE f = f0
        BY <1>1, <1>3, <1>8, <4>1
      <4>2. CASE f # f0
        <5>1. PICK j \in Slots : clients[j].fd = f /\ f \notin {-1, 0}
          BY <1>2, <3>1, <4>2 DEF KernelOK, SlotsMatchKernel
        <5>2. j # s
          BY <1>1, <5>1
        <5> QED BY <1>8, <5>1, <5>2
      <4> QED BY <4>1, <4>2
    <3>2. ASSUME NEW j \in Slots, clients'[j].fd \notin {-1, 0} PROVE clients'[j].fd \in master'
      <4>1. CASE j = s
        BY <1>2, <1>8, <4>1
      <4>2. CASE j # s
        BY <1>2, <1>8, <3>2, <4>2 DEF KernelOK, SlotsMatchKernel
      <4> QED BY <4>1, <4>2
    <3> QED BY <3>1, <3>2
  <2>3. ASSUME NEW j \in Slots, clients[j].fd \in Fds PROVE clients[j].fd # f0
    BY <1>1, <1>3, <2>3 DEF KernelOK, SlotsMatchKernel
  <2>4. ASSUME NEW j \in Slots, NEW h \in Slots, clients'[j].fd \in Fds,
               clients'[j].fd = clients'[h].fd
        PROVE  j = h
    <3>1. CASE j = s \/ h = s
      BY <1>8, <2>3, <2>4, <3>1
    <3>2. CASE j # s /\ h # s
      <4>1. clients[j].fd \in Fds /\ clients[j].fd = clients[h].fd
        BY <1>8, <2>4, <3>2
      <4> QED BY <4>1 DEF KernelOK, SlotsMatchKernel
    <3> QED BY <3>1, <3>2
  <2>5. ASSUME NEW j \in Slots, j >= num_clients' PROVE clients'[j] = UnusedSlot
    <3>1. j >= num_clients /\ j # s
      BY <1>1, <1>2, <1>3, <2>5 DEF Slots
    <3> QED BY <1>8, <3>1 DEF KernelOK, SlotsMatchKernel
  <2> QED BY <2>1, <2>2, <2>4, <2>5 DEF SlotsMatchKernel
<1>10. ConnectionsDistinct'
  <2>1. \A f \in Fds, g \in Fds : sock'[f] # NoConn /\ sock'[f] = sock'[g] => f = g
    BY <1>5, <1>8 DEF KernelOK, ConnectionsDistinct
  <2>2. ASSUME NEW j \in 1..Len(backlog'), NEW k \in 1..Len(backlog'), backlog'[j] = backlog'[k]
        PROVE  j = k
    <3>1. /\ j + 1 \in 1..Len(backlog) /\ k + 1 \in 1..Len(backlog)
          /\ backlog[j + 1] = backlog[k + 1]
      BY <1>2, <1>5, <2>2
    <3>2. j + 1 = k + 1
      BY <3>1 DEF KernelOK, ConnectionsDistinct
    <3> QED BY <3>2
  <2>3. ASSUME NEW f \in Fds, NEW k \in 1..Len(backlog') PROVE sock'[f] # backlog'[k]
    BY <1>2, <1>5, <1>8 DEF KernelOK, ConnectionsDistinct
  <2> QED BY <2>1, <2>2, <2>3 DEF ConnectionsDistinct
<1>11. SnapshotTrue'
  <2>1. ASSUME NEW f \in read_fds' PROVE Readable(f)'
    <3>1. f \in Fds /\ Readable(f) /\ f # f0
      BY <1>1, <1>2, <1>3, <2>1 DEF KernelOK, SnapshotTrue, Readable
    <3> QED BY <1>2, <1>8, <3>1 DEF Readable
  <2> QED BY <1>2, <2>1 DEF SnapshotTrue
<1> QED BY <1>7, <1>9, <1>10, <1>11 DEF KernelOK

LEMMA ProgramKeeps ==
  ASSUME ServerAssumption, KernelOK, NEW c \in Conns,
         \/ PeerConnect(c) \/ PeerClose(c) \/ PeerReset(c)
         \/ \E cmd \in Commands : PeerSend(c, cmd)
  PROVE  KernelOK'
<1> USE DEF serverVars
<1>2. CASE PeerConnect(c)
  <2>1. backlog \in Seq(Conns) /\ c # NoConn
    BY DEF KernelOK, ServerAssumption
  <2>2. /\ backlog' \in Seq(Conns) /\ backlog' # <<>> /\ Len(backlog') = Len(backlog) + 1
        /\ \A k \in 1..Len(backlog') :
             IF k = Len(backlog') THEN backlog'[k] = c
             ELSE k \in 1..Len(backlog) /\ backlog'[k] = backlog[k]
    BY <1>2, <2>1 DEF PeerConnect
  <2>3. (\A f \in Fds : sock[f] # c) /\ \A k \in 1..Len(backlog) : backlog[k] # c
    BY <1>2 DEF PeerConnect, Attached, Accepted, Queued
  <2>4. UNCHANGED <<clients, num_clients, master, read_fds, servfd_ready, sock, toServer>>
    BY <1>2 DEF PeerConnect
  <2>5. ConnectionsDistinct'
    <3>1. ASSUME NEW j \in 1..Len(backlog'), NEW k \in 1..Len(backlog'), backlog'[j] = backlog'[k]
          PROVE  j = k
      BY <2>2, <2>3, <3>1 DEF KernelOK, ConnectionsDistinct
    <3>2. ASSUME NEW f \in Fds, NEW k \in 1..Len(backlog') PROVE sock'[f] # backlog'[k]
      BY <2>2, <2>3, <2>4 DEF KernelOK, ConnectionsDistinct
    <3>3. \A f, g \in Fds : sock'[f] # NoConn /\ sock'[f] = sock'[g] => f = g
      BY <2>4 DEF KernelOK, ConnectionsDistinct
    <3> QED BY <3>1, <3>2, <3>3 DEF ConnectionsDistinct
  <2>6. peer' \in [Conns -> {"idle", "up", "fin", "rst"}] /\ \A d \in Conns : d # c => peer'[d] = peer[d]
    BY <1>2 DEF PeerConnect, KernelOK
  <2>7. ASSUME NEW f \in read_fds' PROVE Readable(f)'
    <3>1. f \in Fds /\ Readable(f) /\ sock[f] \in Conns /\ sock[f] # c
      BY <2>3, <2>4, <2>7 DEF KernelOK, SnapshotTrue, Readable
    <3> QED BY <2>4, <2>6, <3>1 DEF Readable
  <2> QED BY <2>2, <2>4, <2>5, <2>6, <2>7, SlotsUntouched DEF KernelOK
<1>3. ASSUME UNCHANGED <<serverVars, sock, backlog>>,
             toServer' \in [Conns -> Seq(Commands)],
             peer' \in [Conns -> {"idle", "up", "fin", "rst"}],
             \A d \in Conns : \/ toServer'[d] # <<>> \/ peer'[d] \in {"fin", "rst"}
                              \/ toServer[d] = <<>> /\ peer[d] \notin {"fin", "rst"}
                              \/ \A f \in Fds : sock[f] # d
      PROVE  KernelOK'
  <2>1. ConnectionsDistinct'
    BY <1>3 DEF KernelOK, ConnectionsDistinct
  <2>2. ASSUME NEW f \in read_fds' PROVE Readable(f)'
    BY <1>3, <2>2 DEF KernelOK, SnapshotTrue, Readable
  <2> QED BY <1>3, <2>1, <2>2, SlotsUntouched DEF KernelOK, SnapshotTrue
<1>4. CASE PeerClose(c)
  <2>1. UNCHANGED <<serverVars, sock, backlog, toServer>>
    BY <1>4 DEF PeerClose
  <2>2. /\ peer' \in [Conns -> {"idle", "up", "fin", "rst"}]
        /\ \A d \in Conns : d # c => peer'[d] = peer[d]
        /\ peer[c] = "up" /\ (Attached(c) => peer'[c] = "fin")
    BY <1>4 DEF PeerClose, KernelOK
  <2>3. ASSUME NEW d \in Conns
        PROVE  \/ toServer'[d] # <<>> \/ peer'[d] \in {"fin", "rst"}
               \/ toServer[d] = <<>> /\ peer[d] \notin {"fin", "rst"}
               \/ \A f \in Fds : sock[f] # d
    BY <2>1, <2>2 DEF Attached, Accepted
  <2> QED BY <1>3, <2>1, <2>2, <2>3 DEF KernelOK
<1>5. CASE PeerReset(c)
  <2>1. UNCHANGED <<serverVars, sock, backlog>>
    BY <1>5 DEF PeerReset
  <2>2. /\ peer' \in [Conns -> {"idle", "up", "fin", "rst"}] /\ peer'[c] = "rst"
        /\ \A d \in Conns : d # c => peer'[d] = peer[d]
    BY <1>5 DEF PeerReset, KernelOK
  <2>3. PICK kept \in {toServer[c], <<>>} : toServer' = [toServer EXCEPT ![c] = kept]
    BY <1>5 DEF PeerReset
  <2>4. /\ toServer \in [Conns -> Seq(Commands)] /\ kept \in Seq(Commands)
    <3>1. toServer \in [Conns -> Seq(Commands)] /\ <<>> \in Seq(Commands)
      BY DEF KernelOK
    <3> QED BY <2>3, <3>1
  <2>5. /\ toServer' \in [Conns -> Seq(Commands)]
        /\ \A d \in Conns : d # c => toServer'[d] = toServer[d]
    BY <2>3, <2>4
  <2> QED BY <1>3, <2>1, <2>2, <2>5
<1>6. ASSUME NEW cmd \in Commands, PeerSend(c, cmd) PROVE KernelOK'
  <2>1. cmd \in Commands /\ toServer \in [Conns -> Seq(Commands)]
    BY <1>6 DEF ServerAssumption, KernelOK
  <2>2. Append(toServer[c], cmd) \in Seq(Commands) /\ Append(toServer[c], cmd) # <<>>
    BY <2>1
  <2>3. /\ toServer' \in [Conns -> Seq(Commands)]
        /\ \A d \in Conns : toServer'[d] = IF d = c THEN Append(toServer[c], cmd) ELSE toServer[d]
    BY <1>6, <2>1, <2>2 DEF PeerSend
  <2>4. UNCHANGED <<serverVars, sock, backlog, peer>>
    BY <1>6 DEF PeerSend
  <2> QED BY <1>3, <2>2, <2>3, <2>4 DEF KernelOK
<1> QED BY <1>2, <1>4, <1>5, <1>6

LEMMA PeerKeeps ==
  ASSUME ServerAssumption, KernelOK, Peer
  PROVE  KernelOK'
<1>1. PICK c \in Conns : \/ PeerConnect(c) \/ PeerClose(c) \/ PeerReset(c)
                         \/ \E cmd \in Cmds[c] : PeerSend(c, cmd)
  BY DEF Peer
<1> QED BY <1>1, ProgramKeeps DEF ServerAssumption

-----------------------------------------------------------------------------
(* What is written.                                                        *)

Outbox == [Conns -> Seq(Message)]

LEMMA MsgTyped ==
  ASSUME NEW op \in ChatOps \cup {"ACK", "NAK"},
         NEW form \in {"reply", "notice", "denied", "absent", "yes", "no"},
         NEW nick \in Strings \cup {NoString}, NEW other \in Strings \cup {NoString}
  PROVE  Msg(op, form, nick, other) \in Message
BY DEF Msg, Message

LEMMA AcksTyped == ACK \in Message /\ NAK \in Message
BY MsgTyped DEF ACK, NAK

LEMMA OutTyped ==
  /\ Quiet \in Outbox
  /\ \A fd, m : m \in Message => SendTo(fd, m) \in Outbox
  /\ \A i, m : m \in Message => Reply(i, m) \in Outbox
  /\ \A db, m, excl : m \in Message => ToRoom(db, m, excl) \in Outbox
  /\ \A p, q \in Outbox : Then(p, q) \in Outbox
<1>1. ASSUME NEW m \in Message PROVE <<m>> \in Seq(Message) /\ <<>> \in Seq(Message)
  OBVIOUS
<1>2. Quiet \in Outbox
  BY DEF Quiet, Outbox
<1>3. ASSUME NEW fd, NEW m \in Message PROVE SendTo(fd, m) \in Outbox
  BY <1>1 DEF SendTo, Outbox
<1>4. ASSUME NEW db, NEW m \in Message, NEW excl PROVE ToRoom(db, m, excl) \in Outbox
  BY <1>1 DEF ToRoom, Outbox
<1>5. ASSUME NEW p \in Outbox, NEW q \in Outbox PROVE Then(p, q) \in Outbox
  <2>1. ASSUME NEW c \in Conns PROVE p[c] \o q[c] \in Seq(Message)
    BY DEF Outbox
  <2> QED BY <2>1 DEF Then, Outbox
<1> QED BY <1>2, <1>3, <1>4, <1>5 DEF Reply

-----------------------------------------------------------------------------
(* The handlers: the store stays a room, and what is written is typed.     *)

RoomAndOut == GoodRoom(udata) /\ out \in Outbox

(* The command that is handled.                                            *)
LEMMA RequestTyped ==
  ASSUME ServerAssumption, KernelOK, NEW i \in Slots, NEW k \in RecvSizes,
         NEW ops, Handles(i, k, ops)
  PROVE  /\ Request(i, k).op \in ops
         /\ Request(i, k).user \in Users \cup {NoUser}
         /\ Request(i, k).arg \in Strings \cup {NoString}
         /\ clients[i].fd \in Fds /\ clients[i].fd \in Nat
         /\ RecvData(i, k) /\ Received(i, k) # <<>>
<1>1. RecvData(i, k) /\ Turn(i) /\ Received(i, k) # <<>> /\ Request(i, k).op \in ops
  BY DEF Handles, RecvData
<1>2. Request(i, k) \in Commands
  BY <1>1, RecvFacts
<1>3. clients[i].fd \in Fds /\ clients[i].fd \in Nat
  BY <1>1, TurnFacts DEF Fds
<1> QED BY <1>1, <1>2, <1>3 DEF Commands

(* Who speaks at slot i, and whom a nickname names, is in the room.        *)
LEMMA SpeakerPresent ==
  ASSUME UdataAssumption, GoodRoom(udata), NEW i, Speaker(i) # NoUser
  PROVE  LET u == Speaker(i)
         IN  /\ u \in Users /\ Listed(udata, u) /\ IsPresent(udata.ent[u])
             /\ udata.ent[u].fd \in Fds /\ udata.ent[u].nick \in Strings
             /\ "BANNED" \notin udata.ent[u].flags
             /\ udata.ent[u].flags \in SUBSET UdataFlags
BY FoundIsPresent DEF Speaker

LEMMA TargetPresent ==
  ASSUME UdataAssumption, GoodRoom(udata), NEW i, NEW k, Target(i, k) # NoUser
  PROVE  LET u == Target(i, k)
         IN  /\ u \in Users /\ Listed(udata, u) /\ IsPresent(udata.ent[u])
             /\ udata.ent[u].fd \in Fds /\ udata.ent[u].nick \in Strings
             /\ "BANNED" \notin udata.ent[u].flags
             /\ udata.ent[u].flags \in SUBSET UdataFlags
BY FoundIsPresent DEF Target

LEMMA LeaveKeepsRoom ==
  ASSUME NEW db, GoodRoom(db), NEW user \in Users, Listed(db, user)
  PROVE  GoodRoom(LeaveRoom(db, user))
<1>1. db \in Store
  BY DEF GoodRoom
<1> DEFINE fl == db.ent[user].flags \ InRoomFlags
<1>2. fl \in SUBSET UdataFlags
  BY <1>1 DEF Store, Entry
<1>3. "PRESENT" \notin fl /\ fl \cap {"OPERATOR", "AWAY"} = {}
  BY DEF InRoomFlags
<1>4. LeaveRoom(db, user) = With(db, user, Flagged(db.ent[user], fl))
  BY <1>1, LeaveRoomIs
<1> HIDE DEF fl
<1> QED BY <1>2, <1>3, <1>4, FlagsKeepRoom

LEMMA RecvEofRoom ==
  ASSUME UdataAssumption, ServerAssumption, KernelOK, RoomAndOut, NEW i \in Slots, RecvEof(i)
  PROVE  RoomAndOut'
<1>1. CASE Speaker(i) # NoUser
  <2>1. udata' = LeaveRoom(udata, Speaker(i)) /\ out' = ToRoom(udata, LeftMsg(Speaker(i)), i)
    BY <1>1 DEF RecvEof
  <2>2. /\ Speaker(i) \in Users /\ Listed(udata, Speaker(i))
        /\ udata.ent[Speaker(i)].nick \in Strings
    BY <1>1, SpeakerPresent DEF RoomAndOut
  <2>3. GoodRoom(udata')
    BY <2>1, <2>2, LeaveKeepsRoom DEF RoomAndOut
  <2>4. LeftMsg(Speaker(i)) \in Message
    BY <2>2, MsgTyped DEF LeftMsg, ChatOps
  <2> QED BY <2>1, <2>3, <2>4, OutTyped DEF RoomAndOut
<1>2. CASE Speaker(i) = NoUser
  BY <1>2, OutTyped DEF RecvEof, RoomAndOut
<1> QED BY <1>1, <1>2


LEMMA DoorFacts ==
  ASSUME UdataAssumption, ServerAssumption, KernelOK, GoodRoom(udata),
         NEW i \in Slots, NEW k \in RecvSizes, NEW ops, Handles(i, k, ops)
  PROVE  /\ GoodRoom(DoorStore(i, k))
         /\ DoorUser(i, k) # NoUser =>
              /\ DoorUser(i, k) \in Users
              /\ Listed(DoorStore(i, k), DoorUser(i, k))
              /\ DoorUser(i, k) = Request(i, k).user
<1>1. Request(i, k).user \in Users \cup {NoUser}
  BY RequestTyped
<1>2. GoodRoom(DoorStore(i, k))
  BY <1>1, AddFacts DEF DoorStore
<1>3. DoorUser(i, k) # NoUser =>
        DoorUser(i, k) = Request(i, k).user /\ Listed(DoorStore(i, k), DoorUser(i, k))
  BY DEF DoorUser, UdataGet
<1> QED BY <1>1, <1>2, <1>3

LEMMA DoorNakRoom ==
  ASSUME UdataAssumption, ServerAssumption, KernelOK, RoomAndOut,
         NEW i \in Slots, NEW k \in RecvSizes, DoorNak(i, k)
  PROVE  RoomAndOut'
<1>1. GoodRoom(udata')
  BY DoorFacts DEF DoorNak, RoomAndOut
<1>2. out' \in Outbox
  BY OutTyped, AcksTyped DEF DoorNak
<1> QED BY <1>1, <1>2 DEF RoomAndOut

\* What is not refused comes from somebody with an entry: to leave one has
\* to be in the room.
LEMMA NotRefused ==
  ASSUME NEW i, NEW k, ~DoorRefused(i, k)
  PROVE  /\ DoorUser(i, k) # NoUser
         /\ Leaving(i, k) => "PRESENT" \in DoorFlags(i, k)
         /\ ~Leaving(i, k) =>
              /\ "BANNED" \notin DoorFlags(i, k) /\ "PRESENT" \notin DoorFlags(i, k)
              /\ ~NickInUse(DoorStore(i, k), Request(i, k).arg)
BY DEF DoorRefused, NotWelcome

LEMMA DoorLeaveRoom ==
  ASSUME UdataAssumption, ServerAssumption, KernelOK, RoomAndOut,
         NEW i \in Slots, NEW k \in RecvSizes, DoorLeave(i, k)
  PROVE  RoomAndOut' /\ IsPresent(udata.ent[DoorUser(i, k)]) /\ DoorUser(i, k) \in Users
                     /\ Listed(udata, DoorUser(i, k))
<1> DEFINE u == DoorUser(i, k)
<1>1. GoodRoom(udata) /\ out \in Outbox
  BY DEF RoomAndOut
<1>2. /\ u \in Users /\ u = Request(i, k).user
      /\ "PRESENT" \in DoorFlags(i, k)
  BY <1>1, DoorFacts, NotRefused DEF DoorLeave
<1>3. IsPresent(DoorStore(i, k).ent[u])
  BY <1>2 DEF DoorFlags, IsPresent
<1>4. IsPresent(udata.ent[u])
  BY <1>1, <1>2, <1>3, AddFacts DEF DoorStore
<1>5. Listed(udata, u) /\ udata.ent[u].nick \in Strings
  BY <1>1, <1>2, <1>4 DEF GoodRoom
<1>6. GoodRoom(udata')
  BY <1>1, <1>2, <1>5, LeaveKeepsRoom DEF DoorLeave
<1>7. LeftMsg(u) \in Message
  BY <1>5, MsgTyped DEF LeftMsg, ChatOps
<1>8. out' \in Outbox
  BY <1>7, OutTyped, AcksTyped DEF DoorLeave
<1> QED BY <1>2, <1>4, <1>5, <1>6, <1>8 DEF RoomAndOut

LEMMA DoorJoinRoom ==
  ASSUME UdataAssumption, ServerAssumption, KernelOK, RoomAndOut,
         NEW i \in Slots, NEW k \in RecvSizes, DoorJoin(i, k)
  PROVE  RoomAndOut'
<1> DEFINE u  == DoorUser(i, k)
           db == DoorStore(i, k)
           n  == Request(i, k).arg
           fd == clients[i].fd
<1>1. GoodRoom(udata) /\ out \in Outbox
  BY DEF RoomAndOut
<1>2. /\ GoodRoom(db) /\ u \in Users /\ Listed(db, u) /\ ~NickInUse(db, n)
  BY <1>1, DoorFacts, NotRefused DEF DoorJoin
<1>3. fd \in Fds /\ fd \in Nat /\ n \in Strings /\ n # NoString
  <2>1. n \in Strings \cup {NoString} /\ fd \in Fds /\ fd \in Nat
    BY RequestTyped DEF DoorJoin
  <2>2. n # NoString
    BY DEF DoorJoin, Leaving
  <2> QED BY <2>1, <2>2
<1>4. udata' = Joined(db, u, n, fd)
  BY DEF DoorJoin
<1>5. out' \in Outbox
  <2>1. Msg("C_DOOR", "yes", n, NoString) \in Message
    BY <1>3, MsgTyped DEF ChatOps
  <2> QED BY <2>1, OutTyped, AcksTyped DEF DoorJoin
<1> HIDE DEF u, db, n, fd
<1>6. db \in Store
  BY <1>2 DEF GoodRoom
<1>7. udata' = With(db, u, Ent(db.ent[u], n, fd, {"PRESENT"}))
  BY <1>2, <1>3, <1>4, <1>6, JoinedIs
<1>8. \A v \in Users : IsPresent(db.ent[v]) => db.ent[v].nick # n
  BY <1>2, FreeNick
<1>9. {"PRESENT"} \in SUBSET UdataFlags /\ "BANNED" \notin {"PRESENT"}
  BY DEF UdataFlags
<1>10. GoodRoom(udata')
  BY <1>2, <1>3, <1>7, <1>8, <1>9, NickKeepsRoom
<1> QED BY <1>5, <1>10 DEF RoomAndOut

(* A flag other than PRESENT of somebody in the room changes.              *)
LEMMA MarkKeepsRoom ==
  ASSUME NEW db, GoodRoom(db), NEW user \in Users, Listed(db, user),
         IsPresent(db.ent[user]), NEW f \in SUBSET {"OPERATOR", "AWAY"}
  PROVE  /\ GoodRoom(UdataFlagSet(db, user, f))
         /\ GoodRoom(UdataFlagUnset(db, user, f))
<1>1. db \in Store
  BY DEF GoodRoom
<1> DEFINE fl1 == db.ent[user].flags \cup f
           fl2 == db.ent[user].flags \ f
<1>2. /\ fl1 \in SUBSET UdataFlags /\ fl2 \in SUBSET UdataFlags
      /\ "PRESENT" \in fl1 /\ "PRESENT" \in fl2
      /\ "BANNED" \notin fl1 /\ "BANNED" \notin fl2
  BY <1>1 DEF GoodRoom, Store, Entry, UdataFlags, IsPresent
<1>3. /\ UdataFlagSet(db, user, f) = With(db, user, Flagged(db.ent[user], fl1))
      /\ UdataFlagUnset(db, user, f) = With(db, user, Flagged(db.ent[user], fl2))
  BY <1>1, FlagSetIs, FlagUnsetIs
<1> HIDE DEF fl1, fl2
<1>4. GoodRoom(With(db, user, Flagged(db.ent[user], fl1)))
  BY <1>2, FlagsKeepRoom
<1>5. GoodRoom(With(db, user, Flagged(db.ent[user], fl2)))
  BY <1>2, FlagsKeepRoom
<1> QED BY <1>3, <1>4, <1>5


LEMMA NickRoom ==
  ASSUME UdataAssumption, ServerAssumption, KernelOK, RoomAndOut,
         NEW i \in Slots, NEW k \in RecvSizes, Nick(i, k)
  PROVE  RoomAndOut'
<1> DEFINE u == Speaker(i)
           n == Request(i, k).arg
<1>1. GoodRoom(udata) /\ udata \in Store /\ ~NickInUse(udata, n)
      /\ udata' = UdataUpdate(udata, UdataDefEntry(u, n, -1))
  BY DEF RoomAndOut, Nick, GoodRoom
<1>2. /\ u \in Users /\ Listed(udata, u) /\ IsPresent(udata.ent[u])
      /\ udata.ent[u].fd \in Fds /\ udata.ent[u].nick \in Strings
      /\ "BANNED" \notin udata.ent[u].flags /\ udata.ent[u].flags \in SUBSET UdataFlags
  BY <1>1, SpeakerPresent DEF Nick, Chats
<1>3. n \in Strings /\ n # NoString
  BY RequestTyped DEF Nick, Chats
<1>4. out' \in Outbox
  <2>1. Msg("C_NICK", "notice", n, NickOf(u)) \in Message
    BY <1>2, <1>3, MsgTyped DEF ChatOps, NickOf
  <2> QED BY <2>1, OutTyped DEF Nick
<1> HIDE DEF u, n
<1>5. udata' = With(udata, u, Ent(udata.ent[u], n, udata.ent[u].fd, udata.ent[u].flags))
  BY <1>1, <1>2, <1>3, RenameIs
<1>6. \A v \in Users : IsPresent(udata.ent[v]) => udata.ent[v].nick # n
  BY <1>1, FreeNick
<1>7. GoodRoom(udata')
  BY <1>1, <1>2, <1>3, <1>5, <1>6, NickKeepsRoom DEF IsPresent
<1> QED BY <1>4, <1>7 DEF RoomAndOut

LEMMA AwayRoom ==
  ASSUME UdataAssumption, ServerAssumption, KernelOK, RoomAndOut,
         NEW i \in Slots, NEW k \in RecvSizes, Away(i, k)
  PROVE  RoomAndOut'
<1>1. /\ Speaker(i) \in Users /\ Listed(udata, Speaker(i)) /\ IsPresent(udata.ent[Speaker(i)])
      /\ NickOf(Speaker(i)) \in Strings
  BY SpeakerPresent DEF RoomAndOut, Away, Chats, NickOf
<1>2. GoodRoom(udata')
  BY <1>1, MarkKeepsRoom DEF Away, RoomAndOut
<1>3. /\ Msg("C_AWAY", "no", NickOf(Speaker(i)), NoString) \in Message
      /\ Msg("C_AWAY", "yes", NickOf(Speaker(i)), NoString) \in Message
  BY <1>1, MsgTyped DEF ChatOps
<1>4. out' \in Outbox
  BY <1>3, OutTyped DEF Away
<1> QED BY <1>2, <1>4 DEF RoomAndOut

LEMMA OperRoom ==
  ASSUME UdataAssumption, ServerAssumption, KernelOK, RoomAndOut,
         NEW i \in Slots, NEW k \in RecvSizes, Oper(i, k)
  PROVE  RoomAndOut'
<1>1. /\ Speaker(i) \in Users /\ Listed(udata, Speaker(i)) /\ IsPresent(udata.ent[Speaker(i)])
      /\ NickOf(Speaker(i)) \in Strings
  BY SpeakerPresent DEF RoomAndOut, Oper, Chats, NickOf
<1>2. GoodRoom(udata')
  BY <1>1, MarkKeepsRoom DEF Oper, RoomAndOut
<1>3. /\ Msg("C_OPER", "notice", NickOf(Speaker(i)), NoString) \in Message
      /\ Msg("C_OPER", "denied", NoString, NoString) \in Message
  BY <1>1, MsgTyped DEF ChatOps
<1>4. out' \in Outbox
  BY <1>3, OutTyped DEF Oper
<1> QED BY <1>2, <1>4 DEF RoomAndOut

(* The handlers that leave the store alone.                                *)
LEMMA ReplyRoom ==
  ASSUME UdataAssumption, ServerAssumption, KernelOK, RoomAndOut,
         NEW i \in Slots, NEW k \in RecvSizes,
         \/ Ignored(i, k) \/ NickReply(i, k) \/ Beep(i, k) \/ Psay(i, k)
         \/ Say(i, k) \/ Who(i, k) \/ ModerateReply(i, k)
  PROVE  RoomAndOut'
<1> DEFINE arg == Request(i, k).arg
           op  == Request(i, k).op
<1>1. GoodRoom(udata) /\ udata' = udata /\ udata \in Store
  BY DEF RoomAndOut, GoodRoom, Ignored, NickReply, Beep, Psay, Say, Who, ModerateReply
<1>2. arg \in Strings \cup {NoString}
  BY RequestTyped DEF Ignored, NickReply, Beep, Psay, Say, Who, ModerateReply, Chats
<1>3. \A u \in Users : NickOf(u) \in Strings \cup {NoString}
                       /\ NameMarks(u) \in SUBSET {"AWAY", "OPERATOR"}
  BY <1>1 DEF NickOf, NameMarks, Store, Entry
<1>4. Speaker(i) # NoUser => NickOf(Speaker(i)) \in Strings
  BY <1>1, SpeakerPresent DEF NickOf
<1> HIDE DEF arg, op
<1>5. CASE Ignored(i, k)
  BY <1>1, <1>5, OutTyped DEF Ignored, RoomAndOut
<1>6. CASE NickReply(i, k)
  <2>1. /\ Msg("C_NICK", "denied", NoString, NoString) \in Message
        /\ Msg("C_NICK", "reply", NickOf(Speaker(i)), NoString) \in Message
    BY <1>4, <1>6, MsgTyped DEF ChatOps, NickReply, Chats
  <2>2. out' \in Outbox
    BY <1>6, <2>1, OutTyped DEF NickReply
  <2> QED BY <1>1, <2>2 DEF RoomAndOut
<1>7. CASE Beep(i, k)
  <2>1. /\ Msg("C_BEEP", "notice", NoString, NoString) \in Message
        /\ Msg("C_BEEP", "absent", Request(i, k).arg, NoString) \in Message
    BY <1>2, MsgTyped DEF ChatOps, arg
  <2>2. out' \in Outbox
    BY <1>7, <2>1, OutTyped DEF Beep
  <2> QED BY <1>1, <2>2 DEF RoomAndOut
<1>8. CASE Psay(i, k)
  <2> DEFINE t == IF Request(i, k).arg = NoString THEN NoUser
                  ELSE UdataGetByNick(udata, Request(i, k).arg)
             me == NickOf(Speaker(i))
  <2>1. t # NoUser => NickOf(t) \in Strings
    BY <1>1, FoundIsPresent DEF NickOf
  <2>2. me \in Strings
    BY <1>4, <1>8 DEF Psay, Chats
  <2>3. out' = IF t # NoUser
                 THEN Then(SendTo(udata.ent[t].fd, Msg("C_PSAY", "notice", me, NoString)),
                           Reply(i, Msg("C_PSAY", "reply", me, NickOf(t))))
                 ELSE Reply(i, Msg("C_PSAY", "absent", Request(i, k).arg, NoString))
    BY <1>8 DEF Psay
  <2> HIDE DEF t, me
  <2>4. /\ Msg("C_PSAY", "notice", me, NoString) \in Message
        /\ Msg("C_PSAY", "absent", Request(i, k).arg, NoString) \in Message
        /\ t # NoUser => Msg("C_PSAY", "reply", me, NickOf(t)) \in Message
    BY <1>2, <2>1, <2>2, MsgTyped DEF ChatOps, arg
  <2>5. CASE t # NoUser
    <3>1. /\ SendTo(udata.ent[t].fd, Msg("C_PSAY", "notice", me, NoString)) \in Outbox
          /\ Reply(i, Msg("C_PSAY", "reply", me, NickOf(t))) \in Outbox
      BY <2>4, <2>5, OutTyped
    <3>2. out' \in Outbox
      BY <2>3, <2>5, <3>1, OutTyped
    <3> QED BY <1>1, <3>2 DEF RoomAndOut
  <2>6. CASE t = NoUser
    BY <1>1, <2>3, <2>4, <2>6, OutTyped DEF RoomAndOut
  <2> QED BY <2>5, <2>6
<1>9. CASE Say(i, k)
  <2> DEFINE m == [op |-> Request(i, k).op, nick |-> NickOf(Speaker(i)),
                   marks |-> NameMarks(Speaker(i))]
  <2>1. Speaker(i) # NoUser /\ Request(i, k).op \in {"C_SAY", "C_ME"}
    BY <1>9, RequestTyped DEF Say, Chats
  <2>2. Speaker(i) \in Users
    BY <1>1, <2>1, SpeakerPresent
  <2>3. m \in Message
    BY <1>3, <2>1, <2>2 DEF Message
  <2>4. out' = ToRoom(udata, m, NoSlot)
    BY <1>9 DEF Say
  <2> HIDE DEF m
  <2> QED BY <1>1, <2>3, <2>4, OutTyped DEF RoomAndOut
<1>10. CASE Who(i, k)
  <2> DEFINE m == [op   |-> "C_WHO", what |-> Request(i, k).arg,
                   room |-> IF Request(i, k).arg = WHO_SYSTEM THEN {} ELSE RoomList]
  <2>1. \A j : Speaker(j) # NoUser => Speaker(j) \in Users
    BY <1>1, SpeakerPresent
  <2>2. RoomList \in SUBSET [user : Users, nick : Strings \cup {NoString},
                             marks : SUBSET {"AWAY", "OPERATOR"}]
    BY <1>3, <2>1 DEF RoomList
  <2>3. m \in Message
    BY <1>2, <2>2 DEF Message, arg
  <2>4. out' = Reply(i, m)
    BY <1>10 DEF Who
  <2> HIDE DEF m
  <2> QED BY <1>1, <2>3, <2>4, OutTyped DEF RoomAndOut
<1>11. CASE ModerateReply(i, k)
  <2>1. Request(i, k).op \in ChatOps
    BY <1>11, RequestTyped DEF ModerateReply, Chats, ModOps, ChatOps
  <2>2. /\ Msg(Request(i, k).op, "denied", NoString, NoString) \in Message
        /\ Msg(Request(i, k).op, "absent", Request(i, k).arg, NoString) \in Message
    BY <1>2, <2>1, MsgTyped DEF arg
  <2>3. out' \in Outbox
    BY <1>11, <2>2, OutTyped DEF ModerateReply
  <2> QED BY <1>1, <2>3 DEF RoomAndOut
<1> QED BY <1>5, <1>6, <1>7, <1>8, <1>9, <1>10, <1>11


(* unban: whoever is in the room is not banned, so nothing changes.        *)
LEMMA UnbanIsVain ==
  ASSUME NEW db, GoodRoom(db), NEW user \in Users, Listed(db, user), IsPresent(db.ent[user])
  PROVE  UdataFlagUnset(db, user, {"BANNED"}) = db
<1>1. db \in Store /\ db.ent[user] \in Entry
  BY DEF GoodRoom, Store
<1>2. db.ent[user].flags \ {"BANNED"} = db.ent[user].flags
  BY DEF GoodRoom
<1>3. UdataFlagUnset(db, user, {"BANNED"})
        = With(db, user, Flagged(db.ent[user], db.ent[user].flags))
  <2>1. UdataFlagUnset(db, user, {"BANNED"})
          = With(db, user, Flagged(db.ent[user], db.ent[user].flags \ {"BANNED"}))
    BY <1>1, FlagUnsetIs
  <2> QED BY <1>2, <2>1
<1>4. Flagged(db.ent[user], db.ent[user].flags) = db.ent[user]
  BY <1>1 DEF Flagged, Ent, Entry
<1>5. With(db, user, db.ent[user]) = db
  BY <1>1 DEF With, Store
<1> QED BY <1>3, <1>4, <1>5

LEMMA ModerateRoom ==
  ASSUME UdataAssumption, ServerAssumption, KernelOK, RoomAndOut,
         NEW i \in Slots, NEW k \in RecvSizes, Moderate(i, k)
  PROVE  RoomAndOut'
<1> DEFINE t == Target(i, k)
<1>1. GoodRoom(udata)
  BY DEF RoomAndOut
<1>2. t \in Users /\ Listed(udata, t) /\ IsPresent(udata.ent[t]) /\ NickOf(t) \in Strings
  BY <1>1, TargetPresent DEF Moderate, NickOf
<1>3. NickOf(Speaker(i)) \in Strings
  BY <1>1, SpeakerPresent DEF Moderate, Chats, NickOf
<1>4. Request(i, k).op \in {"C_OP", "C_DEOP", "C_UNBAN"}
  BY RequestTyped DEF Moderate, Chats
<1>5. GoodRoom(udata')
  <2>1. CASE Request(i, k).op = "C_OP"
    BY <1>1, <1>2, <2>1, MarkKeepsRoom DEF Moderate
  <2>2. CASE Request(i, k).op = "C_DEOP"
    BY <1>1, <1>2, <2>2, MarkKeepsRoom DEF Moderate
  <2>3. CASE Request(i, k).op = "C_UNBAN"
    BY <1>1, <1>2, <2>3, UnbanIsVain DEF Moderate
  <2> QED BY <1>4, <2>1, <2>2, <2>3
<1>6. ModerateNotice(i, k) \in Message
  BY <1>2, <1>3, <1>4, MsgTyped DEF ModerateNotice, ChatOps
<1>7. out' \in Outbox
  BY <1>6, OutTyped DEF Moderate
<1> QED BY <1>5, <1>7 DEF RoomAndOut

LEMMA ExpelRoom ==
  ASSUME UdataAssumption, ServerAssumption, KernelOK, RoomAndOut,
         NEW i \in Slots, NEW k \in RecvSizes, Expel(i, k)
  PROVE  RoomAndOut'
<1> DEFINE t == Target(i, k)
           fl == (udata.ent[t].flags \cup {"BANNED"}) \ InRoomFlags
<1>1. GoodRoom(udata) /\ udata \in Store
  BY DEF RoomAndOut, GoodRoom
<1>2. /\ t \in Users /\ Listed(udata, t) /\ NickOf(t) \in Strings
      /\ udata.ent[t].flags \in SUBSET UdataFlags
  BY <1>1, TargetPresent DEF Expel, NickOf
<1>3. NickOf(Speaker(i)) \in Strings
  BY <1>1, SpeakerPresent DEF Expel, Chats, NickOf
<1>4. Request(i, k).op \in {"C_BAN", "C_KICK"}
  BY RequestTyped DEF Expel, Chats
<1>5. ASSUME Request(i, k).op = "C_KICK" PROVE GoodRoom(udata')
  <2>1. udata' = LeaveRoom(udata, t)
    BY <1>5 DEF Expel
  <2> QED BY <1>1, <1>2, <2>1, LeaveKeepsRoom
<1>6. ASSUME Request(i, k).op = "C_BAN" PROVE GoodRoom(udata')
  <2>1. udata' = With(udata, t, Flagged(udata.ent[t], fl))
    BY <1>1, <1>2, <1>6, BanIs DEF Expel
  <2>2. fl \in SUBSET UdataFlags /\ "PRESENT" \notin fl /\ fl \cap {"OPERATOR", "AWAY"} = {}
    BY <1>2 DEF UdataFlags, InRoomFlags
  <2> HIDE DEF fl, t
  <2> QED BY <1>1, <1>2, <2>1, <2>2, FlagsKeepRoom
<1>7. ModerateNotice(i, k) \in Message
  BY <1>2, <1>3, <1>4, MsgTyped DEF ModerateNotice, ChatOps
<1>8. out' \in Outbox
  BY <1>7, OutTyped DEF Expel
<1> QED BY <1>4, <1>5, <1>6, <1>8 DEF RoomAndOut

(* The slot that a kick kills holds the descriptor of the target.          *)
LEMMA SlotOfFacts ==
  ASSUME NEW user, udata.ent[user].fd \in Fds
  PROVE  /\ SlotOf(user) \in Slots \cup {NoSlot}
         /\ SlotOf(user) # NoSlot => clients[SlotOf(user)].fd = udata.ent[user].fd
<1> DEFINE held == {j \in Slots : clients[j].fd = udata.ent[user].fd}
<1>1. CASE held = {}
  BY <1>1 DEF SlotOf
<1>2. CASE held # {}
  <2>1. held \in SUBSET Nat
    BY DEF Slots
  <2>2. \E j \in held : \A h \in held : j <= h
    BY <1>2, <2>1, LeastNatural
  <2>3. SlotOf(user) = CHOOSE j \in held : \A h \in held : j <= h
    BY <1>2 DEF SlotOf
  <2> HIDE DEF held
  <2>4. SlotOf(user) \in held
    BY <2>2, <2>3
  <2> QED BY <2>4 DEF held
<1> QED BY <1>1, <1>2

-----------------------------------------------------------------------------
(* The invariant.                                                          *)

LEMMA InitOK ==
  ASSUME UdataAssumption, ServerAssumption, Init
  PROVE  KernelOK /\ RoomAndOut
<1> USE DEF Init
<1>1. EmptyStore \in Store /\ \A u \in Users : EmptyStore.ent[u].flags = {}
  BY DEF EmptyStore, Store, BlankEntry, Entry, UDATA_DEF, UdataAssumption, UdataFlags
<1>2. GoodRoom(udata)
  <2>1. udata \in Store /\ \A u \in Users : udata.ent[u] = BlankEntry /\ udata.ent[u].flags = {}
    BY <1>1 DEF EmptyStore
  <2> QED BY <2>1 DEF GoodRoom, IsPresent
<1>3. out \in Outbox
  BY OutTyped
<1>4. UnusedSlot \in SlotRecord
  BY DEF UnusedSlot, SlotRecord
<1>5. SlotsMatchKernel
  <2>1. master = {f \in Fds : sock[f] # NoConn}
    OBVIOUS
  <2>2. \A j \in Slots : clients[j].fd = 0
    BY DEF UnusedSlot
  <2>3. 0 \notin Fds
    BY DEF Fds
  <2> QED BY <2>1, <2>2, <2>3 DEF SlotsMatchKernel
<1>6. ConnectionsDistinct /\ SnapshotTrue
  BY DEF ConnectionsDistinct, SnapshotTrue
<1>7. num_clients \in 0..MAX_CLIENTS
  BY DEF ServerAssumption
<1>8. /\ clients \in [Slots -> SlotRecord]
      /\ backlog \in Seq(Conns) /\ toServer \in [Conns -> Seq(Commands)]
      /\ peer \in [Conns -> {"idle", "up", "fin", "rst"}]
      /\ sock \in [Fds -> Conns \cup {NoConn}]
      /\ master \subseteq Fds /\ read_fds \subseteq Fds /\ servfd_ready \in BOOLEAN
  <2>1. clients \in [Slots -> SlotRecord]
    BY <1>4
  <2>2. <<>> \in Seq(Conns) /\ <<>> \in Seq(Commands)
    OBVIOUS
  <2>3. backlog \in Seq(Conns) /\ toServer \in [Conns -> Seq(Commands)]
    BY <2>2
  <2>4. peer \in [Conns -> {"idle", "up", "fin", "rst"}] /\ sock \in [Fds -> Conns \cup {NoConn}]
    OBVIOUS
  <2> QED BY <2>1, <2>3, <2>4
<1>9. RoomAndOut
  BY <1>2, <1>3 DEF RoomAndOut
<1>10. KernelOK
  BY <1>5, <1>6, <1>7, <1>8 DEF KernelOK
<1> QED BY <1>9, <1>10

LEMMA HandleCmdKeeps ==
  ASSUME UdataAssumption, ServerAssumption, KernelOK, RoomAndOut,
         NEW i \in Slots, NEW k \in RecvSizes, HandleCmd(i, k)
  PROVE  KernelOK' /\ RoomAndOut'
<1>1. CASE Expel(i, k)
  <2>1. /\ RecvData(i, k) /\ Received(i, k) # <<>>
        /\ Done(i, k, SlotOf(Target(i, k))) /\ Target(i, k) # NoUser
    BY <1>1, RequestTyped DEF Expel, Chats
  <2>2. udata.ent[Target(i, k)].fd \in Fds
    BY <2>1, TargetPresent DEF RoomAndOut
  <2>3. KernelOK'
    BY <2>1, <2>2, SlotOfFacts, DoneKeeps
  <2> QED BY <1>1, <2>3, ExpelRoom
<1>2. ASSUME Done(i, k, NoSlot), RecvData(i, k), Received(i, k) # <<>> PROVE KernelOK'
  BY <1>2, DoneKeeps
<1>3. CASE DoorNak(i, k)
  BY <1>2, <1>3, DoorNakRoom, RequestTyped DEF DoorNak
<1>4. CASE DoorLeave(i, k)
  BY <1>2, <1>4, DoorLeaveRoom, RequestTyped DEF DoorLeave
<1>5. CASE DoorJoin(i, k)
  BY <1>2, <1>5, DoorJoinRoom, RequestTyped DEF DoorJoin
<1>6. CASE Nick(i, k)
  BY <1>2, <1>6, NickRoom, RequestTyped DEF Nick, Chats
<1>7. CASE Away(i, k)
  BY <1>2, <1>7, AwayRoom, RequestTyped DEF Away, Chats
<1>8. CASE Oper(i, k)
  BY <1>2, <1>8, OperRoom, RequestTyped DEF Oper, Chats
<1>9. CASE Moderate(i, k)
  BY <1>2, <1>9, ModerateRoom, RequestTyped DEF Moderate, Chats
<1>10. CASE \/ Ignored(i, k) \/ NickReply(i, k) \/ Beep(i, k) \/ Psay(i, k)
            \/ Say(i, k) \/ Who(i, k) \/ ModerateReply(i, k)
  <2>1. Done(i, k, NoSlot) /\ RecvData(i, k) /\ Received(i, k) # <<>>
    BY <1>10, RequestTyped
       DEF Ignored, NickReply, Beep, Psay, Say, Who, ModerateReply, Chats
  <2> QED BY <1>2, <1>10, <2>1, ReplyRoom
<1> QED BY <1>1, <1>3, <1>4, <1>5, <1>6, <1>7, <1>8, <1>9, <1>10 DEF HandleCmd

LEMMA NextKeeps ==
  ASSUME UdataAssumption, ServerAssumption, KernelOK, RoomAndOut, [Next]_vars
  PROVE  KernelOK' /\ RoomAndOut'
<1>1. ASSUME UNCHANGED udata, out' = Quiet PROVE RoomAndOut'
  BY <1>1, OutTyped DEF RoomAndOut
<1>2. CASE Select
  BY <1>1, <1>2, SelectKeeps DEF Select
<1>3. CASE Accept
  BY <1>1, <1>3, AcceptKeeps DEF Accept
<1>4. CASE AcceptRefuse \/ AcceptFails
  BY <1>1, <1>4, AcceptFailsKeeps DEF AcceptRefuse, AcceptFails
<1>5. ASSUME NEW i \in Slots, RecvError(i) PROVE KernelOK' /\ RoomAndOut'
  BY <1>1, <1>5, RecvErrorKeeps DEF RecvError
<1>6. ASSUME NEW i \in Slots, RecvEof(i) PROVE KernelOK' /\ RoomAndOut'
  BY <1>6, RecvEofKeeps, RecvEofRoom
<1>7. ASSUME NEW i \in Slots, NEW k \in RecvSizes, RecvIncomplete(i, k)
      PROVE  KernelOK' /\ RoomAndOut'
  BY <1>1, <1>7, RecvIncompleteKeeps DEF RecvIncomplete
<1>8. ASSUME NEW i \in Slots, NEW k \in RecvSizes, HandleCmd(i, k)
      PROVE  KernelOK' /\ RoomAndOut'
  BY <1>8, HandleCmdKeeps
<1>9. CASE Peer
  <2>1. UNCHANGED udata /\ out' = Quiet
    BY <1>9 DEF Peer, PeerConnect, PeerClose, PeerReset, PeerSend, serverVars
  <2> QED BY <1>1, <1>9, <2>1, PeerKeeps
<1>10. CASE UNCHANGED vars
  <2>1. RoomAndOut'
    BY <1>10 DEF vars, RoomAndOut
  <2>2. KernelOK'
    <3>1. ConnectionsDistinct' /\ (\A f \in read_fds' : Readable(f)')
      BY <1>10 DEF vars, KernelOK, ConnectionsDistinct, SnapshotTrue, Readable
    <3> QED BY <1>10, <3>1, SlotsUntouched DEF vars, KernelOK, SnapshotTrue
  <2> QED BY <2>1, <2>2
<1> QED BY <1>2, <1>3, <1>4, <1>5, <1>6, <1>7, <1>8, <1>9, <1>10 DEF Next, Server

(* IInv holds in every reachable state, whatever the constants: the store  *)
(* is a room, slots, watched set and kernel agree, connections are told    *)
(* apart and the snapshot of select() stays true.                          *)
THEOREM ServerInvariant == Spec => []IInv
<1> USE UdataAssumption, ServerAssumption
<1>1. Init => IInv
  BY InitOK, IInvParts DEF RoomAndOut, Outbox
<1>2. IInv /\ [Next]_vars => IInv'
  <2>1. ASSUME IInv, [Next]_vars PROVE KernelOK' /\ RoomAndOut'
    BY <2>1, IInvParts, NextKeeps DEF RoomAndOut, Outbox
  <2>2. KernelOK' /\ RoomAndOut' => IInv'
    BY DEF IInv, TypeOK, KernelOK, RoomAndOut, GoodRoom, Outbox
  <2> QED BY <2>1, <2>2
<1> QED BY <1>1, <1>2, PTL DEF Spec


(* Every variable always holds a value of its type.                        *)
THEOREM TypeCorrect == Spec => []TypeOK
<1>1. IInv => TypeOK
  BY DEF IInv
<1> QED BY <1>1, ServerInvariant, PTL

(* No two users in the room ever have the same nickname.                   *)
THEOREM NicksAlwaysDistinct == Spec => []NicksDistinct
<1>1. IInv => NicksDistinct
  BY DEF IInv, GoodRoom, NicksDistinct, Present, HasFlag, NickOf, IsPresent
<1> QED BY <1>1, ServerInvariant, PTL

(* Operator rights and the away mark never outlive presence.               *)
THEOREM RightsEndWithPresence == Spec => []RightsNeedPresence
<1>1. IInv => RightsNeedPresence
  BY DEF IInv, GoodRoom, RightsNeedPresence, Present, HasFlag, IsPresent
<1> QED BY <1>1, ServerInvariant, PTL

(* Slots, the set given to select() and the kernel always agree.           *)
THEOREM SlotsAlwaysMatch == Spec => []SlotsMatchKernel
<1>1. IInv => SlotsMatchKernel
  BY DEF IInv
<1> QED BY <1>1, ServerInvariant, PTL

(* The server never makes a recv() or an accept() that would block.        *)
THEOREM ServerNeverBlocksReading == Spec => []SnapshotHolds
<1>1. ASSUME IInv PROVE SnapshotHolds
  <2>1. ASSUME NEW i \in Pending PROVE clients[i].fd \in master /\ Readable(clients[i].fd)
    <3>1. clients[i].fd \in read_fds /\ clients[i].fd \in Fds
      BY <1>1 DEF Pending, IInv, TypeOK
    <3>2. Readable(clients[i].fd)
      BY <1>1, <3>1 DEF IInv, SnapshotTrue
    <3> QED BY <1>1, <3>1, <3>2 DEF IInv, SlotsMatchKernel, Readable
  <2> QED BY <1>1, <2>1 DEF IInv, SnapshotTrue, SnapshotHolds
<1> QED BY <1>1, ServerInvariant, PTL

-----------------------------------------------------------------------------
(* The room that a store describes, after one entry is replaced.           *)

LEMMA RoomOfWith ==
  ASSUME NEW db \in Store, NEW user \in Users, NEW e \in Entry
  PROVE  LET new == With(db, user, e)
         IN  /\ MembersOf(new) = IF IsPresent(e) THEN MembersOf(db) \cup {user}
                                 ELSE MembersOf(db) \ {user}
             /\ NicksOf(new) = [NicksOf(db) EXCEPT ![user] =
                                  IF IsPresent(e) THEN e.nick ELSE NoString]
<1> DEFINE new == With(db, user, e)
<1>1. /\ new.ent[user] = e
      /\ \A u \in Users : u # user => new.ent[u] = db.ent[u]
  BY DEF With, Store
<1> HIDE DEF new
<1>2. MembersOf(new) = IF IsPresent(e) THEN MembersOf(db) \cup {user} ELSE MembersOf(db) \ {user}
  <2>1. \A u \in Users : u \in MembersOf(new) <=> IsPresent(new.ent[u])
    BY DEF MembersOf
  <2>2. \A u \in Users : u \in MembersOf(db) <=> IsPresent(db.ent[u])
    BY DEF MembersOf
  <2>3. MembersOf(new) \subseteq Users /\ MembersOf(db) \subseteq Users
    BY DEF MembersOf
  <2>4. CASE IsPresent(e)
    BY <1>1, <2>1, <2>2, <2>3, <2>4
  <2>5. CASE ~IsPresent(e)
    BY <1>1, <2>1, <2>2, <2>3, <2>5
  <2> QED BY <2>4, <2>5
<1>3. NicksOf(new) = [NicksOf(db) EXCEPT ![user] = IF IsPresent(e) THEN e.nick ELSE NoString]
  <2> DEFINE N == NicksOf(new)
             M == [NicksOf(db) EXCEPT ![user] = IF IsPresent(e) THEN e.nick ELSE NoString]
  <2>1. N = [u \in Users |-> N[u]] /\ M = [u \in Users |-> M[u]]
    BY DEF NicksOf
  <2>2. \A u \in Users : N[u] = M[u]
    BY <1>1 DEF NicksOf
  <2> QED BY <2>1, <2>2
<1> QED BY <1>2, <1>3 DEF new

LEMMA MarkOfWith ==
  ASSUME NEW db \in Store, NEW user \in Users, NEW e \in Entry, NEW f
  PROVE  Marked(With(db, user, e), f)
           = IF f \in e.flags THEN Marked(db, f) \cup {user} ELSE Marked(db, f) \ {user}
<1> DEFINE new == With(db, user, e)
<1>1. /\ new.ent[user] = e
      /\ \A u \in Users : u # user => new.ent[u] = db.ent[u]
  BY DEF With, Store
<1> HIDE DEF new
<1>2. Marked(new, f) = IF f \in e.flags THEN Marked(db, f) \cup {user} ELSE Marked(db, f) \ {user}
  BY <1>1 DEF Marked
<1> QED BY <1>2 DEF new

(* The store describes a room with these members, nicknames and marks.     *)
RoomIs(db, m, n, o, a, b) ==
  /\ MembersOf(db) = m /\ NicksOf(db) = n
  /\ Marked(db, "OPERATOR") = o /\ Marked(db, "AWAY") = a /\ Marked(db, "BANNED") = b

SameRoom(db, new) ==
  RoomIs(new, MembersOf(db), NicksOf(db),
         Marked(db, "OPERATOR"), Marked(db, "AWAY"), Marked(db, "BANNED"))

(* The entry that udata_add() makes is not in the room.                    *)
LEMMA AddSameRoom ==
  ASSUME UdataAssumption, NEW db, GoodRoom(db), NEW user \in Users \cup {NoUser}
  PROVE  SameRoom(db, UdataAdd(db, UdataDefEntry(user, NoString, -1)))
<1> DEFINE new == UdataAdd(db, UdataDefEntry(user, NoString, -1))
<1>1. \A u \in Users : new.ent[u] = db.ent[u]
  BY AddFacts
<1> HIDE DEF new
<1>2. MembersOf(new) = MembersOf(db)
  BY <1>1 DEF MembersOf
<1>3. NicksOf(new) = NicksOf(db)
  BY <1>1 DEF NicksOf
<1>4. \A f : Marked(new, f) = Marked(db, f)
  BY <1>1 DEF Marked
<1>5. SameRoom(db, new)
  BY <1>2, <1>3, <1>4 DEF SameRoom, RoomIs
<1> QED BY <1>5 DEF new

-----------------------------------------------------------------------------
(* What the changes of the store are to the room.                          *)

(* The flags of an entry become fl.                                        *)
LEMMA MarkOfFlags ==
  ASSUME NEW db \in Store, NEW user \in Users, NEW fl \in SUBSET UdataFlags, NEW f
  PROVE  Marked(With(db, user, Flagged(db.ent[user], fl)), f)
           = IF f \in fl THEN Marked(db, f) \cup {user} ELSE Marked(db, f) \ {user}
<1> DEFINE e == Flagged(db.ent[user], fl)
<1>1. e \in Entry /\ e.flags = fl
  BY DEF Flagged, Ent, Store, Entry
<1> HIDE DEF e
<1>2. Marked(With(db, user, e), f)
        = IF f \in fl THEN Marked(db, f) \cup {user} ELSE Marked(db, f) \ {user}
  BY <1>1, MarkOfWith
<1> QED BY <1>2 DEF e

LEMMA MarkTaken ==
  ASSUME NEW db \in Store, NEW user \in Users, NEW fl \in SUBSET UdataFlags, NEW f, f \notin fl
  PROVE  Marked(With(db, user, Flagged(db.ent[user], fl)), f) = Marked(db, f) \ {user}
<1> DEFINE e   == Flagged(db.ent[user], fl)
           new == With(db, user, e)
<1>1. e \in Entry /\ e.flags = fl
  BY DEF Flagged, Ent, Store, Entry
<1> HIDE DEF e
<1>2. /\ new.ent[user].flags = fl
      /\ \A u \in Users : u # user => new.ent[u] = db.ent[u]
  BY <1>1 DEF With, Store
<1> HIDE DEF new
<1>3. Marked(new, f) = Marked(db, f) \ {user}
  BY <1>2 DEF Marked
<1> QED BY <1>3 DEF new, e

(* A flag that is as before marks the same people as before.               *)
LEMMA SameMark ==
  ASSUME NEW db \in Store, NEW user \in Users, NEW fl \in SUBSET UdataFlags, NEW g,
         g \in fl <=> g \in db.ent[user].flags
  PROVE  Marked(With(db, user, Flagged(db.ent[user], fl)), g) = Marked(db, g)
<1> DEFINE M == Marked(With(db, user, Flagged(db.ent[user], fl)), g)
<1>1. M = IF g \in fl THEN Marked(db, g) \cup {user} ELSE Marked(db, g) \ {user}
  BY MarkOfFlags
<1>2. user \in Marked(db, g) <=> g \in db.ent[user].flags
  BY DEF Marked
<1> HIDE DEF M
<1>3. M = Marked(db, g)
  BY <1>1, <1>2
<1> QED BY <1>3 DEF M

(* Somebody in the room stays there under the same nickname as long as     *)
(* PRESENT is among the new flags.                                         *)
LEMMA StaysInRoom ==
  ASSUME NEW db, GoodRoom(db), NEW user \in Users, IsPresent(db.ent[user]),
         NEW fl \in SUBSET UdataFlags, "PRESENT" \in fl
  PROVE  LET new == With(db, user, Flagged(db.ent[user], fl))
         IN  MembersOf(new) = MembersOf(db) /\ NicksOf(new) = NicksOf(db)
<1> DEFINE e   == Flagged(db.ent[user], fl)
           new == With(db, user, e)
<1>1. db \in Store /\ user \in MembersOf(db)
  BY DEF GoodRoom, MembersOf
<1>2. e \in Entry /\ IsPresent(e) /\ e.nick = db.ent[user].nick
  BY <1>1 DEF Flagged, Ent, Store, Entry, IsPresent
<1> HIDE DEF e
<1>3. /\ MembersOf(new) = MembersOf(db) \cup {user}
      /\ NicksOf(new) = [NicksOf(db) EXCEPT ![user] = db.ent[user].nick]
  BY <1>1, <1>2, RoomOfWith
<1>4. NicksOf(db)[user] = db.ent[user].nick /\ NicksOf(db) = [u \in Users |-> NicksOf(db)[u]]
  BY DEF NicksOf
<1>5. [NicksOf(db) EXCEPT ![user] = db.ent[user].nick] = NicksOf(db)
  BY <1>4
<1> QED BY <1>1, <1>3, <1>5 DEF e

(* Operators and marks of somebody in the room change.                     *)
LEMMA SetOperator ==
  ASSUME NEW db, GoodRoom(db), NEW user \in Users, Listed(db, user), IsPresent(db.ent[user])
  PROVE  RoomIs(UdataFlagSet(db, user, {"OPERATOR"}), MembersOf(db), NicksOf(db),
                Marked(db, "OPERATOR") \cup {user}, Marked(db, "AWAY"), Marked(db, "BANNED"))
<1> DEFINE fl  == db.ent[user].flags \cup {"OPERATOR"}
           new == With(db, user, Flagged(db.ent[user], fl))
<1>1. db \in Store
  BY DEF GoodRoom
<1>2. UdataFlagSet(db, user, {"OPERATOR"}) = new
  BY <1>1, FlagSetIs
<1>3. /\ fl \in SUBSET UdataFlags /\ "PRESENT" \in fl /\ "OPERATOR" \in fl
      /\ "AWAY" \in fl <=> "AWAY" \in db.ent[user].flags
      /\ "BANNED" \in fl <=> "BANNED" \in db.ent[user].flags
  BY <1>1 DEF Store, Entry, UdataFlags, IsPresent
<1> HIDE DEF fl
<1>4. MembersOf(new) = MembersOf(db) /\ NicksOf(new) = NicksOf(db)
  BY <1>3, StaysInRoom
<1>5. Marked(new, "OPERATOR") = Marked(db, "OPERATOR") \cup {user}
  BY <1>1, <1>3, MarkOfFlags
<1>6. Marked(new, "AWAY") = Marked(db, "AWAY") /\ Marked(new, "BANNED") = Marked(db, "BANNED")
  BY <1>1, <1>3, SameMark
<1> QED BY <1>2, <1>4, <1>5, <1>6 DEF RoomIs

LEMMA UnsetOperator ==
  ASSUME NEW db, GoodRoom(db), NEW user \in Users, Listed(db, user), IsPresent(db.ent[user])
  PROVE  RoomIs(UdataFlagUnset(db, user, {"OPERATOR"}), MembersOf(db), NicksOf(db),
                Marked(db, "OPERATOR") \ {user}, Marked(db, "AWAY"), Marked(db, "BANNED"))
<1> DEFINE fl  == db.ent[user].flags \ {"OPERATOR"}
           new == With(db, user, Flagged(db.ent[user], fl))
<1>1. db \in Store
  BY DEF GoodRoom
<1>2. UdataFlagUnset(db, user, {"OPERATOR"}) = new
  BY <1>1, FlagUnsetIs
<1>3. /\ fl \in SUBSET UdataFlags /\ "PRESENT" \in fl /\ "OPERATOR" \notin fl
      /\ "AWAY" \in fl <=> "AWAY" \in db.ent[user].flags
      /\ "BANNED" \in fl <=> "BANNED" \in db.ent[user].flags
  BY <1>1 DEF Store, Entry, UdataFlags, IsPresent
<1> HIDE DEF fl
<1>4. MembersOf(new) = MembersOf(db) /\ NicksOf(new) = NicksOf(db)
  BY <1>3, StaysInRoom
<1>5. Marked(new, "OPERATOR") = Marked(db, "OPERATOR") \ {user}
  BY <1>1, <1>3, MarkTaken
<1>6. Marked(new, "AWAY") = Marked(db, "AWAY") /\ Marked(new, "BANNED") = Marked(db, "BANNED")
  BY <1>1, <1>3, SameMark
<1> QED BY <1>2, <1>4, <1>5, <1>6 DEF RoomIs

LEMMA SetAway ==
  ASSUME NEW db, GoodRoom(db), NEW user \in Users, Listed(db, user), IsPresent(db.ent[user])
  PROVE  RoomIs(UdataFlagSet(db, user, {"AWAY"}), MembersOf(db), NicksOf(db),
                Marked(db, "OPERATOR"), Marked(db, "AWAY") \cup {user}, Marked(db, "BANNED"))
<1> DEFINE fl  == db.ent[user].flags \cup {"AWAY"}
           new == With(db, user, Flagged(db.ent[user], fl))
<1>1. db \in Store
  BY DEF GoodRoom
<1>2. UdataFlagSet(db, user, {"AWAY"}) = new
  BY <1>1, FlagSetIs
<1>3. /\ fl \in SUBSET UdataFlags /\ "PRESENT" \in fl /\ "AWAY" \in fl
      /\ "OPERATOR" \in fl <=> "OPERATOR" \in db.ent[user].flags
      /\ "BANNED" \in fl <=> "BANNED" \in db.ent[user].flags
  BY <1>1 DEF Store, Entry, UdataFlags, IsPresent
<1> HIDE DEF fl
<1>4. MembersOf(new) = MembersOf(db) /\ NicksOf(new) = NicksOf(db)
  BY <1>3, StaysInRoom
<1>5. Marked(new, "AWAY") = Marked(db, "AWAY") \cup {user}
  BY <1>1, <1>3, MarkOfFlags
<1>6. Marked(new, "OPERATOR") = Marked(db, "OPERATOR") /\ Marked(new, "BANNED") = Marked(db, "BANNED")
  BY <1>1, <1>3, SameMark
<1> QED BY <1>2, <1>4, <1>5, <1>6 DEF RoomIs

LEMMA UnsetAway ==
  ASSUME NEW db, GoodRoom(db), NEW user \in Users, Listed(db, user), IsPresent(db.ent[user])
  PROVE  RoomIs(UdataFlagUnset(db, user, {"AWAY"}), MembersOf(db), NicksOf(db),
                Marked(db, "OPERATOR"), Marked(db, "AWAY") \ {user}, Marked(db, "BANNED"))
<1> DEFINE fl  == db.ent[user].flags \ {"AWAY"}
           new == With(db, user, Flagged(db.ent[user], fl))
<1>1. db \in Store
  BY DEF GoodRoom
<1>2. UdataFlagUnset(db, user, {"AWAY"}) = new
  BY <1>1, FlagUnsetIs
<1>3. /\ fl \in SUBSET UdataFlags /\ "PRESENT" \in fl /\ "AWAY" \notin fl
      /\ "OPERATOR" \in fl <=> "OPERATOR" \in db.ent[user].flags
      /\ "BANNED" \in fl <=> "BANNED" \in db.ent[user].flags
  BY <1>1 DEF Store, Entry, UdataFlags, IsPresent
<1> HIDE DEF fl
<1>4. MembersOf(new) = MembersOf(db) /\ NicksOf(new) = NicksOf(db)
  BY <1>3, StaysInRoom
<1>5. Marked(new, "AWAY") = Marked(db, "AWAY") \ {user}
  BY <1>1, <1>3, MarkTaken
<1>6. Marked(new, "OPERATOR") = Marked(db, "OPERATOR") /\ Marked(new, "BANNED") = Marked(db, "BANNED")
  BY <1>1, <1>3, SameMark
<1> QED BY <1>2, <1>4, <1>5, <1>6 DEF RoomIs

(* Somebody is gone from the room, with the marks; b are the banned.       *)
Left(db, new, user, b) ==
  RoomIs(new, MembersOf(db) \ {user}, [NicksOf(db) EXCEPT ![user] = NoString],
         Marked(db, "OPERATOR") \ {user}, Marked(db, "AWAY") \ {user}, b)

LEMMA GoneByFlags ==
  ASSUME NEW db \in Store, NEW user \in Users, NEW fl \in SUBSET UdataFlags,
         "PRESENT" \notin fl, "OPERATOR" \notin fl, "AWAY" \notin fl
  PROVE  LET new == With(db, user, Flagged(db.ent[user], fl))
         IN  Left(db, new, user, Marked(new, "BANNED"))
<1> DEFINE e   == Flagged(db.ent[user], fl)
           new == With(db, user, e)
<1>1. e \in Entry /\ ~IsPresent(e)
  BY DEF Flagged, Ent, Store, Entry, IsPresent
<1>2. /\ Marked(new, "OPERATOR") = Marked(db, "OPERATOR") \ {user}
      /\ Marked(new, "AWAY") = Marked(db, "AWAY") \ {user}
  BY MarkTaken
<1> HIDE DEF e
<1>3. /\ MembersOf(new) = MembersOf(db) \ {user}
      /\ NicksOf(new) = [NicksOf(db) EXCEPT ![user] = NoString]
  BY <1>1, RoomOfWith
<1> QED BY <1>2, <1>3 DEF Left, RoomIs, e

LEMMA LeaveToRoom ==
  ASSUME NEW db \in Store, NEW user \in Users, Listed(db, user)
  PROVE  Left(db, LeaveRoom(db, user), user, Marked(db, "BANNED"))
<1> DEFINE fl  == db.ent[user].flags \ InRoomFlags
           new == With(db, user, Flagged(db.ent[user], fl))
<1>1. LeaveRoom(db, user) = new
  BY LeaveRoomIs
<1>2. /\ fl \in SUBSET UdataFlags
      /\ "PRESENT" \notin fl /\ "OPERATOR" \notin fl /\ "AWAY" \notin fl
      /\ "BANNED" \in fl <=> "BANNED" \in db.ent[user].flags
  BY DEF Store, Entry, InRoomFlags
<1> HIDE DEF fl
<1>3. Left(db, new, user, Marked(new, "BANNED"))
  BY <1>2, GoneByFlags
<1>4. Marked(new, "BANNED") = Marked(db, "BANNED")
  BY <1>2, SameMark
<1> QED BY <1>1, <1>3, <1>4

LEMMA BanToRoom ==
  ASSUME NEW db \in Store, NEW user \in Users, Listed(db, user)
  PROVE  Left(db, LeaveRoom(UdataFlagSet(db, user, {"BANNED"}), user), user,
              Marked(db, "BANNED") \cup {user})
<1> DEFINE fl  == (db.ent[user].flags \cup {"BANNED"}) \ InRoomFlags
           new == With(db, user, Flagged(db.ent[user], fl))
<1>1. LeaveRoom(UdataFlagSet(db, user, {"BANNED"}), user) = new
  BY BanIs
<1>2. /\ fl \in SUBSET UdataFlags
      /\ "PRESENT" \notin fl /\ "OPERATOR" \notin fl /\ "AWAY" \notin fl /\ "BANNED" \in fl
  <2>1. db.ent[user].flags \in SUBSET UdataFlags
    BY DEF Store, Entry
  <2> QED BY <2>1 DEF UdataFlags, InRoomFlags
<1> HIDE DEF fl
<1>3. Left(db, new, user, Marked(new, "BANNED"))
  BY <1>2, GoneByFlags
<1>4. Marked(new, "BANNED") = Marked(db, "BANNED") \cup {user}
  <2>1. \A g : Marked(new, g) = IF g \in fl THEN Marked(db, g) \cup {user}
                                ELSE Marked(db, g) \ {user}
    BY <1>2, MarkOfFlags
  <2> QED BY <1>2, <2>1
<1> QED BY <1>1, <1>3, <1>4

(* Somebody who was not in the room enters it.                             *)
LEMMA JoinToRoom ==
  ASSUME NEW db, GoodRoom(db), NEW user \in Users, ~IsPresent(db.ent[user]),
         "BANNED" \notin db.ent[user].flags, NEW n \in Strings, NEW fd \in Nat
  PROVE  RoomIs(With(db, user, Ent(db.ent[user], n, fd, {"PRESENT"})),
                MembersOf(db) \cup {user}, [NicksOf(db) EXCEPT ![user] = n],
                Marked(db, "OPERATOR"), Marked(db, "AWAY"), Marked(db, "BANNED"))
<1> DEFINE e   == Ent(db.ent[user], n, fd, {"PRESENT"})
           new == With(db, user, e)
<1>1. db \in Store
  BY DEF GoodRoom
<1>2. e \in Entry /\ e.flags = {"PRESENT"} /\ e.nick = n
  BY <1>1 DEF Ent, Store, Entry, UdataFlags
<1>3. user \notin Marked(db, "OPERATOR") /\ user \notin Marked(db, "AWAY")
      /\ user \notin Marked(db, "BANNED")
  BY DEF GoodRoom, Marked
<1> HIDE DEF e
<1>4. IsPresent(e)
  BY <1>2 DEF IsPresent
<1>5. /\ MembersOf(new) = MembersOf(db) \cup {user}
      /\ NicksOf(new) = [NicksOf(db) EXCEPT ![user] = n]
  BY <1>1, <1>2, <1>4, RoomOfWith
<1>6. /\ Marked(new, "OPERATOR") = Marked(db, "OPERATOR") \ {user}
      /\ Marked(new, "AWAY") = Marked(db, "AWAY") \ {user}
      /\ Marked(new, "BANNED") = Marked(db, "BANNED") \ {user}
  BY <1>1, <1>2, MarkOfWith
<1> QED BY <1>3, <1>5, <1>6 DEF RoomIs, e

LEMMA RenameToRoom ==
  ASSUME NEW db, GoodRoom(db), NEW user \in Users, IsPresent(db.ent[user]), NEW n \in Strings
  PROVE  RoomIs(With(db, user, Ent(db.ent[user], n, db.ent[user].fd, db.ent[user].flags)),
                MembersOf(db), [NicksOf(db) EXCEPT ![user] = n],
                Marked(db, "OPERATOR"), Marked(db, "AWAY"), Marked(db, "BANNED"))
<1> DEFINE e   == Ent(db.ent[user], n, db.ent[user].fd, db.ent[user].flags)
           new == With(db, user, e)
<1>1. db \in Store
  BY DEF GoodRoom
<1>2. e \in Entry /\ e.flags = db.ent[user].flags /\ e.nick = n
  BY <1>1 DEF Ent, Store, Entry
<1> HIDE DEF e
<1>3. IsPresent(e) /\ user \in MembersOf(db)
  BY <1>2 DEF IsPresent, MembersOf
<1>4. /\ MembersOf(new) = MembersOf(db) \cup {user}
      /\ NicksOf(new) = [NicksOf(db) EXCEPT ![user] = n]
  BY <1>1, <1>2, <1>3, RoomOfWith
<1>5. ASSUME NEW f PROVE Marked(new, f) = Marked(db, f)
  <2>1. Marked(new, f) = IF f \in e.flags THEN Marked(db, f) \cup {user} ELSE Marked(db, f) \ {user}
    BY <1>1, <1>2, MarkOfWith
  <2>2. user \in Marked(db, f) <=> f \in e.flags
    BY <1>2 DEF Marked
  <2> QED BY <2>1, <2>2
<1> QED BY <1>3, <1>4, <1>5 DEF RoomIs, e

-----------------------------------------------------------------------------
(* The changes of the room are events of ChatRoom.                         *)

Stays == SameRoom(udata, udata')

LEMMA StaysWhenStoreStays ==
  ASSUME udata' = udata
  PROVE  Stays
BY DEF Stays, SameRoom, RoomIs

LEMMA MemberFacts ==
  ASSUME NEW u \in Users
  PROVE  /\ u \in MembersOf(udata) <=> IsPresent(udata.ent[u])
         /\ \A f : u \in Marked(udata, f) <=> f \in udata.ent[u].flags
         /\ u \in MembersOf(udata) => NicksOf(udata)[u] = udata.ent[u].nick
BY DEF MembersOf, Marked, NicksOf

LEMMA NotTaken ==
  ASSUME NEW n, \A v \in Users : IsPresent(udata.ent[v]) => udata.ent[v].nick # n
  PROVE  ~Room!Taken(n)
BY DEF Room!Taken, MembersOf, NicksOf

LEMMA EnterEvent ==
  ASSUME NEW u \in Users, NEW n \in Strings,
         ~IsPresent(udata.ent[u]), "BANNED" \notin udata.ent[u].flags, ~Room!Taken(n),
         RoomIs(udata', MembersOf(udata) \cup {u}, [NicksOf(udata) EXCEPT ![u] = n],
                Marked(udata, "OPERATOR"), Marked(udata, "AWAY"), Marked(udata, "BANNED"))
  PROVE  Room!RoomNext
<1>1. Room!Enter(u, n)
  BY MemberFacts DEF Room!Enter, RoomIs
<1> QED BY <1>1 DEF Room!RoomNext

LEMMA RenameEvent ==
  ASSUME NEW u \in Users, NEW n \in Strings, IsPresent(udata.ent[u]), ~Room!Taken(n),
         RoomIs(udata', MembersOf(udata), [NicksOf(udata) EXCEPT ![u] = n],
                Marked(udata, "OPERATOR"), Marked(udata, "AWAY"), Marked(udata, "BANNED"))
  PROVE  Room!RoomNext
<1>1. Room!Rename(u, n)
  BY MemberFacts DEF Room!Rename, RoomIs
<1> QED BY <1>1 DEF Room!RoomNext

LEMMA LeaveEvent ==
  ASSUME NEW u \in Users, IsPresent(udata.ent[u]),
         Left(udata, udata', u, Marked(udata, "BANNED"))
  PROVE  Room!RoomNext
<1>1. Room!Leave(u)
  BY MemberFacts DEF Room!Leave, Room!Gone, Left, RoomIs
<1> QED BY <1>1 DEF Room!RoomNext

LEMMA AwayEvent ==
  ASSUME NEW u \in Users, IsPresent(udata.ent[u]),
         RoomIs(udata', MembersOf(udata), NicksOf(udata), Marked(udata, "OPERATOR"),
                IF "AWAY" \in udata.ent[u].flags THEN Marked(udata, "AWAY") \ {u}
                ELSE Marked(udata, "AWAY") \cup {u},
                Marked(udata, "BANNED"))
  PROVE  Room!RoomNext
<1>1. Room!ToggleAway(u)
  BY MemberFacts DEF Room!ToggleAway, RoomIs
<1> QED BY <1>1 DEF Room!RoomNext

LEMMA OperEvent ==
  ASSUME NEW u \in Users, IsPresent(udata.ent[u]),
         RoomIs(udata', MembersOf(udata), NicksOf(udata), Marked(udata, "OPERATOR") \cup {u},
                Marked(udata, "AWAY"), Marked(udata, "BANNED"))
  PROVE  Room!RoomNext
<1>1. Room!BecomeOperator(u)
  BY MemberFacts DEF Room!BecomeOperator, RoomIs
<1> QED BY <1>1 DEF Room!RoomNext

LEMMA DeopEvent ==
  ASSUME NEW by \in Users, NEW u \in Users, IsPresent(udata.ent[u]),
         "OPERATOR" \in udata.ent[by].flags,
         RoomIs(udata', MembersOf(udata), NicksOf(udata), Marked(udata, "OPERATOR") \ {u},
                Marked(udata, "AWAY"), Marked(udata, "BANNED"))
  PROVE  Room!RoomNext
<1>1. Room!TakeRights(by, u)
  BY MemberFacts DEF Room!TakeRights, RoomIs
<1> QED BY <1>1 DEF Room!RoomNext

LEMMA ExpelEvent ==
  ASSUME NEW by \in Users, NEW u \in Users, IsPresent(udata.ent[u]),
         "OPERATOR" \in udata.ent[by].flags,
         \/ Left(udata, udata', u, Marked(udata, "BANNED"))
         \/ Left(udata, udata', u, Marked(udata, "BANNED") \cup {u})
  PROVE  Room!RoomNext
<1>1. CASE Left(udata, udata', u, Marked(udata, "BANNED"))
  <2>1. Room!Kick(by, u)
    BY <1>1, MemberFacts DEF Room!Kick, Room!Gone, Left, RoomIs
  <2> QED BY <2>1 DEF Room!RoomNext
<1>2. CASE Left(udata, udata', u, Marked(udata, "BANNED") \cup {u})
  <2>1. Room!Ban(by, u)
    BY <1>2, MemberFacts DEF Room!Ban, Room!Gone, Left, RoomIs
  <2> QED BY <2>1 DEF Room!RoomNext
<1> QED BY <1>1, <1>2

-----------------------------------------------------------------------------
(* The handlers.                                                           *)

LEMMA RecvEofEvent ==
  ASSUME UdataAssumption, GoodRoom(udata), NEW i \in Slots, RecvEof(i)
  PROVE  Room!RoomNext \/ Stays
<1>1. CASE Speaker(i) = NoUser
  BY <1>1, StaysWhenStoreStays DEF RecvEof
<1>2. CASE Speaker(i) # NoUser
  <2> DEFINE u == Speaker(i)
  <2>1. u \in Users /\ Listed(udata, u) /\ IsPresent(udata.ent[u]) /\ udata \in Store
    BY <1>2, SpeakerPresent DEF GoodRoom
  <2>2. udata' = LeaveRoom(udata, u)
    BY <1>2 DEF RecvEof
  <2> HIDE DEF u
  <2> QED BY <2>1, <2>2, LeaveToRoom, LeaveEvent
<1> QED BY <1>1, <1>2

LEMMA DoorNakEvent ==
  ASSUME UdataAssumption, ServerAssumption, KernelOK, GoodRoom(udata),
         NEW i \in Slots, NEW k \in RecvSizes, DoorNak(i, k)
  PROVE  Stays
<1>1. Request(i, k).user \in Users \cup {NoUser}
  BY RequestTyped DEF DoorNak
<1>2. udata' = UdataAdd(udata, UdataDefEntry(Request(i, k).user, NoString, -1))
  BY DEF DoorNak, DoorStore
<1> QED BY <1>1, <1>2, AddSameRoom DEF Stays

LEMMA DoorLeaveEvent ==
  ASSUME UdataAssumption, ServerAssumption, KernelOK, RoomAndOut,
         NEW i \in Slots, NEW k \in RecvSizes, DoorLeave(i, k)
  PROVE  Room!RoomNext
<1> DEFINE u == DoorUser(i, k)
<1>1. u \in Users /\ Listed(udata, u) /\ IsPresent(udata.ent[u]) /\ udata \in Store
  BY DoorLeaveRoom DEF RoomAndOut, GoodRoom
<1>2. udata' = LeaveRoom(udata, u)
  BY DEF DoorLeave
<1> HIDE DEF u
<1> QED BY <1>1, <1>2, LeaveToRoom, LeaveEvent

LEMMA DoorJoinEvent ==
  ASSUME UdataAssumption, ServerAssumption, KernelOK, GoodRoom(udata),
         NEW i \in Slots, NEW k \in RecvSizes, DoorJoin(i, k)
  PROVE  Room!RoomNext
<1> DEFINE u  == DoorUser(i, k)
           db == DoorStore(i, k)
           n  == Request(i, k).arg
           fd == clients[i].fd
<1>1. GoodRoom(db) /\ u \in Users /\ Listed(db, u) /\ ~NickInUse(db, n)
      /\ "BANNED" \notin db.ent[u].flags /\ ~IsPresent(db.ent[u])
  BY DoorFacts, NotRefused DEF DoorJoin, DoorFlags, IsPresent
<1>2. fd \in Nat /\ n \in Strings /\ n # NoString
  <2>1. n \in Strings \cup {NoString} /\ fd \in Nat
    BY RequestTyped DEF DoorJoin
  <2> QED BY <2>1 DEF DoorJoin, Leaving
<1>3. udata' = Joined(db, u, n, fd)
  BY DEF DoorJoin
<1>4. SameRoom(udata, db) /\ \A v \in Users : db.ent[v] = udata.ent[v]
  <2>1. Request(i, k).user \in Users \cup {NoUser}
    BY RequestTyped DEF DoorJoin
  <2> QED BY <2>1, AddSameRoom, AddFacts DEF DoorStore
<1> HIDE DEF u, db, n, fd
<1>5. udata' = With(db, u, Ent(db.ent[u], n, fd, {"PRESENT"}))
  BY <1>1, <1>2, <1>3, JoinedIs DEF GoodRoom
<1>6. RoomIs(udata', MembersOf(db) \cup {u}, [NicksOf(db) EXCEPT ![u] = n],
             Marked(db, "OPERATOR"), Marked(db, "AWAY"), Marked(db, "BANNED"))
  BY <1>1, <1>2, <1>5, JoinToRoom
<1>7. RoomIs(udata', MembersOf(udata) \cup {u}, [NicksOf(udata) EXCEPT ![u] = n],
             Marked(udata, "OPERATOR"), Marked(udata, "AWAY"), Marked(udata, "BANNED"))
  BY <1>4, <1>6 DEF SameRoom, RoomIs
<1>8. ~Room!Taken(n)
  BY <1>1, <1>4, FreeNick, NotTaken
<1> QED BY <1>1, <1>2, <1>4, <1>7, <1>8, EnterEvent

LEMMA NickEvent ==
  ASSUME UdataAssumption, ServerAssumption, KernelOK, GoodRoom(udata),
         NEW i \in Slots, NEW k \in RecvSizes, Nick(i, k)
  PROVE  Room!RoomNext
<1> DEFINE u == Speaker(i)
           n == Request(i, k).arg
<1>1. udata \in Store /\ ~NickInUse(udata, n)
      /\ udata' = UdataUpdate(udata, UdataDefEntry(u, n, -1))
  BY DEF Nick, GoodRoom
<1>2. u \in Users /\ Listed(udata, u) /\ IsPresent(udata.ent[u])
  BY SpeakerPresent DEF Nick, Chats
<1>3. n \in Strings /\ n # NoString
  BY RequestTyped DEF Nick, Chats
<1> HIDE DEF u, n
<1>4. udata' = With(udata, u, Ent(udata.ent[u], n, udata.ent[u].fd, udata.ent[u].flags))
  BY <1>1, <1>2, <1>3, RenameIs
<1>5. ~Room!Taken(n)
  BY <1>1, FreeNick, NotTaken
<1> QED BY <1>2, <1>3, <1>4, <1>5, RenameToRoom, RenameEvent

LEMMA AwayHandlerEvent ==
  ASSUME UdataAssumption, GoodRoom(udata), NEW i \in Slots, NEW k \in RecvSizes, Away(i, k)
  PROVE  Room!RoomNext
<1> DEFINE u == Speaker(i)
<1>1. u \in Users /\ Listed(udata, u) /\ IsPresent(udata.ent[u])
  BY SpeakerPresent DEF Away, Chats
<1>2. \/ "AWAY" \in udata.ent[u].flags /\ udata' = UdataFlagUnset(udata, u, {"AWAY"})
      \/ "AWAY" \notin udata.ent[u].flags /\ udata' = UdataFlagSet(udata, u, {"AWAY"})
  BY DEF Away, HasFlag
<1> HIDE DEF u
<1>3. CASE "AWAY" \in udata.ent[u].flags /\ udata' = UdataFlagUnset(udata, u, {"AWAY"})
  BY <1>1, <1>3, UnsetAway, AwayEvent
<1>4. CASE "AWAY" \notin udata.ent[u].flags /\ udata' = UdataFlagSet(udata, u, {"AWAY"})
  BY <1>1, <1>4, SetAway, AwayEvent
<1> QED BY <1>2, <1>3, <1>4

LEMMA OperHandlerEvent ==
  ASSUME UdataAssumption, GoodRoom(udata), NEW i \in Slots, NEW k \in RecvSizes, Oper(i, k)
  PROVE  Room!RoomNext \/ Stays
<1> DEFINE u == Speaker(i)
<1>1. u \in Users /\ Listed(udata, u) /\ IsPresent(udata.ent[u])
  BY SpeakerPresent DEF Oper, Chats
<1>2. udata' = udata \/ udata' = UdataFlagSet(udata, u, {"OPERATOR"})
  BY DEF Oper
<1> HIDE DEF u
<1>3. CASE udata' = udata
  BY <1>3, StaysWhenStoreStays
<1>4. CASE udata' = UdataFlagSet(udata, u, {"OPERATOR"})
  BY <1>1, <1>4, SetOperator, OperEvent
<1> QED BY <1>2, <1>3, <1>4

LEMMA ModerateEvent ==
  ASSUME UdataAssumption, ServerAssumption, KernelOK, GoodRoom(udata),
         NEW i \in Slots, NEW k \in RecvSizes, Moderate(i, k)
  PROVE  Room!RoomNext \/ Stays
<1> DEFINE t  == Target(i, k)
           by == Speaker(i)
<1>1. t \in Users /\ Listed(udata, t) /\ IsPresent(udata.ent[t])
  BY TargetPresent DEF Moderate
<1>2. by \in Users /\ "OPERATOR" \in udata.ent[by].flags
  BY SpeakerPresent DEF Moderate, Chats, MayModerate, HasFlag
<1>3. Request(i, k).op \in {"C_OP", "C_DEOP", "C_UNBAN"}
  BY RequestTyped DEF Moderate, Chats
<1>4. CASE Request(i, k).op = "C_OP"
  <2>1. udata' = UdataFlagSet(udata, t, {"OPERATOR"})
    BY <1>4 DEF Moderate
  <2> HIDE DEF t
  <2> QED BY <1>1, <2>1, SetOperator, OperEvent
<1>5. CASE Request(i, k).op = "C_DEOP"
  <2>1. udata' = UdataFlagUnset(udata, t, {"OPERATOR"})
    BY <1>5 DEF Moderate
  <2> HIDE DEF t, by
  <2> QED BY <1>1, <1>2, <2>1, UnsetOperator, DeopEvent
<1>6. CASE Request(i, k).op = "C_UNBAN"
  <2>1. udata' = udata
    BY <1>1, <1>6, UnbanIsVain DEF Moderate
  <2> QED BY <2>1, StaysWhenStoreStays
<1> QED BY <1>3, <1>4, <1>5, <1>6

LEMMA ExpelHandlerEvent ==
  ASSUME UdataAssumption, ServerAssumption, KernelOK, GoodRoom(udata),
         NEW i \in Slots, NEW k \in RecvSizes, Expel(i, k)
  PROVE  Room!RoomNext
<1> DEFINE t  == Target(i, k)
           by == Speaker(i)
<1>1. t \in Users /\ Listed(udata, t) /\ IsPresent(udata.ent[t]) /\ udata \in Store
  BY TargetPresent DEF Expel, GoodRoom
<1>2. by \in Users /\ "OPERATOR" \in udata.ent[by].flags
  BY SpeakerPresent DEF Expel, Chats, MayModerate, HasFlag
<1>3. \/ udata' = LeaveRoom(udata, t)
      \/ udata' = LeaveRoom(UdataFlagSet(udata, t, {"BANNED"}), t)
  BY DEF Expel
<1> HIDE DEF t, by
<1>4. \/ Left(udata, udata', t, Marked(udata, "BANNED"))
      \/ Left(udata, udata', t, Marked(udata, "BANNED") \cup {t})
  BY <1>1, <1>3, LeaveToRoom, BanToRoom
<1> QED BY <1>1, <1>2, <1>4, ExpelEvent

-----------------------------------------------------------------------------
(* The refinement.                                                         *)

LEMMA HandleCmdEvent ==
  ASSUME UdataAssumption, ServerAssumption, KernelOK, RoomAndOut,
         NEW i \in Slots, NEW k \in RecvSizes, HandleCmd(i, k)
  PROVE  Room!RoomNext \/ Stays
<1>1. GoodRoom(udata)
  BY DEF RoomAndOut
<1>2. CASE DoorNak(i, k) \/ DoorLeave(i, k) \/ DoorJoin(i, k)
  BY <1>1, <1>2, DoorNakEvent, DoorLeaveEvent, DoorJoinEvent
<1>3. CASE Nick(i, k) \/ Away(i, k) \/ Oper(i, k)
  BY <1>1, <1>3, NickEvent, AwayHandlerEvent, OperHandlerEvent
<1>4. CASE Moderate(i, k) \/ Expel(i, k)
  BY <1>1, <1>4, ModerateEvent, ExpelHandlerEvent
<1>5. CASE \/ Ignored(i, k) \/ NickReply(i, k) \/ Beep(i, k) \/ Psay(i, k)
           \/ Say(i, k) \/ Who(i, k) \/ ModerateReply(i, k)
  <2>1. udata' = udata
    BY <1>5 DEF Ignored, NickReply, Beep, Psay, Say, Who, ModerateReply
  <2> QED BY <2>1, StaysWhenStoreStays
<1> QED BY <1>2, <1>3, <1>4, <1>5 DEF HandleCmd

LEMMA StepIsEvent ==
  ASSUME UdataAssumption, ServerAssumption, KernelOK, RoomAndOut, [Next]_vars
  PROVE  Room!RoomNext \/ Stays
<1>1. CASE Select \/ Accept \/ AcceptRefuse \/ AcceptFails
  <2>1. udata' = udata
    BY <1>1 DEF Select, Accept, AcceptRefuse, AcceptFails
  <2> QED BY <2>1, StaysWhenStoreStays
<1>2. ASSUME NEW i \in Slots, RecvError(i) PROVE Stays
  BY <1>2, StaysWhenStoreStays DEF RecvError
<1>3. ASSUME NEW i \in Slots, RecvEof(i) PROVE Room!RoomNext \/ Stays
  BY <1>3, RecvEofEvent DEF RoomAndOut
<1>4. ASSUME NEW i \in Slots, NEW k \in RecvSizes, RecvIncomplete(i, k) PROVE Stays
  BY <1>4, StaysWhenStoreStays DEF RecvIncomplete
<1>5. ASSUME NEW i \in Slots, NEW k \in RecvSizes, HandleCmd(i, k)
      PROVE  Room!RoomNext \/ Stays
  BY <1>5, HandleCmdEvent
<1>6. CASE Peer
  <2>1. udata' = udata
    BY <1>6 DEF Peer, PeerConnect, PeerClose, PeerReset, PeerSend, serverVars
  <2> QED BY <2>1, StaysWhenStoreStays
<1>7. CASE UNCHANGED vars
  BY <1>7, StaysWhenStoreStays DEF vars
<1> QED BY <1>1, <1>2, <1>3, <1>4, <1>5, <1>6, <1>7 DEF Next, Server

LEMMA EmptyRoom ==
  ASSUME Init
  PROVE  Room!RoomInit
BY DEF Init, Room!RoomInit, EmptyStore, BlankEntry, MembersOf, NicksOf, Marked, IsPresent

(* The server implements the room, whatever the constants: every step of   *)
(* it is one event of ChatRoom or none (server.c:335-441,                  *)
(* servchat.c:163-451).                                                    *)
THEOREM ServerIsARoom == Spec => ImplementsRoom
<1> USE UdataAssumption, ServerAssumption
<1>1. Init => Room!RoomInit
  BY EmptyRoom
<1>2. IInv /\ [Next]_vars => [Room!RoomNext]_(Room!roomVars)
  <2>1. ASSUME IInv, [Next]_vars PROVE Room!RoomNext \/ Stays
    BY <2>1, IInvParts, StepIsEvent DEF RoomAndOut, Outbox
  <2>2. Stays => UNCHANGED Room!roomVars
    BY DEF Stays, SameRoom, RoomIs, Room!roomVars
  <2> QED BY <2>1, <2>2
<1> QED BY <1>1, <1>2, ServerInvariant, PTL DEF Spec, ImplementsRoom, Room!RoomSpec

(* Whoever is banned stays banned and out of the room, whatever the        *)
(* constants (server.c:396).                                               *)
THEOREM BansLast == Spec => BanIsFinal
<1> USE UdataAssumption, ServerAssumption
<1>1. IInv /\ IInv' /\ [Next]_vars =>
        [\A u \in Users : HasFlag(u, "BANNED") => HasFlag(u, "BANNED")' /\ ~Present(u)']_vars
  <2> SUFFICES ASSUME IInv, IInv', [Next]_vars, NEW u \in Users, HasFlag(u, "BANNED")
               PROVE  HasFlag(u, "BANNED")' /\ ~Present(u)'
    OBVIOUS
  <2>1. Room!RoomNext \/ Stays
    BY IInvParts, StepIsEvent DEF RoomAndOut, Outbox
  <2>2. Marked(udata, "BANNED") \subseteq Marked(udata', "BANNED")
    BY <2>1 DEF Stays, SameRoom, RoomIs, Room!RoomNext, Room!Enter, Room!Rename, Room!Leave,
       Room!ToggleAway, Room!BecomeOperator, Room!GiveRights, Room!TakeRights, Room!Kick,
       Room!Ban
  <2>3. HasFlag(u, "BANNED")'
    BY <2>2 DEF HasFlag, Marked
  <2>4. ~Present(u)'
    BY <2>3 DEF IInv, GoodRoom, Present, HasFlag, IsPresent
  <2> QED BY <2>3, <2>4
<1> QED BY <1>1, ServerInvariant, PTL DEF Spec, BanIsFinal
=============================================================================
