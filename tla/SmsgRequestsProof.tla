------------------------- MODULE SmsgRequestsProof -------------------------
(***************************************************************************)
(* Theorems about SmsgRequests for every value of its constants.           *)
(***************************************************************************)
EXTENDS SmsgRequestsProps, TLAPS

-----------------------------------------------------------------------------
(* The store: what each change does to preferences.                        *)

GoodStore(db) ==
  db \in Store /\ \A u \in Users : Listed(db, u) \/ db.ent[u] = BlankEntry

(* db and new hold the same preference for every user.                     *)
SamePrefs(db, new) ==
  \A u \in Users : PreferenceOf(new.ent[u]) = PreferenceOf(db.ent[u])

LEMMA BlankIsEntry ==
  ASSUME UdataAssumption
  PROVE  BlankEntry \in Entry
BY DEF UdataAssumption, BlankEntry, Entry, UDATA_DEF

LEMMA EmptyStoreGood ==
  ASSUME UdataAssumption
  PROVE  GoodStore(EmptyStore)
BY BlankIsEntry DEF GoodStore, EmptyStore, Store

(* A store with a new entry at the end.                                    *)
LEMMA AppendGood ==
  ASSUME NEW db, GoodStore(db), NEW user \in Users, NEW e \in Entry
  PROVE  LET new == [list |-> Append(db.list, user),
                     ent  |-> [db.ent EXCEPT ![user] = e]]
         IN  /\ GoodStore(new)
             /\ new.ent[user] = e
             /\ \A u \in Users : u # user => new.ent[u] = db.ent[u]
             /\ Listed(new, user)
<1> DEFINE new == [list |-> Append(db.list, user),
                   ent  |-> [db.ent EXCEPT ![user] = e]]
<1>1. db.list \in Seq(Users) /\ db.ent \in [Users -> Entry]
  BY DEF GoodStore, Store
<1>2. Append(db.list, user) \in Seq(Users) /\ [db.ent EXCEPT ![user] = e] \in [Users -> Entry]
  BY <1>1
<1>3. new \in Store
  BY <1>2 DEF Store
<1>4. /\ new.ent[user] = e
      /\ \A u \in Users : u # user => new.ent[u] = db.ent[u]
  BY <1>1
<1>5. Listed(new, user) /\ \A u : Listed(db, u) => Listed(new, u)
  BY <1>1 DEF Listed
<1> HIDE DEF new
<1>6. GoodStore(new)
  BY <1>3, <1>4, <1>5 DEF GoodStore
<1> QED BY <1>4, <1>5, <1>6 DEF new

(* A store with the entry of a listed user replaced.                       *)
LEMMA ReplaceGood ==
  ASSUME NEW db, GoodStore(db), NEW user \in Users, NEW e \in Entry, Listed(db, user)
  PROVE  LET new == [db EXCEPT !.ent[user] = e]
         IN  /\ GoodStore(new)
             /\ new.ent[user] = e
             /\ \A u \in Users : u # user => new.ent[u] = db.ent[u]
             /\ \A u : Listed(new, u) <=> Listed(db, u)
<1> DEFINE new == [db EXCEPT !.ent[user] = e]
<1>1. db \in Store
  BY DEF GoodStore
<1>2. new \in Store /\ new.ent[user] = e
      /\ (\A u \in Users : u # user => new.ent[u] = db.ent[u])
      /\ (\A u : Listed(new, u) <=> Listed(db, u))
  BY <1>1 DEF Store, Listed
<1> HIDE DEF new
<1>3. GoodStore(new)
  BY <1>2 DEF GoodStore
<1> QED BY <1>2, <1>3 DEF new

(* What udata_update() is told.                                            *)
IsUpdate(e) ==
  /\ e.tty \in Ttys \cup {NoTty}
  /\ e.beep \in Int /\ e.mode \in Int /\ e.fd \in Int
  /\ e.nick \in Strings \cup {NoString}
  /\ e.flags = {}

LEMMA UpdatedIsEntry ==
  ASSUME NEW old \in Entry, NEW e, IsUpdate(e)
  PROVE  Updated(old, e) \in Entry
BY DEF Updated, Entry, IsUpdate

(* udata_update() merges a preference into the one that was there, the     *)
(* default one if there was no entry.                                      *)
LEMMA UpdateMerges ==
  ASSUME UdataAssumption, NEW db, GoodStore(db), NEW e, IsUpdate(e), e.user \in Users
  PROVE  LET new == UdataUpdate(db, e)
         IN  /\ GoodStore(new)
             /\ \A u \in Users : u # e.user => new.ent[u] = db.ent[u]
             /\ PreferenceOf(new.ent[e.user])
                  = Promise!Merged(PreferenceOf(db.ent[e.user]), e.tty, e.beep, e.mode)
             /\ Listed(db, e.user) => Listed(new, e.user)
<1> DEFINE new == UdataUpdate(db, e)
           u == e.user
<1>1. db \in Store /\ db.ent[u] \in Entry
  BY DEF GoodStore, Store
<1>2. CASE Listed(db, u)
  <2>1. new = [db EXCEPT !.ent[u] = Updated(db.ent[u], e)]
    BY <1>2 DEF UdataUpdate
  <2>2. Updated(db.ent[u], e) \in Entry
    BY <1>1, UpdatedIsEntry
  <2> HIDE DEF new
  <2>3. /\ GoodStore(new) /\ new.ent[u] = Updated(db.ent[u], e)
        /\ \A v \in Users : v # u => new.ent[v] = db.ent[v]
        /\ Listed(new, u)
    BY <1>2, <2>1, <2>2, ReplaceGood
  <2>4. PreferenceOf(Updated(db.ent[u], e))
          = Promise!Merged(PreferenceOf(db.ent[u]), e.tty, e.beep, e.mode)
    BY DEF PreferenceOf, Updated, Promise!Merged, Promise!Leave, UDATA_LEAVE
  <2> QED BY <2>3, <2>4 DEF new
<1>3. CASE ~Listed(db, u) /\ NothingSet(e)
  <2>1. new = db /\ db.ent[u] = BlankEntry
    BY <1>3 DEF UdataUpdate, GoodStore
  <2>2. PreferenceOf(BlankEntry)
          = Promise!Merged(PreferenceOf(BlankEntry), e.tty, e.beep, e.mode)
    BY <1>3, UdataAssumption
       DEF NothingSet, PreferenceOf, BlankEntry, Promise!Merged, Promise!Leave,
           UDATA_LEAVE, UDATA_DEF
  <2> QED BY <1>3, <2>1, <2>2
<1>4. CASE ~Listed(db, u) /\ ~NothingSet(e)
  <2> DEFINE ne == [tty   |-> IF e.tty = NoTty THEN TTYSET_UNSET ELSE e.tty,
                    beep  |-> IF e.beep = UDATA_LEAVE THEN UDATA_DEF ELSE e.beep,
                    mode  |-> IF e.mode = UDATA_LEAVE THEN UDATA_DEF ELSE e.mode,
                    fd    |-> IF e.fd < 0 THEN -1 ELSE e.fd,
                    nick  |-> e.nick,
                    flags |-> {}]
  <2>1. u # NoUser
    BY DEF UdataAssumption
  <2>2. new = [list |-> Append(db.list, u), ent |-> [db.ent EXCEPT ![u] = ne]]
    BY <1>4, <2>1 DEF UdataUpdate, UdataAdd
  <2>3. ne \in Entry
    BY UdataAssumption DEF IsUpdate, Entry, UDATA_DEF, UdataAssumption
  <2>4. PreferenceOf(ne)
          = Promise!Merged(PreferenceOf(BlankEntry), e.tty, e.beep, e.mode)
    BY DEF PreferenceOf, BlankEntry, Promise!Merged, Promise!Leave, UDATA_LEAVE, UDATA_DEF
  <2>5. db.ent[u] = BlankEntry
    BY <1>4 DEF GoodStore
  <2> HIDE DEF ne, new
  <2>6. /\ GoodStore(new) /\ new.ent[u] = ne
        /\ \A v \in Users : v # u => new.ent[v] = db.ent[v]
        /\ Listed(new, u)
    BY <2>2, <2>3, AppendGood
  <2> QED BY <2>4, <2>5, <2>6 DEF new
<1> QED BY <1>2, <1>3, <1>4

(* udata_flagset() and udata_flagunset() change no preference.             *)
LEMMA FlagSetPrefs ==
  ASSUME NEW db, GoodStore(db), NEW user \in Users, NEW f \in SUBSET UdataFlags
  PROVE  /\ GoodStore(UdataFlagSet(db, user, f))
         /\ SamePrefs(db, UdataFlagSet(db, user, f))
<1> DEFINE e == [db.ent[user] EXCEPT !.flags = @ \cup f]
           new == UdataFlagSet(db, user, f)
<1>1. CASE Listed(db, user)
  <2>1. db.ent[user] \in Entry /\ db \in Store
    BY DEF GoodStore, Store
  <2>2. e \in Entry /\ PreferenceOf(e) = PreferenceOf(db.ent[user])
    BY <2>1 DEF Entry, PreferenceOf
  <2>3. new = [db EXCEPT !.ent[user] = e]
    BY <1>1, <2>1 DEF UdataFlagSet, Store
  <2> HIDE DEF e, new
  <2>4. /\ GoodStore(new) /\ new.ent[user] = e
        /\ \A u \in Users : u # user => new.ent[u] = db.ent[u]
    BY <1>1, <2>2, <2>3, ReplaceGood
  <2> QED BY <2>2, <2>4 DEF SamePrefs, new
<1>2. CASE ~Listed(db, user)
  BY <1>2 DEF UdataFlagSet, SamePrefs
<1> QED BY <1>1, <1>2

LEMMA FlagUnsetPrefs ==
  ASSUME NEW db, GoodStore(db), NEW user \in Users, NEW f
  PROVE  /\ GoodStore(UdataFlagUnset(db, user, f))
         /\ SamePrefs(db, UdataFlagUnset(db, user, f))
<1> DEFINE e == [db.ent[user] EXCEPT !.flags = @ \ f]
           new == UdataFlagUnset(db, user, f)
<1>1. CASE Listed(db, user)
  <2>1. db.ent[user] \in Entry /\ db \in Store
    BY DEF GoodStore, Store
  <2>2. e \in Entry /\ PreferenceOf(e) = PreferenceOf(db.ent[user])
    BY <2>1 DEF Entry, PreferenceOf
  <2>3. new = [db EXCEPT !.ent[user] = e]
    BY <1>1, <2>1 DEF UdataFlagUnset, Store
  <2> HIDE DEF e, new
  <2>4. /\ GoodStore(new) /\ new.ent[user] = e
        /\ \A u \in Users : u # user => new.ent[u] = db.ent[u]
    BY <1>1, <2>2, <2>3, ReplaceGood
  <2> QED BY <2>2, <2>4 DEF SamePrefs, new
<1>2. CASE ~Listed(db, user)
  BY <1>2 DEF UdataFlagUnset, SamePrefs
<1> QED BY <1>1, <1>2

(* Creating an entry with nothing but a user name changes no preference.   *)
LEMMA AddPrefs ==
  ASSUME UdataAssumption, NEW db, GoodStore(db), NEW user \in Users
  PROVE  LET new == UdataAdd(db, UdataDefEntry(user, NoString, -1))
         IN  GoodStore(new) /\ SamePrefs(db, new)
<1> DEFINE new == UdataAdd(db, UdataDefEntry(user, NoString, -1))
<1>1. CASE Listed(db, user)
  BY <1>1 DEF UdataAdd, UdataDefEntry, SamePrefs
<1>2. CASE ~Listed(db, user)
  <2>1. user # NoUser /\ db.ent[user] = BlankEntry
    BY <1>2 DEF UdataAssumption, GoodStore
  <2>2. new = [list |-> Append(db.list, user), ent |-> [db.ent EXCEPT ![user] = BlankEntry]]
    BY <1>2, <2>1 DEF UdataAdd, UdataDefEntry, BlankEntry, UDATA_DEF, UDATA_LEAVE
  <2> HIDE DEF new
  <2>3. /\ GoodStore(new) /\ new.ent[user] = BlankEntry
        /\ \A u \in Users : u # user => new.ent[u] = db.ent[u]
    BY <2>2, BlankIsEntry, AppendGood
  <2> QED BY <2>1, <2>3 DEF SamePrefs, new
<1> QED BY <1>1, <1>2

(* What the chat does changes no preference.                               *)
LEMMA DefEntryIsUpdate ==
  ASSUME NEW user \in Users, NEW nick \in Strings \cup {NoString}, NEW fd \in Int
  PROVE  /\ IsUpdate(UdataDefEntry(user, nick, fd))
         /\ UdataDefEntry(user, nick, fd).user = user
         /\ UdataDefEntry(user, nick, fd).tty = NoTty
         /\ UdataDefEntry(user, nick, fd).beep = UDATA_LEAVE
         /\ UdataDefEntry(user, nick, fd).mode = UDATA_LEAVE
BY DEF IsUpdate, UdataDefEntry, UDATA_LEAVE

LEMMA MergedWithNothing ==
  ASSUME NEW e
  PROVE  Promise!Merged(PreferenceOf(e), NoTty, UDATA_LEAVE, UDATA_LEAVE) = PreferenceOf(e)
BY DEF PreferenceOf, Promise!Merged, Promise!Leave, UDATA_LEAVE

LEMMA SamePrefsTrans ==
  ASSUME NEW a, NEW b, NEW c, SamePrefs(a, b), SamePrefs(b, c)
  PROVE  SamePrefs(a, c)
BY DEF SamePrefs

LEMMA JoinPrefs ==
  ASSUME UdataAssumption, NEW db, GoodStore(db), NEW user \in Users,
         NEW nick \in Strings, NEW fd \in Nat
  PROVE  GoodStore(Joined(db, user, nick, fd)) /\ SamePrefs(db, Joined(db, user, nick, fd))
<1> DEFINE e  == UdataDefEntry(user, nick, fd)
           d1 == UdataUpdate(db, e)
           d2 == UdataFlagUnset(d1, user, UdataFlags)
           d3 == UdataFlagSet(d2, user, {"PRESENT"})
<1>1. GoodStore(d1) /\ SamePrefs(db, d1)
  <2>1. /\ IsUpdate(e) /\ e.user = user
        /\ e.tty = NoTty /\ e.beep = UDATA_LEAVE /\ e.mode = UDATA_LEAVE
    BY DefEntryIsUpdate
  <2> HIDE DEF e
  <2>2. /\ GoodStore(d1)
        /\ \A u \in Users : u # user => d1.ent[u] = db.ent[u]
        /\ PreferenceOf(d1.ent[user]) = PreferenceOf(db.ent[user])
    BY <2>1, UpdateMerges, MergedWithNothing
  <2> QED BY <2>2 DEF SamePrefs
<1> HIDE DEF d1
<1>2. GoodStore(d2) /\ SamePrefs(d1, d2)
  BY <1>1, FlagUnsetPrefs
<1> HIDE DEF d2
<1>3. GoodStore(d3) /\ SamePrefs(d2, d3)
  BY <1>2, FlagSetPrefs DEF UdataFlags
<1> HIDE DEF d3
<1>4. GoodStore(d3) /\ SamePrefs(db, d3)
  BY <1>1, <1>2, <1>3, SamePrefsTrans
<1> QED BY <1>4 DEF Joined, d3, d2, d1, e

(* Every step of the chat.                                                 *)
LEMMA ChatKeepsPrefs ==
  ASSUME UdataAssumption, RequestsAssumption, GoodStore(udata), Chat
  PROVE  /\ GoodStore(udata') /\ SamePrefs(udata, udata')
         /\ step = "idle"
         /\ UNCHANGED <<world, step, req, local, answer, past>>
<1>1. PICK u \in Chatters :
        \/ ChatRefused(u) \/ ChatLeave(u)
        \/ \E nick \in Strings, fd \in Fds : ChatJoin(u, nick, fd)
  BY DEF Chat
<1>2. u \in Users /\ Fds \subseteq Nat
  BY DEF RequestsAssumption
<1>3. GoodStore(DoorOpened(u)) /\ SamePrefs(udata, DoorOpened(u))
  BY <1>2, AddPrefs DEF DoorOpened
<1>4. CASE ChatRefused(u)
  BY <1>3, <1>4 DEF ChatRefused
<1>5. CASE ChatLeave(u)
  BY <1>2, <1>5, FlagUnsetPrefs DEF ChatLeave
<1>6. ASSUME NEW nick \in Strings, NEW fd \in Fds, ChatJoin(u, nick, fd)
      PROVE  /\ GoodStore(udata') /\ SamePrefs(udata, udata')
             /\ step = "idle"
             /\ UNCHANGED <<world, step, req, local, answer, past>>
  <2> DEFINE d == DoorOpened(u)
  <2>0. GoodStore(d) /\ SamePrefs(udata, d)
    BY <1>3
  <2>1. udata' = Joined(d, u, nick, fd)
    BY <1>6 DEF ChatJoin
  <2> HIDE DEF d
  <2>2. fd \in Nat
    BY <1>2
  <2>3. GoodStore(Joined(d, u, nick, fd)) /\ SamePrefs(d, Joined(d, u, nick, fd))
    BY <2>0, <2>2, <1>2, JoinPrefs
  <2>4. GoodStore(udata') /\ SamePrefs(udata, udata')
    BY <2>0, <2>1, <2>3, SamePrefsTrans
  <2> QED BY <1>6, <2>4 DEF ChatJoin
<1> QED BY <1>1, <1>4, <1>5, <1>6

(* A change of the terminal alone, and a SETPREF.                          *)
LEMMA ForgetFacts ==
  ASSUME UdataAssumption, NEW db, GoodStore(db), NEW user \in Users
  PROVE  LET new == UdataUpdate(db, NewTty(user, TTYSET_UNSET))
         IN  /\ GoodStore(new)
             /\ \A u \in Users : u # user => new.ent[u] = db.ent[u]
             /\ new.ent[user].tty = TTYSET_UNSET
             /\ new.ent[user].beep = db.ent[user].beep
             /\ new.ent[user].mode = db.ent[user].mode
<1> DEFINE e == NewTty(user, TTYSET_UNSET)
           new == UdataUpdate(db, e)
<1>1. /\ IsUpdate(e) /\ e.user = user
      /\ e.tty = TTYSET_UNSET /\ e.beep = UDATA_LEAVE /\ e.mode = UDATA_LEAVE
  BY UdataAssumption DEF IsUpdate, NewTty, UdataDefEntry, UDATA_LEAVE, UdataAssumption
<1> HIDE DEF e
<1>2. /\ GoodStore(new)
      /\ \A u \in Users : u # user => new.ent[u] = db.ent[u]
      /\ PreferenceOf(new.ent[user])
           = Promise!Merged(PreferenceOf(db.ent[user]), TTYSET_UNSET, UDATA_LEAVE, UDATA_LEAVE)
  BY <1>1, UpdateMerges
<1> HIDE DEF new
<1>3. /\ new.ent[user].tty = TTYSET_UNSET
      /\ new.ent[user].beep = db.ent[user].beep
      /\ new.ent[user].mode = db.ent[user].mode
  BY <1>2, UdataAssumption
     DEF PreferenceOf, Promise!Merged, Promise!Leave, UDATA_LEAVE, UdataAssumption
<1> QED BY <1>2, <1>3 DEF new, e

RequestType ==
  [op   : {"MSG", "GETLIST", "SETPREF", "GETPREF", "GETQMSG"},
   user : Users \cup {NoUser}, tty : Ttys \cup {NoTty},
   beep : Bytes, mode : Bytes, local : BOOLEAN]

LEMMA SetFacts ==
  ASSUME UdataAssumption, RequestsAssumption, NEW db, GoodStore(db),
         NEW r \in Requests, r.user \in Users
  PROVE  LET new == UdataUpdate(db, [NewTty(r.user, r.tty) EXCEPT !.beep = r.beep,
                                                                   !.mode = r.mode])
         IN  /\ GoodStore(new)
             /\ \A u \in Users : u # r.user => new.ent[u] = db.ent[u]
             /\ PreferenceOf(new.ent[r.user])
                  = Promise!Merged(PreferenceOf(db.ent[r.user]), r.tty, r.beep, r.mode)
<1> DEFINE e == [NewTty(r.user, r.tty) EXCEPT !.beep = r.beep, !.mode = r.mode]
           new == UdataUpdate(db, e)
<1>1. r \in RequestType /\ Bytes \subseteq Int
  BY DEF RequestsAssumption, RequestType
<1>2. /\ r.tty \in Ttys \cup {NoTty}
      /\ r.beep \in Int /\ r.mode \in Int
  BY <1>1 DEF RequestType
<1>3. /\ e.user = r.user
      /\ e.tty = r.tty /\ e.beep = r.beep /\ e.mode = r.mode
      /\ e.fd = -1 /\ e.nick = NoString /\ e.flags = {}
  BY DEF NewTty, UdataDefEntry
<1> HIDE DEF e
<1>4. IsUpdate(e)
  BY <1>2, <1>3 DEF IsUpdate
<1> HIDE DEF new
<1>5. /\ GoodStore(new)
      /\ \A u \in Users : u # e.user => new.ent[u] = db.ent[u]
      /\ PreferenceOf(new.ent[e.user])
           = Promise!Merged(PreferenceOf(db.ent[e.user]), e.tty, e.beep, e.mode)
  BY <1>3, <1>4, UpdateMerges DEF new
<1>6. /\ GoodStore(new)
      /\ \A u \in Users : u # r.user => new.ent[u] = db.ent[u]
      /\ PreferenceOf(new.ent[r.user])
           = Promise!Merged(PreferenceOf(db.ent[r.user]), r.tty, r.beep, r.mode)
  BY <1>3, <1>5
<1> QED BY <1>6 DEF e, new

-----------------------------------------------------------------------------
(* The inductive invariant.                                                *)

LEMMA PartialIntro ==
  ASSUME NEW S, NEW T, NEW D \in SUBSET S, NEW f \in [D -> T]
  PROVE  f \in PartialMaps(S, T)
BY DEF PartialMaps

LEMMA PartialElim ==
  ASSUME NEW S, NEW T, NEW f \in PartialMaps(S, T)
  PROVE  DOMAIN f \in SUBSET S /\ f \in [DOMAIN f -> T]
BY DEF PartialMaps

LEMMA NobodyPartial ==
  ASSUME NEW S, NEW T
  PROVE  Nobody \in PartialMaps(S, T) /\ DOMAIN Nobody = {}
<1>1. Nobody \in [{} -> T] /\ DOMAIN Nobody = {}
  BY DEF Nobody
<1> QED BY <1>1, PartialIntro

LEMMA InitInv ==
  ASSUME UdataAssumption, RequestsAssumption, Init
  PROVE  RequestInv
<1>1. GoodStore(udata)
  BY EmptyStoreGood DEF Init
<1>2. pending \in PartialMaps(Users, Lines) /\ list \in PartialMaps(Users, BOOLEAN)
  BY NobodyPartial DEF Init
<1>3. answer.kind = "NONE"
  BY DEF Init, NoAnswer, Answer
<1>4. TypeOK
  BY <1>1, <1>2, <1>3 DEF Init, TypeOK, Steps, GoodStore, UDATA_DEF
<1> QED BY <1>1, <1>4
        DEF Init, RequestInv, Stored, GoodStore, RequestFits, HistoryTrue, TerminalFits, ListFits

(* A request ends: nothing is left of it.                                  *)
LEMMA ReplyKeeps ==
  ASSUME UdataAssumption, RequestInv, NEW kind, NEW args, Reply(Answer(kind, args)),
         kind \in {"NAK", "ACK", "DELIVERED", "LIST", "PREF", "QMSG"},
         GoodStore(udata'), UNCHANGED world
  PROVE  RequestInv'
<1>1. /\ step' = "idle" /\ req' = NoRequest /\ tty' = NoTty /\ tbeep' = UDATA_DEF
      /\ pending' = Nobody /\ list' = Nobody /\ answer'.kind = kind
      /\ seen' = [l \in Lines |-> {}] /\ modes' = [l \in Lines |-> {}]
      /\ login' = login /\ mesg' = mesg
  BY DEF Reply, Answer, world
<1>2. pending' \in PartialMaps(Users, Lines) /\ list' \in PartialMaps(Users, BOOLEAN)
  BY <1>1, NobodyPartial
<1>3. TypeOK'
  BY <1>1, <1>2 DEF RequestInv, TypeOK, Steps, GoodStore, UDATA_DEF
<1> QED BY <1>1, <1>3
        DEF RequestInv, Stored, GoodStore, RequestFits, HistoryTrue, TerminalFits, ListFits

LEMMA InvGoodStore ==
  ASSUME RequestInv
  PROVE  GoodStore(udata)
BY DEF RequestInv, TypeOK, Stored, GoodStore

LEMMA NakKeeps ==
  ASSUME UdataAssumption, RequestInv, Nak, UNCHANGED <<udata, world>>
  PROVE  RequestInv'
BY InvGoodStore, ReplyKeeps DEF Nak

LEMMA ReceiveKeeps ==
  ASSUME UdataAssumption, RequestsAssumption, RequestInv, NEW r \in Requests, Receive(r)
  PROVE  RequestInv'
<1>1. /\ step = "idle" /\ step' = "handle" /\ req' = r
      /\ answer'.kind = "NONE"
      /\ seen' = [l \in Lines |-> {login[l]}]
      /\ modes' = [l \in Lines |-> {mesg[l]}]
      /\ UNCHANGED <<udata, login, mesg, tty, tbeep, pending, list>>
  BY DEF Receive, NoAnswer, Answer, world, local
<1>2. TypeOK'
  BY <1>1 DEF RequestInv, TypeOK, Steps
<1>3. HistoryTrue'
  BY <1>1 DEF HistoryTrue
<1> QED BY <1>1, <1>2, <1>3
        DEF RequestInv, Stored, RequestFits, TerminalFits, ListFits

(* The world moves: what was seen stays seen.                              *)
LEMMA OccupyKeeps ==
  ASSUME UdataAssumption, RequestInv, NEW l \in Lines, NEW u \in Users \cup {NoUser},
         Occupy(l, u)
  PROVE  RequestInv'
<1>1. /\ login' = [login EXCEPT ![l] = u]
      /\ seen' = IF step = "idle" THEN seen ELSE [seen EXCEPT ![l] = @ \cup {u}]
      /\ UNCHANGED <<udata, mesg, step, req, tty, tbeep, pending, list, answer, modes>>
  BY DEF Occupy, Recorded, local
<1>2. TypeOK
  BY DEF RequestInv
<1>3. TypeOK'
  BY <1>1, <1>2 DEF TypeOK
<1>4. step # "idle" =>
        \A k \in Lines : seen[k] \subseteq seen'[k] /\ seen'[k] \subseteq seen[k] \cup {u}
                         /\ login'[k] \in seen'[k]
  BY <1>1, <1>2 DEF TypeOK, RequestInv, HistoryTrue
<1>5. HistoryTrue'
  BY <1>1, <1>4 DEF RequestInv, HistoryTrue
<1>6. TerminalFits'
  BY <1>1, <1>4 DEF RequestInv, TerminalFits
<1>7. ListFits'
  <2> SUFFICES ASSUME step = "list" PROVE ListFits'
    BY <1>1 DEF RequestInv, ListFits
  <2>1. \A v \in DOMAIN pending : pending[v] \in Lines /\ v \in seen[pending[v]]
    BY <1>2, PartialElim DEF TypeOK, RequestInv, ListFits
  <2>2. \A v \in DOMAIN pending' : v \in seen'[pending'[v]]
    BY <1>1, <1>4, <2>1
  <2>3. \A v \in DOMAIN list' : \E k \in Lines : v \in seen'[k] /\ list'[v] \in modes'[k]
    BY <1>1, <1>4 DEF RequestInv, ListFits
  <2>4. ASSUME NEW v \in Users, NEW k \in Lines, seen'[k] = {v}
        PROVE  v \in DOMAIN pending' \cup DOMAIN list'
    <3>1. login[k] \in seen[k]
      BY DEF RequestInv, HistoryTrue
    <3>2. seen[k] = {v}
      BY <1>4, <2>4, <3>1
    <3> QED BY <1>1, <3>2 DEF RequestInv, ListFits
  <2> QED BY <1>1, <2>2, <2>3, <2>4 DEF ListFits
<1>8. Stored' /\ RequestFits'
  BY <1>1 DEF RequestInv, Stored, RequestFits
<1> QED BY <1>3, <1>5, <1>6, <1>7, <1>8 DEF RequestInv

LEMMA MesgKeeps ==
  ASSUME UdataAssumption, RequestInv, NEW l \in Lines, Mesg(l)
  PROVE  RequestInv'
<1>1. /\ mesg' = [mesg EXCEPT ![l] = ~ @]
      /\ modes' = IF step = "idle" THEN modes ELSE [modes EXCEPT ![l] = @ \cup {~ mesg[l]}]
      /\ UNCHANGED <<udata, login, step, req, tty, tbeep, pending, list, answer, seen>>
  BY DEF Mesg, Recorded, local
<1>2. TypeOK
  BY DEF RequestInv
<1>3. TypeOK'
  BY <1>1, <1>2 DEF TypeOK
<1>4. step # "idle" =>
        \A k \in Lines : modes[k] \subseteq modes'[k] /\ mesg'[k] \in modes'[k]
  <2> SUFFICES ASSUME step # "idle", NEW k \in Lines
               PROVE  modes[k] \subseteq modes'[k] /\ mesg'[k] \in modes'[k]
    OBVIOUS
  <2>1. mesg[k] \in modes[k]
    BY DEF RequestInv, HistoryTrue
  <2>2. mesg \in [Lines -> BOOLEAN] /\ modes \in [Lines -> SUBSET BOOLEAN]
    BY <1>2 DEF TypeOK
  <2>3. CASE k = l
    <3>1. mesg'[k] = ~ mesg[k] /\ modes'[k] = modes[k] \cup {~ mesg[k]}
      BY <1>1, <2>2, <2>3
    <3> QED BY <3>1
  <2>4. CASE k # l
    <3>1. mesg'[k] = mesg[k] /\ modes'[k] = modes[k]
      BY <1>1, <2>2, <2>4
    <3> QED BY <2>1, <3>1
  <2> QED BY <2>3, <2>4
<1>5. HistoryTrue'
  BY <1>1, <1>4 DEF RequestInv, HistoryTrue
<1>6. TerminalFits'
  BY <1>1, <1>4 DEF RequestInv, TerminalFits
<1>7. ListFits'
  BY <1>1, <1>4 DEF RequestInv, ListFits
<1>8. Stored' /\ RequestFits'
  BY <1>1 DEF RequestInv, Stored, RequestFits
<1> QED BY <1>3, <1>5, <1>6, <1>7, <1>8 DEF RequestInv

LEMMA WorldKeeps ==
  ASSUME UdataAssumption, RequestInv, World
  PROVE  RequestInv'
BY OccupyKeeps, MesgKeeps DEF World, Login, Logout

LEMMA ChatKeeps ==
  ASSUME UdataAssumption, RequestsAssumption, RequestInv, Chat
  PROVE  RequestInv'
<1>1. /\ GoodStore(udata') /\ step = "idle"
      /\ UNCHANGED <<login, mesg, step, req, tty, tbeep, pending, list, answer, seen, modes>>
  BY InvGoodStore, ChatKeepsPrefs DEF world, local, past
<1>2. TypeOK'
  BY <1>1 DEF RequestInv, TypeOK, GoodStore
<1> QED BY <1>1, <1>2
        DEF RequestInv, GoodStore, Stored, RequestFits, HistoryTrue, TerminalFits, ListFits

(* The handler goes on without a change.                                   *)
LEMMA GoOnFacts ==
  ASSUME NEW next, GoOn(next), UNCHANGED <<udata, world>>
  PROVE  /\ step' = next
         /\ UNCHANGED <<udata, login, mesg, req, tty, tbeep, pending, list, answer, seen, modes>>
BY DEF GoOn, world, local, past

LEMMA MsgCheckKeeps ==
  ASSUME UdataAssumption, RequestsAssumption, RequestInv, MsgCheck
  PROVE  RequestInv'
<1>1. CASE Nak
  BY <1>1, NakKeeps DEF MsgCheck
<1>2. CASE req.user \in Accounts /\ GoOn("prefer")
  <2>1. /\ step = "handle" /\ req.op = "MSG" /\ req.user \in Users /\ step' = "prefer"
        /\ UNCHANGED <<udata, login, mesg, req, tty, tbeep, pending, list, answer, seen, modes>>
    BY <1>2, GoOnFacts DEF MsgCheck, Handling, RequestsAssumption
  <2>2. TypeOK'
    BY <2>1 DEF RequestInv, TypeOK, Steps
  <2> QED BY <2>1, <2>2
          DEF RequestInv, Stored, RequestFits, HistoryTrue, TerminalFits, ListFits
<1> QED BY <1>1, <1>2 DEF MsgCheck

(* What the choice of a terminal comes to.                                 *)
LEMMA MsgPreferFacts ==
  ASSUME UdataAssumption, RequestInv, MsgPrefer
  PROVE  LET u == req.user
         IN  /\ u \in Users /\ step = "prefer" /\ step' \in {"first", "mode"}
             /\ GoodStore(udata')
             /\ \A v \in Users : v # u => udata'.ent[v] = udata.ent[v]
             /\ udata'.ent[u].beep = udata.ent[u].beep
             /\ udata'.ent[u].mode = udata.ent[u].mode
             /\ udata'.ent[u].tty # udata.ent[u].tty =>
                  ~ IsOnTty(u, udata.ent[u].tty) /\ udata'.ent[u].tty = TTYSET_UNSET
             /\ tbeep' = udata.ent[u].beep
             /\ step' = "first" => tty' = tty /\ udata'.ent[u].tty = TTYSET_UNSET
             /\ step' = "mode" => /\ tty' = udata.ent[u].tty /\ udata' = udata
                                  /\ IsOnTty(u, tty')
             /\ UNCHANGED <<login, mesg, req, pending, list, answer, seen, modes>>
<1> DEFINE u == req.user
           p == udata.ent[u]
           stale == Listed(udata, u) /\ ~ IsOnTty(u, p.tty)
<1>0. /\ u \in Users /\ step = "prefer"
      /\ UNCHANGED <<login, mesg, req, pending, list, answer, seen, modes>>
  BY DEF MsgPrefer, RequestInv, RequestFits, world, past
<1>1. /\ tbeep' = p.beep
      /\ udata' = IF stale THEN UdataUpdate(udata, NewTty(u, TTYSET_UNSET)) ELSE udata
      /\ IF Listed(udata, u) /\ ~ stale THEN tty' = p.tty /\ step' = "mode"
                                        ELSE tty' = tty /\ step' = "first"
  BY DEF MsgPrefer
<1>2. GoodStore(udata)
  BY InvGoodStore
<1>3. CASE stale
  <2>1. /\ GoodStore(udata')
        /\ \A v \in Users : v # u => udata'.ent[v] = udata.ent[v]
        /\ udata'.ent[u].tty = TTYSET_UNSET
        /\ udata'.ent[u].beep = udata.ent[u].beep
        /\ udata'.ent[u].mode = udata.ent[u].mode
    BY <1>0, <1>1, <1>2, <1>3, ForgetFacts
  <2> QED BY <1>0, <1>1, <1>3, <2>1
<1>4. CASE ~ stale /\ Listed(udata, u)
  BY <1>0, <1>1, <1>2, <1>4
<1>5. CASE ~ Listed(udata, u)
  <2>1. udata.ent[u].tty = TTYSET_UNSET
    BY <1>0, <1>2, <1>5 DEF GoodStore, BlankEntry
  <2> QED BY <1>0, <1>1, <1>2, <1>5, <2>1
<1> QED BY <1>3, <1>4, <1>5

LEMMA MsgPreferKeeps ==
  ASSUME UdataAssumption, RequestsAssumption, RequestInv, MsgPrefer
  PROVE  RequestInv'
<1> DEFINE u == req.user
<1>1. /\ u \in Users /\ step = "prefer" /\ step' \in {"first", "mode"}
      /\ GoodStore(udata')
      /\ udata'.ent[u].beep = udata.ent[u].beep
      /\ tbeep' = udata.ent[u].beep
      /\ step' = "first" => tty' = tty /\ udata'.ent[u].tty = TTYSET_UNSET
      /\ step' = "mode" => /\ tty' = udata.ent[u].tty /\ udata' = udata
                           /\ IsOnTty(u, tty')
      /\ UNCHANGED <<login, mesg, req, pending, list, answer, seen, modes>>
  BY MsgPreferFacts
<1>2. udata.ent[u] \in Entry
  BY <1>1 DEF RequestInv, TypeOK, Store
<1>3. udata.ent[u].beep \in Int /\ udata.ent[u].tty \in Ttys
  BY <1>2 DEF Entry
<1>4. TypeOK'
  BY <1>1, <1>3 DEF RequestInv, TypeOK, Steps, GoodStore
<1>5. TerminalFits'
  <2>1. step' = "mode" => /\ tty' \in Lines /\ u \in seen'[tty']
                          /\ udata'.ent[u].tty \in {TTYSET_UNSET, tty'}
    BY <1>1 DEF IsOnTty, RequestInv, HistoryTrue
  <2> QED BY <1>1, <2>1 DEF TerminalFits
<1> QED BY <1>1, <1>4, <1>5
        DEF RequestInv, GoodStore, Stored, RequestFits, HistoryTrue, ListFits

LEMMA MsgFirstKeeps ==
  ASSUME UdataAssumption, RequestsAssumption, RequestInv, MsgFirst
  PROVE  RequestInv'
<1>1. /\ step = "first" /\ step' = "mode"
      /\ tty' \in LinesOf(req.user) \cup {NoTty}
      /\ UNCHANGED <<udata, login, mesg, req, tbeep, pending, list, answer, seen, modes>>
  BY DEF MsgFirst, world, past
<1>2. tty' # NoTty => tty' \in Lines /\ req.user \in seen[tty']
  BY <1>1 DEF LinesOf, RequestInv, HistoryTrue
<1>3. TypeOK'
  BY <1>1, <1>2 DEF RequestInv, TypeOK, Steps, RequestsAssumption
<1>4. TerminalFits'
  BY <1>1, <1>2 DEF RequestInv, TerminalFits
<1> QED BY <1>1, <1>3, <1>4 DEF RequestInv, Stored, RequestFits, HistoryTrue, ListFits

LEMMA MsgModeKeeps ==
  ASSUME UdataAssumption, RequestsAssumption, RequestInv, MsgMode
  PROVE  RequestInv'
<1>1. CASE Nak
  BY <1>1, NakKeeps DEF MsgMode
<1>2. CASE IsWritableTty(tty) /\ GoOn("write")
  <2>1. /\ step = "mode" /\ step' = "write"
        /\ UNCHANGED <<udata, login, mesg, req, tty, tbeep, pending, list, answer, seen, modes>>
    BY <1>2, GoOnFacts DEF MsgMode
  <2>2. tty \in Lines /\ TRUE \in modes[tty]
    <3>1. tty \in Lines /\ mesg[tty] = TRUE
      BY <1>2 DEF IsWritableTty, RequestInv, TypeOK
    <3> QED BY <2>1, <3>1 DEF RequestInv, HistoryTrue
  <2>3. tty # NoTty
    BY <2>2, UdataAssumption, RequestsAssumption DEF UdataAssumption, RequestsAssumption
  <2>4. TypeOK'
    BY <2>1 DEF RequestInv, TypeOK, Steps
  <2>5. TerminalFits'
    BY <2>1, <2>2, <2>3 DEF RequestInv, TerminalFits
  <2> QED BY <2>1, <2>4, <2>5 DEF RequestInv, Stored, RequestFits, HistoryTrue, ListFits
<1> QED BY <1>1, <1>2 DEF MsgMode

LEMMA MsgWriteKeeps ==
  ASSUME UdataAssumption, RequestInv, MsgWrite
  PROVE  RequestInv'
BY NakKeeps, InvGoodStore, ReplyKeeps DEF MsgWrite

LEMMA GetListKeeps ==
  ASSUME UdataAssumption, RequestsAssumption, RequestInv, GetList
  PROVE  RequestInv'
<1> DEFINE D == {login[l] : l \in Lines} \ {NoUser}
<1>1. /\ step = "handle" /\ req.op = "GETLIST" /\ step' = "list"
      /\ pending' \in [D -> Lines]
      /\ \A u \in DOMAIN pending' : pending'[u] \in LinesOf(u)
      /\ UNCHANGED <<udata, login, mesg, req, tty, tbeep, list, answer, seen, modes>>
  BY DEF GetList, Handling, FirstLines, world, past
<1>2. D \in SUBSET Users /\ DOMAIN pending' = D
  BY <1>1 DEF RequestInv, TypeOK
<1>3. pending' \in PartialMaps(Users, Lines)
  BY <1>1, <1>2, PartialIntro
<1>4. TypeOK'
  BY <1>1, <1>3 DEF RequestInv, TypeOK, Steps
<1>5. \A u \in DOMAIN pending' : u \in seen'[pending'[u]]
  BY <1>1 DEF LinesOf, RequestInv, HistoryTrue
<1>6. DOMAIN list' = {}
  BY <1>1, NobodyPartial DEF RequestInv, ListFits
<1>7. ASSUME NEW u \in Users, NEW l \in Lines, seen'[l] = {u}
      PROVE  u \in DOMAIN pending'
  <2>1. login[l] = u
    BY <1>1, <1>7 DEF RequestInv, HistoryTrue
  <2> QED BY <1>2, <2>1, UdataAssumption DEF UdataAssumption
<1>8. ListFits'
  BY <1>1, <1>5, <1>6, <1>7 DEF ListFits
<1> QED BY <1>1, <1>4, <1>8 DEF RequestInv, Stored, RequestFits, HistoryTrue, TerminalFits

LEMMA GetListNameKeeps ==
  ASSUME UdataAssumption, RequestsAssumption, RequestInv,
         NEW u \in DOMAIN pending, GetListName(u)
  PROVE  RequestInv'
<1>1. /\ step = "list" /\ step' = "list"
      /\ list' = [v \in DOMAIN list \cup {u} |->
                    IF v = u THEN IsWritableTty(pending[u]) ELSE list[v]]
      /\ pending' = [v \in DOMAIN pending \ {u} |-> pending[v]]
      /\ UNCHANGED <<udata, login, mesg, req, tty, tbeep, answer, seen, modes>>
  BY DEF GetListName, With, Without, world, past
<1>2. /\ DOMAIN pending \in SUBSET Users /\ pending \in [DOMAIN pending -> Lines]
      /\ DOMAIN list \in SUBSET Users /\ list \in [DOMAIN list -> BOOLEAN]
  BY PartialElim DEF RequestInv, TypeOK
<1>3. IsWritableTty(pending[u]) \in BOOLEAN /\ IsWritableTty(pending[u]) = mesg[pending[u]]
  BY <1>2 DEF IsWritableTty, RequestInv, TypeOK
<1>4. pending' \in PartialMaps(Users, Lines)
  <2>1. pending' \in [DOMAIN pending \ {u} -> Lines]
    BY <1>1, <1>2
  <2> QED BY <1>2, <2>1, PartialIntro
<1>5. list' \in PartialMaps(Users, BOOLEAN)
  <2> DEFINE x == IsWritableTty(pending[u])
             D == DOMAIN list \cup {u}
  <2>1. x \in BOOLEAN /\ list' = [v \in D |-> IF v = u THEN x ELSE list[v]]
    BY <1>1, <1>3
  <2> HIDE DEF x
  <2>2. list' \in [D -> BOOLEAN]
    BY <1>2, <2>1
  <2>3. D \in SUBSET Users
    BY <1>2
  <2> QED BY <2>2, <2>3, PartialIntro
<1>6. TypeOK'
  BY <1>1, <1>4, <1>5 DEF RequestInv, TypeOK, Steps
<1>7. ASSUME NEW v \in DOMAIN list'
      PROVE  \E l \in Lines : v \in seen'[l] /\ list'[v] \in modes'[l]
  <2>1. CASE v = u
    <3>1. pending[u] \in Lines /\ u \in seen[pending[u]] /\ mesg[pending[u]] \in modes[pending[u]]
      BY <1>1, <1>2 DEF RequestInv, ListFits, HistoryTrue
    <3>2. list'[v] = mesg[pending[u]]
      BY <1>1, <1>3, <2>1
    <3> QED BY <1>1, <2>1, <3>1, <3>2
  <2>2. CASE v # u
    <3>1. v \in DOMAIN list /\ list'[v] = list[v]
      BY <1>1, <2>2
    <3> QED BY <1>1, <3>1 DEF RequestInv, ListFits
  <2> QED BY <2>1, <2>2
<1>8. ASSUME NEW v \in Users, NEW l \in Lines, seen'[l] = {v}
      PROVE  v \in DOMAIN pending' \cup DOMAIN list'
  <2>1. v \in DOMAIN pending \cup DOMAIN list
    BY <1>1, <1>8 DEF RequestInv, ListFits
  <2>2. DOMAIN pending' = DOMAIN pending \ {u} /\ DOMAIN list' = DOMAIN list \cup {u}
    BY <1>1
  <2> QED BY <2>1, <2>2
<1>9. \A v \in DOMAIN pending' : v \in seen'[pending'[v]]
  BY <1>1 DEF RequestInv, ListFits
<1>10. ListFits'
  BY <1>1, <1>7, <1>8, <1>9 DEF ListFits
<1> QED BY <1>1, <1>6, <1>10 DEF RequestInv, Stored, RequestFits, HistoryTrue, TerminalFits

LEMMA GetListEndKeeps ==
  ASSUME UdataAssumption, RequestInv, GetListEnd
  PROVE  RequestInv'
BY InvGoodStore, ReplyKeeps DEF GetListEnd

LEMMA SetPrefKeeps ==
  ASSUME UdataAssumption, RequestsAssumption, RequestInv, SetPref
  PROVE  RequestInv'
<1>1. CASE Nak /\ UNCHANGED udata
  BY <1>1, NakKeeps DEF SetPref
<1>2. CASE req.user \in Accounts /\ Reply(Answer("ACK", <<>>))
           /\ udata' = UdataUpdate(udata, [NewTty(req.user, req.tty) EXCEPT
                                             !.beep = req.beep, !.mode = req.mode])
  <2>1. req \in Requests /\ req.user \in Users
    BY <1>2 DEF SetPref, Handling, RequestInv, RequestFits, RequestsAssumption
  <2>2. GoodStore(udata')
    BY <1>2, <2>1, InvGoodStore, SetFacts
  <2> QED BY <1>2, <2>2, ReplyKeeps DEF SetPref
<1> QED BY <1>1, <1>2 DEF SetPref

LEMMA GetPrefKeeps ==
  ASSUME UdataAssumption, RequestInv, GetPref
  PROVE  RequestInv'
BY NakKeeps, InvGoodStore, ReplyKeeps DEF GetPref

LEMMA GetQMsgKeeps ==
  ASSUME UdataAssumption, RequestsAssumption, RequestInv, GetQMsg
  PROVE  RequestInv'
<1>1. CASE GoOn("crashed")
  <2>1. /\ step = "handle" /\ step' = "crashed"
        /\ UNCHANGED <<udata, login, mesg, req, tty, tbeep, pending, list, answer, seen, modes>>
    BY <1>1, GoOnFacts DEF GetQMsg, Handling
  <2>2. TypeOK'
    BY <2>1 DEF RequestInv, TypeOK, Steps
  <2> QED BY <2>1, <2>2
          DEF RequestInv, Stored, RequestFits, HistoryTrue, TerminalFits, ListFits
<1>2. CASE Nak \/ Reply(Answer("QMSG", <<0>>))
  BY <1>2, NakKeeps, InvGoodStore, ReplyKeeps DEF GetQMsg
<1> QED BY <1>1, <1>2 DEF GetQMsg

LEMMA NextKeeps ==
  ASSUME UdataAssumption, RequestsAssumption, RequestInv, [Next]_vars
  PROVE  RequestInv'
<1>1. CASE UNCHANGED vars
  BY <1>1 DEF vars, world, local, past, RequestInv, TypeOK, Stored, RequestFits,
              HistoryTrue, TerminalFits, ListFits
<1>2. CASE \E r \in Requests : Receive(r)
  BY <1>2, ReceiveKeeps
<1>3. CASE Chat
  BY <1>3, ChatKeeps
<1>4. CASE World
  BY <1>4, WorldKeeps
<1>5. CASE Handler
  BY <1>5, MsgCheckKeeps, MsgPreferKeeps, MsgFirstKeeps, MsgModeKeeps, MsgWriteKeeps,
     GetListKeeps, GetListNameKeeps, GetListEndKeeps, SetPrefKeeps, GetPrefKeeps,
     GetQMsgKeeps DEF Handler
<1> QED BY <1>1, <1>2, <1>3, <1>4, <1>5 DEF Next

(* RequestInv holds in every reachable state: whatever happens between the *)
(* handler's looks at the world, what it has found out was true during the *)
(* request (server.c:120-260).                                             *)
THEOREM RequestsInvariant == Spec => []RequestInv
<1>1. Init => RequestInv
  BY UdataAssumption, RequestsAssumption, InitInv
<1>2. RequestInv /\ [Next]_vars => RequestInv'
  BY UdataAssumption, RequestsAssumption, NextKeeps
<1> QED BY <1>1, <1>2, PTL DEF Spec

(* Every variable always has its type; every entry has a terminal.         *)
THEOREM RequestsTypeCorrect == Spec => []TypeOK
<1>1. RequestInv => TypeOK
  BY DEF RequestInv
<1> QED BY <1>1, RequestsInvariant, PTL

-----------------------------------------------------------------------------
(* What a step may do.                                                     *)

LEMMA NakAnswers ==
  ASSUME Nak
  PROVE  answer'.kind = "NAK" /\ answer' = Answer("NAK", <<>>) /\ req' = NoRequest
BY DEF Nak, Reply, Answer

(* Only one action answers with DELIVERED, and one with LIST.              *)
LEMMA WhoAnswers ==
  ASSUME RequestInv, [Next]_vars, NEW kind \in {"DELIVERED", "LIST"}, Answers(kind)
  PROVE  \/ /\ kind = "DELIVERED" /\ step = "write"
            /\ answer' = Answer("DELIVERED", <<tty, Rings>>)
         \/ /\ kind = "LIST" /\ step = "list" /\ DOMAIN pending = {}
            /\ answer' = Answer("LIST", <<list>>)
<1>1. step # "idle" /\ answer' # answer /\ answer'.kind = kind
  BY DEF Answers
<1>2. Handler
  BY <1>1 DEF Next, vars, Receive, Chat, ChatRefused, ChatLeave, ChatJoin, World, Mesg,
              Login, Logout, Occupy
<1>3. kind # "NAK" /\ kind # "ACK" /\ kind # "PREF" /\ kind # "QMSG"
  OBVIOUS
<1>4. ~ Nak
  BY <1>1, <1>3, NakAnswers
<1>5. ~ MsgCheck /\ ~ MsgPrefer /\ ~ MsgFirst /\ ~ MsgMode /\ ~ GetList
      /\ ~ \E u \in DOMAIN pending : GetListName(u)
  BY <1>1, <1>4 DEF MsgCheck, GoOn, MsgPrefer, MsgFirst, MsgMode, GetList, GetListName
<1>6. ~ SetPref /\ ~ GetPref /\ ~ GetQMsg
  BY <1>1, <1>3, <1>4 DEF SetPref, GetPref, GetQMsg, GoOn, Reply, Answer
<1>7. CASE MsgWrite
  BY <1>1, <1>4, <1>7 DEF MsgWrite, Reply, Answer
<1>8. CASE GetListEnd
  BY <1>1, <1>8 DEF GetListEnd, Reply, Answer
<1> QED BY <1>2, <1>5, <1>6, <1>7, <1>8 DEF Handler

(* A message is written to a terminal that was its recipient's and         *)
(* accepted messages during the request, for any number of users, lines    *)
(* and preferences (server.c:132-202).                                     *)
THEOREM MessagesReachRecipients == Spec => MessageReachesRecipient
<1>1. ASSUME RequestInv, [Next]_vars, Answers("DELIVERED")
      PROVE  /\ req.user \in seen[answer'.args[1]]
             /\ TRUE \in modes[answer'.args[1]]
  <2>1. step = "write" /\ answer' = Answer("DELIVERED", <<tty, Rings>>)
    BY <1>1, WhoAnswers
  <2>2. answer'.args[1] = tty
    BY <2>1 DEF Answer
  <2> QED BY <1>1, <2>1, <2>2 DEF RequestInv, TerminalFits
<1>2. RequestInv /\ [Next]_vars =>
        [Answers("DELIVERED") => /\ req.user \in seen[answer'.args[1]]
                                 /\ TRUE \in modes[answer'.args[1]]]_vars
  BY <1>1
<1> QED BY <1>2, RequestsInvariant, PTL DEF Spec, MessageReachesRecipient

(* The list in an answer is true of the time of the request                *)
(* (server.c:242-257).                                                     *)
THEOREM ListsAreTrue == Spec => ListIsTrue
<1>1. ASSUME RequestInv, [Next]_vars, Answers("LIST")
      PROVE  LET names == answer'.args[1]
             IN  /\ \A u \in Users :
                      (\E l \in Lines : seen[l] = {u}) => u \in DOMAIN names
                 /\ \A u \in DOMAIN names :
                      \E l \in Lines : u \in seen[l] /\ names[u] \in modes[l]
  <2>1. step = "list" /\ DOMAIN pending = {} /\ answer' = Answer("LIST", <<list>>)
    BY <1>1, WhoAnswers
  <2>2. answer'.args[1] = list
    BY <2>1 DEF Answer
  <2> QED BY <1>1, <2>1, <2>2 DEF RequestInv, ListFits
<1>2. RequestInv /\ [Next]_vars =>
        [Answers("LIST") =>
           LET names == answer'.args[1]
           IN  /\ \A u \in Users :
                    (\E l \in Lines : seen[l] = {u}) => u \in DOMAIN names
               /\ \A u \in DOMAIN names :
                    \E l \in Lines : u \in seen[l] /\ names[u] \in modes[l]]_vars
  BY <1>1
<1> QED BY <1>2, RequestsInvariant, PTL DEF Spec, ListIsTrue

-----------------------------------------------------------------------------
(* Preferences.                                                            *)

Prefs == [u \in Users |-> PreferenceOf(udata.ent[u])]

LEMMA SamePrefsSame ==
  ASSUME SamePrefs(udata, udata')
  PROVE  Prefs' = Prefs
BY DEF SamePrefs, Prefs

(* A step of the handler that changes the store either forgets a terminal  *)
(* or sets what was asked.                                                 *)
LEMMA WhoChangesPrefs ==
  ASSUME UdataAssumption, RequestsAssumption, RequestInv, [Next]_vars, Prefs' # Prefs
  PROVE  \/ MsgPrefer
         \/ /\ SetPref /\ req.local /\ req.user \in Users
            /\ Reply(Answer("ACK", <<>>))
            /\ \A u \in Users : u # req.user => udata'.ent[u] = udata.ent[u]
            /\ PreferenceOf(udata'.ent[req.user])
                 = Promise!Merged(PreferenceOf(udata.ent[req.user]),
                                  req.tty, req.beep, req.mode)
<1>1. udata' # udata
  BY DEF Prefs
<1>2. ~ Chat
  BY InvGoodStore, ChatKeepsPrefs, SamePrefsSame
<1>3. MsgPrefer \/ SetPref
  BY <1>1, <1>2 DEF Next, vars, Receive, World, Mesg, Login, Logout, Occupy, Handler,
     MsgCheck, MsgFirst, MsgMode, MsgWrite, GetList, GetListName, GetListEnd, GetPref, GetQMsg
<1>4. CASE SetPref
  <2>1. /\ req.local /\ req.user \in Accounts /\ Reply(Answer("ACK", <<>>))
        /\ udata' = UdataUpdate(udata, [NewTty(req.user, req.tty) EXCEPT
                                          !.beep = req.beep, !.mode = req.mode])
        /\ step = "handle"
    BY <1>1, <1>4 DEF SetPref, Handling
  <2>2. req \in Requests /\ req.user \in Users
    BY <2>1 DEF RequestInv, RequestFits, RequestsAssumption
  <2>3. /\ \A u \in Users : u # req.user => udata'.ent[u] = udata.ent[u]
        /\ PreferenceOf(udata'.ent[req.user])
             = Promise!Merged(PreferenceOf(udata.ent[req.user]), req.tty, req.beep, req.mode)
    BY <2>1, <2>2, InvGoodStore, SetFacts
  <2> QED BY <1>4, <2>1, <2>2, <2>3
<1> QED BY <1>3, <1>4

(* A preference for a terminal that its user did not leave during the      *)
(* request is replaced by nothing but a SETPREF of that user               *)
(* (server.c:132-138).                                                     *)
THEOREM SteadyPreferencesKept == Spec => SteadyPreferenceKept
<1>1. ASSUME RequestInv, [Next]_vars, NEW u \in Users,
             udata'.ent[u].tty # udata.ent[u].tty, udata.ent[u].tty \in Lines,
             seen[udata.ent[u].tty] = {u}
      PROVE  req.op = "SETPREF" /\ req.user = u /\ req.local
  <2>1. Prefs' # Prefs
    BY <1>1 DEF Prefs, PreferenceOf
  <2>2. CASE MsgPrefer
    <3>1. /\ step = "prefer" /\ u = req.user
          /\ ~ IsOnTty(u, udata.ent[u].tty)
      BY <1>1, <2>2, UdataAssumption, MsgPreferFacts
    <3>2. login[udata.ent[u].tty] = u
      BY <1>1, <3>1 DEF RequestInv, HistoryTrue
    <3> QED BY <1>1, <3>1, <3>2 DEF IsOnTty
  <2>3. CASE SetPref /\ req.local
             /\ \A v \in Users : v # req.user => udata'.ent[v] = udata.ent[v]
    BY <1>1, <2>3 DEF SetPref, Handling
  <2> QED BY <1>1, <2>1, <2>2, <2>3, UdataAssumption, RequestsAssumption, WhoChangesPrefs
<1>2. RequestInv /\ [Next]_vars =>
        [\A u \in Users :
           LET t == udata.ent[u].tty
           IN  /\ udata'.ent[u].tty # t
               /\ t \in Lines
               /\ seen[t] = {u}
               => req.op = "SETPREF" /\ req.user = u /\ req.local]_vars
  BY <1>1
<1> QED BY <1>2, RequestsInvariant, PTL DEF Spec, SteadyPreferenceKept

-----------------------------------------------------------------------------
(* The handlers implement Preferences.                                     *)

LEMMA Stutters ==
  ASSUME Prefs' = Prefs, req' = req, answer' = answer
  PROVE  UNCHANGED Promise!vars
BY DEF Promise!vars, Prefs

LEMMA InitIsPreferences ==
  ASSUME Init
  PROVE  Promise!Init
<1>1. \A u \in Users : PreferenceOf(udata.ent[u]) = Promise!NoPreference
  BY DEF Init, EmptyStore, PreferenceOf, BlankEntry, Promise!NoPreference, Promise!Default,
         UDATA_DEF
<1> QED BY <1>1 DEF Init, Promise!Init, NoAnswer, Answer, Promise!NoAnswer, Promise!Answer

LEMMA NakIsRefuse ==
  ASSUME Nak, UNCHANGED udata
  PROVE  Promise!Refuse
BY DEF Nak, Reply, Answer, Promise!Refuse, Promise!Reply, Promise!Answer

LEMMA ReceiveIsAsk ==
  ASSUME RequestInv, NEW r \in Requests, Receive(r)
  PROVE  Promise!Ask(r)
BY DEF RequestInv, RequestFits, Receive, Promise!Ask, NoAnswer, Answer, Promise!NoAnswer,
       Promise!Answer

LEMMA PreferIsForget ==
  ASSUME UdataAssumption, RequestInv, MsgPrefer
  PROVE  Promise!Forget \/ UNCHANGED Promise!vars
<1>1. /\ step = "prefer" /\ req.op = "MSG" /\ req.user \in Users
      /\ UNCHANGED <<req, answer>>
  BY DEF MsgPrefer, RequestInv, RequestFits
<1>2. CASE udata' = udata
  BY <1>1, <1>2, Stutters DEF Prefs
<1>3. CASE udata' = UdataUpdate(udata, NewTty(req.user, TTYSET_UNSET))
  <2>1. /\ \A u \in Users : u # req.user => udata'.ent[u] = udata.ent[u]
        /\ udata'.ent[req.user].tty = TTYSET_UNSET
        /\ udata'.ent[req.user].beep = udata.ent[req.user].beep
        /\ udata'.ent[req.user].mode = udata.ent[req.user].mode
    BY <1>1, <1>3, InvGoodStore, ForgetFacts
  <2>2. PreferenceOf(udata'.ent[req.user])
          = [PreferenceOf(udata.ent[req.user]) EXCEPT !.tty = TTYSET_UNSET]
    BY <2>1 DEF PreferenceOf
  <2>3. Prefs' = [Prefs EXCEPT ![req.user].tty = TTYSET_UNSET]
    BY <1>1, <2>1, <2>2 DEF Prefs
  <2> QED BY <1>1, <2>3 DEF Promise!Forget, Prefs
<1> QED BY <1>2, <1>3 DEF MsgPrefer

LEMMA WriteIsDeliver ==
  ASSUME RequestsAssumption, RequestInv, MsgWrite
  PROVE  Promise!Refuse \/ \E t \in Ttys : Promise!Deliver(t)
<1>1. CASE Nak
  BY <1>1, NakIsRefuse DEF MsgWrite
<1>2. CASE Reply(Answer("DELIVERED", <<tty, Rings>>))
  <2>1. /\ req.op = "MSG" /\ req.user \in Users /\ tty \in Ttys
        /\ tbeep = udata.ent[req.user].beep
        /\ udata.ent[req.user].tty \in {TTYSET_UNSET, tty}
    BY DEF MsgWrite, RequestInv, RequestFits, TerminalFits, RequestsAssumption
  <2>2. Prefs[req.user] = PreferenceOf(udata.ent[req.user])
    BY <2>1 DEF Prefs
  <2>3. Rings = Promise!Rings(Prefs[req.user])
    BY <2>1, <2>2 DEF Rings, Promise!Rings, PreferenceOf, UDATA_BEEPDEF, Promise!BeepDef,
                      Promise!Default
  <2>4. Prefs[req.user].tty \in {TTYSET_UNSET, tty}
    BY <2>1, <2>2 DEF PreferenceOf
  <2>5. answer' = Promise!Answer("DELIVERED", <<tty, Rings>>) /\ req' = NoRequest
    BY <1>2 DEF Reply, Answer, Promise!Answer
  <2>6. Prefs' = Prefs
    BY DEF MsgWrite, Prefs
  <2>7. Promise!Deliver(tty)
    BY <2>1, <2>3, <2>4, <2>5, <2>6 DEF Promise!Deliver, Promise!Reply, Prefs
  <2> QED BY <2>1, <2>7
<1> QED BY <1>1, <1>2 DEF MsgWrite

LEMMA SetPrefIsSet ==
  ASSUME UdataAssumption, RequestsAssumption, RequestInv, SetPref
  PROVE  Promise!Refuse \/ Promise!Set
<1>1. CASE Nak /\ UNCHANGED udata
  BY <1>1, NakIsRefuse
<1>2. CASE req.user \in Accounts /\ Reply(Answer("ACK", <<>>))
           /\ udata' = UdataUpdate(udata, [NewTty(req.user, req.tty) EXCEPT
                                             !.beep = req.beep, !.mode = req.mode])
  <2>1. req \in Requests /\ req.user \in Users /\ req.op = "SETPREF"
    BY <1>2 DEF SetPref, Handling, RequestInv, RequestFits, RequestsAssumption
  <2>2. /\ \A u \in Users : u # req.user => udata'.ent[u] = udata.ent[u]
        /\ PreferenceOf(udata'.ent[req.user])
             = Promise!Merged(PreferenceOf(udata.ent[req.user]), req.tty, req.beep, req.mode)
    BY <1>2, <2>1, InvGoodStore, SetFacts
  <2>3. Prefs' = [Prefs EXCEPT ![req.user] =
                    Promise!Merged(@, req.tty, req.beep, req.mode)]
    BY <2>1, <2>2 DEF Prefs
  <2>4. answer' = Promise!Answer("ACK", <<>>) /\ req' = NoRequest
    BY <1>2 DEF Reply, Answer, Promise!Answer
  <2> QED BY <2>1, <2>3, <2>4 DEF Promise!Set, Promise!Reply, Prefs
<1> QED BY <1>1, <1>2 DEF SetPref

LEMMA GetPrefIsTell ==
  ASSUME UdataAssumption, RequestsAssumption, RequestInv, GetPref
  PROVE  Promise!Refuse \/ Promise!Tell
<1> DEFINE p == udata.ent[req.user]
           told == IF Listed(udata, req.user) THEN <<p.tty, p.beep, p.mode>>
                   ELSE <<TTYSET_UNSET, -1, -1>>
<1>1. CASE Nak
  BY <1>1, NakIsRefuse DEF GetPref
<1>2. CASE req.user \in Accounts /\ Reply(Answer("PREF", told))
  <2>1. req.user \in Users /\ req.op = "GETPREF"
    BY <1>2 DEF GetPref, Handling, RequestsAssumption
  <2>2. Prefs[req.user] = PreferenceOf(p)
    BY <2>1 DEF Prefs
  <2>3. Listed(udata, req.user) \/ p = BlankEntry
    BY <2>1 DEF RequestInv, Stored
  <2>4. told = <<Prefs[req.user].tty, Prefs[req.user].beep, Prefs[req.user].mode>>
    BY <2>2, <2>3 DEF PreferenceOf, BlankEntry, UDATA_DEF
  <2>5. answer' = Promise!Answer("PREF", told) /\ req' = NoRequest
    BY <1>2 DEF Reply, Answer, Promise!Answer
  <2>6. Prefs' = Prefs
    BY DEF GetPref, Prefs
  <2> HIDE DEF told, p
  <2> QED BY <2>1, <2>4, <2>5, <2>6 DEF Promise!Tell, Promise!Reply, Prefs
<1> QED BY <1>1, <1>2 DEF GetPref

LEMMA OthersAreOther ==
  ASSUME RequestInv, GetListEnd \/ GetQMsg
  PROVE  Promise!Refuse \/ Promise!TellOther \/ UNCHANGED Promise!vars
<1>0. UNCHANGED udata /\ req.op \in {"GETLIST", "GETQMSG"}
  BY DEF GetListEnd, GetQMsg, Handling, RequestInv, RequestFits
<1>1. CASE Nak
  BY <1>0, <1>1, NakIsRefuse
<1>2. ASSUME NEW kind \in {"LIST", "QMSG"}, NEW args, Reply(Answer(kind, args))
      PROVE  Promise!TellOther
  BY <1>0, <1>2 DEF Reply, Answer, Promise!TellOther
<1>3. CASE GoOn("crashed")
  BY <1>0, <1>3, Stutters DEF GoOn, Prefs
<1> QED BY <1>1, <1>2, <1>3 DEF GetListEnd, GetQMsg

LEMMA StepIsPreference ==
  ASSUME UdataAssumption, RequestsAssumption, RequestInv, [Next]_vars
  PROVE  [Promise!Next]_(Promise!vars)
<1>1. CASE UNCHANGED vars
  BY <1>1, Stutters DEF vars, Prefs
<1>2. CASE \E r \in Requests : Receive(r)
  BY <1>2, ReceiveIsAsk DEF Promise!Next
<1>3. CASE Chat
  BY <1>3, InvGoodStore, ChatKeepsPrefs, SamePrefsSame, Stutters
<1>4. CASE World
  BY <1>4, Stutters DEF World, Mesg, Login, Logout, Occupy, Prefs
<1>5. CASE MsgCheck
  <2>1. CASE Nak
    BY <1>5, <2>1, NakIsRefuse DEF MsgCheck, Promise!Next
  <2>2. CASE GoOn("prefer")
    BY <1>5, <2>2, Stutters DEF MsgCheck, GoOn, Prefs
  <2> QED BY <1>5, <2>1, <2>2 DEF MsgCheck
<1>6. CASE MsgPrefer
  BY <1>6, PreferIsForget DEF Promise!Next
<1>7. CASE MsgFirst
  BY <1>7, Stutters DEF MsgFirst, Prefs
<1>8. CASE MsgMode
  <2>1. CASE Nak
    BY <1>8, <2>1, NakIsRefuse DEF MsgMode, Promise!Next
  <2>2. CASE GoOn("write")
    BY <1>8, <2>2, Stutters DEF MsgMode, GoOn, Prefs
  <2> QED BY <1>8, <2>1, <2>2 DEF MsgMode
<1>9. CASE MsgWrite
  BY <1>9, WriteIsDeliver DEF Promise!Next
<1>10. CASE GetList \/ \E u \in DOMAIN pending : GetListName(u)
  BY <1>10, Stutters DEF GetList, GetListName, Prefs
<1>11. CASE SetPref
  BY <1>11, SetPrefIsSet DEF Promise!Next
<1>12. CASE GetPref
  BY <1>12, GetPrefIsTell DEF Promise!Next
<1>13. CASE GetListEnd \/ GetQMsg
  BY <1>13, OthersAreOther DEF Promise!Next
<1> QED BY <1>1, <1>2, <1>3, <1>4, <1>5, <1>6, <1>7, <1>8, <1>9, <1>10, <1>11, <1>12, <1>13
        DEF Next, Handler

(* The requests, interleaved with the chat and with people who log in and  *)
(* out, implement Preferences: a preference is set as asked, told as it    *)
(* is, forgotten only by a message, and followed by every delivery         *)
(* (server.c:120-331).                                                     *)
THEOREM RequestsImplementPreferences == Spec => ImplementsPreferences
<1>1. Init => Promise!Init
  BY InitIsPreferences
<1>2. RequestInv /\ [Next]_vars => [Promise!Next]_(Promise!vars)
  BY UdataAssumption, RequestsAssumption, StepIsPreference
<1> QED BY <1>1, <1>2, RequestsInvariant, PTL DEF Spec, ImplementsPreferences, Promise!Spec
=============================================================================
