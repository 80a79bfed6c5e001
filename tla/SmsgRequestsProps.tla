------------------------- MODULE SmsgRequestsProps -------------------------
(***************************************************************************)
(* Properties of SmsgRequests.                                             *)
(***************************************************************************)
EXTENDS SmsgRequests

PartialMaps(S, T) == UNION {[D -> T] : D \in SUBSET S}

Steps == {"idle", "handle", "prefer", "first", "mode", "write", "list",
          "crashed"}

\* Every variable has its type; of an answer, its kind.  In particular every
\* entry has a terminal that can be compared and sent (udata.c, udata_add).
TypeOK ==
  /\ udata \in Store
  /\ login \in [Lines -> Users \cup {NoUser}]
  /\ mesg \in [Lines -> BOOLEAN]
  /\ step \in Steps
  /\ req \in Requests \cup {NoRequest}
  /\ tty \in Ttys \cup {NoTty}
  /\ tbeep \in Int
  /\ pending \in PartialMaps(Users, Lines)
  /\ list \in PartialMaps(Users, BOOLEAN)
  /\ answer.kind \in {"NONE", "NAK", "ACK", "DELIVERED", "LIST", "PREF", "QMSG"}
  /\ seen \in [Lines -> SUBSET (Users \cup {NoUser})]
  /\ modes \in [Lines -> SUBSET BOOLEAN]

-----------------------------------------------------------------------------
(* The inductive invariant: TypeOK and what the handlers rely on between   *)
(* their looks at the world.                                               *)

\* A user without an entry has the default preference.
Stored == \A u \in Users : Listed(udata, u) \/ udata.ent[u] = BlankEntry

RequestFits ==
  /\ step = "idle" => req = NoRequest
  /\ step # "idle" => req \in Requests
  /\ step \in {"prefer", "first", "mode", "write"} =>
       req.op = "MSG" /\ req.user \in Users
  /\ step = "list" => req.op = "GETLIST"

HistoryTrue ==
  step # "idle" => \A l \in Lines : login[l] \in seen[l] /\ mesg[l] \in modes[l]

\* The terminal chosen was the recipient's, and is the preferred one if one
\* still is preferred.
TerminalFits ==
  /\ step \in {"first", "mode", "write"} => tbeep = udata.ent[req.user].beep
  /\ step = "first" => udata.ent[req.user].tty = TTYSET_UNSET
  /\ step \in {"mode", "write"} /\ tty # NoTty =>
       /\ tty \in Lines
       /\ req.user \in seen[tty]
       /\ udata.ent[req.user].tty \in {TTYSET_UNSET, tty}
  /\ step = "write" => tty # NoTty /\ TRUE \in modes[tty]

\* The list starts empty; whoever stayed logged in is in it or about to be.
ListFits ==
  /\ step \in {"idle", "handle"} => list = Nobody
  /\ step = "list" =>
       /\ \A u \in DOMAIN pending : u \in seen[pending[u]]
       /\ \A u \in DOMAIN list : \E l \in Lines : u \in seen[l] /\ list[u] \in modes[l]
       /\ \A u \in Users :
            (\E l \in Lines : seen[l] = {u}) => u \in DOMAIN pending \cup DOMAIN list

\* Between two steps of a handler the world may change, but what the handler
\* has found out was true during the request (server.c:120-260).
RequestInv ==
  TypeOK /\ Stored /\ RequestFits /\ HistoryTrue /\ TerminalFits /\ ListFits

-----------------------------------------------------------------------------
\* The step ends the request with an answer of this kind.
Answers(kind) == step # "idle" /\ answer' # answer /\ answer'.kind = kind

\* A message is written to a terminal its recipient was logged in on, and
\* that accepted messages, since the request arrived, whatever happened
\* between the handler's looks at the login records and the terminal and
\* whatever terminal was preferred (server.c:132-163).
MessageReachesRecipient ==
  [][Answers("DELIVERED") =>
       /\ req.user \in seen[answer'.args[1]]
       /\ TRUE \in modes[answer'.args[1]]]_vars

\* A preference for a terminal that its user has not left while a message was
\* delivered is not forgotten: only a SETPREF for that user, sent from this
\* host, replaces it (server.c:132-138).
SteadyPreferenceKept ==
  [][\A u \in Users :
       LET t == udata.ent[u].tty
       IN  /\ udata'.ent[u].tty # t
           /\ t \in Lines
           /\ seen[t] = {u}
           => req.op = "SETPREF" /\ req.user = u /\ req.local]_vars

\* The list that answers GETLIST has everybody who stayed logged in on some
\* line while it was made, nobody who was never logged in meanwhile, and with
\* each name a mesg state that a line of that user had meanwhile
\* (server.c:242-257).
ListIsTrue ==
  [][Answers("LIST") =>
       LET names == answer'.args[1]
       IN  /\ \A u \in Users :
                (\E l \in Lines : seen[l] = {u}) => u \in DOMAIN names
           /\ \A u \in DOMAIN names :
                \E l \in Lines : u \in seen[l] /\ names[u] \in modes[l]]_vars

\* The store holds a preference for every user: that of who has no entry is
\* the default.
PreferenceOf(e) == [tty |-> e.tty, beep |-> e.beep, mode |-> e.mode]

Promise == INSTANCE Preferences WITH
  Unset   <- TTYSET_UNSET,
  request <- req,
  pref    <- [u \in Users |-> PreferenceOf(udata.ent[u])]

\* The handlers implement Preferences: what they and the chat do to the store
\* amounts to a preference per user that is set as asked, told as it is and
\* otherwise left alone, and a delivery follows it (server.c:120-331).
ImplementsPreferences == Promise!Spec
=============================================================================
