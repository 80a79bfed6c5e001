------------------------------ MODULE MCServer ------------------------------
(***************************************************************************)
(* Small instances of SmsgServer for TLC.                                  *)
(***************************************************************************)
EXTENDS SmsgServerProps, TLC

CONSTANTS c1, c2, c3, u1, u2

MCStrings == {"", "ann", "bob", "password", "crystalball", "1"}

Cmd(op, user, arg) == [op |-> op, user |-> user, arg |-> arg]
Chat(ops, args)    == {Cmd(op, NoUser, arg) : op \in ops, arg \in args}

Door(u, n) == Cmd("CHATDOOR", u, n)

\* Two programs, each under its own login name, enter, rename themselves, talk
\* and fight for two nicknames.
RoomCmds ==
  (c1 :> {Door(u1, "ann")} \cup Chat({"C_WHO"}, {"crystalball"})
         \cup Chat({"C_SAY"}, {NoString}) \cup Chat({"C_NICK"}, {"bob"}))
  @@
  (c2 :> {Door(u2, "bob")} \cup Chat({"C_PSAY"}, {"ann"}))

\* An operator, and somebody who may become one and then bans the first.
ModerationCmds ==
  (c1 :> {Door(u1, "ann")} \cup Chat({"C_OPER"}, {"password"})
         \cup Chat({"C_OP"}, {"bob"}))
  @@
  (c2 :> {Door(u2, "bob")} \cup Chat({"C_BAN"}, {"ann"}))

\* Programs that join under any name, one after the other on the same
\* descriptor, with somebody left behind in the room when one goes; some
\* commands of theirs are refused or ignored, some are about themselves.
AnyNameCmds ==
  (c1 :> {Door(u2, "bob")} \cup Chat({"C_OPER"}, {"password"})
         \cup Chat({"C_KICK", "C_BAN"}, {"bob"}))
  @@
  (c2 :> {Door(u1, "ann"), Door(u2, "ann"), Door(u1, ""), Door(NoUser, NoString),
          Cmd("UNEXPECTED", NoUser, NoString)}
         \cup Chat({"C_NICK"}, {"ann", NoString}) \cup Chat({"C_DEOP"}, {"ann"})
         \cup Chat({"C_OPER"}, {"password", "bob"}) \cup Chat({"C_UNBAN"}, {"bob"})
         \cup Chat({"C_WHO", "C_BEEP", "C_AWAY"}, {NoString}))

\* Programs that come and go; one joins.
SlotCmds == [c \in Conns |-> IF c = c1 THEN {Door(u1, "ann")} ELSE {}]
=============================================================================
