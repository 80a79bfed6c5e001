------------------------------ MODULE MCClient ------------------------------
(***************************************************************************)
(* Small instances of ChatClient for TLC.                                  *)
(***************************************************************************)
EXTENDS ChatClientProps, TLC

CONSTANTS c1, c2, u1, u2

MCStrings == {"", "ann", "bob", "cat", "password", "crystalball", "1"}

Cmd(op, user, arg) == [op |-> op, user |-> user, arg |-> arg]
Chat(ops, args)    == {Cmd(op, NoUser, arg) : op \in ops, arg \in args}
Door(u, n)         == Cmd("CHATDOOR", u, n)

\* An operator, and somebody who wants the operator's nickname, renames when it
\* becomes free, and may be moderated meanwhile.
ClientCmds ==
  (c1 :> {Door(u1, "ann")} \cup Chat({"C_KICK"}, {"bob"})
         \cup Chat({"C_OPER"}, {"password"}))
  @@
  (c2 :> {Door(u2, "bob")} \cup Chat({"C_NICK"}, {"ann"}))
=============================================================================
