----------------------------- MODULE MCRequests -----------------------------
(***************************************************************************)
(* A small instance of SmsgRequests for TLC: u1 has an account, u2 has     *)
(* none; "gone" is a terminal that nobody is ever on.                      *)
(***************************************************************************)
EXTENDS SmsgRequestsProps, TLC

CONSTANTS u1, u2, l1, l2

MCBytes == {-2, -1, 0}

Req(op, user, t, beep, isLocal) ==
  [op |-> op, user |-> user, tty |-> t, beep |-> beep, mode |-> UDATA_LEAVE,
   local |-> isLocal]

Msg(user) == Req("MSG", user, NoTty, UDATA_DEF, FALSE)

\* What can be asked, from this host and from others.
MCAsked ==
  {Msg(NoUser), Msg(u1), Msg(u2),
   Req("SETPREF", u1, l1, UDATA_LEAVE, TRUE),
   Req("SETPREF", u1, NoTty, 0, TRUE),
   Req("SETPREF", u1, l1, UDATA_DEF, FALSE),
   Req("GETLIST", NoUser, NoTty, UDATA_DEF, FALSE)}
  \cup {Req(op, u1, NoTty, UDATA_DEF, here) :
          op \in {"GETPREF", "GETQMSG"}, here \in BOOLEAN}
=============================================================================
