---------------------------- MODULE Preferences ----------------------------
(***************************************************************************)
(* What smsg promises about messages to terminals, without the how: every  *)
(* user has a preference, changed only as its user asks or when its        *)
(* terminal is no longer the user's; a message goes to the preferred       *)
(* terminal if there is one, with the preferred beep; and whoever asks is  *)
(* told the preference as it is.  Any request may be refused.              *)
(***************************************************************************)
EXTENDS Integers

CONSTANTS
  Users, Ttys,
  Unset,      \* the terminal of who has no preference
  NoTty,      \* no terminal named: leave the preference as it is
  Requests,   \* what is asked
  NoRequest

VARIABLES
  pref,     \* the preference of each user
  request,  \* the request being handled
  answer    \* the answer to the latest request, or none so far

vars == <<pref, request, answer>>

Leave   == -2    \* a beep or mode that changes nothing
Default == -1    \* no preference
BeepDef == 1     \* who has no preference is beeped

NoPreference == [tty |-> Unset, beep |-> Default, mode |-> Default]

\* An answer is a net command: its name and its arguments.
Answer(kind, args) == [kind |-> kind, args |-> args]
NoAnswer == Answer("NONE", <<>>)

Init ==
  /\ pref = [u \in Users |-> NoPreference]
  /\ request = NoRequest
  /\ answer = NoAnswer

Merged(old, tty, beep, mode) ==
  [tty  |-> IF tty = NoTty THEN old.tty ELSE tty,
   beep |-> IF beep = Leave THEN old.beep ELSE beep,
   mode |-> IF mode = Leave THEN old.mode ELSE mode]

Rings(p) == (IF p.beep = Default THEN BeepDef ELSE p.beep) = 1

Ask(r) ==
  /\ request = NoRequest
  /\ request' = r
  /\ answer' = NoAnswer
  /\ UNCHANGED pref

Reply(op, kind, args) ==
  /\ request.op = op
  /\ answer' = Answer(kind, args)
  /\ request' = NoRequest

Set ==
  /\ Reply("SETPREF", "ACK", <<>>)
  /\ pref' = [pref EXCEPT ![request.user] =
                Merged(@, request.tty, request.beep, request.mode)]

Tell ==
  /\ LET p == pref[request.user]
     IN  Reply("GETPREF", "PREF", <<p.tty, p.beep, p.mode>>)
  /\ UNCHANGED pref

\* The preferred terminal turns out not to be the recipient's.
Forget ==
  /\ request.op = "MSG"
  /\ pref' = [pref EXCEPT ![request.user].tty = Unset]
  /\ UNCHANGED <<request, answer>>

Deliver(tty) ==
  /\ Reply("MSG", "DELIVERED", <<tty, Rings(pref[request.user])>>)
  /\ pref[request.user].tty \in {Unset, tty}
  /\ UNCHANGED pref

Refuse ==
  /\ Reply(request.op, "NAK", <<>>)
  /\ UNCHANGED pref

\* Requests that have nothing to do with preferences.
TellOther ==
  /\ request.op \in {"GETLIST", "GETQMSG"}
  /\ answer'.kind \in {"LIST", "QMSG"}
  /\ request' = NoRequest
  /\ UNCHANGED pref

Next ==
  \/ \E r \in Requests : Ask(r)
  \/ Set \/ Tell \/ Forget \/ Refuse \/ TellOther
  \/ \E tty \in Ttys : Deliver(tty)

Spec == Init /\ [][Next]_vars
=============================================================================
