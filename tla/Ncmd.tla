-------------------------------- MODULE Ncmd --------------------------------
(***************************************************************************)
(* Net commands as bytes (src/ncmd.c): an operation in two bytes, the      *)
(* number of arguments in two, and every argument after its length in      *)
(* four.  A buffer is a sequence of bytes; an offset counts from 0 as in   *)
(* the source.                                                             *)
(*                                                                         *)
(* An operator whose name ends in Slip is a plausible mistake in the       *)
(* definition below it; nothing uses it.                                   *)
(***************************************************************************)
EXTENDS Integers, Sequences, SequencesExt

\* Network byte order.
StoreNs(val) == <<(val \div 256) % 256, val % 256>>
StoreNl(val) == StoreNs(val \div 65536) \o StoreNs(val % 65536)

ReadNs(buf, p) == buf[p + 1] * 256 + buf[p + 2]
ReadNl(buf, p) == ReadNs(buf, p) * 65536 + ReadNs(buf, p + 2)

-----------------------------------------------------------------------------
(* Reading.                                                                *)

NcmdGet(buf)        == ReadNs(buf, 0)
NcmdGetNumArgs(buf) == ReadNs(buf, 2)

\* Slip: off by one, the last byte of a buffer counts as missing.
ArgEndSlip(buf, p) ==
  IF p # 0 /\ Len(buf) > p + 4 /\ Len(buf) > p + ReadNl(buf, p) + 4
    THEN p + ReadNl(buf, p) + 4 ELSE 0

\* Where the argument at p ends, or 0 when the buffer ends first.
ArgEnd(buf, p) ==
  IF p # 0 /\ Len(buf) >= p + 4 /\ Len(buf) >= p + ReadNl(buf, p) + 4
    THEN p + ReadNl(buf, p) + 4 ELSE 0

\* Where argument n begins, the arguments before it having been passed.
ArgStart(buf, n) ==
  LET end[p \in 0..Len(buf)] == ArgEnd(buf, p)
      at[k \in 0..n] == IF k = 0 THEN 4 ELSE end[at[k - 1]]
  IN  at[n]

\* The length of the command the buffer begins with, or 0 when it is not whole.
NcmdIsComplete(buf) ==
  IF Len(buf) < 4 THEN 0 ELSE ArgStart(buf, NcmdGetNumArgs(buf))

\* Argument n of a whole command.
NcmdGetArg(buf, n) ==
  LET i == ArgStart(buf, n) IN SubSeq(buf, i + 5, i + 4 + ReadNl(buf, i))

\* Slip: the operation and the number of arguments are left behind.
NcmdRemoveSlip(buf) ==
  IF NcmdIsComplete(buf) = 0 THEN buf ELSE SubSeq(buf, NcmdIsComplete(buf) - 3, Len(buf))

NcmdRemove(buf) == SubSeq(buf, NcmdIsComplete(buf) + 1, Len(buf))

-----------------------------------------------------------------------------
(* A command as its user thinks of it: ncmd_set(), and ncmd_add() for every  *)
(* argument, which counts it in two bytes.                                 *)

Command(op, args) == [op |-> op, args |-> args]

Encode(cmd) ==
  StoreNs(cmd.op) \o StoreNs(Len(cmd.args))
    \o FlattenSeq([k \in DOMAIN cmd.args |-> StoreNl(Len(cmd.args[k])) \o cmd.args[k]])

Decode(buf) ==
  Command(NcmdGet(buf), [k \in 1..NcmdGetNumArgs(buf) |-> NcmdGetArg(buf, k - 1)])
=============================================================================
