---------------------------- MODULE LineHistory ----------------------------
(***************************************************************************)
(* The line editor of the chat client with its history (src/src/clchat.c): *)
(* iqueue[k][0], the lines, newest first, iqueue[k][1], the backups of     *)
(* recalled lines, and the heap they live in.                              *)
(*                                                                         *)
(* The characters are left out: what matters is how long a line is, how    *)
(* long its entry says its buffer is, and how long the buffer really is.   *)
(* The insert key may change insertmode before any other key, so a         *)
(* character is inserted in either mode.                                   *)
(* A buffer is an object of the C heap: malloc() and realloc() give one    *)
(* that nothing refers to.  A write or read outside of an object, and a    *)
(* free() of what is none, is undefined behaviour, and ends the model with *)
(* the name of the fault.                                                  *)
(*                                                                         *)
(* An operator whose name ends in Slip is a plausible mistake in the       *)
(* definition below it; nothing uses it.                                   *)
(***************************************************************************)
EXTENDS Integers

CONSTANTS
  Buffers,               \* the objects malloc() may give
  NULL,
  CMDLINE_HISTLEN,       \* lines kept, the one being typed included
  LCC_BUF_ADD_LEN,       \* bytes a buffer starts with, and grows by
  LCC_BUF_ENLARGE_ZONE,  \* free bytes below which a buffer grows
  MaxLine,               \* bound: the longest line typed
  MaxInsert              \* bound: the longest completion

ASSUME LineAssumption ==
  /\ NULL \notin Buffers
  /\ CMDLINE_HISTLEN \in Nat \ {0}
  /\ LCC_BUF_ADD_LEN \in Nat \ {0}
  /\ LCC_BUF_ENLARGE_ZONE \in 0..(LCC_BUF_ADD_LEN - 1)
  /\ MaxLine \in Nat
  /\ MaxInsert \in Nat \ {0}

Last    == CMDLINE_HISTLEN - 1
Entries == 0..Last

VARIABLES
  line,         \* iqueue[k][0]: buffer, length it is taken to have, length used
  backup,       \* iqueue[k][1]: the recalled line k as it was
  heap,         \* size of every allocated object
  ibqi,         \* the entry in the editor
  ibuf_pos,     \* the cursor
  stage,        \* "select", "key" between the allocation and the key, "undefined"
  fault         \* undefined behaviour, if any

editorVars == <<ibqi, ibuf_pos>>
vars       == <<line, backup, heap, ibqi, ibuf_pos, stage, fault>>

Free == -1

\* struct ibuf_s
Buf(ibuf, ttlen, ulen) == [ibuf |-> ibuf, ttlen |-> ttlen, ulen |-> ulen]

\* The lengths of an entry without a buffer are not read before they are set.
NoBuffer == Buf(NULL, 0, 0)

Init ==
  /\ line = [k \in Entries |-> NoBuffer]
  /\ backup = [k \in Entries |-> NoBuffer]
  /\ heap = [b \in Buffers |-> Free]
  /\ ibqi = 0
  /\ ibuf_pos = 0
  /\ stage = "select"
  /\ fault = "none"

-----------------------------------------------------------------------------
(* The heap.                                                               *)

Allocated(b) == b # NULL /\ heap[b] # Free
Size(e)      == heap[e.ibuf]

ReferredTo(b) == \E k \in Entries : line[k].ibuf = b \/ backup[k].ibuf = b

\* What malloc() and realloc() may give.
Unused == {b \in Buffers : heap[b] = Free /\ ~ReferredTo(b)}

\* realloc() may give the object it was given.
Regrown(old) == Unused \cup {old}

Moved(old, new, size) == [heap EXCEPT ![old] = Free, ![new] = size]

\* Nothing is said of the program after that.
Fails(what) ==
  /\ fault' = what
  /\ stage' = "undefined"
  /\ UNCHANGED <<line, backup, heap, editorVars>>

-----------------------------------------------------------------------------
(* Before a key is read: room in the line that is edited.                  *)

RoomSlip(e) == e.ulen > e.ttlen

NeedsRoom(e) == e.ulen >= e.ttlen - LCC_BUF_ENLARGE_ZONE

Current == line[ibqi]

MakeRoom ==
  /\ stage = "select"
  /\ \/ \E new \in Unused :
          /\ Current.ibuf = NULL
          /\ line' = [line EXCEPT ![ibqi] = Buf(new, LCC_BUF_ADD_LEN, 0)]
          /\ heap' = [heap EXCEPT ![new] = LCC_BUF_ADD_LEN]
     \/ \E new \in Regrown(Current.ibuf) :
          /\ Current.ibuf # NULL /\ NeedsRoom(Current)
          /\ line' = [line EXCEPT ![ibqi] = Buf(new, Current.ttlen + LCC_BUF_ADD_LEN, Current.ulen)]
          /\ heap' = Moved(Current.ibuf, new, Current.ttlen + LCC_BUF_ADD_LEN)
     \/ Current.ibuf # NULL /\ ~NeedsRoom(Current) /\ UNCHANGED <<line, heap>>
  /\ stage' = "key"
  /\ UNCHANGED <<backup, editorVars, fault>>

-----------------------------------------------------------------------------
(* The keys.                                                               *)

LongerLine(n, insertmode) ==
  LET new == IF insertmode THEN Current.ulen + n ELSE ibuf_pos + n
  IN  IF new < Current.ulen THEN Current.ulen ELSE new

\* lcc_input_edit_wizard(): a character, or the rest of a completed word.
Insert(n, insertmode) ==
  /\ stage = "key" /\ LongerLine(n, insertmode) <= MaxLine
  /\ LET len == LongerLine(n, insertmode)
     IN  \/ \E new \in Regrown(Current.ibuf) :
              /\ len > Current.ttlen
              /\ line' = [line EXCEPT ![ibqi] = Buf(new, len, len)]
              /\ heap' = Moved(Current.ibuf, new, len)
         \/ /\ len <= Current.ttlen /\ len <= Size(Current)
            /\ line' = [line EXCEPT ![ibqi] = Buf(Current.ibuf, Current.ttlen, len)]
            /\ heap' = heap
  /\ ibuf_pos' = ibuf_pos + n
  /\ stage' = "select"
  /\ UNCHANGED <<backup, ibqi, fault>>

InsertOverrun(n, insertmode) ==
  /\ stage = "key" /\ LongerLine(n, insertmode) <= MaxLine
  /\ LongerLine(n, insertmode) <= Current.ttlen /\ LongerLine(n, insertmode) > Size(Current)
  /\ Fails("overrun")

\* delete and backspace move the rest of the line, and one byte more.
DeleteAt(p) ==
  /\ p \in 0..(Current.ulen - 1)
  /\ p < Current.ulen - 1 => Current.ulen < Size(Current)
  /\ line' = [line EXCEPT ![ibqi] = Buf(Current.ibuf, Current.ttlen, Current.ulen - 1)]
  /\ ibuf_pos' = p
  /\ stage' = "select"
  /\ UNCHANGED <<backup, heap, ibqi, fault>>

Delete    == stage = "key" /\ DeleteAt(ibuf_pos)
Backspace == stage = "key" /\ DeleteAt(ibuf_pos - 1)

DeleteOverread ==
  /\ stage = "key"
  /\ \E p \in {ibuf_pos, ibuf_pos - 1} :
       p \in 0..(Current.ulen - 2) /\ Current.ulen >= Size(Current)
  /\ Fails("overread")

\* home, end, left, right
MoveCursor ==
  /\ stage = "key"
  /\ ibuf_pos' \in {0, Current.ulen} \cup ({ibuf_pos - 1, ibuf_pos + 1} \cap (0..Current.ulen))
  /\ stage' = "select"
  /\ UNCHANGED <<line, backup, heap, ibqi, fault>>

\* C-u
EraseLine ==
  /\ stage = "key"
  /\ line' = [line EXCEPT ![ibqi] = Buf(Current.ibuf, Current.ttlen, 0)]
  /\ ibuf_pos' = 0
  /\ stage' = "select"
  /\ UNCHANGED <<backup, heap, ibqi, fault>>

\* Slip: the backup shares the buffer of the line.
BackUpSlip(k) ==
  IF k # 0 /\ backup[k].ibuf = NULL
    THEN backup' = [backup EXCEPT ![k] = line[k]] /\ heap' = heap
    ELSE UNCHANGED <<backup, heap>>

\* A line that is recalled the first time is copied; the copy gets as many
\* bytes as the line has characters, and is taken to have as many as the
\* line's buffer.
BackUp(k) ==
  IF k # 0 /\ backup[k].ibuf = NULL
    THEN \E new \in Unused :
           /\ backup' = [backup EXCEPT ![k] = Buf(new, line[k].ttlen, line[k].ulen)]
           /\ heap' = [heap EXCEPT ![new] = line[k].ulen]
    ELSE UNCHANGED <<backup, heap>>

GoTo(k) ==
  /\ ibqi' = k
  /\ ibuf_pos' = line[k].ulen
  /\ BackUp(k)
  /\ stage' = "select"
  /\ UNCHANGED <<line, fault>>

OlderLineSlip == ibqi < Last

OlderLine == ibqi < Last /\ line[ibqi + 1].ibuf # NULL

Up   == stage = "key" /\ OlderLine /\ GoTo(ibqi + 1)
Down == stage = "key" /\ ibqi > 0 /\ GoTo(ibqi - 1)

\* A key that changes no line: insert, page up and down, up and down at the end.
OtherKey == stage = "key" /\ stage' = "select" /\ UNCHANGED <<line, backup, heap, editorVars, fault>>

-----------------------------------------------------------------------------
(* Return: the line is done, and everything moves one entry back.          *)

\* A recalled line becomes the newest, its backup takes its place.
Recalled ==
  IF ibqi = 0 THEN line ELSE [line EXCEPT ![0] = line[ibqi], ![ibqi] = backup[ibqi]]

\* Slip: the backup stays in its place as well.
BackupsLeftSlip == backup

BackupsLeft == IF ibqi = 0 THEN backup ELSE [backup EXCEPT ![ibqi] = NoBuffer]

\* Slip: what was typed before the line was recalled is forgotten.
DroppedSlip == <<NULL, Recalled[Last].ibuf, BackupsLeft[Last].ibuf>>

\* What is given to free(), one call after the other.
Dropped  == <<IF ibqi = 0 THEN NULL ELSE line[0].ibuf, Recalled[Last].ibuf, BackupsLeft[Last].ibuf>>
Releases == {Dropped[i] : i \in 1..3} \ {NULL}

FreeFails ==
  \/ \E b \in Releases : ~Allocated(b)
  \/ \E i, j \in 1..3 : i # j /\ Dropped[i] = Dropped[j] /\ Dropped[i] # NULL

\* Slip: the newest line is left in its place as well.
ShiftedSlip == [k \in Entries |-> IF k = 0 THEN Recalled[0] ELSE Recalled[k - 1]]

\* The backups do not move with the lines: the loop tests the entry that was
\* in the editor, whose backup is gone, instead of the entry it moves.
Shifted ==
  [k \in Entries |-> IF k = 0 THEN NoBuffer ELSE Recalled[k - 1]]

Enter ==
  /\ stage = "key" /\ ~FreeFails
  /\ heap' = [b \in Buffers |-> IF b \in Releases THEN Free ELSE heap[b]]
  /\ line' = Shifted
  /\ backup' = BackupsLeft
  /\ ibqi' = 0
  /\ ibuf_pos' = 0
  /\ stage' = "select"
  /\ UNCHANGED fault

EnterBadFree == stage = "key" /\ FreeFails /\ Fails("bad free")

-----------------------------------------------------------------------------
Key ==
  \/ \E n \in 1..MaxInsert, insertmode \in BOOLEAN :
       Insert(n, insertmode) \/ InsertOverrun(n, insertmode)
  \/ Delete \/ Backspace \/ DeleteOverread
  \/ MoveCursor \/ EraseLine
  \/ Up \/ Down \/ OtherKey
  \/ Enter \/ EnterBadFree

Next == MakeRoom \/ Key

Spec == Init /\ [][Next]_vars
=============================================================================
