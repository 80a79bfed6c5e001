-------------------------- MODULE LineHistoryProps --------------------------
(***************************************************************************)
(* What is claimed of the line history.                                    *)
(***************************************************************************)
EXTENDS LineHistory

Entry == [ibuf : Buffers \cup {NULL}, ttlen : Nat, ulen : Nat]

\* Every variable holds a value of its type, and the cursor is in the line
\* that is edited (clchat.c:807-904).
LineTypeOK ==
  /\ line \in [Entries -> Entry]
  /\ backup \in [Entries -> Entry]
  /\ heap \in [Buffers -> Nat \cup {Free}]
  /\ ibqi \in Entries
  /\ stage \in {"select", "key", "undefined"}
  /\ fault \in {"none", "overrun", "overread", "bad free"}
  /\ fault # "none" => stage = "undefined"
  /\ ibuf_pos \in 0..Current.ulen

\* Every line has a buffer of its own that is allocated, and so has every
\* backup, whatever was recalled, edited and sent in whatever order; only the
\* backup of the oldest line may be a pointer to what is gone
\* (clchat.c:892-904, 1083-1095 copy entries and free their buffers).
LinesOwned ==
  /\ \A k \in Entries : line[k].ibuf # NULL => Allocated(line[k].ibuf)
  /\ \A k \in Entries \ {Last} : backup[k].ibuf # NULL => Allocated(backup[k].ibuf)
  /\ \A j, k \in Entries : line[j].ibuf # NULL =>
       /\ line[j].ibuf # backup[k].ibuf
       /\ line[j].ibuf = line[k].ibuf => j = k
  /\ \A j, k \in Entries : backup[j].ibuf # NULL /\ backup[j].ibuf = backup[k].ibuf => j = k

\* No buffer is lost while lines move, are replaced and are dropped
\* (clchat.c:1083-1095).
NothingLeaks == \A b \in Buffers : heap[b] # Free => ReferredTo(b)

\* The history has no holes, which is what KEY_UP relies on when it looks one
\* entry ahead (clchat.c:879), and a backup belongs to a line (clchat.c:1085).
NoHoles ==
  /\ \A k \in 1..(Last - 1) : line[k + 1].ibuf # NULL => line[k].ibuf # NULL
  /\ \A k \in 1..Last : backup[k].ibuf # NULL => line[k].ibuf # NULL
  /\ backup[0].ibuf = NULL
  /\ ibqi # 0 => line[ibqi].ibuf # NULL /\ backup[ibqi].ibuf # NULL
  /\ stage = "key" => Current.ibuf # NULL

\* A line fits its buffer; the newest has as many bytes as its entry says, and
\* any other that is not shorter than it says was never restored
\* (clchat.c:302-305, 659-667, 894-898).
LinesFit ==
  /\ \A k \in Entries : line[k].ibuf = NULL => line[k].ulen = 0
  /\ \A k \in Entries : line[k].ibuf # NULL =>
       line[k].ulen <= Size(line[k]) /\ Size(line[k]) <= line[k].ttlen
  /\ \A k \in Entries : Allocated(backup[k].ibuf) =>
       backup[k].ulen <= Size(backup[k]) /\ Size(backup[k]) <= backup[k].ttlen
  /\ line[0].ibuf # NULL => Size(line[0]) = line[0].ttlen
  /\ stage = "key" => Current.ulen < Current.ttlen

\* What the handlers of the keys rely on, all at once.
HistoryInv == LineTypeOK /\ LinesOwned /\ NothingLeaks /\ NoHoles /\ LinesFit

\* Typing a new line is safe: only editing a recalled line reads or writes
\* outside of a buffer, and free() is given a bad pointer only when the
\* backup of the oldest line is one (clchat.c:292-315, 835-869, 1087).
FaultsNeedHistory ==
  [][/\ fault' \in {"overrun", "overread"} => ibqi # 0
     /\ fault' = "bad free" => backup[Last].ibuf # NULL /\ ~Allocated(backup[Last].ibuf)
    ]_vars

-----------------------------------------------------------------------------
(* What the comments say and the code does not do.                         *)

\* clchat.c:65-67: a buffer has LCC_BUF_ADD_LEN bytes from the start, and "when
\* the buffer length minus LCC_BUF_ENLARGE_ZONE or more is used, the buffer is
\* enlarged": nothing is ever written behind the end of one.
NoOverrun == fault # "overrun"
=============================================================================
