------------------------- MODULE LineHistoryProof -------------------------
(***************************************************************************)
(* HistoryInv holds for any number of lines, any heap and any size of      *)
(* buffers, and so do the properties of the line history.                  *)
(***************************************************************************)
EXTENDS LineHistoryProps, TLAPS

LEMMA InitHolds == Init => HistoryInv
  BY LineAssumption DEF Last, Entries, Free, Entry, Buf, NoBuffer, Current, Size, Allocated, ReferredTo, Init, HistoryInv, LineTypeOK, LinesOwned, NothingLeaks, NoHoles, LinesFit

\* The line in the editor gets a buffer of its own, new, grown or the same.
LEMMA GrownKeeps ==
  ASSUME HistoryInv, stage = "key" \/ stage = "select",
         NEW new \in Unused \cup {Current.ibuf}, new # NULL,
         NEW ttlen \in Nat, NEW ulen \in Nat, ulen <= ttlen,
         line' = [line EXCEPT ![ibqi] = Buf(new, ttlen, ulen)],
         heap' = [b \in Buffers |-> IF b = new THEN ttlen
                                    ELSE IF b = Current.ibuf THEN Free ELSE heap[b]],
         UNCHANGED <<backup, ibqi, fault>>,
         Current.ibuf = NULL => ibqi = 0,
         ibuf_pos' \in 0..ulen, stage' \in {"select", "key"},
         stage' = "key" => ulen < ttlen
  PROVE  HistoryInv'
<1> USE LineAssumption DEF Last, Entries, Free, Entry, Buf, NoBuffer, Current, Size, Allocated, ReferredTo
<1> USE DEF HistoryInv
<1>1. new \in Buffers /\ ibqi \in Entries
  BY DEF LineTypeOK, Unused
<1>2. \A k \in Entries : line'[k] = IF k = ibqi THEN Buf(new, ttlen, ulen) ELSE line[k]
  BY <1>1 DEF LineTypeOK
<1>3. \A k \in Entries : backup[k].ibuf # new
  BY <1>1 DEF Unused, LinesOwned, LineTypeOK
<1>4. \A k \in Entries : k # ibqi => line[k].ibuf # new
  BY <1>1 DEF Unused, LinesOwned, LineTypeOK
<1>a. \A k \in Entries : /\ line'[k].ibuf = IF k = ibqi THEN new ELSE line[k].ibuf
                         /\ line'[k].ttlen = IF k = ibqi THEN ttlen ELSE line[k].ttlen
                         /\ line'[k].ulen = IF k = ibqi THEN ulen ELSE line[k].ulen
  BY <1>2
<1>b. \A k \in Entries : line[k].ibuf \in Buffers \cup {NULL} /\ backup[k].ibuf \in Buffers \cup {NULL}
  BY DEF LineTypeOK
<1>c. /\ heap'[new] = ttlen
      /\ \A k \in Entries \ {ibqi} : line[k].ibuf # NULL => heap'[line[k].ibuf] = heap[line[k].ibuf]
      /\ \A k \in Entries : backup[k].ibuf # NULL => heap'[backup[k].ibuf] = heap[backup[k].ibuf]
  BY <1>1, <1>3, <1>4, <1>b DEF LinesOwned
<1>5. LineTypeOK'
  BY <1>1, <1>2 DEF LineTypeOK
<1>6. LinesOwned'
  <2>1. \A k \in Entries : line'[k].ibuf # NULL => Allocated(line[k].ibuf)'
    BY <1>1, <1>a, <1>c DEF LinesOwned
  <2>2. \A k \in Entries \ {Last} : backup'[k].ibuf # NULL => Allocated(backup[k].ibuf)'
    BY <1>c DEF LinesOwned
  <2>3. \A j, k \in Entries : line'[j].ibuf # NULL =>
          line'[j].ibuf # backup'[k].ibuf /\ (line'[j].ibuf = line'[k].ibuf => j = k)
    BY <1>1, <1>3, <1>4, <1>a DEF LinesOwned
  <2>4. \A j, k \in Entries : backup'[j].ibuf # NULL /\ backup'[j].ibuf = backup'[k].ibuf => j = k
    BY DEF LinesOwned
  <2> QED
    BY <2>1, <2>2, <2>3, <2>4 DEF LinesOwned
<1>7. NothingLeaks'
  BY <1>1, <1>a DEF NothingLeaks, LineTypeOK
<1>8. NoHoles'
  BY <1>1, <1>a DEF NoHoles
<1>9. LinesFit'
  <2>1. \A k \in Entries : line'[k].ibuf = NULL => line'[k].ulen = 0
    BY <1>1, <1>a DEF LinesFit
  <2>2. \A k \in Entries : line'[k].ibuf # NULL =>
          line'[k].ulen <= Size(line[k])' /\ Size(line[k])' <= line'[k].ttlen
    BY <1>1, <1>a, <1>c DEF LinesFit
  <2>3. \A k \in Entries : Allocated(backup[k].ibuf)' =>
          backup'[k].ulen <= Size(backup[k])' /\ Size(backup[k])' <= backup'[k].ttlen
    BY <1>c DEF LinesFit
  <2>4. line'[0].ibuf # NULL => Size(line[0])' = line'[0].ttlen
    BY <1>1, <1>a, <1>c DEF LinesFit
  <2> QED
    BY <1>1, <1>a, <2>1, <2>2, <2>3, <2>4 DEF LinesFit
<1> QED
  BY <1>5, <1>6, <1>7, <1>8, <1>9

\* Only the length used of the line in the editor changes, and it still fits.
LEMMA EditedKeeps ==
  ASSUME HistoryInv, stage = "key",
         NEW ulen \in Nat, ulen <= Size(Current),
         line' = [line EXCEPT ![ibqi] = Buf(Current.ibuf, Current.ttlen, ulen)],
         UNCHANGED <<backup, heap, ibqi, fault>>,
         ibuf_pos' \in 0..ulen, stage' = "select"
  PROVE  HistoryInv'
<1> USE LineAssumption DEF Last, Entries, Free, Entry, Buf, NoBuffer, Current, Size, Allocated, ReferredTo
<1> USE DEF HistoryInv
<1>1. ibqi \in Entries /\ Current.ibuf # NULL
  BY DEF LineTypeOK, NoHoles
<1>2. \A k \in Entries : line'[k] = IF k = ibqi THEN Buf(Current.ibuf, Current.ttlen, ulen) ELSE line[k]
  BY <1>1 DEF LineTypeOK
<1>3. \A k \in Entries : line'[k].ibuf = line[k].ibuf /\ line'[k].ttlen = line[k].ttlen
  BY <1>2
<1>4. LineTypeOK'
  BY <1>1, <1>2 DEF LineTypeOK
<1>5. LinesOwned'
  BY <1>3 DEF LinesOwned
<1>6. NothingLeaks'
  BY <1>3 DEF NothingLeaks
<1>7. NoHoles'
  BY <1>1, <1>3 DEF NoHoles
<1>8. LinesFit'
  BY <1>1, <1>2, <1>3 DEF LinesFit
<1> QED
  BY <1>4, <1>5, <1>6, <1>7, <1>8

\* The line in the editor, its buffer and the cursor.
LEMMA CurrentIs ==
  ASSUME HistoryInv
  PROVE  /\ ibqi \in Entries /\ heap \in [Buffers -> Nat \cup {Free}]
         /\ Current.ibuf \in Buffers \cup {NULL}
         /\ Current.ttlen \in Nat /\ Current.ulen \in Nat /\ ibuf_pos \in 0..Current.ulen
         /\ Current.ibuf = NULL => ibqi = 0 /\ Current.ulen = 0
         /\ Current.ibuf # NULL =>
              Size(Current) \in Nat /\ Current.ulen <= Size(Current) /\ Size(Current) <= Current.ttlen
         /\ stage = "key" => Current.ibuf # NULL
<1> USE LineAssumption DEF Last, Entries, Free, Entry, Current, Size, HistoryInv
<1>1. /\ ibqi \in Entries /\ heap \in [Buffers -> Nat \cup {Free}] /\ line[ibqi] \in Entry
      /\ ibuf_pos \in 0..Current.ulen
  BY DEF LineTypeOK
<1>2. Current.ibuf \in Buffers \cup {NULL} /\ Current.ttlen \in Nat /\ Current.ulen \in Nat
  BY <1>1
<1>3. Current.ibuf = NULL => ibqi = 0 /\ Current.ulen = 0
  BY <1>1 DEF NoHoles, LinesFit
<1>4. stage = "key" => Current.ibuf # NULL
  BY DEF NoHoles
<1>5. Current.ibuf # NULL => Current.ulen <= Size(Current) /\ Size(Current) <= Current.ttlen
  BY <1>1 DEF LinesFit
<1>6. Current.ibuf # NULL => Size(Current) \in Nat
  BY <1>1, <1>2, <1>5
<1> QED
  BY <1>1, <1>2, <1>3, <1>4, <1>5, <1>6

\* malloc() and realloc() give an object.
LEMMA NewIs ==
  ASSUME NEW new, new \in Unused \/ new \in Regrown(Current.ibuf), Current.ibuf \in Buffers \/ new \in Unused
  PROVE  new # NULL /\ new \in Unused \cup {Current.ibuf} /\ new \in Buffers
  BY LineAssumption DEF Unused, Regrown

LEMMA MakeRoomKeeps == HistoryInv /\ MakeRoom => HistoryInv'
<1> SUFFICES ASSUME HistoryInv, MakeRoom PROVE HistoryInv'
  OBVIOUS
<1>1. /\ ibqi' = ibqi /\ ibuf_pos' = ibuf_pos /\ backup' = backup /\ fault' = fault
      /\ stage = "select" /\ stage' = "key"
  BY DEF MakeRoom, editorVars
<1>c. LCC_BUF_ADD_LEN \in Nat \ {0}
  BY LineAssumption
<1>2. CASE Current.ibuf = NULL
  <2>1. PICK new \in Unused :
          /\ line' = [line EXCEPT ![ibqi] = Buf(new, LCC_BUF_ADD_LEN, 0)]
          /\ heap' = [heap EXCEPT ![new] = LCC_BUF_ADD_LEN]
    BY <1>2 DEF MakeRoom
  <2>2. new # NULL /\ new \in Unused \cup {Current.ibuf} /\ new \in Buffers
    BY NewIs
  <2>3. heap' = [b \in Buffers |-> IF b = new THEN LCC_BUF_ADD_LEN
                                   ELSE IF b = Current.ibuf THEN Free ELSE heap[b]]
    BY <1>2, <2>1, <2>2, CurrentIs, LineAssumption
  <2>4. 0 \in Nat /\ 0 <= LCC_BUF_ADD_LEN /\ 0 < LCC_BUF_ADD_LEN /\ ibuf_pos' \in 0..0
    BY <1>1, <1>2, <1>c, CurrentIs
  <2> QED
    BY <1>1, <1>c, <2>1, <2>2, <2>3, <2>4, CurrentIs, GrownKeeps
<1>3. CASE Current.ibuf # NULL /\ NeedsRoom(Current)
  <2> DEFINE size == Current.ttlen + LCC_BUF_ADD_LEN
  <2>1. PICK new \in Regrown(Current.ibuf) :
          /\ line' = [line EXCEPT ![ibqi] = Buf(new, size, Current.ulen)]
          /\ heap' = Moved(Current.ibuf, new, size)
    BY <1>3 DEF MakeRoom
  <2>2. new # NULL /\ new \in Unused \cup {Current.ibuf} /\ new \in Buffers
    BY <1>3, <2>1, CurrentIs, NewIs
  <2>3. size \in Nat /\ Current.ulen <= size /\ Current.ulen < size
    BY <1>3, <1>c, CurrentIs
  <2>4. heap' = [b \in Buffers |-> IF b = new THEN size
                                   ELSE IF b = Current.ibuf THEN Free ELSE heap[b]]
    BY <1>3, <2>1, <2>2, CurrentIs DEF Moved
  <2> HIDE DEF size
  <2> QED
    BY <1>1, <1>3, <2>1, <2>2, <2>3, <2>4, CurrentIs, GrownKeeps
<1>4. CASE Current.ibuf # NULL /\ ~NeedsRoom(Current)
  <2>1. line' = line /\ heap' = heap
    BY <1>4 DEF MakeRoom
  <2>2. Current.ulen < Current.ttlen
    BY <1>4, CurrentIs, LineAssumption DEF NeedsRoom
  <2>3. LineTypeOK' /\ LinesOwned' /\ NothingLeaks'
    <3>1. LineTypeOK'
      BY <1>1, <2>1 DEF HistoryInv, LineTypeOK, Current
    <3>2. LinesOwned'
      BY <1>1, <2>1 DEF HistoryInv, LinesOwned, Allocated
    <3>3. NothingLeaks'
      BY <1>1, <2>1 DEF HistoryInv, NothingLeaks, ReferredTo, Allocated
    <3> QED
      BY <3>1, <3>2, <3>3
  <2>4. NoHoles' /\ LinesFit'
    BY <1>1, <1>4, <2>1, <2>2 DEF HistoryInv, NoHoles, LinesFit, Current, Size, Allocated
  <2> QED
    BY <2>3, <2>4 DEF HistoryInv
<1> QED
  BY <1>2, <1>3, <1>4

LEMMA InsertKeeps ==
  ASSUME NEW n \in 1..MaxInsert, NEW insertmode \in BOOLEAN, HistoryInv, Insert(n, insertmode)
  PROVE  HistoryInv'
<1> DEFINE len == LongerLine(n, insertmode)
<1>1. /\ ibqi' = ibqi /\ backup' = backup /\ fault' = fault
      /\ stage = "key" /\ stage' = "select" /\ ibuf_pos' = ibuf_pos + n
  BY DEF Insert
<1>2. Current.ibuf # NULL
  BY <1>1, CurrentIs
<1>3. len \in Nat /\ ibuf_pos' \in 0..len
  BY <1>1, CurrentIs DEF LongerLine
<1>4. CASE len > Current.ttlen
  <2>1. PICK new \in Regrown(Current.ibuf) :
          /\ line' = [line EXCEPT ![ibqi] = Buf(new, len, len)]
          /\ heap' = Moved(Current.ibuf, new, len)
    BY <1>3, <1>4, CurrentIs DEF Insert
  <2>2. new # NULL /\ new \in Unused \cup {Current.ibuf} /\ new \in Buffers
    BY <1>2, <2>1, CurrentIs, NewIs
  <2>3. heap' = [b \in Buffers |-> IF b = new THEN len
                                   ELSE IF b = Current.ibuf THEN Free ELSE heap[b]]
    BY <1>2, <2>1, <2>2, CurrentIs DEF Moved
  <2> HIDE DEF len
  <2>4. len <= len
    BY <1>3
  <2> QED
    BY <1>1, <1>2, <1>3, <2>1, <2>2, <2>3, <2>4, CurrentIs, GrownKeeps
<1>5. CASE len <= Current.ttlen
  <2>1. /\ line' = [line EXCEPT ![ibqi] = Buf(Current.ibuf, Current.ttlen, len)]
        /\ heap' = heap /\ len <= Size(Current)
    BY <1>3, <1>5, CurrentIs DEF Insert
  <2> HIDE DEF len
  <2> QED
    BY <1>1, <1>3, <2>1, EditedKeeps
<1> QED
  BY <1>3, <1>4, <1>5, CurrentIs

LEMMA DeleteKeeps ==
  ASSUME NEW p, HistoryInv, stage = "key", DeleteAt(p)
  PROVE  HistoryInv'
<1>1. p \in 0..(Current.ulen - 1) /\ Current.ibuf # NULL
  BY CurrentIs DEF DeleteAt
<1>2. Current.ulen - 1 \in Nat /\ Current.ulen - 1 <= Size(Current)
  BY <1>1, CurrentIs
<1> QED
  BY <1>1, <1>2, EditedKeeps DEF DeleteAt

Faults == {"overrun", "overread", "bad free"}

\* A step that touches no line.
LEMMA SameLines ==
  ASSUME HistoryInv, line' = line, backup' = backup, heap' = heap, ibqi' = ibqi,
         ibuf_pos' \in 0..Current.ulen, stage' \in {"select", "undefined"}, fault' \in Faults \cup {fault},
         fault' # "none" => stage' = "undefined"
  PROVE  HistoryInv'
<1>1. LineTypeOK'
  BY DEF HistoryInv, LineTypeOK, Current, Faults
<1>2. LinesOwned' /\ NothingLeaks'
  BY DEF HistoryInv, LinesOwned, NothingLeaks, ReferredTo, Allocated
<1>3. NoHoles'
  BY DEF HistoryInv, NoHoles, Current
<1>4. LinesFit'
  BY DEF HistoryInv, LinesFit, Size, Allocated
<1> QED
  BY <1>1, <1>2, <1>3, <1>4 DEF HistoryInv

LEMMA NoFaultYet == HistoryInv /\ stage # "undefined" => fault = "none"
  BY DEF HistoryInv, LineTypeOK

LEMMA MoveKeeps == HistoryInv /\ MoveCursor => HistoryInv'
<1> SUFFICES ASSUME HistoryInv, MoveCursor PROVE HistoryInv'
  OBVIOUS
<1>1. ibuf_pos' \in 0..Current.ulen
  BY CurrentIs DEF MoveCursor
<1> QED
  BY <1>1, NoFaultYet, SameLines DEF MoveCursor

LEMMA EraseKeeps == HistoryInv /\ EraseLine => HistoryInv'
<1> SUFFICES ASSUME HistoryInv, EraseLine PROVE HistoryInv'
  OBVIOUS
<1>1. 0 \in Nat /\ 0 <= Size(Current) /\ stage = "key"
  BY CurrentIs DEF EraseLine
<1>2. 0 \in 0..0
  OBVIOUS
<1> QED
  BY <1>1, <1>2, EditedKeeps DEF EraseLine

LEMMA OtherKeeps ==
  ASSUME HistoryInv, OtherKey \/ \E what \in Faults : Fails(what)
  PROVE  HistoryInv'
<1>1. /\ UNCHANGED <<line, backup, heap, ibqi, ibuf_pos>> /\ stage' \in {"select", "undefined"}
      /\ fault' \in Faults \cup {fault}
  BY DEF OtherKey, Fails, editorVars
<1>2. fault' # "none" => stage' = "undefined"
  BY NoFaultYet DEF OtherKey, Fails
<1> QED
  BY <1>1, <1>2, CurrentIs, SameLines

-----------------------------------------------------------------------------
(* Recalling a line.                                                       *)

LEMMA GoToKeeps ==
  ASSUME NEW k \in Entries, HistoryInv, stage = "key", GoTo(k), k # 0 => line[k].ibuf # NULL
  PROVE  HistoryInv'
<1> USE LineAssumption DEF Last, Entries, Free, Entry
<1>1. /\ ibqi' = k /\ ibuf_pos' = line[k].ulen /\ stage' = "select" /\ line' = line /\ fault' = fault
  BY DEF GoTo
<1>2. line[k] \in Entry
  BY DEF HistoryInv, LineTypeOK
<1>5. ibuf_pos' \in 0..Current'.ulen
  BY <1>1, <1>2 DEF Current
<1>3. CASE backup' = backup /\ heap' = heap /\ (k # 0 => backup[k].ibuf # NULL)
  <2>1. LineTypeOK'
    BY <1>1, <1>3, <1>5 DEF HistoryInv, LineTypeOK
  <2>2. LinesOwned' /\ NothingLeaks'
    BY <1>1, <1>3 DEF HistoryInv, LinesOwned, NothingLeaks, ReferredTo, Allocated
  <2>3. NoHoles'
    BY <1>1, <1>3 DEF HistoryInv, NoHoles, Current
  <2>4. LinesFit'
    BY <1>1, <1>3 DEF HistoryInv, LinesFit, Size, Allocated
  <2> QED
    BY <2>1, <2>2, <2>3, <2>4 DEF HistoryInv
<1>4. CASE k # 0 /\ backup[k].ibuf = NULL
  <2>1. PICK new \in Unused :
          /\ backup' = [backup EXCEPT ![k] = Buf(new, line[k].ttlen, line[k].ulen)]
          /\ heap' = [heap EXCEPT ![new] = line[k].ulen]
    BY <1>4 DEF GoTo, BackUp
  <2>2. new \in Buffers /\ new # NULL /\ \A j \in Entries : line[j].ibuf # new /\ backup[j].ibuf # new
    BY DEF Unused, ReferredTo
  <2>3. \A j \in Entries : /\ backup'[j].ibuf = IF j = k THEN new ELSE backup[j].ibuf
                           /\ backup'[j].ttlen = IF j = k THEN line[k].ttlen ELSE backup[j].ttlen
                           /\ backup'[j].ulen = IF j = k THEN line[k].ulen ELSE backup[j].ulen
    BY <2>1 DEF HistoryInv, LineTypeOK, Buf
  <2>4. \A j \in Entries : line[j].ibuf \in Buffers \cup {NULL} /\ backup[j].ibuf \in Buffers \cup {NULL}
    BY DEF HistoryInv, LineTypeOK
  <2>5. /\ heap'[new] = line[k].ulen /\ line[k].ulen \in Nat
        /\ \A b \in Buffers : b # new => heap'[b] = heap[b]
    BY <1>2, <2>1, <2>2 DEF HistoryInv, LineTypeOK
  <2>6. LineTypeOK'
    <3>1. backup' \in [Entries -> Entry]
      BY <1>2, <2>1, <2>2 DEF HistoryInv, LineTypeOK, Buf
    <3>2. heap' \in [Buffers -> Nat \cup {Free}]
      BY <1>2, <2>1, <2>2 DEF HistoryInv, LineTypeOK
    <3> QED
      BY <1>1, <1>5, <3>1, <3>2 DEF HistoryInv, LineTypeOK
  <2>7. LinesOwned'
    <3>1. \A j \in Entries : line[j].ibuf # NULL => Allocated(line[j].ibuf)'
      BY <1>1, <2>2, <2>4, <2>5 DEF HistoryInv, LinesOwned, Allocated
    <3>2. \A j \in Entries \ {Last} : backup'[j].ibuf # NULL => Allocated(backup[j].ibuf)'
      BY <2>2, <2>3, <2>4, <2>5 DEF HistoryInv, LinesOwned, Allocated
    <3>3. \A i, j \in Entries : line[i].ibuf # NULL =>
            line[i].ibuf # backup'[j].ibuf /\ (line[i].ibuf = line[j].ibuf => i = j)
      BY <2>2, <2>3 DEF HistoryInv, LinesOwned
    <3>4. \A i, j \in Entries : backup'[i].ibuf # NULL /\ backup'[i].ibuf = backup'[j].ibuf => i = j
      BY <2>2, <2>3 DEF HistoryInv, LinesOwned
    <3> QED
      BY <1>1, <3>1, <3>2, <3>3, <3>4 DEF LinesOwned
  <2>8. NothingLeaks'
    BY <1>1, <1>4, <2>2, <2>3, <2>5 DEF HistoryInv, NothingLeaks, ReferredTo
  <2>9. NoHoles'
    BY <1>1, <1>4, <2>2, <2>3 DEF HistoryInv, NoHoles, Current
  <2>10. LinesFit'
    <3>1. \A j \in Entries : line[j].ibuf # NULL => Size(line[j])' = Size(line[j])
      BY <1>1, <2>2, <2>4, <2>5 DEF Size
    <3>2. line[k].ulen <= line[k].ttlen
      <4>1. line[k].ibuf \in Buffers /\ heap[line[k].ibuf] \in Nat \cup {Free}
        BY <1>4, <2>4 DEF HistoryInv, LineTypeOK
      <4>2. line[k].ulen <= heap[line[k].ibuf] /\ heap[line[k].ibuf] <= line[k].ttlen
        BY <1>4 DEF HistoryInv, LinesFit, Size
      <4> QED
        BY <1>2, <4>1, <4>2
    <3>3. \A j \in Entries : Allocated(backup[j].ibuf)' =>
            backup'[j].ulen <= Size(backup[j])' /\ Size(backup[j])' <= backup'[j].ttlen
      BY <2>2, <2>3, <2>4, <2>5, <3>2, <1>2 DEF HistoryInv, LinesFit, Size, Allocated
    <3> QED
      BY <1>1, <3>1, <3>3 DEF HistoryInv, LinesFit, Allocated
  <2> QED
    BY <2>6, <2>7, <2>8, <2>9, <2>10 DEF HistoryInv
<1> QED
  BY <1>3, <1>4 DEF GoTo, BackUp

LEMMA UpDownKeeps == HistoryInv /\ (Up \/ Down) => HistoryInv'
<1> USE LineAssumption DEF Last, Entries
<1> SUFFICES ASSUME HistoryInv, Up \/ Down PROVE HistoryInv'
  OBVIOUS
<1>1. CASE Up
  <2>1. ibqi + 1 \in Entries /\ line[ibqi + 1].ibuf # NULL
    BY <1>1, CurrentIs DEF Up, OlderLine
  <2> QED
    BY <1>1, <2>1, GoToKeeps DEF Up
<1>2. CASE Down
  <2>1. ibqi - 1 \in Entries
    BY <1>2, CurrentIs DEF Down
  <2>2. ibqi - 1 # 0 => line[ibqi - 1].ibuf # NULL
    <3> SUFFICES ASSUME ibqi - 1 # 0 PROVE line[ibqi - 1].ibuf # NULL
      OBVIOUS
    <3>1. ibqi - 1 \in 1..(Last - 1) /\ (ibqi - 1) + 1 = ibqi /\ line[ibqi].ibuf # NULL
      BY <1>2, CurrentIs DEF Down, Current
    <3> QED
      BY <3>1 DEF HistoryInv, NoHoles
  <2> QED
    BY <1>2, <2>1, <2>2, GoToKeeps DEF Down
<1> QED
  BY <1>1, <1>2

-----------------------------------------------------------------------------
(* Return.                                                                 *)

\* What each entry holds once the edited line is the newest, and what is freed.
LEMMA RecalledIs ==
  ASSUME HistoryInv, stage = "key", NEW k \in Entries
  PROVE  /\ Recalled[k] = IF ibqi = 0 THEN line[k]
                          ELSE IF k = 0 THEN line[ibqi]
                          ELSE IF k = ibqi THEN backup[ibqi] ELSE line[k]
         /\ BackupsLeft[k] = IF ibqi # 0 /\ k = ibqi THEN NoBuffer ELSE backup[k]
  BY CurrentIs, LineAssumption DEF HistoryInv, LineTypeOK, Recalled, BackupsLeft, Entries, Last

LEMMA ReleasesAre ==
  Releases = {IF ibqi = 0 THEN NULL ELSE line[0].ibuf, Recalled[Last].ibuf, BackupsLeft[Last].ibuf} \ {NULL}
  BY DEF Releases, Dropped

LEMMA EnterKeeps == HistoryInv /\ Enter => HistoryInv'
<1> SUFFICES ASSUME HistoryInv, Enter PROVE HistoryInv'
  OBVIOUS
<1> DEFINE R(k) == Recalled[k].ibuf
           B(k) == BackupsLeft[k].ibuf
<1>1. /\ stage = "key" /\ stage' = "select" /\ ibqi' = 0 /\ ibuf_pos' = 0 /\ fault' = fault
      /\ backup' = BackupsLeft /\ line' = Shifted /\ Last \in Nat /\ 0 \in Entries /\ Last \in Entries
      /\ heap' = [b \in Buffers |-> IF b \in Releases THEN Free ELSE heap[b]]
  BY LineAssumption DEF Enter, Last, Entries
<1>2. \A k \in Entries : line[k] \in Entry /\ backup[k] \in Entry
  BY DEF HistoryInv, LineTypeOK
<1>3. ibqi \in Entries /\ line[ibqi].ibuf # NULL
  BY <1>1, CurrentIs DEF Current
<1>4. /\ line'[0] = NoBuffer
      /\ \A k \in Entries \ {0} : line'[k] = Recalled[k - 1] /\ k - 1 \in Entries \ {Last}
  BY <1>1 DEF Shifted, Entries
<1>5. \A k \in Entries : Recalled[k] \in Entry /\ BackupsLeft[k] \in Entry
  BY <1>1, <1>2, <1>3, RecalledIs DEF Entry, NoBuffer, Buf
\* Every pointer is kept once: in a line, in a backup, or to be freed.
<1>6. \A k \in Entries \ {Last} : R(k) # NULL => Allocated(R(k)) /\ R(k) \notin Releases
  BY <1>1, <1>3, RecalledIs, ReleasesAre DEF HistoryInv, LinesOwned, NoBuffer, Buf
<1>7. \A k \in Entries \ {Last} : B(k) # NULL => Allocated(B(k)) /\ B(k) \notin Releases
  BY <1>1, <1>3, RecalledIs, ReleasesAre DEF HistoryInv, LinesOwned, NoBuffer, Buf
<1>a. \A k \in Entries : B(k) = NULL \/ ((k # ibqi \/ ibqi = 0) /\ B(k) = backup[k].ibuf)
  BY <1>1, RecalledIs DEF NoBuffer, Buf
<1>b. \A k \in Entries : \/ R(k) = line[k].ibuf /\ (ibqi = 0 \/ (k # 0 /\ k # ibqi))
                         \/ R(k) = line[ibqi].ibuf /\ k = 0 /\ ibqi # 0
                         \/ R(k) = backup[ibqi].ibuf /\ k = ibqi /\ ibqi # 0
  BY <1>1, RecalledIs
<1>c. backup[0].ibuf = NULL
  BY DEF HistoryInv, NoHoles
<1>8. \A j, k \in Entries : R(j) # NULL => R(j) # B(k) /\ (R(j) = R(k) => j = k)
  <2> SUFFICES ASSUME NEW j \in Entries, NEW k \in Entries, R(j) # NULL
               PROVE  R(j) # B(k) /\ (R(j) = R(k) => j = k)
    OBVIOUS
  <2> HIDE DEF R, B
  <2>1. R(j) # B(k)
    BY <1>3, <1>a, <1>b, <1>c DEF HistoryInv, LinesOwned
  <2>2. R(j) = R(k) => j = k
    BY <1>3, <1>b DEF HistoryInv, LinesOwned
  <2> QED
    BY <2>1, <2>2
<1>9. \A j, k \in Entries : B(j) # NULL /\ B(j) = B(k) => j = k
  BY <1>1, <1>3, RecalledIs DEF HistoryInv, LinesOwned, NoBuffer, Buf
<1>10. LineTypeOK'
  <2>1. NoBuffer \in Entry /\ NoBuffer.ulen = 0
    BY DEF NoBuffer, Buf, Entry
  <2>2. line' \in [Entries -> Entry]
    BY <1>1, <1>4, <1>5, <2>1 DEF Shifted
  <2>3. backup' \in [Entries -> Entry]
    BY <1>1, <2>1 DEF HistoryInv, LineTypeOK, BackupsLeft
  <2>4. heap' \in [Buffers -> Nat \cup {Free}]
    BY <1>1 DEF HistoryInv, LineTypeOK
  <2>5. ibuf_pos' \in 0..Current'.ulen
    BY <1>1, <1>4, <2>1 DEF Current
  <2> QED
    BY <1>1, <2>2, <2>3, <2>4, <2>5 DEF HistoryInv, LineTypeOK
<1>d. \A k \in Entries : line'[k].ibuf = IF k = 0 THEN NULL ELSE R(k - 1)
  BY <1>4 DEF NoBuffer, Buf
<1>e. \A k \in Entries : backup'[k].ibuf = B(k) /\ line[k].ibuf \in Buffers \cup {NULL}
                         /\ B(k) \in Buffers \cup {NULL} /\ R(k) \in Buffers \cup {NULL}
  BY <1>1, <1>2, <1>5 DEF Entry
<1>f. \A b \in Buffers : b \notin Releases => heap'[b] = heap[b]
  BY <1>1
<1>11. LinesOwned'
  <2> HIDE DEF R, B
  <2>1. \A k \in Entries : line'[k].ibuf # NULL => Allocated(line[k].ibuf)'
    BY <1>4, <1>6, <1>d, <1>e, <1>f DEF Allocated
  <2>2. \A k \in Entries \ {Last} : backup'[k].ibuf # NULL => Allocated(backup[k].ibuf)'
    BY <1>7, <1>e, <1>f DEF Allocated
  <2>3. \A j, k \in Entries : line'[j].ibuf # NULL => line'[j].ibuf # backup'[k].ibuf
    BY <1>4, <1>8, <1>d, <1>e
  <2>4. \A j, k \in Entries : line'[j].ibuf # NULL /\ line'[j].ibuf = line'[k].ibuf => j = k
    <3> SUFFICES ASSUME NEW j \in Entries, NEW k \in Entries, line'[j].ibuf # NULL, line'[j].ibuf = line'[k].ibuf
                 PROVE  j = k
      OBVIOUS
    <3>1. j # 0 /\ k # 0 /\ j \in Int /\ k \in Int /\ j - 1 = k - 1
      BY <1>4, <1>8, <1>d DEF Entries
    <3> QED
      BY <3>1
  <2>5. \A j, k \in Entries : backup'[j].ibuf # NULL /\ backup'[j].ibuf = backup'[k].ibuf => j = k
    BY <1>9, <1>e
  <2> QED
    BY <2>1, <2>2, <2>3, <2>4, <2>5 DEF LinesOwned
<1>g. \A k \in Entries \ {Last} : k + 1 \in Entries \ {0} /\ (k + 1) - 1 = k
  BY <1>1 DEF Entries
<1>12. NothingLeaks'
  <2> SUFFICES ASSUME NEW b \in Buffers, heap'[b] # Free PROVE ReferredTo(b)'
    BY DEF NothingLeaks
  <2>1. heap[b] # Free /\ b \notin Releases /\ b # NULL
    BY <1>1, LineAssumption
  <2>2. \E k \in Entries : b = R(k) \/ b = B(k)
    <3>1. PICK k \in Entries : line[k].ibuf = b \/ backup[k].ibuf = b
      BY <2>1 DEF HistoryInv, NothingLeaks, ReferredTo
    <3>2. ~(k = 0 /\ ibqi # 0 /\ line[k].ibuf = b)
      BY <2>1, ReleasesAre
    <3>3. CASE line[k].ibuf = b
      <4>1. ibqi = 0 => Recalled[k] = line[k]
        BY <1>1, RecalledIs
      <4>2. ibqi # 0 /\ k = ibqi => Recalled[0] = line[k]
        BY <1>1, RecalledIs
      <4>3. ibqi # 0 /\ k # ibqi => Recalled[k] = line[k]
        BY <1>1, <3>2, <3>3, RecalledIs
      <4> QED
        BY <1>1, <3>3, <4>1, <4>2, <4>3
    <3>4. CASE backup[k].ibuf = b
      <4>1. k # 0
        BY <1>c, <2>1, <3>4
      <4>2. Recalled[k] = backup[k] \/ BackupsLeft[k] = backup[k]
        BY <1>1, <4>1, RecalledIs
      <4> QED
        BY <3>4, <4>2
    <3> QED
      BY <3>1, <3>3, <3>4
  <2>3. PICK k \in Entries : b = R(k) \/ b = B(k)
    BY <2>2
  <2>4. CASE b = B(k)
    BY <1>e, <2>4 DEF ReferredTo
  <2>5. CASE b = R(k)
    <3>1. k # Last
      BY <2>1, <2>5, ReleasesAre
    <3>2. line'[k + 1].ibuf = b /\ k + 1 \in Entries
      BY <1>d, <1>g, <2>5, <3>1
    <3> QED
      BY <3>2 DEF ReferredTo
  <2> QED
    BY <2>3, <2>4, <2>5
<1>h. R(0) # NULL
  BY <1>1, <1>3, RecalledIs
<1>i. \A k \in 1..Last : line[k].ibuf # NULL => R(k - 1) # NULL
  <2> SUFFICES ASSUME NEW k \in 1..Last, line[k].ibuf # NULL PROVE R(k - 1) # NULL
    OBVIOUS
  <2>1. CASE k = 1
    BY <1>h, <2>1
  <2>2. CASE k # 1
    <3>1. k - 1 \in Entries /\ k - 1 # 0 /\ k - 1 \in 1..(Last - 1) /\ (k - 1) + 1 = k
      BY <1>1, <2>2 DEF Entries
    <3>2. line[k - 1].ibuf # NULL
      BY <3>1 DEF HistoryInv, NoHoles
    <3>3. ibqi # 0 => backup[ibqi].ibuf # NULL
      BY DEF HistoryInv, NoHoles
    <3> QED
      BY <1>1, <3>1, <3>2, <3>3, RecalledIs
  <2> QED
    BY <2>1, <2>2
<1>13. NoHoles'
  <2>1. \A k \in 1..(Last - 1) : line'[k + 1].ibuf # NULL => line'[k].ibuf # NULL
    <3> SUFFICES ASSUME NEW k \in 1..(Last - 1), line'[k + 1].ibuf # NULL PROVE line'[k].ibuf # NULL
      OBVIOUS
    <3>1. /\ k \in Entries /\ k # 0 /\ k + 1 \in Entries /\ k + 1 # 0 /\ (k + 1) - 1 = k /\ k \in 1..Last
      BY <1>1 DEF Entries
    <3>2. R(k) # NULL
      BY <1>d, <3>1
    <3>3. line[k].ibuf # NULL
      BY <1>3, <1>b, <3>1, <3>2
    <3> QED
      BY <1>d, <1>i, <3>1, <3>3
  <2>2. \A k \in 1..Last : backup'[k].ibuf # NULL => line'[k].ibuf # NULL
    <3> SUFFICES ASSUME NEW k \in 1..Last, backup'[k].ibuf # NULL PROVE line'[k].ibuf # NULL
      OBVIOUS
    <3>1. k \in Entries /\ k # 0
      BY <1>1 DEF Entries
    <3>2. backup[k].ibuf # NULL
      BY <1>a, <1>e, <3>1
    <3>3. line[k].ibuf # NULL
      BY <3>2 DEF HistoryInv, NoHoles
    <3> QED
      BY <1>d, <1>i, <3>1, <3>3
  <2>3. backup'[0].ibuf = NULL
    BY <1>1, <1>a, <1>c, <1>e
  <2> QED
    BY <1>1, <2>1, <2>2, <2>3 DEF NoHoles
<1>14. LinesFit'
  <2>1. \A k \in Entries : Allocated(R(k)) => Recalled[k].ulen <= heap[R(k)] /\ heap[R(k)] <= Recalled[k].ttlen
    <3> SUFFICES ASSUME NEW k \in Entries, Allocated(R(k))
                 PROVE  Recalled[k].ulen <= heap[R(k)] /\ heap[R(k)] <= Recalled[k].ttlen
      OBVIOUS
    <3>1. Recalled[k] = line[k] \/ Recalled[k] = line[ibqi] \/ Recalled[k] = backup[ibqi]
      BY <1>1, RecalledIs
    <3>2. \A j \in Entries :
            /\ line[j].ibuf # NULL => line[j].ulen <= heap[line[j].ibuf]
                                      /\ heap[line[j].ibuf] <= line[j].ttlen
            /\ Allocated(backup[j].ibuf) => backup[j].ulen <= heap[backup[j].ibuf]
                                            /\ heap[backup[j].ibuf] <= backup[j].ttlen
      BY DEF HistoryInv, LinesFit, Size
    <3>3. R(k) # NULL
      BY DEF Allocated
    <3> QED
      BY <1>3, <3>1, <3>2, <3>3
  <2>2. \A k \in Entries : line'[k].ibuf = NULL => line'[k].ulen = 0
    <3>1. \A k \in Entries : R(k) = NULL => Recalled[k].ulen = 0
      BY <1>1, <1>3, RecalledIs DEF HistoryInv, LinesFit, NoHoles
    <3> QED
      BY <1>4, <1>d, <3>1 DEF NoBuffer, Buf
  <2>3. \A k \in Entries : line'[k].ibuf # NULL =>
          line'[k].ulen <= Size(line[k])' /\ Size(line[k])' <= line'[k].ttlen
    <3> SUFFICES ASSUME NEW k \in Entries, line'[k].ibuf # NULL
                 PROVE  line'[k].ulen <= heap'[line'[k].ibuf] /\ heap'[line'[k].ibuf] <= line'[k].ttlen
      BY DEF Size
    <3>1. k # 0 /\ k - 1 \in Entries \ {Last} /\ line'[k] = Recalled[k - 1]
      BY <1>4, <1>d
    <3>2. Allocated(R(k - 1)) /\ heap'[R(k - 1)] = heap[R(k - 1)]
      BY <1>6, <1>d, <1>e, <1>f, <3>1
    <3> QED
      BY <2>1, <3>1, <3>2
  <2>4. \A k \in Entries : Allocated(backup[k].ibuf)' =>
          backup'[k].ulen <= Size(backup[k])' /\ Size(backup[k])' <= backup'[k].ttlen
    <3> SUFFICES ASSUME NEW k \in Entries, B(k) # NULL, heap'[B(k)] # Free
                 PROVE  BackupsLeft[k].ulen <= heap'[B(k)] /\ heap'[B(k)] <= BackupsLeft[k].ttlen
      BY <1>1, <1>e DEF Size, Allocated
    <3>1. heap'[B(k)] = heap[B(k)] /\ heap[B(k)] # Free
      BY <1>1, <1>e
    <3>2. BackupsLeft[k] = backup[k]
      BY RecalledIs, <1>1 DEF NoBuffer, Buf
    <3> QED
      BY <3>1, <3>2 DEF HistoryInv, LinesFit, Allocated, Size
  <2> QED
    BY <1>1, <1>d, <2>2, <2>3, <2>4 DEF LinesFit
<1> QED
  BY <1>10, <1>11, <1>12, <1>13, <1>14 DEF HistoryInv

-----------------------------------------------------------------------------
(* The faults.                                                             *)

\* A newest line is as long as its entry says, so it is not overrun.
LEMMA OverrunNeedsHistory ==
  ASSUME HistoryInv, \/ DeleteOverread
                     \/ \E n \in 1..MaxInsert, insertmode \in BOOLEAN : InsertOverrun(n, insertmode)
  PROVE  ibqi # 0
<1> SUFFICES ASSUME ibqi = 0 PROVE FALSE
  OBVIOUS
<1>1. stage = "key" /\ Current.ibuf # NULL
  BY CurrentIs DEF DeleteOverread, InsertOverrun
<1>2. Size(Current) = Current.ttlen /\ Current.ulen < Current.ttlen
  BY <1>1 DEF HistoryInv, LinesFit, Current
<1>3. CASE DeleteOverread
  BY <1>2, <1>3, CurrentIs DEF DeleteOverread
<1>4. CASE \E n \in 1..MaxInsert, insertmode \in BOOLEAN : InsertOverrun(n, insertmode)
  <2>1. PICK n \in 1..MaxInsert, insertmode \in BOOLEAN : InsertOverrun(n, insertmode)
    BY <1>4
  <2>2. LongerLine(n, insertmode) \in Int
    BY CurrentIs DEF LongerLine
  <2> QED
    BY <1>2, <2>1, <2>2, CurrentIs DEF InsertOverrun
<1> QED
  BY <1>3, <1>4

\* Of what is freed only the backup of the oldest line may be gone.
LEMMA BadFreeNeedsHistory ==
  ASSUME HistoryInv, stage = "key", FreeFails
  PROVE  backup[Last].ibuf # NULL /\ ~Allocated(backup[Last].ibuf)
<1> SUFFICES ASSUME backup[Last].ibuf = NULL \/ Allocated(backup[Last].ibuf) PROVE FALSE
  OBVIOUS
<1>1. Last \in Nat /\ 0 \in Entries /\ Last \in Entries /\ ibqi \in Entries /\ line[ibqi].ibuf # NULL
  BY LineAssumption, CurrentIs DEF Last, Entries, Current
<1>2. backup[0].ibuf = NULL
  BY DEF HistoryInv, NoHoles
<1> DEFINE a == IF ibqi = 0 THEN NULL ELSE line[0].ibuf
           r == Recalled[Last].ibuf
           b == BackupsLeft[Last].ibuf
<1>3. (a = NULL \/ Allocated(a)) /\ (b = NULL \/ Allocated(b))
  <2>1. a = NULL \/ Allocated(a)
    BY <1>1 DEF HistoryInv, LinesOwned
  <2>2. b = NULL \/ b = backup[Last].ibuf
    BY <1>1, RecalledIs DEF NoBuffer, Buf
  <2> HIDE DEF b
  <2> QED
    BY <2>1, <2>2
<1>4. r = NULL \/ Allocated(r)
  BY <1>1, <1>2, RecalledIs DEF HistoryInv, LinesOwned
<1>5. a # NULL => a # r /\ a # b
  <2> SUFFICES ASSUME ibqi # 0, line[0].ibuf # NULL
               PROVE  line[0].ibuf # r /\ line[0].ibuf # b
    OBVIOUS
  <2>1. (r = line[Last].ibuf /\ Last # 0) \/ r = backup[ibqi].ibuf
    BY <1>1, RecalledIs DEF Entries
  <2>2. b = NULL \/ b = backup[Last].ibuf
    BY <1>1, RecalledIs DEF NoBuffer, Buf
  <2> HIDE DEF r, b
  <2> QED
    BY <1>1, <2>1, <2>2 DEF HistoryInv, LinesOwned
<1>6. r # NULL => r # b
  <2>1. CASE ibqi = Last /\ ibqi # 0
    BY <1>1, <2>1, RecalledIs DEF NoBuffer, Buf
  <2>2. CASE ibqi = 0
    <3>1. r = line[Last].ibuf /\ b = backup[Last].ibuf
      BY <1>1, <2>2, RecalledIs
    <3> HIDE DEF r, b
    <3> QED
      BY <1>1, <3>1 DEF HistoryInv, LinesOwned
  <2>3. CASE ibqi # 0 /\ ibqi # Last
    <3>1. r = line[Last].ibuf /\ b = backup[Last].ibuf
      BY <1>1, <2>3, RecalledIs DEF Entries
    <3> HIDE DEF r, b
    <3> QED
      BY <1>1, <3>1 DEF HistoryInv, LinesOwned
  <2> QED
    BY <2>1, <2>2, <2>3
<1>7. Dropped = <<a, r, b>>
  BY DEF Dropped
<1> HIDE DEF a, r, b
<1>8. \A x \in Releases : Allocated(x)
  BY <1>3, <1>4, <1>7 DEF Releases
<1>9. \A i, j \in 1..3 : i # j /\ Dropped[i] = Dropped[j] => Dropped[i] = NULL
  BY <1>5, <1>6, <1>7
<1> QED
  BY <1>8, <1>9 DEF FreeFails

-----------------------------------------------------------------------------
LEMMA KeyKeeps == HistoryInv /\ Key => HistoryInv'
<1> SUFFICES ASSUME HistoryInv, Key PROVE HistoryInv'
  OBVIOUS
<1>1. CASE \E n \in 1..MaxInsert, insertmode \in BOOLEAN : Insert(n, insertmode)
  BY <1>1, InsertKeeps
<1>2. CASE Delete \/ Backspace
  BY <1>2, DeleteKeeps DEF Delete, Backspace
<1>3. CASE MoveCursor \/ EraseLine \/ Up \/ Down \/ Enter
  BY <1>3, MoveKeeps, EraseKeeps, UpDownKeeps, EnterKeeps
<1>4. CASE \/ OtherKey \/ DeleteOverread \/ EnterBadFree
           \/ \E n \in 1..MaxInsert, insertmode \in BOOLEAN : InsertOverrun(n, insertmode)
  <2>1. OtherKey \/ \E what \in Faults : Fails(what)
    BY <1>4 DEF DeleteOverread, EnterBadFree, InsertOverrun, Faults
  <2> QED
    BY <2>1, OtherKeeps
<1> QED
  BY <1>1, <1>2, <1>3, <1>4 DEF Key

\* HistoryInv holds in every reachable state, whatever the keys, the number of
\* lines kept and the sizes of the buffers (clchat.c:655-926, 1083-1098).
THEOREM HistoryInvariant == Spec => []HistoryInv
<1>1. HistoryInv /\ [Next]_vars => HistoryInv'
  <2> SUFFICES ASSUME HistoryInv, [Next]_vars PROVE HistoryInv'
    OBVIOUS
  <2>1. CASE UNCHANGED vars
    <3>1. UNCHANGED <<line, backup, heap, ibqi, ibuf_pos, stage, fault>>
      BY <2>1 DEF vars, editorVars
    <3>2. LineTypeOK'
      BY <3>1 DEF HistoryInv, LineTypeOK, Current
    <3>3. LinesOwned'
      BY <3>1 DEF HistoryInv, LinesOwned, Allocated
    <3>4. NothingLeaks'
      BY <3>1 DEF HistoryInv, NothingLeaks, ReferredTo, Allocated
    <3>5. NoHoles' /\ LinesFit'
      BY <3>1 DEF HistoryInv, NoHoles, LinesFit, Current, Size, Allocated
    <3> QED
      BY <3>2, <3>3, <3>4, <3>5 DEF HistoryInv
  <2> QED
    BY <2>1, MakeRoomKeeps, KeyKeeps DEF Next
<1> QED
  BY <1>1, InitHolds, PTL DEF Spec

\* No two entries of the history ever share a buffer, and none but the backup
\* of the oldest line points to a buffer that is gone (clchat.c:892-904, 1083-1095).
THEOREM LinesAlwaysOwned == Spec => []LinesOwned
  BY HistoryInvariant, PTL DEF HistoryInv

\* No buffer is ever lost (clchat.c:1083-1095).
THEOREM NothingEverLeaks == Spec => []NothingLeaks
  BY HistoryInvariant, PTL DEF HistoryInv

\* The history never has a hole, so KEY_UP may stop at the first missing line
\* (clchat.c:879).
THEOREM NeverAHole == Spec => []NoHoles
  BY HistoryInvariant, PTL DEF HistoryInv

\* Writes and reads outside of a buffer need a recalled line, a bad free() the
\* backup of the oldest (clchat.c:292-315, 835-869, 1087).
THEOREM FaultsComeFromHistory == Spec => FaultsNeedHistory
<1> DEFINE A == /\ fault' \in {"overrun", "overread"} => ibqi # 0
                /\ fault' = "bad free" => backup[Last].ibuf # NULL /\ ~Allocated(backup[Last].ibuf)
<1>1. ASSUME HistoryInv, Next PROVE A
  <2>1. fault = "none"
    <3>1. stage # "undefined"
      BY <1>1 DEF Next, Key, MakeRoom, Insert, InsertOverrun, Delete, Backspace, DeleteOverread, MoveCursor,
                  EraseLine, Up, Down, OtherKey, Enter, EnterBadFree
    <3> QED
      BY <1>1, <3>1 DEF HistoryInv, LineTypeOK
  <2>2. \/ fault' = fault \/ EnterBadFree \/ DeleteOverread
        \/ \E n \in 1..MaxInsert, insertmode \in BOOLEAN : InsertOverrun(n, insertmode)
    BY <1>1 DEF Next, Key, MakeRoom, Insert, Delete, Backspace, DeleteAt, MoveCursor, EraseLine, Up, Down,
                GoTo, OtherKey, Enter
  <2>3. CASE EnterBadFree
    BY <1>1, <2>3, BadFreeNeedsHistory DEF EnterBadFree, Fails
  <2>4. CASE \/ DeleteOverread
             \/ \E n \in 1..MaxInsert, insertmode \in BOOLEAN : InsertOverrun(n, insertmode)
    <3>1. fault' # "bad free"
      BY <2>4 DEF DeleteOverread, InsertOverrun, Fails
    <3> QED
      BY <1>1, <2>4, <3>1, OverrunNeedsHistory
  <2> QED
    BY <2>1, <2>2, <2>3, <2>4
<1>2. HistoryInv /\ [Next]_vars => [A]_vars
  BY <1>1
<1> QED
  BY <1>2, HistoryInvariant, PTL DEF Spec, FaultsNeedHistory
=============================================================================
