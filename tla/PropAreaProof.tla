--------------------------- MODULE PropAreaProof ---------------------------
(***************************************************************************)
(* Proofs about PropArea, for any number of readers and properties, any    *)
(* value length, any width of the serials and any number of changes.       *)
(***************************************************************************)
EXTENDS PropArea, TLAPS

USE BoundsAssumption

\* The terminated string v has a byte at each offset of a buffer.
LEMMA CharAtType ==
    ASSUME NEW v \in Seq(Bytes), NEW i \in Nat
    PROVE  CharAt(v, i) \in Bytes \cup {NUL}
  BY DEF CharAt

\* A string the writer stores fits the buffer of a prop_info.
LEMMA ValueFits ==
    ASSUME NEW v \in Values
    PROVE  v \in Seq(Bytes) /\ Len(v) \in Nat /\ Len(v) <= MaxLen
  BY ValuesAssumption

-----------------------------------------------------------------------------
\* Every step of the writer and of the readers preserves the types.
LEMMA TypeStep == TypeOK /\ [Next]_vars => TypeOK'
  <1> SUFFICES ASSUME TypeOK, [Next]_vars PROVE TypeOK'
    OBVIOUS
  <1> USE DEF TypeOK, Cells, Serial, Buffer, area, writer, reader, history
  <1>1. ASSUME NEW p \in Props, NEW v \in Values, UpdateBegin(p, v) PROVE TypeOK'
    <2>1. [len |-> serial[p].len, gen |-> serial[p].gen, dirty |-> TRUE] \in Serial
      OBVIOUS
    <2>2. serial' \in [Props -> Serial]
      BY <1>1, <2>1 DEF UpdateBegin
    <2>3. wval' \in Seq(Bytes) /\ Len(wval') <= MaxLen /\ wleft' \subseteq 0 .. Len(wval')
      BY <1>1, ValueFits DEF UpdateBegin
    <2>4. ops' \in 0 .. MaxOps
      BY <1>1 DEF UpdateBegin
    <2>5. QED BY <1>1, <2>2, <2>3, <2>4 DEF UpdateBegin
  <1>2. ASSUME NEW p \in Props, NEW v \in Values, Add(p, v) PROVE TypeOK'
    <2>1. \A i \in Cells : CharAt(v, i) \in Bytes \cup {NUL}
      BY CharAtType, ValueFits
    <2>2. bytes' \in [Props -> Buffer]
      BY <1>2, <2>1 DEF Add
    <2>3. [len |-> Len(v), gen |-> 0, dirty |-> FALSE] \in Serial
      BY ValueFits
    <2>4. serial' \in [Props -> Serial]
      BY <1>2, <2>3 DEF Add
    <2>5. wval' \in Seq(Bytes) /\ Len(wval') <= MaxLen /\ wleft' \subseteq 0 .. Len(wval')
      BY <1>2, ValueFits DEF Add
    <2>6. ops' \in 0 .. MaxOps
      BY <1>2 DEF Add
    <2>7. val' \in [Props -> Seq(Bytes)] /\ ver' \in [Props -> Nat]
      BY <1>2, ValueFits DEF Add
    <2>8. QED BY <1>2, <2>2, <2>4, <2>5, <2>6, <2>7 DEF Add
  <1>3. ASSUME NEW i \in wleft, UpdateCopy(i) PROVE TypeOK'
    <2>1. i \in Cells
      OBVIOUS
    <2>2. CharAt(wval, i) \in Bytes \cup {NUL}
      BY <2>1, CharAtType
    <2>3. bytes' \in [Props -> Buffer]
      BY <1>3, <2>1, <2>2 DEF UpdateCopy
    <2>4. QED BY <1>3, <2>3 DEF UpdateCopy
  <1>4. CASE UpdatePublish
    <2>0. [len |-> Len(wval), gen |-> NextGen(serial[wprop].gen), dirty |-> FALSE] \in Serial
      BY DEF NextGen
    <2>1. serial' \in [Props -> Serial]
      BY <1>4, <2>0 DEF UpdatePublish
    <2>2. QED BY <1>4, <2>1 DEF UpdatePublish
  <1>5. CASE UpdateWake
    BY <1>5 DEF UpdateWake
  <1>6. CASE BumpArea
    BY <1>6 DEF BumpArea, NextArea
  <1>7. CASE WakeArea
    BY <1>7 DEF WakeArea
  <1>8. ASSUME NEW r \in Readers, NEW p \in Props, Find(r, p) PROVE TypeOK'
    <2>1. rserial[r] \in Serial /\ rbuf[r] \in Buffer /\ 0 \in Cells
      OBVIOUS
    <2>2. [len |-> 0, gen |-> rserial[r].gen, dirty |-> FALSE] \in Serial
      BY ONLY <2>1 DEF Serial
    <2>3. rserial' \in [Readers -> Serial]
      <3>1. CASE p \in present
        BY <1>8, <3>1 DEF Find
      <3>2. CASE p \notin present
        BY <1>8, <2>2, <3>2, ZenonT(60) DEF Find
      <3>3. QED BY <3>1, <3>2
    <2>4. [rbuf[r] EXCEPT ![0] = NUL] \in Buffer
      BY <2>1
    <2>5. rbuf' \in [Readers -> Buffer]
      <3>1. CASE p \in present
        BY <1>8, <3>1 DEF Find
      <3>2. CASE p \notin present
        BY <1>8, <2>4, <3>2 DEF Find
      <3>3. QED BY <3>1, <3>2
    <2>6. <<>> \in Seq(Bytes)
      OBVIOUS
    <2>7. rsnap' \in [Readers -> Seq(Bytes)] /\ rver' \in [Readers -> Nat]
      <3>1. CASE p \in present
        BY <1>8, <3>1 DEF Find
      <3>2. CASE p \notin present
        <4>1. rver' = [rver EXCEPT ![r] = 0] /\ rsnap' = [rsnap EXCEPT ![r] = <<>>]
          BY <1>8, <3>2 DEF Find
        <4>2. QED BY ONLY <4>1, <2>6, TypeOK DEF TypeOK
      <3>3. QED BY <3>1, <3>2
    <2>8. QED BY <1>8, <2>3, <2>5, <2>7 DEF Find
  <1>9. ASSUME NEW r \in Readers, LoadSerial(r) PROVE TypeOK'
    <2>1. rserial' \in [Readers -> Serial]
      BY <1>9 DEF LoadSerial
    <2>2. 0 .. serial[rprop[r]].len \subseteq Cells
      BY SMTT(30)
    <2>3. rleft' \in [Readers -> SUBSET Cells]
      BY <1>9, <2>2, ZenonT(60) DEF LoadSerial
    <2>4. rsnap' \in [Readers -> Seq(Bytes)] /\ rver' \in [Readers -> Nat]
      <3>1. CASE serial[rprop[r]].dirty
        BY <1>9, <3>1 DEF LoadSerial
      <3>2. CASE ~serial[rprop[r]].dirty
        <4>1. /\ rver' = [rver EXCEPT ![r] = ver[rprop[r]]]
              /\ rsnap' = [rsnap EXCEPT ![r] = val[rprop[r]]]
          BY <1>9, <3>2 DEF LoadSerial
        <4>2. QED BY ONLY <4>1, TypeOK DEF TypeOK
      <3>3. QED BY <3>1, <3>2
    <2>5. rpc' \in [Readers -> {"idle", "load", "futex", "asleep", "copy", "done",
                                "futexany", "asleepany", "loadany"}]
      <3>1. rpc' = [rpc EXCEPT ![r] = "futex"] \/ rpc' = [rpc EXCEPT ![r] = "copy"]
        BY <1>9 DEF LoadSerial
      <3>2. QED BY ONLY <3>1, TypeOK DEF TypeOK
    <2>6. UNCHANGED <<area, writer, rprop, rbuf, rarea, val, ver, areaVer, rareaVer, rgot>>
      BY <1>9 DEF LoadSerial
    <2>7. QED BY <2>1, <2>3, <2>4, <2>5, <2>6
  <1>10. ASSUME NEW r \in Readers, FutexWait(r) PROVE TypeOK'
    BY <1>10 DEF FutexWait
  <1>11. ASSUME NEW r \in Readers, NEW i \in rleft[r], ReadByte(r, i) PROVE TypeOK'
    <2>1. bytes[rprop[r]] \in Buffer /\ i \in Cells
      OBVIOUS
    <2>2. [rbuf[r] EXCEPT ![i] = bytes[rprop[r]][i]] \in Buffer
      BY <2>1
    <2>3. rbuf' \in [Readers -> Buffer]
      BY <1>11, <2>2 DEF ReadByte
    <2>4. rleft' \in [Readers -> SUBSET Cells]
      BY <1>11 DEF ReadByte
    <2>5. QED BY <1>11, <2>3, <2>4 DEF ReadByte
  <1>12. ASSUME NEW r \in Readers, CheckSerial(r) PROVE TypeOK'
    BY <1>12 DEF CheckSerial
  <1>13. ASSUME NEW r \in Readers, ReadReturn(r) PROVE TypeOK'
    BY <1>13 DEF ReadReturn
  <1>14. ASSUME NEW r \in Readers, Obtain(r) PROVE TypeOK'
    BY <1>14 DEF Obtain
  <1>15. ASSUME NEW r \in Readers, WaitAny(r) PROVE TypeOK'
    BY <1>15 DEF WaitAny
  <1>16. ASSUME NEW r \in Readers, FutexWaitAny(r) PROVE TypeOK'
    BY <1>16 DEF FutexWaitAny
  <1>17. ASSUME NEW r \in Readers, LoadAny(r) PROVE TypeOK'
    BY <1>14, <1>17 DEF LoadAny
  <1>18. ASSUME NEW r \in Readers, Interrupted(r) PROVE TypeOK'
    BY <1>18 DEF Interrupted
  <1>19. CASE UNCHANGED vars
    BY <1>19 DEF vars
  <1>20. QED
    BY <1>1, <1>2, <1>3, <1>4, <1>5, <1>6, <1>7, <1>8, <1>9, <1>10, <1>11, <1>12,
       <1>13, <1>14, <1>15, <1>16, <1>17, <1>18, <1>19
    DEF Next, Writer, Reader, ReadStep, AreaSerial

LEMMA TypeInit == Init => TypeOK
  <1> SUFFICES ASSUME Init PROVE TypeOK
    OBVIOUS
  <1>1. [len |-> 0, gen |-> 0, dirty |-> FALSE] \in Serial
    BY DEF Serial, Cells
  <1>2. [i \in Cells |-> NUL] \in Buffer
    BY DEF Buffer
  <1>3. <<>> \in Seq(Bytes) /\ Len(<<>>) = 0
    OBVIOUS
  <1>4. serial \in [Props -> Serial] /\ rserial \in [Readers -> Serial]
    BY <1>1 DEF Init
  <1>5. bytes \in [Props -> Buffer] /\ rbuf \in [Readers -> Buffer]
    BY <1>2 DEF Init
  <1>6. val \in [Props -> Seq(Bytes)] /\ rsnap \in [Readers -> Seq(Bytes)]
    BY <1>3 DEF Init
  <1>7. rgot \in [Readers -> [Props -> Nat \cup {NotRead}]]
    BY DEF Init
  <1>8. wval \in Seq(Bytes) /\ Len(wval) <= MaxLen /\ wleft \subseteq 0 .. Len(wval)
    BY <1>3 DEF Init
  <1>9. areaSerial \in 0 .. AreaMod - 1 /\ rarea \in [Readers -> 0 .. AreaMod - 1]
    BY DEF Init
  <1>10. ops \in 0 .. MaxOps /\ present \subseteq Props /\ wprop \in Props
    BY DEF Init
  <1>11. rleft \in [Readers -> SUBSET Cells] /\ rprop \in [Readers -> Props]
    BY DEF Init
  <1>12. ver \in [Props -> Nat] /\ rver \in [Readers -> Nat] /\ rareaVer \in [Readers -> Nat]
    BY DEF Init
  <1>13. QED
    BY <1>4, <1>5, <1>6, <1>7, <1>8, <1>9, <1>10, <1>11, <1>12 DEF Init, TypeOK

\* The model's variables keep their types: offsets stay inside the buffers
\* and the serials inside their width, whatever is written and read.
THEOREM Typing == Spec => []TypeOK
  BY TypeInit, TypeStep, PTL DEF Spec

-----------------------------------------------------------------------------
(* The inductive invariant.                                                *)

\* The writer changes one property at a time, and while it copies the dirty
\* bit is set; a property that is not dirty holds its value.
WriterInv ==
    /\ \A p \in Props : serial[p].dirty => wpc = "copy" /\ wprop = p
    /\ wpc = "copy" =>
         /\ wprop \in present
         /\ serial[wprop].dirty
         /\ \A i \in 0 .. Len(wval) : i \notin wleft => bytes[wprop][i] = CharAt(wval, i)
    /\ \A p \in Props : p \notin present => ver[p] = 0
    /\ RestingValue

\* Generation g2 is d steps after g1, round the ring of GenMod generations.
After(g1, d, g2) == g2 = g1 + d \/ g2 = g1 + d - GenMod

\* What a reader that is copying knows of the property: it loaded the serial
\* rver values ago, and if nothing has changed since, what it has copied is
\* the value.
CopyInv(r) ==
    LET p == rprop[r]
    IN  /\ p \in present
        /\ ~rserial[r].dirty
        /\ rserial[r].len = Len(rsnap[r])
        /\ rver[r] <= ver[p]
        /\ ver[p] - rver[r] < GenMod =>
             After(rserial[r].gen, ver[p] - rver[r], serial[p].gen)
        /\ ver[p] = rver[r] /\ ~serial[p].dirty =>
             /\ serial[p] = rserial[r]
             /\ val[p] = rsnap[r]
             /\ \A i \in 0 .. Len(rsnap[r]) :
                  i \notin rleft[r] => rbuf[r][i] = CharAt(rsnap[r], i)

ReaderInv ==
    \A r \in Readers :
        /\ rpc[r] \in {"load", "futex", "asleep"} => rprop[r] \in present
        /\ rpc[r] \in {"futex", "asleep"} => rserial[r].dirty
        /\ rpc[r] = "copy" => CopyInv(r)

\* A change that reader r has not read is announced by the area serial, or
\* will be before the writer is done with it.
Announced(r, p) ==
    \/ areaVer > rareaVer[r]
    \/ wpc \in {"wakeprop", "bump"} /\ wprop = p

AreaInv ==
    \A r \in Readers :
        /\ rareaVer[r] <= areaVer
        /\ areaVer - rareaVer[r] < AreaMod =>
             \/ areaSerial = rarea[r] + (areaVer - rareaVer[r])
             \/ areaSerial = rarea[r] + (areaVer - rareaVer[r]) - AreaMod
        /\ rpc[r] \in {"copy", "done"} =>
             /\ rver[r] <= ver[rprop[r]]
             /\ rver[r] < ver[rprop[r]] => Announced(r, rprop[r])
        /\ \A p \in Props : rgot[r][p] # NotRead =>
             /\ rgot[r][p] <= ver[p]
             /\ rgot[r][p] < ver[p] => Announced(r, p)

IInv == TypeOK /\ WriterInv /\ ReaderInv /\ NoTornRead /\ NoLostWakeup /\ AreaInv

\* A reader changes nothing that is shared.
LEMMA ReaderFrame ==
    ASSUME NEW r \in Readers, Reader(r)
    PROVE  UNCHANGED <<present, serial, bytes, areaSerial, ops, wpc, wprop, wval,
                       wleft, val, ver, areaVer>>
  BY DEF Reader, ReadStep, Find, LoadSerial, FutexWait, ReadByte, CheckSerial, ReadReturn,
         AreaSerial, WaitAny, FutexWaitAny, LoadAny, Obtain, Interrupted,
         area, writer, history

LEMMA WriterInvStep == IInv /\ [Next]_vars => WriterInv'
  <1> SUFFICES ASSUME IInv, [Next]_vars PROVE WriterInv'
    OBVIOUS
  <1>0. TypeOK /\ TypeOK' /\ WriterInv
    BY TypeStep DEF IInv
  <1>1. ASSUME NEW p \in Props, NEW v \in Values, UpdateBegin(p, v) PROVE WriterInv'
    BY <1>0, <1>1, ValueFits
    DEF UpdateBegin, WriterInv, RestingValue, TypeOK, Serial, history
  <1>2. ASSUME NEW p \in Props, NEW v \in Values, Add(p, v) PROVE WriterInv'
    <2>1. Len(v) \in Nat /\ 0 .. Len(v) \subseteq Cells
      BY ValueFits DEF Cells
    <2>2. Holds(bytes'[p], serial'[p].len, val'[p])
      BY <1>0, <1>2, <2>1 DEF Add, Holds, TypeOK
    <2>3. RestingValue'
      BY <1>0, <1>2, <2>2 DEF Add, WriterInv, RestingValue, TypeOK, Holds
    <2>4. QED BY <1>0, <1>2, <2>3 DEF Add, WriterInv, TypeOK
  <1>3. ASSUME NEW i \in wleft, UpdateCopy(i) PROVE WriterInv'
    <2>1. i \in Cells
      BY <1>0 DEF TypeOK, Cells
    <2>2. bytes'[wprop] = [bytes[wprop] EXCEPT ![i] = CharAt(wval, i)]
      BY <1>0, <1>3 DEF UpdateCopy, TypeOK
    <2>3. \A p \in Props : p # wprop => bytes'[p] = bytes[p]
      BY <1>0, <1>3 DEF UpdateCopy, TypeOK
    <2>4. RestingValue'
      BY <1>0, <1>3, <2>3 DEF UpdateCopy, WriterInv, RestingValue, TypeOK, history, Holds
    <2>5. \A j \in 0 .. Len(wval) : j \notin wleft' => bytes'[wprop][j] = CharAt(wval, j)
      BY <1>0, <1>3, <2>1, <2>2 DEF UpdateCopy, WriterInv, TypeOK, Buffer, Cells
    <2>6. QED BY <1>0, <1>3, <2>4, <2>5 DEF UpdateCopy, WriterInv, history
  <1>4. CASE UpdatePublish
    <2>1. Holds(bytes'[wprop], serial'[wprop].len, val'[wprop])
      BY <1>0, <1>4 DEF UpdatePublish, WriterInv, Holds, TypeOK
    <2>2. RestingValue'
      BY <1>0, <1>4, <2>1 DEF UpdatePublish, WriterInv, RestingValue, TypeOK, Holds
    <2>3. QED BY <1>0, <1>4, <2>2 DEF UpdatePublish, WriterInv, TypeOK
  <1>5. CASE UpdateWake
    BY <1>0, <1>5 DEF UpdateWake, WriterInv, RestingValue, Holds, area, history
  <1>6. CASE BumpArea
    BY <1>0, <1>6 DEF BumpArea, WriterInv, RestingValue, Holds
  <1>7. CASE WakeArea
    BY <1>0, <1>7 DEF WakeArea, WriterInv, RestingValue, Holds, area, history
  <1>8. ASSUME NEW r \in Readers, Reader(r) PROVE WriterInv'
    BY <1>0, <1>8, ReaderFrame DEF WriterInv, RestingValue, Holds
  <1>9. CASE UNCHANGED vars
    BY <1>0, <1>9 DEF vars, area, writer, history, WriterInv, RestingValue, Holds
  <1>10. QED
    BY <1>1, <1>2, <1>3, <1>4, <1>5, <1>6, <1>7, <1>8, <1>9 DEF Next, Writer

\* What a reader knows depends on its own variables and on the property it
\* reads; a step that leaves these alone preserves it.
LEMMA CopyFrame ==
    ASSUME NEW r \in Readers, CopyInv(r), TypeOK, TypeOK',
           present \subseteq present',
           rprop'[r] = rprop[r], rserial'[r] = rserial[r], rleft'[r] = rleft[r],
           rbuf'[r] = rbuf[r], rsnap'[r] = rsnap[r], rver'[r] = rver[r],
           serial'[rprop[r]] = serial[rprop[r]],
           val'[rprop[r]] = val[rprop[r]], ver'[rprop[r]] = ver[rprop[r]]
    PROVE  CopyInv(r)'
  BY DEF CopyInv, After

\* One more generation, short of a full round.
LEMMA AfterNext ==
    ASSUME NEW g1 \in 0 .. GenMod - 1, NEW g2 \in 0 .. GenMod - 1, NEW d \in Nat,
           d + 1 < GenMod, After(g1, d, g2)
    PROVE  After(g1, d + 1, NextGen(g2))
  BY DEF After, NextGen

LEMMA ReaderInvWriterStep == IInv /\ Writer => ReaderInv'
  <1> SUFFICES ASSUME IInv, Writer, NEW r \in Readers
               PROVE  /\ rpc'[r] \in {"load", "futex", "asleep"} => rprop'[r] \in present'
                      /\ rpc'[r] \in {"futex", "asleep"} => rserial'[r].dirty
                      /\ rpc'[r] = "copy" => CopyInv(r)'
    BY DEF ReaderInv
  <1>0. TypeOK /\ TypeOK' /\ WriterInv /\ ReaderInv
    BY TypeStep DEF IInv, Next
  <1>1. ASSUME NEW p \in Props, NEW v \in Values, UpdateBegin(p, v)
        PROVE  rpc'[r] = "copy" => CopyInv(r)'
    <2>1. SUFFICES ASSUME rpc[r] = "copy" PROVE CopyInv(r)'
      BY <1>1 DEF UpdateBegin, reader
    <2>2. CopyInv(r)
      BY <1>0, <2>1 DEF ReaderInv
    <2>3. CASE p = rprop[r]
      <3>1. /\ serial'[p].dirty
            /\ serial'[p].gen = serial[p].gen
        BY <1>0, <1>1 DEF UpdateBegin, TypeOK
      <3>2. QED BY <1>1, <2>2, <2>3, <3>1 DEF UpdateBegin, CopyInv, reader, history
    <2>4. CASE p # rprop[r]
      BY <1>0, <1>1, <2>2, <2>4, CopyFrame DEF UpdateBegin, TypeOK, reader, history
    <2>5. QED BY <2>3, <2>4
  <1>2. ASSUME NEW p \in Props, NEW v \in Values, Add(p, v)
        PROVE  rpc'[r] = "copy" => CopyInv(r)'
    <2>1. SUFFICES ASSUME rpc[r] = "copy" PROVE CopyInv(r)'
      BY <1>2 DEF Add, reader
    <2>2. CopyInv(r)
      BY <1>0, <2>1 DEF ReaderInv
    <2>3. p # rprop[r]
      BY <1>2, <2>2 DEF Add, CopyInv
    <2>4. QED
      BY <1>0, <1>2, <2>2, <2>3, CopyFrame DEF Add, TypeOK, reader
  <1>3. ASSUME NEW i \in wleft, UpdateCopy(i) PROVE rpc'[r] = "copy" => CopyInv(r)'
    BY <1>0, <1>3, CopyFrame DEF UpdateCopy, ReaderInv, reader, history
  <1>4. CASE UpdatePublish
    <2>1. SUFFICES ASSUME rpc[r] = "copy" PROVE CopyInv(r)'
      BY <1>0, <1>4 DEF UpdatePublish, ReaderInv, reader, TypeOK
    <2>2. CopyInv(r)
      BY <1>0, <2>1 DEF ReaderInv
    <2>3. CASE wprop = rprop[r]
      <3>1. /\ serial'[wprop].gen = NextGen(serial[wprop].gen)
            /\ ver'[wprop] = ver[wprop] + 1
            /\ ver[wprop] \in Nat /\ rver[r] \in Nat
            /\ serial[wprop].gen \in 0 .. GenMod - 1
            /\ rserial[r].gen \in 0 .. GenMod - 1
        BY <1>0, <1>4 DEF UpdatePublish, TypeOK, Serial
      <3>2. rver[r] <= ver[wprop]
        BY <2>2, <2>3 DEF CopyInv
      <3>3. ver'[wprop] - rver[r] < GenMod =>
               After(rserial[r].gen, ver'[wprop] - rver[r], serial'[wprop].gen)
        <4>1. SUFFICES ASSUME ver'[wprop] - rver[r] < GenMod
                       PROVE  After(rserial[r].gen, ver'[wprop] - rver[r], serial'[wprop].gen)
          OBVIOUS
        <4> DEFINE d == ver[wprop] - rver[r]
        <4>2. d \in Nat /\ d + 1 < GenMod /\ ver'[wprop] - rver[r] = d + 1
          BY <3>1, <3>2, <4>1
        <4>3. After(rserial[r].gen, d, serial[wprop].gen)
          BY <2>2, <2>3, <4>2 DEF CopyInv
        <4> HIDE DEF d
        <4>4. After(rserial[r].gen, d + 1, NextGen(serial[wprop].gen))
          BY <3>1, <4>2, <4>3, AfterNext
        <4>5. QED BY <3>1, <4>2, <4>4
      <3>4. rver[r] <= ver'[wprop] /\ ver'[wprop] # rver[r]
        BY <3>1, <3>2
      <3>5. /\ rprop'[r] = wprop /\ rserial' = rserial /\ rsnap' = rsnap
            /\ rver' = rver /\ present' = present
        BY <1>4, <2>3 DEF UpdatePublish, reader
      <3>6. wprop \in present /\ ~rserial[r].dirty /\ rserial[r].len = Len(rsnap[r])
        BY <2>2, <2>3 DEF CopyInv
      <3>7. QED BY <3>3, <3>4, <3>5, <3>6 DEF CopyInv, After
    <2>4. CASE wprop # rprop[r]
      BY <1>0, <1>4, <2>2, <2>4, CopyFrame DEF UpdatePublish, TypeOK, reader
    <2>5. QED BY <2>3, <2>4
  <1>5. CASE UpdateWake
    <2>1. rpc'[r] = "copy" => CopyInv(r)'
      BY <1>0, <1>5, CopyFrame DEF UpdateWake, ReaderInv, area, history
    <2>2. QED BY <1>0, <1>5, <2>1 DEF UpdateWake, ReaderInv, area
  <1>6. CASE BumpArea
    <2>1. rpc'[r] = "copy" => CopyInv(r)'
      BY <1>0, <1>6, CopyFrame DEF BumpArea, ReaderInv, reader
    <2>2. QED BY <1>0, <1>6, <2>1 DEF BumpArea, ReaderInv, reader
  <1>7. CASE WakeArea
    <2>1. rpc'[r] = "copy" => CopyInv(r)'
      BY <1>0, <1>7, CopyFrame DEF WakeArea, ReaderInv, area, history
    <2>2. QED BY <1>0, <1>7, <2>1 DEF WakeArea, ReaderInv, area
  <1>8. ASSUME NEW p \in Props, NEW v \in Values, UpdateBegin(p, v) \/ Add(p, v)
        PROVE  /\ rpc'[r] \in {"load", "futex", "asleep"} => rprop'[r] \in present'
               /\ rpc'[r] \in {"futex", "asleep"} => rserial'[r].dirty
    BY <1>0, <1>8 DEF UpdateBegin, Add, ReaderInv, reader
  <1>9. ASSUME NEW i \in wleft, UpdateCopy(i)
        PROVE  /\ rpc'[r] \in {"load", "futex", "asleep"} => rprop'[r] \in present'
               /\ rpc'[r] \in {"futex", "asleep"} => rserial'[r].dirty
    BY <1>0, <1>9 DEF UpdateCopy, ReaderInv, reader
  <1>10. CASE UpdatePublish
    BY <1>0, <1>4, <1>10 DEF UpdatePublish, ReaderInv, reader
  <1>11. QED
    BY <1>1, <1>2, <1>3, <1>4, <1>5, <1>6, <1>7, <1>8, <1>9, <1>10 DEF Writer

\* A reader changes no other reader's variables.
LEMMA OtherReaders ==
    ASSUME TypeOK, NEW r \in Readers, Reader(r), NEW q \in Readers, q # r
    PROVE  /\ rpc'[q] = rpc[q] /\ rprop'[q] = rprop[q] /\ rserial'[q] = rserial[q]
           /\ rleft'[q] = rleft[q] /\ rbuf'[q] = rbuf[q] /\ rarea'[q] = rarea[q]
           /\ rsnap'[q] = rsnap[q] /\ rver'[q] = rver[q]
           /\ rareaVer'[q] = rareaVer[q] /\ rgot'[q] = rgot[q]
  <1> USE DEF TypeOK, area, writer, reader, history
  <1>1. ASSUME NEW p \in Props, Find(r, p)
        PROVE  /\ rpc'[q] = rpc[q] /\ rprop'[q] = rprop[q] /\ rserial'[q] = rserial[q]
               /\ rleft'[q] = rleft[q] /\ rbuf'[q] = rbuf[q] /\ rarea'[q] = rarea[q]
               /\ rsnap'[q] = rsnap[q] /\ rver'[q] = rver[q]
               /\ rareaVer'[q] = rareaVer[q] /\ rgot'[q] = rgot[q]
    BY <1>1, ZenonT(60) DEF Find
  <1>2. CASE LoadSerial(r)
    BY <1>2 DEF LoadSerial
  <1>3. CASE FutexWait(r) \/ CheckSerial(r) \/ WaitAny(r) \/ FutexWaitAny(r) \/ Interrupted(r)
    BY <1>3 DEF FutexWait, CheckSerial, WaitAny, FutexWaitAny, Interrupted
  <1>4. ASSUME NEW i \in rleft[r], ReadByte(r, i)
        PROVE  /\ rpc'[q] = rpc[q] /\ rprop'[q] = rprop[q] /\ rserial'[q] = rserial[q]
               /\ rleft'[q] = rleft[q] /\ rbuf'[q] = rbuf[q] /\ rarea'[q] = rarea[q]
               /\ rsnap'[q] = rsnap[q] /\ rver'[q] = rver[q]
               /\ rareaVer'[q] = rareaVer[q] /\ rgot'[q] = rgot[q]
    BY <1>4 DEF ReadByte
  <1>5. CASE ReadReturn(r)
    BY <1>5 DEF ReadReturn
  <1>6. CASE AreaSerial(r) \/ LoadAny(r)
    BY <1>6 DEF AreaSerial, LoadAny, Obtain
  <1>7. QED
    BY <1>1, <1>2, <1>3, <1>4, <1>5, <1>6 DEF Reader, ReadStep

LEMMA ReaderInvReaderStep ==
    ASSUME IInv, NEW r \in Readers, Reader(r)
    PROVE  ReaderInv'
  <1>0. TypeOK /\ TypeOK' /\ WriterInv /\ ReaderInv
    BY TypeStep DEF IInv, Next
  <1>1. UNCHANGED <<present, serial, bytes, areaSerial, ops, wpc, wprop, wval,
                    wleft, val, ver, areaVer>>
    BY ReaderFrame
  <1> DEFINE P(q) == /\ rpc[q] \in {"load", "futex", "asleep"} => rprop[q] \in present
                     /\ rpc[q] \in {"futex", "asleep"} => rserial[q].dirty
                     /\ rpc[q] = "copy" => CopyInv(q)
  <1>2. ASSUME NEW q \in Readers, q # r PROVE P(q)'
    <2>1. P(q)
      BY <1>0 DEF ReaderInv
    <2>2. rpc[q] = "copy" => CopyInv(q)'
      BY <1>0, <1>1, <1>2, <2>1, OtherReaders, CopyFrame
    <2>3. QED BY <1>0, <1>1, <1>2, <2>1, <2>2, OtherReaders
  <1>3. P(r)
    BY <1>0 DEF ReaderInv
  <1>4. ASSUME NEW p \in Props, Find(r, p) PROVE P(r)'
    BY <1>0, <1>4, SMTT(30) DEF Find, TypeOK, area
  <1>5. ASSUME LoadSerial(r) PROVE P(r)'
    <2> DEFINE s == serial[rprop[r]]
    <2>1. rprop[r] \in present /\ rprop[r] \in Props
      BY <1>0, <1>3, <1>5 DEF LoadSerial, TypeOK
    <2>2. rserial'[r] = s /\ rprop' = rprop
      BY <1>0, <1>5 DEF LoadSerial, TypeOK
    <2>3. CASE s.dirty
      BY <1>0, <1>1, <1>5, <2>1, <2>2, <2>3 DEF LoadSerial, TypeOK
    <2>4. CASE ~s.dirty
      <3>1. /\ rpc'[r] = "copy"
            /\ rleft'[r] = 0 .. s.len
            /\ rsnap'[r] = val[rprop[r]]
            /\ rver'[r] = ver[rprop[r]]
        BY <1>0, <1>5, <2>4 DEF LoadSerial, TypeOK
      <3>2. s.len = Len(val[rprop[r]])
        BY <1>0, <2>1, <2>4 DEF WriterInv, RestingValue, Holds
      <3>3. After(s.gen, ver[rprop[r]] - ver[rprop[r]], s.gen)
        <4>1. ver[rprop[r]] \in Nat /\ serial[rprop[r]] \in Serial
          BY <1>0, <2>1 DEF TypeOK
        <4>2. s.gen \in Nat
          BY <4>1 DEF Serial
        <4>3. QED BY <4>1, <4>2 DEF After
      <3>4. CopyInv(r)'
        BY <1>0, <1>1, <2>1, <2>2, <2>4, <3>1, <3>2, <3>3 DEF CopyInv, TypeOK, After
      <3>5. QED BY <3>1, <3>4
    <2>5. QED BY <2>3, <2>4
  <1>6. ASSUME FutexWait(r) PROVE P(r)'
    BY <1>0, <1>3, <1>6 DEF FutexWait, TypeOK, area
  <1>7. ASSUME NEW i \in rleft[r], ReadByte(r, i) PROVE P(r)'
    <2>1. CopyInv(r) /\ rpc'[r] = "copy"
      BY <1>3, <1>7 DEF ReadByte
    <2>2. i \in Cells /\ rprop[r] \in Props
      BY <1>0 DEF TypeOK
    <2>3. rbuf'[r] = [rbuf[r] EXCEPT ![i] = bytes[rprop[r]][i]] /\ rleft'[r] = rleft[r] \ {i}
      BY <1>0, <1>7 DEF ReadByte, TypeOK
    <2>4. /\ rprop' = rprop /\ rserial' = rserial /\ rsnap' = rsnap /\ rver' = rver
      BY <1>7 DEF ReadByte, history
    <2>5. ASSUME ver[rprop[r]] = rver[r], ~serial[rprop[r]].dirty,
                 NEW j \in 0 .. Len(rsnap[r]), j \notin rleft'[r]
          PROVE  rbuf'[r][j] = CharAt(rsnap[r], j)
      <3>1. CASE j = i
        <4>1. Holds(bytes[rprop[r]], serial[rprop[r]].len, val[rprop[r]])
          BY <1>0, <2>1, <2>5 DEF CopyInv, WriterInv, RestingValue
        <4>2. val[rprop[r]] = rsnap[r]
          BY <2>1, <2>5 DEF CopyInv
        <4>3. bytes[rprop[r]][i] = CharAt(rsnap[r], i)
          BY <3>1, <4>1, <4>2, <2>5 DEF Holds
        <4>4. QED BY <1>0, <2>2, <2>3, <3>1, <4>3 DEF TypeOK, Buffer
      <3>2. CASE j # i
        BY <1>0, <2>1, <2>2, <2>3, <2>5, <3>2 DEF CopyInv, TypeOK, Buffer
      <3>3. QED BY <3>1, <3>2
    <2>6. CopyInv(r)'
      BY <1>1, <2>1, <2>4, <2>5 DEF CopyInv, After
    <2>7. QED BY <2>1, <2>6
  <1>8. ASSUME CheckSerial(r) PROVE P(r)'
    <2>1. rprop[r] \in present
      BY <1>3, <1>8 DEF CheckSerial, CopyInv
    <2>2. QED BY <1>0, <1>8, <2>1 DEF CheckSerial, TypeOK, area
  <1>9. ASSUME ReadReturn(r) PROVE P(r)'
    BY <1>0, <1>9 DEF ReadReturn, TypeOK
  <1>10. ASSUME Obtain(r) PROVE P(r)'
    BY <1>0, <1>10 DEF Obtain, TypeOK
  <1>11. ASSUME WaitAny(r) \/ FutexWaitAny(r) PROVE P(r)'
    BY <1>0, <1>11 DEF WaitAny, FutexWaitAny, TypeOK
  <1>12. ASSUME LoadAny(r) PROVE P(r)'
    BY <1>0, <1>10, <1>12 DEF LoadAny, TypeOK
  <1>13. ASSUME Interrupted(r) PROVE P(r)'
    BY <1>0, <1>3, <1>13 DEF Interrupted, TypeOK, area
  <1>14. P(r)'
    BY <1>4, <1>5, <1>6, <1>7, <1>8, <1>9, <1>10, <1>11, <1>12, <1>13
    DEF Reader, ReadStep, AreaSerial
  <1>15. QED BY <1>2, <1>14 DEF ReaderInv

-----------------------------------------------------------------------------
\* A read is accepted only if the serial is the one loaded before the copy; by
\* the invariant the property then has not changed, unless it went round.
LEMMA NoTornReadStep == IInv /\ [Next]_vars => NoTornRead'
  <1> SUFFICES ASSUME IInv, [Next]_vars, NEW r \in Readers,
                      rpc'[r] = "done", ~Lapped(r)'
               PROVE  Holds(rbuf'[r], rserial'[r].len, rsnap'[r])
    BY DEF NoTornRead
  <1>0. TypeOK /\ TypeOK' /\ WriterInv /\ ReaderInv /\ NoTornRead
    BY TypeStep DEF IInv
  <1>1. ASSUME rpc[r] = "done", rprop'[r] = rprop[r], rserial'[r] = rserial[r],
               rbuf'[r] = rbuf[r], rsnap'[r] = rsnap[r], rver'[r] = rver[r],
               ver[rprop[r]] <= ver'[rprop[r]]
        PROVE  Holds(rbuf'[r], rserial'[r].len, rsnap'[r])
    <2>1. ver[rprop[r]] \in Nat /\ ver'[rprop[r]] \in Nat /\ rver[r] \in Nat
      BY <1>0 DEF TypeOK
    <2>2. ~(ver'[rprop[r]] - rver[r] >= GenMod)
      BY <1>1 DEF Lapped
    <2>3. ~Lapped(r)
      BY <1>1, <2>1, <2>2 DEF Lapped
    <2>4. QED BY <1>0, <1>1, <2>3 DEF NoTornRead
  <1>2. CASE Writer
    <2>1. /\ rpc[r] = "done" /\ rprop'[r] = rprop[r] /\ rserial'[r] = rserial[r]
          /\ rbuf'[r] = rbuf[r] /\ rsnap'[r] = rsnap[r] /\ rver'[r] = rver[r]
      BY <1>2 DEF Writer, UpdateBegin, Add, UpdateCopy, UpdatePublish, UpdateWake,
                  BumpArea, WakeArea, reader, history
    <2>2. ver' = ver \/ \E p \in Props : ver' = [ver EXCEPT ![p] = @ + 1]
      BY <1>0, <1>2 DEF Writer, UpdateBegin, Add, UpdateCopy, UpdatePublish, UpdateWake,
                        BumpArea, WakeArea, history, TypeOK
    <2>3. ver \in [Props -> Nat] /\ rprop[r] \in Props
      BY <1>0 DEF TypeOK
    <2>4. ver[rprop[r]] <= ver'[rprop[r]]
      BY <2>2, <2>3
    <2>5. QED BY <1>1, <2>1, <2>4
  <1>3. ASSUME NEW q \in Readers, Reader(q), q # r
        PROVE  Holds(rbuf'[r], rserial'[r].len, rsnap'[r])
    <2>1. ver' = ver /\ ver[rprop[r]] \in Nat
      BY <1>0, <1>3, ReaderFrame DEF TypeOK
    <2>2. /\ rpc[r] = "done" /\ rprop'[r] = rprop[r] /\ rserial'[r] = rserial[r]
          /\ rbuf'[r] = rbuf[r] /\ rsnap'[r] = rsnap[r] /\ rver'[r] = rver[r]
      BY <1>0, <1>3, OtherReaders
    <2>3. QED BY <1>1, <2>1, <2>2
  <1>4. ASSUME NEW p \in Props, Find(r, p)
        PROVE  Holds(rbuf'[r], rserial'[r].len, rsnap'[r])
    <2>1. p \notin present
      BY <1>0, <1>4 DEF Find, TypeOK
    <2>2. /\ rbuf' = [rbuf EXCEPT ![r][0] = NUL]
          /\ rserial' = [rserial EXCEPT ![r] =
                           [len |-> 0, gen |-> @.gen, dirty |-> FALSE]]
          /\ rsnap' = [rsnap EXCEPT ![r] = <<>>]
      BY <1>4, <2>1 DEF Find
    <2>3. rbuf'[r][0] = NUL
      BY <1>0, <2>2 DEF TypeOK, Buffer, Cells
    <2>4. rserial'[r].len = 0 /\ rsnap'[r] = <<>>
      BY <1>0, <2>2 DEF TypeOK
    <2>5. QED BY <2>3, <2>4 DEF Holds, CharAt
  <1>5. ASSUME CheckSerial(r) PROVE Holds(rbuf'[r], rserial'[r].len, rsnap'[r])
    <2>1. /\ rpc[r] = "copy" /\ rleft[r] = {}
          /\ serial[rprop[r]] = rserial[r]
          /\ UNCHANGED <<rbuf, rserial, rsnap, rver, rprop, ver>>
      BY <1>0, <1>5 DEF CheckSerial, TypeOK, history
    <2>2. CopyInv(r) /\ ~Lapped(r)
      BY <1>0, <2>1 DEF ReaderInv, Lapped
    <2>3. ver[rprop[r]] \in Nat /\ rver[r] \in Nat /\ rserial[r].gen \in Nat
      BY <1>0 DEF TypeOK, Serial
    <2>4. ver[rprop[r]] = rver[r]
      BY <2>1, <2>2, <2>3 DEF CopyInv, Lapped, After
    <2>5. /\ ~serial[rprop[r]].dirty
          /\ rserial[r].len = Len(rsnap[r])
      BY <2>1, <2>2 DEF CopyInv
    <2>6. \A i \in 0 .. Len(rsnap[r]) : rbuf[r][i] = CharAt(rsnap[r], i)
      BY <2>1, <2>2, <2>4, <2>5 DEF CopyInv
    <2>7. QED BY <2>1, <2>5, <2>6 DEF Holds
  <1>6. ASSUME Reader(r), ~CheckSerial(r), \A p \in Props : ~Find(r, p) PROVE FALSE
    BY <1>0, <1>6, ZenonT(60) DEF Reader, ReadStep, LoadSerial, FutexWait, ReadByte, ReadReturn,
       AreaSerial, Obtain, WaitAny, FutexWaitAny, LoadAny, Interrupted, TypeOK
  <1>7. CASE UNCHANGED vars
    <2>1. /\ rpc[r] = "done" /\ rprop'[r] = rprop[r] /\ rserial'[r] = rserial[r]
          /\ rbuf'[r] = rbuf[r] /\ rsnap'[r] = rsnap[r] /\ rver'[r] = rver[r]
          /\ ver' = ver
      BY <1>7 DEF vars, reader, history
    <2>2. ver[rprop[r]] \in Nat
      BY <1>0 DEF TypeOK
    <2>3. ver[rprop[r]] <= ver'[rprop[r]]
      BY <2>1, <2>2
    <2>4. QED BY <1>1, <2>1, <2>3
  <1>8. CASE Reader(r)
    BY <1>4, <1>5, <1>6, <1>8
  <1>9. QED BY <1>2, <1>3, <1>7, <1>8 DEF Next

\* futex_wait sleeps only on the value it was given; the writer wakes the
\* sleepers right after each store.
LEMMA NoLostWakeupStep == IInv /\ [Next]_vars => NoLostWakeup'
  <1> SUFFICES ASSUME IInv, [Next]_vars PROVE NoLostWakeup'
    OBVIOUS
  <1>0. TypeOK /\ TypeOK' /\ WriterInv /\ ReaderInv /\ NoLostWakeup
    BY TypeStep DEF IInv
  <1> DEFINE Q(q) ==
        /\ rpc[q] = "asleep" =>
             \/ serial[rprop[q]] = rserial[q] /\ wpc = "copy" /\ wprop = rprop[q]
             \/ wpc = "wakeprop" /\ wprop = rprop[q]
        /\ rpc[q] = "asleepany" => areaSerial = rarea[q] \/ wpc = "wakearea"
  <1>1. \A q \in Readers : Q(q)
    BY <1>0 DEF NoLostWakeup
  <1>2. ASSUME Writer, NEW r \in Readers PROVE Q(r)'
    <2>1. ASSUME NEW p \in Props, NEW v \in Values, UpdateBegin(p, v) \/ Add(p, v)
          PROVE  Q(r)'
      BY <1>0, <1>1, <2>1 DEF UpdateBegin, Add, reader
    <2>2. ASSUME NEW i \in wleft, UpdateCopy(i) PROVE Q(r)'
      BY <1>1, <2>2 DEF UpdateCopy, reader
    <2>3. ASSUME UpdatePublish PROVE Q(r)'
      BY <1>1, <2>3 DEF UpdatePublish, reader
    <2>4. ASSUME UpdateWake PROVE Q(r)'
      BY <1>1, <2>4 DEF UpdateWake, area
    <2>5. ASSUME BumpArea PROVE Q(r)'
      BY <1>1, <2>5 DEF BumpArea, reader
    <2>6. ASSUME WakeArea PROVE Q(r)'
      BY <1>1, <2>6 DEF WakeArea, area
    <2>7. QED BY <1>2, <2>1, <2>2, <2>3, <2>4, <2>5, <2>6 DEF Writer
  <1>3. ASSUME NEW r \in Readers, Reader(r), NEW q \in Readers, q # r PROVE Q(q)'
    BY <1>0, <1>1, <1>3, OtherReaders, ReaderFrame
  <1>4. ASSUME NEW r \in Readers, FutexWait(r) PROVE Q(r)'
    <2>1. rserial[r].dirty /\ rprop[r] \in Props
      BY <1>0, <1>4 DEF FutexWait, ReaderInv, TypeOK
    <2>2. serial[rprop[r]] = rserial[r] => wpc = "copy" /\ wprop = rprop[r]
      BY <1>0, <2>1 DEF WriterInv
    <2>3. QED BY <1>0, <1>4, <2>2 DEF FutexWait, TypeOK, area, writer
  <1>5. ASSUME NEW r \in Readers, FutexWaitAny(r) PROVE Q(r)'
    BY <1>0, <1>5 DEF FutexWaitAny, TypeOK, area, writer
  <1>6. ASSUME NEW r \in Readers, Reader(r), ~FutexWait(r), ~FutexWaitAny(r)
        PROVE  rpc'[r] \notin {"asleep", "asleepany"}
    <2>1. ASSUME NEW p \in Props, Find(r, p) PROVE rpc'[r] \notin {"asleep", "asleepany"}
      BY <1>0, <2>1, ZenonT(60) DEF Find, TypeOK
    <2>2. ASSUME LoadSerial(r) \/ CheckSerial(r) \/ ReadReturn(r)
          PROVE  rpc'[r] \notin {"asleep", "asleepany"}
      BY <1>0, <2>2, ZenonT(60) DEF LoadSerial, CheckSerial, ReadReturn, TypeOK
    <2>3. ASSUME NEW i \in rleft[r], ReadByte(r, i)
          PROVE  rpc'[r] \notin {"asleep", "asleepany"}
      BY <1>0, <2>3 DEF ReadByte, TypeOK
    <2>4. ASSUME AreaSerial(r) \/ WaitAny(r) \/ LoadAny(r) \/ Interrupted(r)
          PROVE  rpc'[r] \notin {"asleep", "asleepany"}
      BY <1>0, <2>4 DEF AreaSerial, Obtain, WaitAny, LoadAny, Interrupted, TypeOK
    <2>5. QED BY <1>6, <2>1, <2>2, <2>3, <2>4 DEF Reader, ReadStep
  <1>7. ASSUME NEW r \in Readers, Reader(r), NEW q \in Readers PROVE Q(q)'
    BY <1>3, <1>4, <1>5, <1>6, <1>7
  <1>8. ASSUME UNCHANGED vars, NEW r \in Readers PROVE Q(r)'
    BY <1>1, <1>8 DEF vars, area, writer, reader
  <1>9. \A q \in Readers : Q(q)'
    BY <1>2, <1>7, <1>8 DEF Next
  <1>10. QED BY <1>9 DEF NoLostWakeup

\* One more change, short of a full round of the area serial.
LEMMA AreaNext ==
    ASSUME NEW s1 \in 0 .. AreaMod - 1, NEW s2 \in 0 .. AreaMod - 1, NEW d \in Nat,
           d + 1 < AreaMod, s2 = s1 + d \/ s2 = s1 + d - AreaMod
    PROVE  NextArea(s2) = s1 + (d + 1) \/ NextArea(s2) = s1 + (d + 1) - AreaMod
  BY DEF NextArea

\* Every change of a property is announced after it is made.
LEMMA AreaInvWriterStep == IInv /\ Writer => AreaInv'
  <1> SUFFICES ASSUME IInv, Writer PROVE AreaInv'
    OBVIOUS
  <1>0. TypeOK /\ TypeOK' /\ WriterInv /\ AreaInv
    BY TypeStep DEF IInv, Next
  <1>1. ASSUME NEW p \in Props, NEW v \in Values, UpdateBegin(p, v) PROVE AreaInv'
    BY <1>0, <1>1 DEF UpdateBegin, AreaInv, Announced, reader, history
  <1>2. ASSUME NEW p \in Props,
               ver' = [ver EXCEPT ![p] = @ + 1],
               wpc' \in {"wakeprop", "bump"}, wprop' = p, wpc \notin {"wakeprop", "bump"},
               UNCHANGED <<areaSerial, rpc, rprop, rarea, rver, areaVer, rareaVer, rgot>>
        PROVE  AreaInv'
    <2>1. ASSUME NEW q \in Props, NEW n \in Nat, NEW r \in Readers,
                 n <= ver[q], n < ver[q] => Announced(r, q)
          PROVE  n <= ver'[q] /\ (n < ver'[q] => Announced(r, q)')
      <3>1. ver[q] \in Nat
        BY <1>0 DEF TypeOK
      <3>2. CASE q = p
        <4>1. ver'[q] = ver[q] + 1
          BY <1>0, <1>2, <3>2 DEF TypeOK
        <4>2. QED BY <1>2, <2>1, <3>1, <3>2, <4>1 DEF Announced
      <3>3. CASE q # p
        <4>1. ver'[q] = ver[q]
          BY <1>0, <1>2, <3>3 DEF TypeOK
        <4>2. QED BY <1>2, <2>1, <4>1 DEF Announced
      <3>4. QED BY <3>2, <3>3
    <2>2. ASSUME NEW r \in Readers, rpc[r] \in {"copy", "done"}
          PROVE  /\ rver[r] <= ver'[rprop[r]]
                 /\ rver[r] < ver'[rprop[r]] => Announced(r, rprop[r])'
      <3>1. rver[r] \in Nat /\ rprop[r] \in Props
        BY <1>0 DEF TypeOK
      <3>2. PICK q \in Props : q = rprop[r]
        BY <3>1
      <3>3. rver[r] <= ver'[q] /\ (rver[r] < ver'[q] => Announced(r, q)')
        BY <1>0, <2>1, <2>2, <3>1, <3>2 DEF AreaInv
      <3>4. QED BY <1>2, <3>2, <3>3 DEF Announced
    <2>3. ASSUME NEW r \in Readers, NEW q \in Props, rgot[r][q] # NotRead
          PROVE  /\ rgot[r][q] <= ver'[q]
                 /\ rgot[r][q] < ver'[q] => Announced(r, q)'
      <3>1. rgot[r][q] \in Nat
        BY <1>0, <2>3 DEF TypeOK
      <3>2. QED BY <1>0, <2>1, <2>3, <3>1 DEF AreaInv
    <2>4. QED BY <1>0, <1>2, <2>2, <2>3 DEF AreaInv
  <1>3. ASSUME NEW p \in Props, NEW v \in Values, Add(p, v) PROVE AreaInv'
    BY <1>2, <1>3 DEF Add, reader
  <1>4. ASSUME NEW i \in wleft, UpdateCopy(i) PROVE AreaInv'
    BY <1>0, <1>4 DEF UpdateCopy, AreaInv, Announced, reader, history
  <1>5. CASE UpdatePublish
    <2>1. wprop \in Props
      BY <1>0 DEF TypeOK
    <2>2. QED BY <1>2, <1>5, <2>1 DEF UpdatePublish, reader
  <1>6. CASE UpdateWake
    <2>1. \A r \in Readers : rpc'[r] \in {"copy", "done"} => rpc'[r] = rpc[r]
      BY <1>6 DEF UpdateWake
    <2>2. QED BY <1>0, <1>6, <2>1 DEF UpdateWake, AreaInv, Announced, area, history
  <1>7. CASE BumpArea
    <2>1. \A r \in Readers : rareaVer[r] \in Nat /\ areaVer \in Nat /\ areaVer' = areaVer + 1
      BY <1>0, <1>7 DEF BumpArea, TypeOK
    <2>2. \A r \in Readers : areaVer' > rareaVer[r]
      BY <1>0, <2>1 DEF AreaInv
    <2>3. ASSUME NEW r \in Readers, areaVer' - rareaVer[r] < AreaMod
          PROVE  \/ areaSerial' = rarea[r] + (areaVer' - rareaVer[r])
                 \/ areaSerial' = rarea[r] + (areaVer' - rareaVer[r]) - AreaMod
      <3> DEFINE d == areaVer - rareaVer[r]
      <3>1. d \in Nat /\ areaVer' - rareaVer[r] = d + 1 /\ d + 1 < AreaMod
        BY <1>0, <2>1, <2>3 DEF AreaInv
      <3>2. areaSerial = rarea[r] + d \/ areaSerial = rarea[r] + d - AreaMod
        BY <1>0, <3>1 DEF AreaInv
      <3>3. areaSerial \in 0 .. AreaMod - 1 /\ rarea[r] \in 0 .. AreaMod - 1
        BY <1>0 DEF TypeOK
      <3> HIDE DEF d
      <3>4. areaSerial' = rarea[r] + (d + 1) \/ areaSerial' = rarea[r] + (d + 1) - AreaMod
        BY <1>7, <3>1, <3>2, <3>3, AreaNext DEF BumpArea
      <3>5. QED BY <3>1, <3>4
    <2>4. \A r \in Readers : rareaVer[r] <= areaVer'
      BY <2>1, <2>2
    <2>5. QED
      BY <1>0, <1>7, <2>2, <2>3, <2>4 DEF BumpArea, AreaInv, Announced, reader
  <1>8. CASE WakeArea
    <2>1. \A r \in Readers : rpc'[r] \in {"copy", "done"} => rpc'[r] = rpc[r]
      BY <1>8 DEF WakeArea
    <2>2. QED BY <1>0, <1>8, <2>1 DEF WakeArea, AreaInv, Announced, area, history
  <1>9. QED
    BY <1>1, <1>3, <1>4, <1>5, <1>6, <1>7, <1>8 DEF Writer

\* A reader takes its serial, and reads, at a moment when the two agree.
LEMMA AreaInvReaderStep ==
    ASSUME IInv, NEW r \in Readers, Reader(r)
    PROVE  AreaInv'
  <1>0. TypeOK /\ TypeOK' /\ WriterInv /\ AreaInv
    BY TypeStep DEF IInv, Next
  <1>1. UNCHANGED <<present, serial, bytes, areaSerial, ops, wpc, wprop, wval,
                    wleft, val, ver, areaVer>>
    BY ReaderFrame
  <1> DEFINE
      S(q) == /\ rareaVer[q] <= areaVer
              /\ areaVer - rareaVer[q] < AreaMod =>
                   \/ areaSerial = rarea[q] + (areaVer - rareaVer[q])
                   \/ areaSerial = rarea[q] + (areaVer - rareaVer[q]) - AreaMod
      C(q) == rpc[q] \in {"copy", "done"} =>
                /\ rver[q] <= ver[rprop[q]]
                /\ rver[q] < ver[rprop[q]] => Announced(q, rprop[q])
      G(q) == \A p \in Props : rgot[q][p] # NotRead =>
                /\ rgot[q][p] <= ver[p]
                /\ rgot[q][p] < ver[p] => Announced(q, p)
  <1>2. \A q \in Readers : S(q) /\ C(q) /\ G(q)
    BY <1>0 DEF AreaInv
  <1>3. ASSUME NEW q \in Readers, q # r PROVE (S(q) /\ C(q) /\ G(q))'
    BY <1>0, <1>1, <1>2, <1>3, OtherReaders DEF Announced
  <1>4. ASSUME NEW p \in Props, Find(r, p) PROVE (S(r) /\ C(r) /\ G(r))'
    <2>1. S(r)' /\ G(r)'
      BY <1>1, <1>2, <1>4 DEF Find, Announced
    <2>2. C(r)'
      <3>1. CASE p \in present
        BY <1>0, <1>4, <3>1 DEF Find, TypeOK
      <3>2. CASE p \notin present
        <4>1. rver'[r] = 0 /\ rprop'[r] = p
          BY <1>0, <1>4, <3>2 DEF Find, TypeOK
        <4>2. ver[p] = 0
          BY <1>0, <3>2 DEF WriterInv
        <4>3. QED BY <1>1, <4>1, <4>2
      <3>3. QED BY <3>1, <3>2
    <2>3. QED BY <2>1, <2>2
  <1>5. ASSUME LoadSerial(r) PROVE (S(r) /\ C(r) /\ G(r))'
    <2>1. S(r)' /\ G(r)'
      BY <1>1, <1>2, <1>5 DEF LoadSerial, Announced
    <2>2. C(r)'
      <3>1. CASE serial[rprop[r]].dirty
        BY <1>0, <1>5, <3>1 DEF LoadSerial, TypeOK
      <3>2. CASE ~serial[rprop[r]].dirty
        <4>1. rver'[r] = ver[rprop[r]] /\ rprop' = rprop /\ ver[rprop[r]] \in Nat
          BY <1>0, <1>5, <3>2 DEF LoadSerial, TypeOK
        <4>2. QED BY <1>1, <4>1
      <3>3. QED BY <3>1, <3>2
    <2>3. QED BY <2>1, <2>2
  <1>6. ASSUME \/ FutexWait(r) \/ CheckSerial(r) \/ WaitAny(r)
               \/ FutexWaitAny(r) \/ Interrupted(r)
        PROVE  (S(r) /\ C(r) /\ G(r))'
    <2>1. UNCHANGED <<rprop, rarea, rver, rareaVer, rgot>>
      BY <1>6 DEF FutexWait, CheckSerial, WaitAny, FutexWaitAny, Interrupted, history
    <2>2. S(r)' /\ G(r)'
      BY <1>1, <1>2, <2>1 DEF Announced
    <2>3. rpc'[r] \in {"copy", "done"} => rpc[r] \in {"copy", "done"}
      BY <1>0, <1>6 DEF FutexWait, CheckSerial, WaitAny, FutexWaitAny, Interrupted, TypeOK
    <2>4. C(r)'
      BY <1>1, <1>2, <2>1, <2>3 DEF Announced
    <2>5. QED BY <2>2, <2>4
  <1>7. ASSUME NEW i \in rleft[r], ReadByte(r, i) PROVE (S(r) /\ C(r) /\ G(r))'
    BY <1>1, <1>2, <1>7 DEF ReadByte, Announced, history
  <1>8. ASSUME ReadReturn(r) PROVE (S(r) /\ C(r) /\ G(r))'
    <2>1. UNCHANGED <<rprop, rarea, rver, rareaVer>> /\ rpc'[r] = "idle"
      BY <1>0, <1>8 DEF ReadReturn, TypeOK
    <2>2. S(r)' /\ C(r)'
      BY <1>1, <1>2, <2>1 DEF Announced
    <2>3. ASSUME NEW p \in Props, rgot'[r][p] # NotRead
          PROVE  rgot'[r][p] <= ver[p] /\ (rgot'[r][p] < ver[p] => Announced(r, p)')
      <3>1. rgot'[r] = [rgot[r] EXCEPT ![rprop[r]] = rver[r]]
        BY <1>0, <1>8 DEF ReadReturn, TypeOK
      <3>2. rgot[r] \in [Props -> Nat \cup {NotRead}]
        BY <1>0 DEF TypeOK
      <3>3. CASE p = rprop[r]
        BY <1>1, <1>2, <1>8, <2>1, <3>1, <3>2, <3>3 DEF ReadReturn, Announced
      <3>4. CASE p # rprop[r]
        BY <1>1, <1>2, <2>1, <2>3, <3>1, <3>2, <3>4 DEF Announced
      <3>5. QED BY <3>3, <3>4
    <2>4. G(r)'
      BY <1>1, <2>3
    <2>5. QED BY <2>2, <2>4
  <1>9. ASSUME Obtain(r) PROVE (S(r) /\ C(r) /\ G(r))'
    <2>1. /\ rpc'[r] = "idle" /\ rarea'[r] = areaSerial /\ rareaVer'[r] = areaVer
          /\ rgot'[r] = [p \in Props |-> NotRead]
      BY <1>0, <1>9 DEF Obtain, TypeOK
    <2>2. areaVer \in Nat /\ areaSerial \in Nat
      BY <1>0 DEF TypeOK
    <2>3. S(r)'
      BY <1>1, <2>1, <2>2
    <2>4. C(r)' /\ G(r)'
      BY <2>1
    <2>5. QED BY <2>3, <2>4
  <1>10. ASSUME LoadAny(r) PROVE (S(r) /\ C(r) /\ G(r))'
    <2>1. CASE areaSerial = rarea[r]
      BY <1>0, <1>1, <1>2, <1>10, <2>1 DEF LoadAny, TypeOK, Announced, history
    <2>2. CASE areaSerial # rarea[r]
      BY <1>9, <1>10, <2>2 DEF LoadAny
    <2>3. QED BY <2>1, <2>2
  <1>11. (S(r) /\ C(r) /\ G(r))'
    BY <1>4, <1>5, <1>6, <1>7, <1>8, <1>9, <1>10 DEF Reader, ReadStep, AreaSerial
  <1>12. QED BY <1>3, <1>11 DEF AreaInv

-----------------------------------------------------------------------------
LEMMA IInvInit == Init => IInv
  <1> SUFFICES ASSUME Init PROVE IInv
    OBVIOUS
  <1>1. TypeOK
    BY TypeInit
  <1>2. WriterInv
    BY DEF Init, WriterInv, RestingValue
  <1>3. ReaderInv
    BY DEF Init, ReaderInv
  <1>4. NoTornRead /\ NoLostWakeup
    BY DEF Init, NoTornRead, NoLostWakeup
  <1>5. AreaInv
    BY DEF Init, AreaInv
  <1>6. QED BY <1>1, <1>2, <1>3, <1>4, <1>5 DEF IInv

LEMMA IInvStep == IInv /\ [Next]_vars => IInv'
  <1> SUFFICES ASSUME IInv, [Next]_vars PROVE IInv'
    OBVIOUS
  <1>1. TypeOK'
    BY TypeStep DEF IInv
  <1>2. WriterInv' /\ NoTornRead' /\ NoLostWakeup'
    BY WriterInvStep, NoTornReadStep, NoLostWakeupStep
  <1>3. CASE Writer
    BY <1>1, <1>2, <1>3, ReaderInvWriterStep, AreaInvWriterStep DEF IInv
  <1>4. ASSUME NEW r \in Readers, Reader(r) PROVE IInv'
    BY <1>1, <1>2, <1>4, ReaderInvReaderStep, AreaInvReaderStep DEF IInv
  <1>5. CASE UNCHANGED vars
    <2>1. ReaderInv'
      BY <1>5 DEF IInv, ReaderInv, CopyInv, After, vars, area, writer, reader, history
    <2>2. AreaInv'
      BY <1>5 DEF IInv, AreaInv, Announced, vars, area, writer, reader, history
    <2>3. QED BY <1>1, <1>2, <2>1, <2>2 DEF IInv
  <1>6. QED BY <1>3, <1>4, <1>5 DEF Next

\* Whoever sleeps in wait_any while the writer is at rest has missed nothing.
LEMMA NoStaleSleepFollows == IInv => NoStaleSleep
  <1> SUFFICES ASSUME IInv, NEW r \in Readers, rpc[r] = "asleepany", wpc = "idle",
                      areaVer - rareaVer[r] < AreaMod,
                      NEW p \in Props, rgot[r][p] # NotRead
               PROVE  rgot[r][p] = ver[p]
    BY DEF NoStaleSleep
  <1>1. areaSerial = rarea[r]
    BY DEF IInv, NoLostWakeup
  <1>2. /\ areaVer \in Nat /\ rareaVer[r] \in Nat /\ rarea[r] \in Nat
        /\ rgot[r][p] \in Nat /\ ver[p] \in Nat
    BY DEF IInv, TypeOK
  <1>3. /\ rareaVer[r] <= areaVer
        /\ \/ areaSerial = rarea[r] + (areaVer - rareaVer[r])
           \/ areaSerial = rarea[r] + (areaVer - rareaVer[r]) - AreaMod
    BY DEF IInv, AreaInv
  <1>4. ~(areaVer > rareaVer[r])
    BY <1>1, <1>2, <1>3
  <1>5. rgot[r][p] <= ver[p] /\ (rgot[r][p] < ver[p] => Announced(r, p))
    BY DEF IInv, AreaInv
  <1>6. QED BY <1>2, <1>4, <1>5 DEF Announced

\* Every read of every reader that the serial did not lap returns one value
\* of the property, whole: the seqlock of system_properties.cpp is correct for
\* any number of readers and any interleaving with the writer.
THEOREM ReadsAreWhole == Spec => []NoTornRead
  <1>1. IInv => NoTornRead
    BY DEF IInv
  <1>2. QED BY <1>1, IInvInit, IInvStep, PTL DEF Spec

\* At rest a prop_info holds exactly the last value set.
THEOREM ValuesAtRest == Spec => []RestingValue
  <1>1. IInv => RestingValue
    BY DEF IInv, WriterInv
  <1>2. QED BY <1>1, IInvInit, IInvStep, PTL DEF Spec

\* No thread sleeps on a serial that has changed and whose wake-up is over.
THEOREM WakeupsAreNotLost == Spec => []NoLostWakeup
  <1>1. IInv => NoLostWakeup
    BY DEF IInv
  <1>2. QED BY <1>1, IInvInit, IInvStep, PTL DEF Spec

\* The cache protocol of __system_property_area_serial leaves nobody asleep
\* with a stale value.
THEOREM CachesAreFresh == Spec => []NoStaleSleep
  BY NoStaleSleepFollows, IInvInit, IInvStep, PTL DEF Spec
=============================================================================
