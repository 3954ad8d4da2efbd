------------------------------ MODULE PropArea ------------------------------
(***************************************************************************)
(* The shared property area of libs/property (system_properties.cpp): one  *)
(* writer process updates and adds properties in a memory map that every   *)
(* other process reads without a lock.                                     *)
(*                                                                         *)
(* Each property is a prop_info: a 32-bit serial and a buffer of bytes.    *)
(* The serial holds the length of the value (high 8 bits), an update       *)
(* generation (bits 23..1) and a dirty bit (bit 0).  A reader copies the   *)
(* bytes and accepts the copy if the serial did not change meanwhile; it   *)
(* sleeps on the serial (a futex) while the dirty bit is set.  The area    *)
(* itself has a serial too, which counts completed changes and which       *)
(* __system_property_wait_any sleeps on.                                   *)
(*                                                                         *)
(* Each access to shared memory is one step, in program order: the model   *)
(* takes the fences of the code to do what its comments ask of them.  The  *)
(* bytes of a memcpy are copied one at a time in any order.                *)
(***************************************************************************)
EXTENDS Integers, Sequences, FiniteSets

CONSTANTS
    Props,      \* names of properties
    Readers,    \* threads that read the area
    Bytes,      \* the bytes a value is made of
    NUL,        \* the byte that ends a string
    MaxLen,     \* PROP_VALUE_MAX - 1
    Values,     \* the strings the writer stores
    GenMod,     \* 2^23: update generations of a prop_info's serial
    AreaMod,    \* 2^32: values of the area's serial
    Capacity,   \* how many properties fit in the area
    MaxOps      \* bound: how many changes the writer makes

ASSUME BoundsAssumption ==
    /\ MaxLen \in Nat
    /\ GenMod \in Nat \ {0}
    /\ AreaMod \in Nat \ {0, 1}
    /\ Capacity \in Nat
    /\ MaxOps \in Nat

ASSUME BytesAssumption == NUL \notin Bytes

ASSUME ValuesAssumption ==
    \A v \in Values : v \in Seq(Bytes) /\ Len(v) <= MaxLen

VARIABLES
    present,    \* properties linked into the trie
    serial,     \* serial[p]: the serial word of p's prop_info
    bytes,      \* bytes[p]: the value buffer of p's prop_info
    areaSerial, \* the serial of the prop_area
    ops,        \* number of changes begun
    wpc,        \* where the writer is
    wprop,      \* the property it is changing
    wval,       \* the value it is storing
    wleft,      \* the bytes its memcpy has still to copy
    rpc,        \* rpc[r]: where reader r is
    rprop,      \* the property it is reading
    rserial,    \* the serial it loaded
    rleft,      \* the bytes its memcpy has still to copy
    rbuf,       \* the caller's buffer
    rarea,      \* the area serial it holds
    \* History variables: they never occur in a guard.
    val,        \* val[p]: the value of the last change of p
    ver,        \* ver[p]: how many values p has had
    rsnap,      \* the value that was current when r loaded the serial
    rver,       \* and its number
    areaVer,    \* number of changes made known through areaSerial
    rareaVer,   \* areaVer when r obtained rarea
    rgot        \* rgot[r][p]: number of the value of p that r read since it
                \* obtained rarea, or NotRead

area    == <<present, serial, bytes, areaSerial>>
writer  == <<ops, wpc, wprop, wval, wleft>>
reader  == <<rpc, rprop, rserial, rleft, rbuf, rarea>>
history == <<val, ver, rsnap, rver, areaVer, rareaVer, rgot>>
vars    == <<area, writer, reader, history>>

Cells   == 0 .. MaxLen
Buffer  == [Cells -> Bytes \cup {NUL}]
Serial  == [len : Cells, gen : 0 .. GenMod - 1, dirty : BOOLEAN]

\* The byte a C string has at offset i: its terminator comes after the last.
CharAt(v, i) == IF i < Len(v) THEN v[i + 1] ELSE NUL

\* What a caller that treats the buffer as a C string of length n sees is v.
Holds(buf, n, v) == n = Len(v) /\ \A i \in 0 .. n : buf[i] = CharAt(v, i)

\* Mutant: without the mask the generation runs into the length.
NextGenUnmasked(g) == g + 1

\* The generation after g: (serial + 1) & 0xffffff on bits 23..1.
NextGen(g) == IF g = GenMod - 1 THEN 0 ELSE g + 1

\* The area serial after s, a uint32_t.
NextArea(s) == IF s = AreaMod - 1 THEN 0 ELSE s + 1

NotRead == -1

Init ==
    /\ present = {}
    /\ serial = [p \in Props |-> [len |-> 0, gen |-> 0, dirty |-> FALSE]]
    /\ bytes = [p \in Props |-> [i \in Cells |-> NUL]]
    /\ areaSerial = 0
    /\ ops = 0
    /\ wpc = "idle"
    /\ wprop \in Props
    /\ wval = <<>>
    /\ wleft = {}
    /\ rpc = [r \in Readers |-> "idle"]
    /\ rprop = [r \in Readers |-> wprop]
    /\ rserial = [r \in Readers |-> [len |-> 0, gen |-> 0, dirty |-> FALSE]]
    /\ rleft = [r \in Readers |-> {}]
    /\ rbuf = [r \in Readers |-> [i \in Cells |-> NUL]]
    /\ rarea = [r \in Readers |-> 0]
    /\ val = [p \in Props |-> <<>>]
    /\ ver = [p \in Props |-> 0]
    /\ rsnap = [r \in Readers |-> <<>>]
    /\ rver = [r \in Readers |-> 0]
    /\ areaVer = 0
    /\ rareaVer = [r \in Readers |-> 0]
    /\ rgot = [r \in Readers |-> [p \in Props |-> NotRead]]

-----------------------------------------------------------------------------
(* The writer: __system_property_update and __system_property_add.         *)

\* Mutant: the serial is not marked dirty before the copy.
UpdateBeginClean(p, v) ==
    /\ wpc = "idle"
    /\ ops < MaxOps
    /\ p \in present
    /\ ops' = ops + 1
    /\ wpc' = "copy"
    /\ wprop' = p
    /\ wval' = v
    /\ wleft' = 0 .. Len(v)
    /\ UNCHANGED <<area, reader, history>>

\* Mutant: memcpy of len bytes, without the terminator.
UpdateBeginShort(p, v) ==
    /\ wpc = "idle"
    /\ ops < MaxOps
    /\ p \in present
    /\ ops' = ops + 1
    /\ wpc' = "copy"
    /\ wprop' = p
    /\ wval' = v
    /\ wleft' = 0 .. Len(v) - 1
    /\ serial' = [serial EXCEPT ![p] =
                    [len |-> @.len, gen |-> @.gen, dirty |-> TRUE]]
    /\ UNCHANGED <<present, bytes, areaSerial, reader, history>>

\* serial |= 1: the value is about to change.
UpdateBegin(p, v) ==
    /\ wpc = "idle"
    /\ ops < MaxOps
    /\ p \in present
    /\ ops' = ops + 1
    /\ wpc' = "copy"
    /\ wprop' = p
    /\ wval' = v
    /\ wleft' = 0 .. Len(v)
    /\ serial' = [serial EXCEPT ![p] =
                    [len |-> @.len, gen |-> @.gen, dirty |-> TRUE]]
    /\ UNCHANGED <<present, bytes, areaSerial, reader, history>>

\* memcpy(pi->value, value, len + 1), one byte of it.
UpdateCopy(i) ==
    /\ wpc = "copy"
    /\ i \in wleft
    /\ bytes' = [bytes EXCEPT ![wprop][i] = CharAt(wval, i)]
    /\ wleft' = wleft \ {i}
    /\ UNCHANGED <<present, serial, areaSerial, ops, wpc, wprop, wval>>
    /\ UNCHANGED <<reader, history>>

\* The store of the new length and generation, with the dirty bit clear.
UpdatePublish ==
    /\ wpc = "copy"
    /\ wleft = {}
    /\ wpc' = "wakeprop"
    /\ serial' = [serial EXCEPT ![wprop] =
                    [len |-> Len(wval), gen |-> NextGen(@.gen), dirty |-> FALSE]]
    /\ val' = [val EXCEPT ![wprop] = wval]
    /\ ver' = [ver EXCEPT ![wprop] = @ + 1]
    /\ UNCHANGED <<present, bytes, areaSerial, ops, wprop, wval, wleft, reader>>
    /\ UNCHANGED <<rsnap, rver, areaVer, rareaVer, rgot>>

\* Mutant: an update is not announced in the area serial.
UpdateWakeOnly ==
    /\ wpc = "wakeprop"
    /\ wpc' = "idle"
    /\ rpc' = [r \in Readers |-> IF rpc[r] = "asleep" /\ rprop[r] = wprop
                                   THEN "load" ELSE rpc[r]]
    /\ UNCHANGED <<area, ops, wprop, wval, wleft>>
    /\ UNCHANGED <<rprop, rserial, rleft, rbuf, rarea, history>>

\* Mutant: nobody is woken.
UpdateWakeNobody ==
    /\ wpc = "wakeprop"
    /\ wpc' = "bump"
    /\ UNCHANGED <<area, ops, wprop, wval, wleft, reader, history>>

\* __futex_wake(&pi->serial): every reader asleep on this property.
UpdateWake ==
    /\ wpc = "wakeprop"
    /\ wpc' = "bump"
    /\ rpc' = [r \in Readers |-> IF rpc[r] = "asleep" /\ rprop[r] = wprop
                                   THEN "load" ELSE rpc[r]]
    /\ UNCHANGED <<area, ops, wprop, wval, wleft>>
    /\ UNCHANGED <<rprop, rserial, rleft, rbuf, rarea, history>>

\* find_property fills a prop_info nobody sees yet, then links it into the
\* trie with one release store.  On a full area the
\* name does not appear, though nodes of the trie on its path may stay.
Add(p, v) ==
    /\ wpc = "idle"
    /\ ops < MaxOps
    /\ p \notin present
    /\ Cardinality(present) < Capacity
    /\ ops' = ops + 1
    /\ wpc' = "bump"
    /\ wprop' = p
    /\ wval' = v
    /\ wleft' = {}
    /\ present' = present \cup {p}
    /\ serial' = [serial EXCEPT ![p] = [len |-> Len(v), gen |-> 0, dirty |-> FALSE]]
    /\ bytes' = [bytes EXCEPT ![p] = [i \in Cells |-> CharAt(v, i)]]
    /\ val' = [val EXCEPT ![p] = v]
    /\ ver' = [ver EXCEPT ![p] = @ + 1]
    /\ UNCHANGED <<areaSerial, reader, rsnap, rver, areaVer, rareaVer, rgot>>

\* The area's serial is incremented once the change itself is visible.
BumpArea ==
    /\ wpc = "bump"
    /\ wpc' = "wakearea"
    /\ areaSerial' = NextArea(areaSerial)
    /\ areaVer' = areaVer + 1
    /\ UNCHANGED <<present, serial, bytes, ops, wprop, wval, wleft, reader>>
    /\ UNCHANGED <<val, ver, rsnap, rver, rareaVer, rgot>>

\* Mutant: nobody is woken.
WakeAreaNobody ==
    /\ wpc = "wakearea"
    /\ wpc' = "idle"
    /\ UNCHANGED <<area, ops, wprop, wval, wleft, reader, history>>

\* __futex_wake(&pa->serial): every caller of wait_any that is asleep.
WakeArea ==
    /\ wpc = "wakearea"
    /\ wpc' = "idle"
    /\ rpc' = [r \in Readers |-> IF rpc[r] = "asleepany" THEN "loadany" ELSE rpc[r]]
    /\ UNCHANGED <<area, ops, wprop, wval, wleft>>
    /\ UNCHANGED <<rprop, rserial, rleft, rbuf, rarea, history>>

Writer ==
    \/ \E p \in Props, v \in Values : UpdateBegin(p, v) \/ Add(p, v)
    \/ \E i \in wleft : UpdateCopy(i)
    \/ UpdatePublish
    \/ UpdateWake
    \/ BumpArea
    \/ WakeArea

-----------------------------------------------------------------------------
(* A reader: __system_property_get, _serial, _read, _area_serial and       *)
(* _wait_any.                                                              *)

\* __system_property_find: the property is linked, or the answer is "".
Find(r, p) ==
    /\ rpc[r] = "idle"
    /\ rprop' = [rprop EXCEPT ![r] = p]
    /\ IF p \in present
         THEN /\ rpc' = [rpc EXCEPT ![r] = "load"]
              /\ UNCHANGED <<rserial, rbuf, rsnap, rver>>
         ELSE /\ rpc' = [rpc EXCEPT ![r] = "done"]
              /\ rserial' = [rserial EXCEPT ![r] =
                                [len |-> 0, gen |-> @.gen, dirty |-> FALSE]]
              /\ rbuf' = [rbuf EXCEPT ![r][0] = NUL]
              /\ rsnap' = [rsnap EXCEPT ![r] = <<>>]
              /\ rver' = [rver EXCEPT ![r] = 0]
    /\ UNCHANGED <<area, writer, rleft, rarea, val, ver, areaVer, rareaVer, rgot>>

\* __system_property_serial loads the serial; a dirty one must be waited for.
LoadSerial(r) ==
    LET s == serial[rprop[r]]
    IN  /\ rpc[r] = "load"
        /\ rserial' = [rserial EXCEPT ![r] = s]
        /\ IF s.dirty
             THEN /\ rpc' = [rpc EXCEPT ![r] = "futex"]
                  /\ UNCHANGED <<rleft, rsnap, rver>>
             ELSE /\ rpc' = [rpc EXCEPT ![r] = "copy"]
                  /\ rleft' = [rleft EXCEPT ![r] = 0 .. s.len]
                  /\ rsnap' = [rsnap EXCEPT ![r] = val[rprop[r]]]
                  /\ rver' = [rver EXCEPT ![r] = ver[rprop[r]]]
        /\ UNCHANGED <<area, writer, rprop, rbuf, rarea>>
        /\ UNCHANGED <<val, ver, areaVer, rareaVer, rgot>>

\* Mutant: sleep without comparing the serial first.
FutexSleep(r) ==
    /\ rpc[r] = "futex"
    /\ rpc' = [rpc EXCEPT ![r] = "asleep"]
    /\ UNCHANGED <<area, writer, rprop, rserial, rleft, rbuf, rarea, history>>

\* __futex_wait(&pi->serial, serial): sleep only if it still has that value.
FutexWait(r) ==
    /\ rpc[r] = "futex"
    /\ rpc' = [rpc EXCEPT ![r] =
                 IF serial[rprop[r]] = rserial[r] THEN "asleep" ELSE "load"]
    /\ UNCHANGED <<area, writer, rprop, rserial, rleft, rbuf, rarea, history>>

\* memcpy(value, pi->value, len + 1), one byte of it.
ReadByte(r, i) ==
    /\ rpc[r] = "copy"
    /\ i \in rleft[r]
    /\ rbuf' = [rbuf EXCEPT ![r][i] = bytes[rprop[r]][i]]
    /\ rleft' = [rleft EXCEPT ![r] = @ \ {i}]
    /\ UNCHANGED <<area, writer, rpc, rprop, rserial, rarea, history>>

\* The copy is accepted if the serial is the one loaded before it.
CheckSerial(r) ==
    /\ rpc[r] = "copy"
    /\ rleft[r] = {}
    /\ rpc' = [rpc EXCEPT ![r] =
                 IF serial[rprop[r]] = rserial[r] THEN "done" ELSE "load"]
    /\ UNCHANGED <<area, writer, rprop, rserial, rleft, rbuf, rarea, history>>

\* The call returns to its caller.
ReadReturn(r) ==
    /\ rpc[r] = "done"
    /\ rpc' = [rpc EXCEPT ![r] = "idle"]
    /\ rgot' = [rgot EXCEPT ![r][rprop[r]] = rver[r]]
    /\ UNCHANGED <<area, writer, rprop, rserial, rleft, rbuf, rarea>>
    /\ UNCHANGED <<val, ver, rsnap, rver, areaVer, rareaVer>>

\* r takes the area serial: what it read before counts for nothing now.
Obtain(r) ==
    /\ rpc' = [rpc EXCEPT ![r] = "idle"]
    /\ rarea' = [rarea EXCEPT ![r] = areaSerial]
    /\ rareaVer' = [rareaVer EXCEPT ![r] = areaVer]
    /\ rgot' = [rgot EXCEPT ![r] = [p \in Props |-> NotRead]]
    /\ UNCHANGED <<area, writer, rprop, rserial, rleft, rbuf>>
    /\ UNCHANGED <<val, ver, rsnap, rver, areaVer>>

\* __system_property_area_serial.
AreaSerial(r) == rpc[r] = "idle" /\ Obtain(r)

\* __system_property_wait_any is called with the serial r holds.
WaitAny(r) ==
    /\ rpc[r] = "idle"
    /\ rpc' = [rpc EXCEPT ![r] = "futexany"]
    /\ UNCHANGED <<area, writer, rprop, rserial, rleft, rbuf, rarea, history>>

\* __futex_wait(&pa->serial, serial).
FutexWaitAny(r) ==
    /\ rpc[r] = "futexany"
    /\ rpc' = [rpc EXCEPT ![r] =
                 IF areaSerial = rarea[r] THEN "asleepany" ELSE "loadany"]
    /\ UNCHANGED <<area, writer, rprop, rserial, rleft, rbuf, rarea, history>>

\* The load after the wait: return a serial that is not the caller's.
LoadAny(r) ==
    /\ rpc[r] = "loadany"
    /\ IF areaSerial = rarea[r]
         THEN /\ rpc' = [rpc EXCEPT ![r] = "futexany"]
              /\ UNCHANGED <<area, writer, rprop, rserial, rleft, rbuf, rarea, history>>
         ELSE Obtain(r)

\* A signal handler ran: futex_wait returns though nobody called futex_wake.
Interrupted(r) ==
    /\ rpc[r] \in {"asleep", "asleepany"}
    /\ rpc' = [rpc EXCEPT ![r] = IF @ = "asleep" THEN "load" ELSE "loadany"]
    /\ UNCHANGED <<area, writer, rprop, rserial, rleft, rbuf, rarea, history>>

\* The steps of a call in progress: these need no decision of the caller.
ReadStep(r) ==
    \/ LoadSerial(r)
    \/ FutexWait(r)
    \/ \E i \in rleft[r] : ReadByte(r, i)
    \/ CheckSerial(r)
    \/ ReadReturn(r)
    \/ FutexWaitAny(r)
    \/ LoadAny(r)

Reader(r) ==
    \/ \E p \in Props : Find(r, p)
    \/ AreaSerial(r)
    \/ WaitAny(r)
    \/ ReadStep(r)
    \/ Interrupted(r)

Next == Writer \/ \E r \in Readers : Reader(r)

Spec == Init /\ [][Next]_vars

\* The writer finishes the change it began (it holds no lock and waits for
\* nobody) and a reader inside a call is scheduled.  Nobody has to begin a
\* call, and no signal has to arrive.
WriterStep ==
    \/ \E i \in wleft : UpdateCopy(i)
    \/ UpdatePublish \/ UpdateWake \/ BumpArea \/ WakeArea

FairSpec == Spec /\ WF_vars(WriterStep) /\ \A r \in Readers : WF_vars(ReadStep(r))

-----------------------------------------------------------------------------
(* Properties.                                                             *)

TypeOK ==
    /\ present \subseteq Props
    /\ serial \in [Props -> Serial]
    /\ bytes \in [Props -> Buffer]
    /\ areaSerial \in 0 .. AreaMod - 1
    /\ ops \in 0 .. MaxOps
    /\ wpc \in {"idle", "copy", "wakeprop", "bump", "wakearea"}
    /\ wprop \in Props
    /\ wval \in Seq(Bytes) /\ Len(wval) <= MaxLen
    /\ wleft \subseteq 0 .. Len(wval)
    /\ rpc \in [Readers -> {"idle", "load", "futex", "asleep", "copy", "done",
                            "futexany", "asleepany", "loadany"}]
    /\ rprop \in [Readers -> Props]
    /\ rserial \in [Readers -> Serial]
    /\ rleft \in [Readers -> SUBSET Cells]
    /\ rbuf \in [Readers -> Buffer]
    /\ rarea \in [Readers -> 0 .. AreaMod - 1]
    /\ val \in [Props -> Seq(Bytes)]
    /\ ver \in [Props -> Nat]
    /\ rsnap \in [Readers -> Seq(Bytes)]
    /\ rver \in [Readers -> Nat]
    /\ areaVer \in Nat
    /\ rareaVer \in [Readers -> Nat]
    /\ rgot \in [Readers -> [Props -> Nat \cup {NotRead}]]

\* The serial went round while r was copying: GenMod updates of one property
\* inside one call of __system_property_read.
Lapped(r) == ver[rprop[r]] - rver[r] >= GenMod

\* __system_property_read returns a value that was the property's value at a
\* moment during the call, whole and with its own length: never bytes of two
\* values, never the bytes of one with the length of another.
NoTornRead ==
    \A r \in Readers :
        rpc[r] = "done" /\ ~Lapped(r) => Holds(rbuf[r], rserial[r].len, rsnap[r])

\* A thread sleeps on a serial only while that serial has the value it waits
\* to see change, or the wake-up for its change is the writer's next step: the
\* compare-and-sleep of futex_wait and the store-then-wake of the writer lose
\* no wake-up between them.
NoLostWakeup ==
    \A r \in Readers :
        /\ rpc[r] = "asleep" =>
             \/ serial[rprop[r]] = rserial[r] /\ wpc = "copy" /\ wprop = rprop[r]
             \/ wpc = "wakeprop" /\ wprop = rprop[r]
        /\ rpc[r] = "asleepany" => areaSerial = rarea[r] \/ wpc = "wakearea"

\* The cache protocol the comment on __system_property_area_serial describes:
\* take the area serial, read, then wait_any.  Whoever sleeps there while the
\* writer is at rest has read the current value of all it read since: a change
\* is visible before the area serial announces it.  (Excepting a serial that
\* went all the way round.)
NoStaleSleep ==
    \A r \in Readers :
        rpc[r] = "asleepany" /\ wpc = "idle" /\ areaVer - rareaVer[r] < AreaMod
            => \A p \in Props : rgot[r][p] # NotRead => rgot[r][p] = ver[p]

\* A prop_info at rest holds exactly the value last set: what a reader finds
\* between two changes is the value and its length, terminated.
RestingValue ==
    \A p \in present :
        ~serial[p].dirty => Holds(bytes[p], serial[p].len, val[p])

\* A reader that found the property dirty gets a value in the end: no sleep
\* and no retry lasts for ever once the writer stops changing properties.
ReadReturns == \A r \in Readers : (rpc[r] = "load") ~> (rpc[r] = "done")

\* A caller of wait_any returns once a change is made known after the one it
\* holds the serial of.
WaitAnyReturns ==
    \A r \in Readers :
        (rpc[r] \in {"futexany", "asleepany"} /\ areaVer > rareaVer[r])
            ~> (rpc[r] = "idle")
=============================================================================
