--------------------------- MODULE VariableQueue ----------------------------
(***************************************************************************)
(* libs/mingutils, src/misc/variable_queue.cc: records of any length in a  *)
(* block of memory whose end is joined to its beginning.  A record is a    *)
(* header of one word and its bytes, rounded up to words.  Where a record  *)
(* reaches past the end of the memory it is split, or, in a continuous     *)
(* queue, a padding record fills the rest and it begins anew at _begin.    *)
(*                                                                         *)
(* The control block lies in the memory itself: it outlives the object,    *)
(* and reuse attaches another one to it.  Callers serialise the calls, as  *)
(* demo/misc/vq_demo.cc does.  write_counter is only printed.              *)
(***************************************************************************)
EXTENDS Integers, Sequences

CONSTANTS
    Space,      \* _space_size
    Lengths,    \* the lengths write is called with
    Ids         \* contents of records

\* create and reuse take memory of any size; write asserts that it is a whole
\* number of words.
ASSUME QueueAssumption ==
    /\ Space \in Nat \ {0} /\ Space % 4 = 0
    /\ Lengths \subseteq Nat

HeaderSize == 4

\* pack_size.
Pack(n) == ((n + 3) \div 4) * 4

Total(n) == Pack(n + HeaderSize)
Parts(n) == (n + 3) \div 4

\* Memory is an array of words: a header, or the k-th word of a content.
Words == 0..(Space \div 4) - 1
Header(p, n) == [pad |-> p, size |-> n, data |-> <<>>]
Part(id, k) == [pad |-> FALSE, size |-> 0, data |-> <<id, k>>]
Unset == [pad |-> FALSE, size |-> 0, data |-> <<>>]

VARIABLES
    attached,       \* _control # nullptr
    created,        \* whether the control block was ever written
    mem,            \* mem[w]: the word at _begin + 4 * w
    front, back, remain, continuous,    \* the control block
    result,         \* what the last call returned; of a refused write also the
                    \* length it was called with
    records         \* history: what was written and not taken, and where

control == <<front, back, remain, continuous>>
vars == <<attached, created, mem, front, back, remain, continuous, result,
          records>>

\* What a call returns: whether there was something, a length, and words.
Returned(kind, n, words) == [kind |-> kind, len |-> n, words |-> words]
Accepted == Returned("accepted", 0, <<>>)
Refused(n) == Returned("refused", n, <<>>)
Nothing == Returned("nothing", 0, <<>>)
Null == Returned("null", 0, <<>>)

Init ==
    /\ attached = FALSE /\ created = FALSE
    /\ mem = [w \in Words |-> Unset]
    /\ front = 0 /\ back = 0 /\ remain = Space /\ continuous = FALSE
    /\ result = Nothing
    /\ records = <<>>

At(o) == mem[o \div 4]

-----------------------------------------------------------------------------

\* An object that is attached already leaves everything as it is.
Create(c) ==
    /\ ~attached
    /\ attached' = TRUE /\ created' = TRUE
    /\ front' = 0 /\ back' = 0 /\ remain' = Space /\ continuous' = c
    /\ records' = <<>>
    /\ UNCHANGED <<mem, result>>

Reuse ==
    /\ ~attached /\ created
    /\ attached' = TRUE
    /\ UNCHANGED <<created, mem, control, result, records>>

Close ==
    /\ attached
    /\ attached' = FALSE
    /\ UNCHANGED <<created, mem, control, result, records>>

\* clear also makes a continuous queue one that splits.
Clear ==
    /\ attached
    /\ front' = 0 /\ back' = 0 /\ remain' = Space /\ continuous' = FALSE
    /\ records' = <<>>
    /\ UNCHANGED <<attached, created, mem, result>>

-----------------------------------------------------------------------------
(* write.                                                                  *)

\* The room from back to the end of the memory.
Csz == Space - back

\* Mutant: the header is forgotten.
RoomNoHeader(n) == attached /\ remain >= n

Room(n) == attached /\ remain >= n + HeaderSize

\* The header at offset o and the record's bytes behind it, from _begin on
\* where they reach past the end.
Stored(m, o, n, id) ==
    [w \in Words |->
        LET k == (w - o \div 4) % (Space \div 4) IN
        IF k = 0 THEN Header(FALSE, n)
        ELSE IF k <= Parts(n) THEN Part(id, k)
        ELSE m[w]]

Written(n, id, o, b, size) ==
    /\ back' = b
    /\ remain' = remain - size
    /\ result' = Accepted
    /\ records' = Append(records, [id |-> id, len |-> n, at |-> o])
    /\ UNCHANGED <<attached, created, front, continuous>>

WriteStraight(n, id) ==
    /\ Room(n) /\ Csz >= Total(n)
    /\ mem' = Stored(mem, back, n, id)
    /\ Written(n, id, back, IF Csz = Total(n) THEN 0 ELSE back + Total(n), Total(n))

\* Mutant: the padding is not taken off what remains.
WritePaddedFree(n, id) ==
    /\ Room(n) /\ Csz < Total(n) /\ continuous /\ front >= Total(n)
    /\ mem' = [Stored(mem, 0, n, id) EXCEPT ![back \div 4] = Header(TRUE, Csz - HeaderSize)]
    /\ Written(n, id, 0, Total(n), Total(n))

WritePadded(n, id) ==
    /\ Room(n) /\ Csz < Total(n) /\ continuous /\ front >= Total(n)
    /\ mem' = [Stored(mem, 0, n, id) EXCEPT ![back \div 4] = Header(TRUE, Csz - HeaderSize)]
    /\ Written(n, id, 0, Total(n), Csz + Total(n))

\* Csz - HeaderSize bytes go to the end, the others to _begin.
WriteSplit(n, id) ==
    /\ Room(n) /\ Csz < Total(n) /\ ~continuous
    /\ mem' = Stored(mem, back, n, id)
    /\ Written(n, id, back, Pack(n - (Csz - HeaderSize)), Total(n))

WriteRefused(n) ==
    /\ ~Room(n) \/ (continuous /\ Csz < Total(n) /\ front < Total(n))
    /\ result' = Refused(n)
    /\ UNCHANGED <<attached, created, mem, control, records>>

Write(n, id) ==
    \/ WriteStraight(n, id)
    \/ WritePadded(n, id)
    \/ WriteSplit(n, id)
    \/ WriteRefused(n)

-----------------------------------------------------------------------------
(* read, erase and peek.                                                   *)

Empty == ~attached \/ remain = Space

\* read and erase skip the padding record, and then look again.
OnPad == continuous /\ At(front).pad

\* Mutant: the padding is not skipped.
FirstPadded == front

First == IF OnPad THEN 0 ELSE front

Remain == IF OnPad THEN remain + Total(At(front).size) ELSE remain

\* What read copies: a continuous queue's record is read in one piece.
Content(o) ==
    LET n == At(o).size IN
    Returned("data", n,
             [k \in 1..Parts(n) |->
                LET w == o \div 4 + k IN
                IF w \in Words THEN mem[w].data
                ELSE IF continuous THEN <<>> ELSE mem[w - Space \div 4].data])

\* Where the record at o ends, and the next begins.
Past(o) ==
    LET n == o + Total(At(o).size) IN
    CASE n < Space -> n
      [] n = Space -> 0
      [] n > Space -> IF continuous THEN n ELSE n - Space

\* The second look may find the queue empty: read and erase then return zero.
Take(r) ==
    /\ ~Empty
    /\ front' = IF Remain = Space THEN 0 ELSE Past(First)
    /\ remain' = IF Remain = Space THEN Space ELSE Remain + Total(At(First).size)
    /\ result' = IF Remain = Space THEN Nothing ELSE r
    /\ records' = IF records = <<>> \/ Remain = Space THEN records ELSE Tail(records)
    /\ UNCHANGED <<attached, created, mem, back, continuous>>

Returns(r) ==
    /\ result' = r
    /\ UNCHANGED <<attached, created, mem, control, records>>

Read == Take(Content(First)) \/ (Empty /\ Returns(Nothing))

Erase ==
    \/ Take(Returned("erased", At(First).size, <<>>))
    \/ (Empty /\ Returns(Nothing))

\* peek does not look again: the record behind the padding is at _begin.
Peek == Returns(IF Empty \/ ~continuous THEN Null ELSE Content(First))

Next ==
    \/ \E c \in BOOLEAN : Create(c)
    \/ Reuse \/ Close \/ Clear
    \/ \E n \in Lengths, id \in Ids : Write(n, id)
    \/ Read \/ Erase \/ Peek

Spec == Init /\ [][Next]_vars

-----------------------------------------------------------------------------

TypeOK ==
    /\ attached \in BOOLEAN /\ created \in BOOLEAN /\ continuous \in BOOLEAN
    /\ mem \in [Words -> [pad : BOOLEAN, size : 0..Space,
                         data : {<<>>} \cup (Ids \X (1..Space))]]
    /\ front \in 0..Space - 1 /\ back \in 0..Space - 1 /\ remain \in 0..Space
    /\ \A i \in DOMAIN records :
         records[i] \in [id : Ids, len : 0..Space, at : 0..Space - 1]

\* Where the record after the one that ends at o begins: there, or at _begin
\* when the padding lies between.
Follows(o, p) ==
    \/ p = o
    \/ continuous /\ p = 0 /\ o # 0 /\ At(o) = Header(TRUE, Space - o - HeaderSize)

\* The records lie end to end from front to back, each under its own header
\* and with its own bytes, and remain is what they and the padding leave: the
\* room that write compares with before it rounds up is never exceeded.
Layout ==
    /\ TypeOK
    /\ back = (front + Space - remain) % Space
    /\ {front % 4, back % 4, remain % 4} = {0}
    /\ remain = Space <=> records = <<>>
    /\ \A i \in DOMAIN records :
         LET r == records[i] IN
         /\ At(r.at) = Header(FALSE, r.len)
         /\ \A k \in 1..Parts(r.len) :
              mem[(r.at \div 4 + k) % (Space \div 4)] = Part(r.id, k)
         /\ Follows(IF i = 1 THEN front ELSE Past(records[i-1].at), r.at)
         /\ i = Len(records) => back = Past(r.at)

\* The assertions of write, read, erase and peek hold whenever they are
\* called: what is left to the end of the memory is a number of words, a
\* continuous queue that has wrapped is never written past its end, a split
\* record has bytes to put at _begin, no record is longer than what is in use,
\* the padding reaches the end, and the same goes for what read and erase find
\* behind the padding, where there is no padding again.
AssertionsHold ==
    /\ \A n \in Lengths : Room(n) =>
         /\ Csz > 0 /\ Csz % 4 = 0
         /\ Csz < Total(n) /\ continuous => back >= front
         /\ Csz < Total(n) /\ ~continuous => n - (Csz - HeaderSize) > 0
    /\ ~Empty =>
         /\ Total(At(front).size) <= Space - remain
         /\ OnPad => front + Total(At(front).size) = Space
         /\ OnPad /\ Remain # Space =>
              ~At(First).pad /\ Total(At(First).size) <= Space - Remain

Abstract == INSTANCE RecordQueue
    WITH open <- attached,
         queue <- [i \in DOMAIN records |-> [id |-> records[i].id, len |-> records[i].len]],
         used <- Space - remain,
         continuous <- continuous,
         result <- result

\* The queue is a queue of records: each comes out whole, once and in the
\* order written, through wrapping, padding, clear, close and reuse, and one is
\* refused only when it needs more room than there is, or, in a continuous queue,
\* more than half of it (write, read, erase, peek).
IsRecordQueue == Abstract!Spec
=============================================================================
