---------------------------- MODULE CircleStream ----------------------------
(***************************************************************************)
(* libs/mingutils, include/misc/circle-stream.h: a stream of bytes in a    *)
(* block of memory whose end is joined to its beginning.                   *)
(*                                                                         *)
(* The writer sends the numbers 0, 1, 2, ... modulo Modulus and goes on    *)
(* after what write took, as the test of the class does; offset counts     *)
(* what was read.                                                          *)
(***************************************************************************)
EXTENDS Integers, Sequences

CONSTANTS
    Capacity,   \* space_size
    Lengths,    \* what write, read and erase are called with
    Word,       \* 2^32: uint32_t arithmetic
    Overrun     \* whether write is called with more than reaches the end of
                \* the memory when the free space does not

ASSUME StreamAssumption ==
    /\ Capacity \in Nat \ {0}
    /\ Lengths \subseteq Nat
    /\ Word \in Nat /\ Word > Capacity + 2
    /\ \A n \in Lengths : n < Word
    /\ Overrun \in BOOLEAN

Modulus == Capacity + 2
Cells == 0..Capacity - 1
Empty == -1

VARIABLES
    open,       \* _control # nullptr
    mem,        \* mem[i]: the byte at _begin + i
    front, back,
    remain,     \* _remain_size
    sent,       \* the number the writer sends next
    offset,     \* the number the reader expects next
    result      \* of the last call: its length, what it returned, what read gave

vars == <<open, mem, front, back, remain, sent, offset, result>>

Result(asked, took, data) == [asked |-> asked, took |-> took, data |-> data]

Init ==
    /\ open = FALSE
    /\ mem = [i \in Cells |-> Empty]
    /\ front = 0 /\ back = 0 /\ remain = 0
    /\ sent = 0 /\ offset = 0 /\ result = Result(0, 0, <<>>)

Min2(a, b) == IF a <= b THEN a ELSE b

\* The n-th byte of the data that is being written.
Data(n) == (sent + n) % Modulus

\* memcpy(_begin + at, data + from, n).
Copied(m, at, from, n) ==
    [i \in Cells |-> IF at <= i /\ i < at + n THEN Data(from + i - at) ELSE m[i]]

Create ==
    /\ ~open
    /\ open' = TRUE
    /\ front' = 0 /\ back' = 0 /\ remain' = Capacity
    /\ offset' = sent
    /\ UNCHANGED <<mem, sent, result>>

Close ==
    /\ open
    /\ open' = FALSE
    /\ remain' = 0
    /\ offset' = sent
    /\ UNCHANGED <<mem, front, back, sent, result>>

\* Mutant: the wrapped part may reach the byte that is read next.
WriteWrappedPast(len) ==
    LET csz == Capacity - back
        sz3 == Min2(len - csz, front + 1) IN
    /\ csz < len
    /\ mem' = Copied(Copied(mem, back, 0, csz), 0, csz, sz3)
    /\ back' = sz3
    /\ remain' = (remain - (csz + sz3)) % Word
    /\ sent' = Data(csz + sz3)
    /\ result' = Result(len, csz + sz3, <<>>)

\* Mutant: the free space is not looked at.
WriteStraightAll(len) ==
    LET csz == Capacity - back IN
    /\ csz >= len
    /\ mem' = Copied(mem, back, 0, len)
    /\ back' = back + len
    /\ remain' = (remain - len) % Word
    /\ sent' = Data(len)
    /\ result' = Result(len, len, <<>>)

\* The data reaches no further than the end of the memory.
WriteStraight(len) ==
    LET csz == Capacity - back
        wlen == Min2(len, remain) IN
    /\ csz >= len
    /\ mem' = Copied(mem, back, 0, wlen)
    /\ back' = back + wlen
    /\ remain' = (remain - wlen) % Word
    /\ sent' = Data(wlen)
    /\ result' = Result(len, wlen, <<>>)

\* It does: the memory is filled to its end, and then from its beginning to
\* front at most.
WriteWrapped(len) ==
    LET csz == Capacity - back
        sz3 == Min2(len - csz, front) IN
    /\ csz < len
    /\ mem' = Copied(Copied(mem, back, 0, csz), 0, csz, sz3)
    /\ back' = sz3
    /\ remain' = (remain - (csz + sz3)) % Word
    /\ sent' = Data(csz + sz3)
    /\ result' = Result(len, csz + sz3, <<>>)

Write(len) ==
    /\ open /\ len # 0 /\ remain # 0
    /\ Overrun \/ front <= back \/ len <= Capacity - back
    /\ WriteStraight(len) \/ WriteWrapped(len)
    /\ UNCHANGED <<open, front, offset>>

WriteNothing(len) ==
    /\ ~open \/ len = 0 \/ remain = 0
    /\ result' = Result(len, IF open THEN 0 ELSE -1, <<>>)
    /\ UNCHANGED <<open, mem, front, back, remain, sent, offset>>

Size == (Capacity - remain) % Word
IsEmpty == ~open \/ remain = Capacity

\* Mutant: front may stay at the end of the memory.
AdvanceLate(outsz) ==
    LET csz == Capacity - front IN
    IF outsz <= csz THEN front + outsz ELSE outsz - csz

\* Where the front is after outsz bytes.
Advance(outsz) ==
    LET csz == Capacity - front IN
    IF outsz < csz THEN front + outsz ELSE outsz - csz

\* What is copied from front on, from the beginning again past the end.
Given(outsz) ==
    [k \in 1..outsz |->
        LET i == front + k - 1 IN IF i < Capacity THEN mem[i] ELSE mem[i - Capacity]]

\* read and erase, which is read with no buffer.
Read(bufsize) ==
    /\ ~IsEmpty
    /\ LET outsz == Min2(Size, bufsize) IN
         /\ remain' = (remain + outsz) % Word
         /\ IF remain' = Capacity
            THEN front' = 0 /\ back' = 0
            ELSE front' = Advance(outsz) /\ UNCHANGED back
         /\ offset' = (offset + outsz) % Modulus
         /\ \E data \in {Given(outsz), <<>>} : result' = Result(bufsize, outsz, data)
    /\ UNCHANGED <<open, mem, sent>>

ReadNothing(bufsize) ==
    /\ IsEmpty
    /\ result' = Result(bufsize, 0, <<>>)
    /\ UNCHANGED <<open, mem, front, back, remain, sent, offset>>

Clear ==
    /\ open
    /\ front' = 0 /\ back' = 0 /\ remain' = Capacity
    /\ offset' = sent
    /\ UNCHANGED <<open, mem, sent, result>>

Next ==
    \/ Create \/ Close \/ Clear
    \/ \E n \in Lengths : Write(n) \/ WriteNothing(n) \/ Read(n) \/ ReadNothing(n)

Spec == Init /\ [][Next]_vars

-----------------------------------------------------------------------------
\* peek: where the first run of bytes begins, and how long it is.
PeekAt == IF front = Capacity THEN 0 ELSE front
PeekSize == IF IsEmpty THEN 0 ELSE Min2(Size, Capacity - PeekAt)

TypeOK ==
    /\ open \in BOOLEAN
    /\ mem \in [Cells -> 0..Modulus - 1 \cup {Empty}]
    /\ front \in 0..Capacity /\ back \in 0..Capacity /\ remain \in 0..Word - 1
    /\ sent \in 0..Modulus - 1 /\ offset \in 0..Modulus - 1

\* What lies between f and b, around the end of c bytes, is what is not r.
InUse(c, f, b, r) ==
    /\ r <= c /\ f < c
    /\ r = c => f = b
    /\ r = 0 => b = f \/ (f = 0 /\ b = c)
    /\ 0 < r /\ r < c =>
         \/ f < b /\ c - r = b - f
         \/ b < f /\ c - r = c - f + b

\* front, back and _remain_size agree on what is in use: three variables for
\* two facts, each maintained on its own.
Agree == open => InUse(Capacity, front, back, remain)

\* What peek shows is what was written and not read yet, in order
\* (test-circle-stream.cpp: ASSERT_EQ(offset % MAX_NUMBER, p[i])).
PeekedIsWritten ==
    \A i \in 0..PeekSize - 1 : mem[PeekAt + i] = (offset + i) % Modulus

\* The memory, from front around its end, is a queue of bytes: a write takes as
\* much as there is room for, and a read gives the oldest bytes that are there.
Abstract == INSTANCE ByteQueue WITH
    Bytes   <- 0..Modulus - 1,
    content <- IF IsEmpty THEN <<>>
               ELSE [k \in 1..Size |-> mem[(front + k - 1) % Capacity]]

IsByteQueue == Abstract!Spec
=============================================================================
