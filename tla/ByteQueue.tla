------------------------------ MODULE ByteQueue ------------------------------
(***************************************************************************)
(* What CircleStream promises: a bounded queue of bytes.  A write takes as *)
(* much of the data as there is room for, a read gives and an erase drops  *)
(* what is there from the front, up to what was asked for.                 *)
(***************************************************************************)
EXTENDS Integers, Sequences

CONSTANTS Capacity, Bytes, Lengths

VARIABLES
    open,       \* whether there is a stream
    content,    \* what was written and not taken, in order
    result      \* of the last call: what was asked for, what it took, what it gave

Result(asked, took, data) == [asked |-> asked, took |-> took, data |-> data]

AtMost(n, room) == IF n <= room THEN n ELSE room

Init == open = FALSE /\ content = <<>> /\ result = Result(0, 0, <<>>)

Write ==
    \E b \in Bytes, len \in Lengths :
        LET n == AtMost(len, Capacity - Len(content)) IN
        /\ open
        /\ content' = content \o [k \in 1..n |-> (b + k - 1) % (Capacity + 2)]
        /\ result' = Result(len, n, <<>>)
        /\ UNCHANGED open

Refuse ==
    /\ ~open
    /\ \E len \in Lengths : result' = Result(len, -1, <<>>)
    /\ UNCHANGED <<open, content>>

Read ==
    \E len \in Lengths :
        LET n == AtMost(len, Len(content)) IN
        /\ content' = SubSeq(content, n + 1, Len(content))
        /\ \E data \in {SubSeq(content, 1, n), <<>>} : result' = Result(len, n, data)
        /\ UNCHANGED open

\* Creating, closing and emptying the stream.
Clear == content' = <<>> /\ open' \in BOOLEAN /\ UNCHANGED result

Next == Write \/ Refuse \/ Read \/ Clear

Spec == Init /\ [][Next]_<<open, content, result>>
=============================================================================
