---------------------------- MODULE RecordQueue -----------------------------
(***************************************************************************)
(* What VariableQueue promises: a queue of records of any length, kept     *)
(* whole and in order in Space bytes, each with a header of one word and   *)
(* rounded up to words.  A queue whose records may be split refuses a      *)
(* record only when there is no room for it; a continuous queue may waste  *)
(* room, and refuses one only when it takes more than half of what is free.*)
(***************************************************************************)
EXTENDS Integers, Sequences

CONSTANTS Space, Lengths, Ids

VARIABLES
    open,           \* whether there is an object to call
    queue,          \* the records: their content and length
    used,           \* the bytes they take, and what is wasted for them
    continuous,     \* whether the memory of a record is in one piece
    result          \* what the last call returned, and what was refused

\* What a call returns: whether there was something, a length, and words.
Returned(kind, n, words) == [kind |-> kind, len |-> n, words |-> words]
Accepted == Returned("accepted", 0, <<>>)
Refused(n) == Returned("refused", n, <<>>)
Nothing == Returned("nothing", 0, <<>>)
Null == Returned("null", 0, <<>>)

Footprint(n) == ((n + 4 + 3) \div 4) * 4

\* What a caller gets of a record: its length, and the words it put there.
Data(r) ==
    Returned("data", r.len, [k \in 1..(r.len + 3) \div 4 |-> <<r.id, k>>])

Init ==
    /\ open = FALSE /\ queue = <<>> /\ used = 0 /\ continuous = FALSE
    /\ result = Nothing

Put ==
    \E n \in Lengths, id \in Ids :
        /\ open
        /\ queue' = Append(queue, [id |-> id, len |-> n])
        /\ used' \in 0..Space
        /\ IF continuous THEN used' >= used + Footprint(n)
           ELSE used' = used + Footprint(n)
        /\ result' = Accepted
        /\ UNCHANGED <<open, continuous>>

Refuse ==
    \E n \in Lengths :
        /\ \/ ~open \/ used + Footprint(n) > Space
           \/ continuous /\ used + 2 * Footprint(n) > Space
        /\ result' = Refused(n)
        /\ UNCHANGED <<open, queue, used, continuous>>

\* The first record is taken out.
Shorten ==
    /\ open /\ queue # <<>>
    /\ queue' = Tail(queue)
    /\ used' \in 0..Space
    /\ IF continuous THEN used' <= used - Footprint(Head(queue).len)
       ELSE used' = used - Footprint(Head(queue).len)
    /\ queue' = <<>> => used' = 0
    /\ UNCHANGED <<open, continuous>>

Get == Shorten /\ result' = Data(Head(queue))

Drop == Shorten /\ result' = Returned("erased", Head(queue).len, <<>>)

Peek ==
    /\ open /\ continuous /\ queue # <<>>
    /\ result' = Data(Head(queue))
    /\ UNCHANGED <<open, queue, used, continuous>>

None ==
    /\ \/ (~open \/ queue = <<>>) /\ result' = Nothing
       \/ (~open \/ queue = <<>> \/ ~continuous) /\ result' = Null
    /\ UNCHANGED <<open, queue, used, continuous>>

\* Emptying the queue, when it is created and later.
Clear ==
    /\ open' = TRUE
    /\ queue' = <<>> /\ used' = 0
    /\ continuous' \in BOOLEAN
    /\ UNCHANGED result

\* The records stay when the object goes.
Leave == open' = ~open /\ UNCHANGED <<queue, used, continuous, result>>

Next == Put \/ Refuse \/ Get \/ Drop \/ Peek \/ None \/ Clear \/ Leave

Spec == Init /\ [][Next]_<<open, queue, used, continuous, result>>
=============================================================================
