------------------------------- MODULE Mailbox -------------------------------
(***************************************************************************)
(* What libeloop promises to whoever posts work to it: the tasks it took   *)
(* are executed one at a time, in the order it took them, each once.  A    *)
(* cancellation waits for its turn too, and then takes away the first task *)
(* with its id that waits before it, never one that is executing or that   *)
(* was posted later.  A waiting task may be lost for want of memory.  What *)
(* is left when the loop is torn down is dropped.                          *)
(***************************************************************************)
EXTENDS Integers, Sequences, SequencesExt

CONSTANTS
    Tasks,  \* a task's id is its field obj
    Ids     \* what can be cancelled

VARIABLES
    box,    \* the requests taken and not dealt with, in order
    busy    \* whether the task of Head(box) is executing

Add(t) == [op |-> "add", task |-> t]
Withdraw(i) == [op |-> "cancel", id |-> i]

Init == box = <<>> /\ busy = FALSE

Post ==
    /\ \E r \in {Add(t) : t \in Tasks} \cup {Withdraw(i) : i \in Ids} :
         box' = Append(box, r)
    /\ UNCHANGED busy

Begin ==
    /\ box # <<>> /\ Head(box).op = "add" /\ ~busy
    /\ busy' = TRUE
    /\ UNCHANGED box

End == busy /\ busy' = FALSE /\ box' = Tail(box)

\* The first cancellation has its turn.
Matches(k) == {j \in 1..k - 1 : box[j].task.obj = box[k].id}
Cancel ==
    /\ ~busy
    /\ \E k \in 1..Len(box) :
         /\ box[k].op = "cancel"
         /\ \A j \in 1..k - 1 : box[j].op = "add"
         /\ IF Matches(k) = {} THEN box' = RemoveAt(box, k)
            ELSE \E j \in Matches(k) :
                   /\ \A i \in Matches(k) : j <= i
                   /\ box' = RemoveAt(RemoveAt(box, k), j)
    /\ UNCHANGED busy

Lose ==
    /\ ~busy
    /\ \E k \in 1..Len(box) : box[k].op = "add" /\ box' = RemoveAt(box, k)
    /\ UNCHANGED busy

Close == ~busy /\ box' = <<>> /\ UNCHANGED busy

Next == Post \/ Begin \/ End \/ Cancel \/ Lose \/ Close

Spec == Init /\ [][Next]_<<box, busy>>
=============================================================================
