-------------------------------- MODULE Eloop --------------------------------
(***************************************************************************)
(* libs/libeloop: the event loop of the power, network and bluetooth       *)
(* services.                                                               *)
(*                                                                         *)
(* One thread runs the loop: it polls the registered descriptors, turns    *)
(* each event into a task, and executes tasks.  Tasks reach it through a   *)
(* nonblocking pipe that any thread writes requests to; the loop moves     *)
(* them to its queue.  A timer is a POSIX timer whose expirations the C    *)
(* library announces on a fresh detached thread, which posts the task.     *)
(* Timers and descriptors may be added, started, stopped and deleted by    *)
(* any thread and from callbacks, while the loop runs.                     *)
(*                                                                         *)
(* Timers and Fds are addresses: the memory of a deleted object may be     *)
(* that of the next one.  What points to an object carries, as a history   *)
(* variable would, the incarnation it was made for.                        *)
(***************************************************************************)
EXTENDS Integers, Sequences, FiniteSets, SequencesExt

CONSTANTS
    Timers,     \* addresses of struct schd_timer
    Fds,        \* addresses of struct fd_data, one for each descriptor
    Periodic,   \* the timers with a period
    PipeCap,    \* how many requests the pipe holds
    MaxEvents,  \* max_events of epoll_wait
    MaxTicks,   \* bound: tasks of one object on their way at a time
    MaxInc,     \* bound: objects made at one address
    MaxCancel,  \* bound: cancellations
    MemoryFails,\* whether malloc may fail
    Conditions  \* what descriptors get into: EPOLLIN, EPOLLOUT, EPOLLHUP, EPOLLERR

Objects == Timers \cup Fds

ASSUME EloopAssumption ==
    /\ Timers \cap Fds = {} /\ IsFiniteSet(Fds)
    /\ Periodic \subseteq Timers
    /\ {PipeCap, MaxEvents} \subseteq Nat \ {0}
    /\ {MaxTicks, MaxInc, MaxCancel} \subseteq Nat /\ MemoryFails \in BOOLEAN
    /\ Conditions \subseteq {"in", "out", "hup", "err"}

\* A task and its id: the object, its incarnation, a number that tells it from
\* the other tasks of the object that are on their way, and the event mask its
\* callback will be given (none for a timer's).
Mask == (SUBSET {"read", "write"}) \cup {{"hup"}, {"error"}}
Tasks == [obj : Objects, inc : 1..MaxInc, n : 1..MaxTicks, mask : Mask]

VARIABLES
    pipe,       \* requests written and not read
    queue,      \* the tasks queue
    pc,         \* where the loop's thread is
    buffer,     \* events_buffer: what epoll_wait returned and is not posted
    running,    \* eloop_ctx.running
    stop,       \* syncer->stop
    alive,      \* alive[o]: whether there is an object at o
    inc,        \* inc[o]: how many there have been
    armed,      \* armed[t]: whether the POSIX timer runs
    notif,      \* announcing threads that have not posted
    cond,       \* cond[f]: there is data nobody read, room to write, no peer, an error
    edge,       \* edge[f]: f is on epoll's ready list
    cancels,    \* cancellations so far
    \* History variables.
    missed,     \* descriptors whose announcement of data was lost, or hidden by a
                \* hang-up or an error, and that were not read since
    raced       \* tasks that were on their way when their object was deleted

loop == <<pipe, queue, pc, buffer, stop>>
objs == <<alive, inc, armed>>
fdst == <<cond, edge>>
vars == <<pipe, queue, pc, buffer, running, stop, alive, inc, armed, notif,
          cond, edge, cancels, missed, raced>>

AddReq(t) == [op |-> "add", task |-> t]
CancelReq(o) == [op |-> "cancel", id |-> o]

IsAdd(r) == r.op = "add"
Posted == {r.task : r \in {x \in Range(pipe) : IsAdd(x)}}

\* Everything that points to an object.
Outstanding == notif \cup Posted \cup Range(queue) \cup Range(buffer)
OnTheWay(o) == {t \in Outstanding : t.obj = o}
Unused(o) == {n \in 1..MaxTicks : \A t \in OnTheWay(o) : t.inc = inc[o] => t.n # n}

Open == pc # "closed"

Init ==
    /\ pipe = <<>> /\ queue = <<>> /\ buffer = <<>>
    /\ pc = "poll" /\ running = TRUE /\ stop = FALSE
    /\ alive = [o \in Objects |-> FALSE]
    /\ inc = [o \in Objects |-> 0]
    /\ armed = [t \in Timers |-> FALSE]
    /\ notif = {}
    /\ cond = [f \in Fds |-> {}]
    /\ edge = [f \in Fds |-> FALSE]
    /\ cancels = 0
    /\ missed = {} /\ raced = {}

-----------------------------------------------------------------------------
(* The pipe: request_add, syncer_task_add, syncer_task_cancel.             *)

\* A task is lost, and with it what it was to announce.
Lost(t) == missed' = IF "read" \in t.mask /\ t.inc = inc[t.obj]
                     THEN missed \cup {t.obj} ELSE missed

\* write() on the nonblocking pipe: all of a request or nothing.
TaskAdd(t) ==
    IF Len(pipe) < PipeCap
    THEN pipe' = Append(pipe, AddReq(t)) /\ UNCHANGED missed
    ELSE Lost(t) /\ UNCHANGED pipe

\* The ticks of a timer all have the timer's address for an id.
TaskCancel(t) ==
    /\ Open /\ cancels < MaxCancel /\ Len(pipe) < PipeCap
    /\ pipe' = Append(pipe, CancelReq(t))
    /\ cancels' = cancels + 1
    /\ UNCHANGED <<queue, pc, buffer, running, stop, objs, notif, fdst,
                   missed, raced>>

-----------------------------------------------------------------------------
(* Timers: scheduler.c.                                                    *)

TimerNew(t) ==
    /\ Open /\ ~alive[t] /\ inc[t] < MaxInc
    /\ alive' = [alive EXCEPT ![t] = TRUE]
    /\ inc' = [inc EXCEPT ![t] = @ + 1]
    /\ UNCHANGED <<loop, running, armed, notif, fdst, cancels,
                   missed, raced>>

TimerStart(t) ==
    /\ Open /\ alive[t] /\ ~armed[t]
    /\ armed' = [armed EXCEPT ![t] = TRUE]
    /\ UNCHANGED <<loop, running, alive, inc, notif, fdst, cancels,
                   missed, raced>>

TimerStop(t) ==
    /\ Open /\ armed[t]
    /\ armed' = [armed EXCEPT ![t] = FALSE]
    /\ UNCHANGED <<loop, running, alive, inc, notif, fdst, cancels,
                   missed, raced>>

\* Mutant: the POSIX timer outlives the object.
TimerFree(t) ==
    /\ Open /\ alive[t]
    /\ alive' = [alive EXCEPT ![t] = FALSE]
    /\ raced' = raced \cup OnTheWay(t)
    /\ UNCHANGED <<loop, running, inc, armed, notif, fdst, cancels,
                   missed>>

\* Unlinks, timer_delete, free.  What was posted stays posted.
TimerDelete(t) ==
    /\ Open /\ alive[t]
    /\ alive' = [alive EXCEPT ![t] = FALSE]
    /\ armed' = [armed EXCEPT ![t] = FALSE]
    /\ raced' = raced \cup OnTheWay(t)
    /\ UNCHANGED <<loop, running, inc, notif, fdst, cancels, missed>>

Tick(t) == [obj |-> t, inc |-> inc[t], n |-> Min(Unused(t)), mask |-> {}]

\* The timer expires: the C library starts a thread.
Expire(t) ==
    /\ armed[t] /\ Unused(t) # {}
    /\ notif' = notif \cup {Tick(t)}
    /\ armed' = [armed EXCEPT ![t] = t \in Periodic]
    /\ UNCHANGED <<loop, running, alive, inc, fdst, cancels, missed, raced>>

\* schd_timer_handle_timeout.
HandleTimeout(k) ==
    /\ Open /\ k \in notif
    /\ notif' = notif \ {k}
    /\ TaskAdd(k)
    /\ UNCHANGED <<queue, pc, buffer, running, stop, objs, fdst, cancels, raced>>

-----------------------------------------------------------------------------
(* Descriptors: fd.c.  Registration is for reading, writing and hang-ups,   *)
(* and edge triggered: a change puts the descriptor on the ready list, and  *)
(* epoll_wait reports all that holds of it then.                            *)

\* Mutant: of what can be written to data is not told.
FdEventElse(f) ==
    CASE "err" \in cond[f] -> {"error"}
      [] "hup" \in cond[f] /\ "err" \notin cond[f] -> {"hup"}
      [] "out" \in cond[f] /\ {"err", "hup"} \cap cond[f] = {} -> {"write"}
      [] OTHER -> {"read"}

\* epoll_event_to_fd_event: an error hides everything, a hang-up hides the data
\* that came with it.
FdEvent(f) ==
    IF "err" \in cond[f] THEN {"error"}
    ELSE IF "hup" \in cond[f] THEN {"hup"}
    ELSE (IF "in" \in cond[f] THEN {"read"} ELSE {})
           \cup (IF "out" \in cond[f] THEN {"write"} ELSE {})

Event(f) == [obj |-> f, inc |-> inc[f], n |-> Min(Unused(f)), mask |-> FdEvent(f)]

AddFd(f) ==
    /\ Open /\ ~alive[f] /\ inc[f] < MaxInc
    /\ alive' = [alive EXCEPT ![f] = TRUE]
    /\ inc' = [inc EXCEPT ![f] = @ + 1]
    /\ edge' = [edge EXCEPT ![f] = cond[f] # {}]
    /\ missed' = missed \ {f}
    /\ UNCHANGED <<loop, running, armed, notif, cond, cancels, raced>>

RemoveFd(f) ==
    /\ Open /\ alive[f]
    /\ alive' = [alive EXCEPT ![f] = FALSE]
    /\ edge' = [edge EXCEPT ![f] = FALSE]
    /\ raced' = raced \cup OnTheWay(f)
    /\ UNCHANGED <<loop, running, inc, armed, notif, cond, cancels, missed>>

\* The peer sends, makes room or goes, or the descriptor fails: an edge.
Arises(f, c) ==
    /\ Open
    /\ IF c = "in" THEN "hup" \notin cond[f] ELSE c \notin cond[f]
    /\ cond' = [cond EXCEPT ![f] = @ \cup {c}]
    /\ edge' = [edge EXCEPT ![f] = alive[f]]
    /\ UNCHANGED <<loop, running, objs, notif, cancels, missed, raced>>

\* Somebody writes until nothing more fits, or asks for the error, which is then
\* gone: no edge.
Ceases(f, c) ==
    /\ Open
    /\ c \in cond[f] \cap {"out", "err"}
    /\ cond' = [cond EXCEPT ![f] = @ \ {c}]
    /\ UNCHANGED <<loop, running, objs, notif, edge, cancels, missed, raced>>

-----------------------------------------------------------------------------
(* The loop.                                                               *)

Ready == {f \in Fds : edge[f] /\ cond[f] # {}}

\* epoll_wait, for at most 5 ms: up to max_events of the pending events.
EpollWait ==
    /\ pc = "poll" /\ running
    /\ \E S \in SUBSET {f \in Ready : Unused(f) # {}} :
         /\ Cardinality(S) <= MaxEvents
         /\ S = {f \in Ready : Unused(f) # {}} \/ Cardinality(S) = MaxEvents
         /\ \E s \in SetToSeqs(S) : buffer' = [k \in 1..Len(s) |-> Event(s[k])]
         /\ edge' = [f \in Fds |-> f \in Ready \ S]
         /\ missed' = missed \cup {f \in S : "in" \in cond[f] /\ {"hup", "err"} \cap cond[f] # {}}
    /\ pc' = "events"
    /\ UNCHANGED <<pipe, queue, running, stop, objs, notif, cond, cancels,
                   raced>>

\* One turn of fd_handler_handle_events' loop: the context is allocated, the
\* task posted, and what syncer_task_add returns is not looked at.
PostEvent ==
    /\ pc = "events" /\ buffer # <<>>
    /\ buffer' = Tail(buffer)
    /\ \/ TaskAdd(Head(buffer))
       \/ MemoryFails /\ Lost(Head(buffer)) /\ UNCHANGED pipe
    /\ UNCHANGED <<queue, pc, running, stop, objs, notif, fdst, cancels, raced>>

\* syncer_process_queue begins.
ProcessQueue ==
    /\ pc = "events" /\ buffer = <<>>
    /\ stop' = FALSE
    /\ pc' = "first"
    /\ UNCHANGED <<pipe, queue, buffer, running, objs, notif, fdst, cancels,
                   missed, raced>>

\* Mutant: the new task goes to the head of the queue.
HandleRequestFront(r) ==
    IF IsAdd(r)
    THEN queue' = <<r.task>> \o queue /\ UNCHANGED missed
    ELSE queue' = RemoveFirstMatch(queue, LAMBDA t : t.obj = r.id) /\ UNCHANGED missed

\* syncer_handle_request: tasks_queue_add, which fails when there is no memory,
\* or tasks_queue_remove of the first task with the id.
HandleRequest(r) ==
    IF IsAdd(r)
    THEN \/ queue' = Append(queue, r.task) /\ UNCHANGED missed
         \/ MemoryFails /\ Lost(r.task) /\ UNCHANGED queue
    ELSE queue' = RemoveFirstMatch(queue, LAMBDA t : t.obj = r.id) /\ UNCHANGED missed

\* Mutant: the loop looks at its queue only.
ProcessFirstNone ==
    /\ pc = "first"
    /\ pc' = "test"
    /\ UNCHANGED <<pipe, queue, buffer, running, stop, objs, notif, fdst,
                   cancels, missed, raced>>

\* The one request read before the queue is looked at.
ProcessFirst ==
    /\ pc = "first"
    /\ IF pipe = <<>>
       THEN UNCHANGED <<pipe, queue, missed>>
       ELSE pipe' = Tail(pipe) /\ HandleRequest(Head(pipe))
    /\ pc' = "test"
    /\ UNCHANGED <<buffer, running, stop, objs, notif, fdst, cancels, raced>>

\* Mutant: the loop waits for work here.
TestQueueAgain ==
    /\ pc = "test"
    /\ pc' = IF queue # <<>> THEN "run" ELSE "first"
    /\ UNCHANGED <<pipe, queue, buffer, running, stop, objs, notif, fdst,
                   cancels, missed, raced>>

\* while (!stop && pending): execute the next task, or back to eloop_run.
TestQueue ==
    /\ pc = "test"
    /\ pc' = IF ~stop /\ queue # <<>> THEN "run" ELSE "poll"
    /\ UNCHANGED <<pipe, queue, buffer, running, stop, objs, notif, fdst,
                   cancels, missed, raced>>

\* The callback of Head(queue) returns: tasks_queue_execute_next deletes the
\* task.  A callback told to read leaves nothing unread; what else callbacks do
\* are the other operations of this module.
ExecuteNext ==
    /\ pc = "run"
    /\ LET t == Head(queue)
           read == {f \in Fds : f = t.obj /\ alive[f] /\ "read" \in t.mask}
       IN  /\ cond' = [f \in Fds |-> IF f \in read THEN cond[f] \ {"in"} ELSE cond[f]]
           /\ missed' = missed \ read
    /\ queue' = Tail(queue)
    /\ pc' = "drain"
    /\ UNCHANGED <<pipe, buffer, running, stop, objs, notif, edge, cancels, raced>>

\* while (!syncer_process_request(syncer));
Drain ==
    /\ pc = "drain"
    /\ IF pipe = <<>>
       THEN pc' = "test" /\ UNCHANGED <<pipe, queue, missed>>
       ELSE pipe' = Tail(pipe) /\ HandleRequest(Head(pipe)) /\ UNCHANGED pc
    /\ UNCHANGED <<buffer, running, stop, objs, notif, fdst, cancels, raced>>

\* syncer_stop, from a callback.
SyncerStop ==
    /\ pc = "run" /\ ~stop
    /\ stop' = TRUE
    /\ UNCHANGED <<pipe, queue, pc, buffer, running, objs, notif, fdst,
                   cancels, missed, raced>>

\* eloop_stop, from any thread.
EloopStop ==
    /\ Open /\ running
    /\ running' = FALSE
    /\ UNCHANGED <<loop, objs, notif, fdst, cancels, missed, raced>>

\* Mutant: eloop_run does not look.
LeaveNever ==
    /\ FALSE
    /\ UNCHANGED vars

\* eloop_run returns.
Leave ==
    /\ pc = "poll" /\ ~running
    /\ pc' = "out"
    /\ UNCHANGED <<pipe, queue, buffer, running, stop, objs, notif, fdst,
                   cancels, missed, raced>>

\* eloop_exit: the descriptors, the timers, then the syncer and its tasks.
EloopExit ==
    /\ pc = "out"
    /\ pc' = "closed"
    /\ alive' = [o \in Objects |-> FALSE]
    /\ armed' = [t \in Timers |-> FALSE]
    /\ edge' = [f \in Fds |-> FALSE]
    /\ raced' = raced \cup Outstanding
    /\ pipe' = <<>> /\ queue' = <<>>
    /\ UNCHANGED <<buffer, running, stop, inc, notif, cond, cancels, missed>>

-----------------------------------------------------------------------------
LoopStep ==
    \/ EpollWait \/ PostEvent \/ ProcessQueue \/ ProcessFirst \/ TestQueue
    \/ ExecuteNext \/ Drain \/ Leave

Users ==
    \/ \E t \in Timers : TimerNew(t) \/ TimerStart(t) \/ TimerStop(t)
                         \/ TimerDelete(t) \/ TaskCancel(t) \/ Expire(t)
    \/ \E f \in Fds : AddFd(f) \/ RemoveFd(f)
    \/ \E f \in Fds, c \in Conditions : Arises(f, c) \/ Ceases(f, c)
    \/ \E k \in notif : HandleTimeout(k)
    \/ SyncerStop \/ EloopStop \/ EloopExit

Next == LoopStep \/ Users

Spec == Init /\ [][Next]_vars

\* The loop's thread is scheduled, and callbacks return.
FairSpec == Spec /\ WF_vars(LoopStep)

-----------------------------------------------------------------------------
TypeOK ==
    /\ Len(pipe) <= PipeCap /\ Posted \subseteq Tasks
    /\ Range(queue) \cup Range(buffer) \cup notif \cup raced \subseteq Tasks
    /\ missed \subseteq Objects
    /\ pc \in {"poll", "events", "first", "test", "run", "drain", "out", "closed"}
    /\ running \in BOOLEAN /\ stop \in BOOLEAN
    /\ alive \in [Objects -> BOOLEAN] /\ inc \in [Objects -> 0..MaxInc]
    /\ armed \in [Timers -> BOOLEAN]
    /\ cond \in [Fds -> SUBSET Conditions] /\ edge \in [Fds -> BOOLEAN]
    /\ cancels \in 0..MaxCancel

\* When it is safe to delete: an object that nothing pointed to when it was
\* deleted is never pointed to again, so no callback runs on freed memory, nor
\* on the object that took its place (scheduler_timer_delete does not cancel
\* what is posted).
NoStaleUse ==
    /\ TypeOK
    /\ \A t \in Outstanding \ raced : alive[t.obj] /\ inc[t.obj] = t.inc

\* Edge triggered epoll announces data once.  As long as there is data to read,
\* the announcement is still to come, or a task that will read is on its way, or
\* the announcement went missing and the code knows of no other: a full pipe or a
\* failed allocation lost it, or an error or a hang-up hid it.
EdgeNotLost ==
    \A f \in Fds :
        alive[f] /\ "in" \in cond[f] =>
            \/ edge[f]
            \/ f \in missed
            \/ \E t \in Outstanding : t.obj = f /\ t.inc = inc[f] /\ "read" \in t.mask

\* Tasks are executed in the order syncer_task_add took them, each once, and the
\* one that is executing is never taken away: the pipe and the queue together
\* are one mailbox.
Implemented == INSTANCE Mailbox WITH
    Ids  <- Timers,
    box  <- [k \in 1..Len(queue) |-> AddReq(queue[k])] \o pipe,
    busy <- pc = "run"

FifoMailbox == Implemented!Spec

\* Ticks keep coming, and the loop never gets out of where it is.
Swamped(places) ==
    <>[](pc \in places) /\ []<><<\E k \in notif : HandleTimeout(k)>>_vars

\* A task that was posted is executed, or cancelled, or there was no memory for
\* it, or the loop was told to stop, however many others are posted meanwhile.
\* Only ticks that come faster than they can be taken from the pipe keep
\* syncer_process_queue from it.
PostedIsHandled ==
    \A o \in Objects, i \in 1..MaxInc, n \in 1..MaxTicks :
        LET waiting == \E t \in Posted \cup Range(queue) :
                           t.obj = o /\ t.inc = i /\ t.n = n
        IN  (waiting ~> ~waiting \/ ~running) \/ Swamped({"drain"})

\* eloop_stop ends eloop_run, however much is posted, unless ticks keep coming
\* while tasks are executed: syncer_process_queue does not look at running.
StopEnds == (~running ~> pc \in {"out", "closed"}) \/ Swamped({"test", "run", "drain"})

\* The loop goes back to the descriptors however many tasks there are, with the
\* same exception.
FdsAreServed ==
    \A f \in Fds :
        (edge[f] ~> ~edge[f] \/ ~running) \/ Swamped({"test", "run", "drain"})
=============================================================================
