----------------------------- MODULE ThreadPool -----------------------------
(***************************************************************************)
(* The thread pool of libs/mingutils (include/misc/thr-pool.h).            *)
(*                                                                         *)
(* Three mutexes.  poolMutex is held for the whole of push, finish and     *)
(* clear.  taskMutex guards the pending tasks and the idle threads; push   *)
(* keeps it while it wakes an idle thread.  A worker's thrMutex is held by *)
(* the worker all the time it is not waiting for work, tasks included;     *)
(* push and clear take it to wake, start and stop the worker.  Who holds   *)
(* which mutex follows from where the threads are, and is not a variable.  *)
(***************************************************************************)
EXTENDS Integers, Sequences, FiniteSets, SequencesExt

CONSTANTS
    Workers,    \* threadArray, a sequence
    Clients,    \* threads that use the pool
    Tasks,      \* what they push, each once
    Ops,        \* what they call: "push", "finish", "clear"
    MaxCalls,   \* bound: calls of finish and clear
    MaxSpurious \* bound: condition variables that wake by themselves

W == Range(Workers)

ASSUME PoolAssumption ==
    /\ Workers \in Seq(W) /\ Workers # <<>> /\ IsInjective(Workers)
    /\ Ops \subseteq {"push", "finish", "clear"}
    /\ {MaxCalls, MaxSpurious} \subseteq Nat

VARIABLES
    pending,    \* pendingTasks
    idle,       \* idleThreads
    sleeping,   \* sleepThreads
    created,    \* created[w]: TASKTHREAD_FLAG_CREATED
    exit,       \* exit[w]: TASKTHREAD_FLAG_SHOULD_EXIT
    wpc,        \* wpc[w]: where worker w is
    wtask,      \* wtask[w]: the task it runs
    cpc,        \* cpc[c]: where client c is
    carg,       \* carg[c]: the task it pushes or the worker it wakes
    cat,        \* cat[c]: how far clearNolock has come in threadArray
    finishing,  \* finishing[c]: it called finish, not clear
    calls,      \* calls of finish and clear
    spurs,      \* condition variables that woke by themselves
    cbs         \* cbs[t]: what the callback of t was told

None == "none"
clearing == <<cat, finishing, calls>>
queues == <<pending, idle, sleeping>>
vars == <<pending, idle, sleeping, created, exit, wpc, wtask, cpc, carg, cat, finishing,
          calls, spurs, cbs>>

Init ==
    /\ pending = <<>> /\ idle = <<>>
    /\ sleeping = Workers
    /\ created = [w \in W |-> FALSE]
    /\ exit = [w \in W |-> FALSE]
    /\ wpc = [w \in W |-> "none"]
    /\ wtask = [w \in W |-> None]
    /\ cpc = [c \in Clients |-> "out"]
    /\ carg = [c \in Clients |-> None]
    /\ cat = [c \in Clients |-> 1]
    /\ finishing = [c \in Clients |-> FALSE]
    /\ calls = 0 /\ spurs = 0
    /\ cbs = [t \in Tasks |-> <<>>]

\* Who holds what.
PoolFree == \A c \in Clients : cpc[c] \in {"out", "push", "finish", "clear"}
TaskFree == \A c \in Clients : cpc[c] # "work"
ThrFree(w) == wpc[w] \notin {"check", "run", "gap", "wait"}

Pushed == {t \in Tasks : cbs[t] # <<>>} \cup Range(pending)
Go(c, where) == cpc' = [cpc EXCEPT ![c] = where]
Tell(t, op) == cbs' = [cbs EXCEPT ![t] = Append(@, op)]
Step(w, where) == wpc' = [wpc EXCEPT ![w] = where]

\* notify_one on the worker's condition variable.
Notified(w) == IF wpc[w] = "waiting" THEN "woken" ELSE wpc[w]

-----------------------------------------------------------------------------
(* A worker: TaskThread::run.                                              *)

\* It gets its mutex, at its start or when it has been woken.
WorkerLock(w) ==
    /\ wpc[w] \in {"start", "woken"}
    /\ Step(w, "check")
    /\ UNCHANGED <<queues, created, exit, wtask, cpc, carg, clearing, spurs, cbs>>

\* Mutant: tasks are copied and left.
GetTaskCopy(w) ==
    /\ wpc[w] = "check" /\ ~exit[w] /\ TaskFree
    /\ pending # <<>>
    /\ wtask' = [wtask EXCEPT ![w] = Head(pending)]
    /\ Tell(Head(pending), "doing")
    /\ Step(w, "run")
    /\ UNCHANGED <<queues, created, exit, cpc, carg, clearing, spurs>>

\* getPendingTask finds one, and the callback is told.
GetTask(w) ==
    /\ wpc[w] = "check" /\ ~exit[w] /\ TaskFree
    /\ pending # <<>>
    /\ wtask' = [wtask EXCEPT ![w] = Head(pending)]
    /\ pending' = Tail(pending)
    /\ Tell(Head(pending), "doing")
    /\ Step(w, "run")
    /\ UNCHANGED <<idle, sleeping, created, exit, cpc, carg, clearing, spurs>>

\* It finds none: tasksDone.notify_one, and the mutex is given up.
GetNoTask(w) ==
    /\ wpc[w] = "check" /\ ~exit[w] /\ TaskFree
    /\ pending = <<>>
    /\ \/ /\ \A c \in Clients : cpc[c] # "finwait"
          /\ UNCHANGED cpc
       \/ \E c \in Clients : cpc[c] = "finwait" /\ Go(c, "fincheck")
    /\ wtask' = [wtask EXCEPT ![w] = None]
    /\ Step(w, "gap")
    /\ UNCHANGED <<queues, created, exit, carg, clearing, spurs, cbs>>

TaskDone(w) ==
    /\ wpc[w] = "run"
    /\ Tell(wtask[w], "done")
    /\ Step(w, "check")
    /\ UNCHANGED <<queues, created, exit, wtask, cpc, carg, clearing, spurs>>

PushIdleThread(w) ==
    /\ wpc[w] = "gap" /\ TaskFree
    /\ idle' = Append(idle, w)
    /\ Step(w, "wait")
    /\ UNCHANGED <<pending, sleeping, created, exit, wtask, cpc, carg, clearing, spurs, cbs>>

\* thrCond.wait: the mutex is given up and the wait begins, at once.
Wait(w) ==
    /\ wpc[w] = "wait"
    /\ Step(w, "waiting")
    /\ UNCHANGED <<queues, created, exit, wtask, cpc, carg, clearing, spurs, cbs>>

WakeBySelf(w) ==
    /\ spurs < MaxSpurious /\ wpc[w] = "waiting"
    /\ spurs' = spurs + 1
    /\ Step(w, "woken")
    /\ UNCHANGED <<queues, created, exit, wtask, cpc, carg, clearing, cbs>>

Exit(w) ==
    /\ wpc[w] = "check" /\ exit[w]
    /\ Step(w, "dead")
    /\ wtask' = [wtask EXCEPT ![w] = None]
    /\ UNCHANGED <<queues, created, exit, cpc, carg, clearing, spurs, cbs>>

Worker(w) ==
    \/ WorkerLock(w) \/ GetTask(w) \/ GetNoTask(w) \/ TaskDone(w)
    \/ PushIdleThread(w) \/ Wait(w) \/ Exit(w)

-----------------------------------------------------------------------------
(* push.                                                                   *)

CallPush(c) ==
    /\ "push" \in Ops /\ cpc[c] = "out"
    /\ \E t \in Tasks \ Pushed :
         /\ \A d \in Clients : carg[d] # t
         /\ carg' = [carg EXCEPT ![c] = t]
    /\ Go(c, "push")
    /\ UNCHANGED <<queues, created, exit, wpc, wtask, clearing, spurs, cbs>>

PushLock(c) ==
    /\ cpc[c] = "push" /\ PoolFree
    /\ Go(c, "add")
    /\ UNCHANGED <<queues, created, exit, wpc, wtask, carg, clearing, spurs, cbs>>

PushTask(c) ==
    /\ cpc[c] = "add" /\ TaskFree
    /\ pending' = Append(pending, carg[c])
    /\ Go(c, "tell")
    /\ UNCHANGED <<idle, sleeping, created, exit, wpc, wtask, carg, clearing, spurs, cbs>>

\* The callback is told with the task already for the taking.
TellQueued(c) ==
    /\ cpc[c] = "tell"
    /\ Tell(carg[c], "queue")
    /\ Go(c, "pick")
    /\ UNCHANGED <<queues, created, exit, wpc, wtask, carg, clearing, spurs>>

\* An idle thread is picked, and taskMutex kept.
PickIdle(c) ==
    /\ cpc[c] = "pick" /\ TaskFree /\ idle # <<>>
    /\ carg' = [carg EXCEPT ![c] = Head(idle)]
    /\ idle' = Tail(idle)
    /\ Go(c, "work")
    /\ UNCHANGED <<pending, sleeping, created, exit, wpc, wtask, clearing, spurs, cbs>>

\* Or one that has no thread yet, or none.
PickSleeping(c) ==
    /\ cpc[c] = "pick" /\ TaskFree /\ idle = <<>>
    /\ IF sleeping = <<>>
       THEN Go(c, "out") /\ carg' = [carg EXCEPT ![c] = None] /\ UNCHANGED sleeping
       ELSE /\ carg' = [carg EXCEPT ![c] = Head(sleeping)]
            /\ sleeping' = Tail(sleeping)
            /\ Go(c, "awake")
    /\ UNCHANGED <<pending, idle, created, exit, wpc, wtask, clearing, spurs, cbs>>

\* TaskThread::work.
Work(c) ==
    /\ cpc[c] = "work" /\ ThrFree(carg[c])
    /\ Step(carg[c], Notified(carg[c]))
    /\ Go(c, "out")
    /\ carg' = [carg EXCEPT ![c] = None]
    /\ UNCHANGED <<queues, created, exit, wtask, clearing, spurs, cbs>>

\* TaskThread::awake.
Awake(c) ==
    /\ cpc[c] = "awake" /\ ThrFree(carg[c])
    /\ LET w == carg[c] IN
         IF ~created[w] /\ ~exit[w]
         THEN Step(w, "start") /\ created' = [created EXCEPT ![w] = TRUE]
         ELSE UNCHANGED <<wpc, created>>
    /\ Go(c, "out")
    /\ carg' = [carg EXCEPT ![c] = None]
    /\ UNCHANGED <<queues, exit, wtask, clearing, spurs, cbs>>

-----------------------------------------------------------------------------
(* finish and clear.                                                       *)

CallClear(c, op) ==
    /\ op \in Ops /\ cpc[c] = "out" /\ calls < MaxCalls
    /\ finishing' = [finishing EXCEPT ![c] = op = "finish"]
    /\ calls' = calls + 1
    /\ Go(c, op)
    /\ UNCHANGED <<queues, created, exit, wpc, wtask, carg, cat, spurs,
                   cbs>>

ClearLock(c) ==
    /\ cpc[c] \in {"finish", "clear"} /\ PoolFree
    /\ Go(c, IF cpc[c] = "finish" THEN "fincheck" ELSE "sleep")
    /\ cat' = [cat EXCEPT ![c] = 1]
    /\ UNCHANGED <<queues, created, exit, wpc, wtask, carg, finishing,
                   calls, spurs, cbs>>

\* Mutant: finish does not wait.
FinishCheckNot(c) ==
    /\ cpc[c] = "fincheck" /\ TaskFree
    /\ Go(c, "sleep")
    /\ UNCHANGED <<queues, created, exit, wpc, wtask, carg, clearing, spurs, cbs>>

\* while (!pendingTasks.empty()) tasksDone.wait.
FinishCheck(c) ==
    /\ cpc[c] = "fincheck" /\ TaskFree
    /\ Go(c, IF pending = <<>> THEN "sleep" ELSE "finwait")
    /\ UNCHANGED <<queues, created, exit, wpc, wtask, carg, clearing, spurs, cbs>>

FinishWakes(c) ==
    /\ spurs < MaxSpurious /\ cpc[c] = "finwait"
    /\ spurs' = spurs + 1
    /\ Go(c, "fincheck")
    /\ UNCHANGED <<queues, created, exit, wpc, wtask, carg, clearing, cbs>>

Current(c) == Workers[cat[c]]
NextWorker(c) ==
    IF cat[c] < Len(Workers)
    THEN cat' = [cat EXCEPT ![c] = @ + 1] /\ Go(c, "sleep")
    ELSE cat' = [cat EXCEPT ![c] = 1] /\ Go(c, "discard")

\* Mutant: the worker is not woken.
SleepSilent(c) ==
    /\ cpc[c] = "sleep" /\ ThrFree(Current(c))
    /\ LET w == Current(c) IN
         IF created[w]
         THEN /\ exit' = [exit EXCEPT ![w] = TRUE]
              /\ Go(c, "join")
              /\ UNCHANGED cat
         ELSE /\ NextWorker(c)
              /\ UNCHANGED exit
    /\ UNCHANGED <<queues, created, wpc, wtask, carg, finishing, calls, spurs, cbs>>

\* TaskThread::sleep, one worker after the other, up to join.
Sleep(c) ==
    /\ cpc[c] = "sleep" /\ ThrFree(Current(c))
    /\ LET w == Current(c) IN
         IF created[w]
         THEN /\ exit' = [exit EXCEPT ![w] = TRUE]
              /\ Step(w, Notified(w))
              /\ Go(c, "join")
              /\ UNCHANGED cat
         ELSE /\ NextWorker(c)
              /\ UNCHANGED <<exit, wpc>>
    /\ UNCHANGED <<queues, created, wtask, carg, finishing, calls, spurs,
                   cbs>>

Join(c) ==
    /\ cpc[c] = "join" /\ wpc[Current(c)] = "dead"
    /\ LET w == Current(c) IN
         /\ Step(w, "none")
         /\ exit' = [exit EXCEPT ![w] = FALSE]
         /\ created' = [created EXCEPT ![w] = FALSE]
    /\ NextWorker(c)
    /\ UNCHANGED <<queues, wtask, carg, finishing, calls, spurs, cbs>>

\* Mutant: the idle threads are kept.
DiscardOnly(c) ==
    /\ cpc[c] = "discard" /\ TaskFree
    /\ cbs' = [t \in Tasks |-> IF t \in Range(pending) THEN Append(cbs[t], "discard")
                                                       ELSE cbs[t]]
    /\ pending' = <<>>
    /\ sleeping' = Workers
    /\ Go(c, "out")
    /\ UNCHANGED <<idle, created, exit, wpc, wtask, carg, clearing, spurs>>

Discard(c) ==
    /\ cpc[c] = "discard" /\ TaskFree
    /\ cbs' = [t \in Tasks |-> IF t \in Range(pending) THEN Append(cbs[t], "discard")
                                                       ELSE cbs[t]]
    /\ pending' = <<>> /\ idle' = <<>>
    /\ sleeping' = Workers
    /\ Go(c, "out")
    /\ UNCHANGED <<created, exit, wpc, wtask, carg, clearing, spurs>>

Client(c) ==
    \/ PushLock(c) \/ PushTask(c) \/ TellQueued(c) \/ PickIdle(c)
    \/ PickSleeping(c) \/ Work(c) \/ Awake(c)
    \/ ClearLock(c) \/ FinishCheck(c) \/ Sleep(c) \/ Join(c) \/ Discard(c)

Next ==
    \/ \E w \in W : Worker(w) \/ WakeBySelf(w)
    \/ \E c \in Clients : Client(c) \/ CallPush(c) \/ FinishWakes(c)
    \/ \E c \in Clients, op \in {"finish", "clear"} : CallClear(c, op)

Spec == Init /\ [][Next]_vars

\* Threads are scheduled, mutexes are granted, tasks return; nobody has to call,
\* and condition variables need not wake by themselves.
FairSpec ==
    /\ Spec
    /\ \A w \in W : WF_vars(Worker(w))
    /\ \A c \in Clients : WF_vars(Client(c))
                          /\ SF_vars(PushLock(c)) /\ SF_vars(ClearLock(c))

-----------------------------------------------------------------------------
TypeOK ==
    /\ Range(pending) \subseteq Tasks
    /\ Range(idle) \cup Range(sleeping) \subseteq W
    /\ created \in [W -> BOOLEAN] /\ exit \in [W -> BOOLEAN]
    /\ wpc \in [W -> {"none", "start", "check", "run", "gap", "wait", "waiting",
                      "woken", "dead"}]
    /\ wtask \in [W -> Tasks \cup {None}]
    /\ \A w \in W : wpc[w] = "none" <=> ~created[w]
    /\ cat \in [Clients -> 1..Len(Workers)]
    /\ calls \in 0..MaxCalls /\ spurs \in 0..MaxSpurious

\* What a task's callback is told, nothing twice: that it is done only after that
\* it is doing, or that it was discarded and neither.  "queue" may come at any
\* point, since push tells it late.
Orderly(told) ==
    /\ IsInjective(told)
    /\ \A j \in DOMAIN told :
         /\ told[j] = "done" => \E i \in 1..j - 1 : told[i] = "doing"
         /\ told[j] = "discard" => {"doing", "done"} \cap Range(told) = {}

\* No task runs twice, or after it was discarded.
OncePerTask == TypeOK /\ \A t \in Tasks : Orderly(cbs[t])

\* finish discards nothing: when it comes to the discarding there is nothing
\* left, and no worker has a task.
FinishLosesNothing ==
    \A c \in Clients :
        cpc[c] = "discard" /\ finishing[c] =>
            pending = <<>> /\ \A w \in W : wpc[w] = "none"

\* Unless condition variables wake by themselves, the idle threads are waiting
\* or about to, each once: waking one is never in vain.
IdleAreWaiting ==
    PoolFree /\ spurs = 0 =>
        /\ IsInjective(idle)
        /\ \A w \in Range(idle) : wpc[w] \in {"wait", "waiting"}

\* push returns, and so does clear, which stops and joins every thread, unless a
\* condition variable wakes by itself (the worker then holds its own mutex and
\* wants taskMutex, while push holds taskMutex and wants the worker's) or
\* another client waits in finish, which keeps poolMutex.
CallsReturn ==
    \A c \in Clients :
        cpc[c] \in {"push", "clear"} ~> \/ cpc[c] = "out"
                                       \/ spurs > 0
                                       \/ \E d \in Clients : cpc[d] = "finwait"

\* finish returns (test-thr-pool.cpp pushes a hundred tasks, calls finish and
\* expects that all are done).
FinishReturns ==
    \A c \in Clients : cpc[c] = "finish" ~> cpc[c] = "out"

=============================================================================
