--------------------------- MODULE ThreadPoolProof ---------------------------
(***************************************************************************)
(* Proofs about the thread pool, for any workers, clients and tasks.       *)
(***************************************************************************)
EXTENDS ThreadPool, TLAPS

Outside == {"out", "push", "finish", "clear"}
Stopping == {"sleep", "join", "discard"}
CallbackOps == {"queue", "doing", "done", "discard"}

\* Types: the threads, then the queues and the clients.
Threads ==
    /\ created \in [W -> BOOLEAN] /\ exit \in [W -> BOOLEAN]
    /\ wpc \in [W -> {"none", "start", "check", "run", "gap", "wait", "waiting",
                      "woken", "dead"}]
    /\ wtask \in [W -> Tasks \cup {None}]
    /\ \A w \in W : wpc[w] = "none" <=> ~created[w]
    /\ cat \in [Clients -> 1..Len(Workers)]
    /\ calls \in 0..MaxCalls /\ spurs \in 0..MaxSpurious

Shape ==
    /\ pending \in Seq(Tasks) /\ idle \in Seq(W) /\ sleeping \in Seq(W)
    /\ cpc \in [Clients -> Outside \cup Stopping
                           \cup {"add", "tell", "pick", "work", "awake",
                                 "fincheck", "finwait"}]
    /\ carg \in [Clients -> Tasks \cup W \cup {None}]
    /\ finishing \in [Clients -> BOOLEAN]
    /\ cbs \in [Tasks -> Seq(CallbackOps)]
    /\ \A c \in Clients :
         /\ cpc[c] \in {"push", "add", "tell"} => carg[c] \in Tasks
         /\ cpc[c] \in {"work", "awake"} => carg[c] \in W
    /\ \A w \in W : wpc[w] = "run" => wtask[w] \in Tasks

\* poolMutex is held by one client at most.
OneInside ==
    \A c, d \in Clients : cpc[c] \notin Outside /\ cpc[d] \notin Outside => c = d

\* clearNolock has joined the threads it has come past, and finish goes on to it
\* with nothing pending.
Clearing ==
    \A c \in Clients :
        /\ cpc[c] = "clear" => ~finishing[c]
        /\ cpc[c] \in {"fincheck", "finwait"} => cat[c] = 1
        /\ cpc[c] \in {"sleep", "join"} =>
             \A i \in 1..cat[c] - 1 : wpc[Workers[i]] = "none"
        /\ cpc[c] = "discard" => \A w \in W : wpc[w] = "none"
        /\ cpc[c] \in Stopping /\ finishing[c] => pending = <<>>

\* The idle threads wait, but for those that are being stopped.
Idle ==
    spurs = 0 /\ (\A c \in Clients : cpc[c] \notin Stopping) =>
        /\ IsInjective(idle)
        /\ \A w \in Range(idle) : wpc[w] \in {"wait", "waiting"}
        /\ \A c \in Clients : cpc[c] = "work" => carg[c] \notin Range(idle)

\* What a callback has been told says where its task is.
Told(t) == Range(cbs[t])
Untouched(t) == {"doing", "done", "discard"} \cap Told(t) = {}

Pushing == {"push", "add", "tell"}
Runs(w, t) == wpc[w] = "run" /\ wtask[w] = t
Pushes(c, t) == cpc[c] \in Pushing /\ carg[c] = t

TaskOnce(t) ==
    /\ Orderly(cbs[t])
    /\ t \in Range(pending) => Untouched(t)
    /\ \A w \in W : Runs(w, t) =>
         "doing" \in Told(t) /\ {"done", "discard"} \cap Told(t) = {}
    /\ \A v, w \in W : Runs(v, t) /\ Runs(w, t) => v = w
    /\ \A c \in Clients : Pushes(c, t) =>
         /\ cpc[c] \in {"push", "add"} => Told(t) = {} /\ t \notin Range(pending)
         /\ cpc[c] = "tell" => "queue" \notin Told(t)
    /\ \A c, d \in Clients : Pushes(c, t) /\ Pushes(d, t) => c = d

Once == IsInjective(pending) /\ \A t \in Tasks : TaskOnce(t)

IInv == Threads /\ Shape /\ OneInside /\ Clearing /\ Idle /\ Once

-----------------------------------------------------------------------------
(* Sequences.                                                              *)

LEMMA RangeAppend ==
    ASSUME NEW S, NEW s \in Seq(S), NEW e \in S
    PROVE  /\ Append(s, e) \in Seq(S)
           /\ Range(Append(s, e)) = Range(s) \cup {e}
           /\ IsInjective(s) /\ e \notin Range(s) => IsInjective(Append(s, e))
  <1>1. /\ Append(s, e) \in Seq(S) /\ DOMAIN Append(s, e) = 1..Len(s) + 1
        /\ DOMAIN s = 1..Len(s) /\ Len(s) \in Nat
        /\ \A i \in 1..Len(s) : Append(s, e)[i] = s[i]
        /\ Append(s, e)[Len(s) + 1] = e
    OBVIOUS
  <1>2. Range(Append(s, e)) = Range(s) \cup {e}
    BY <1>1 DEF Range
  <1>3. ASSUME IsInjective(s), e \notin Range(s) PROVE IsInjective(Append(s, e))
    BY <1>1, <1>3 DEF IsInjective, Range
  <1> QED BY <1>1, <1>2, <1>3

LEMMA RangeTail ==
    ASSUME NEW S, NEW s \in Seq(S), s # <<>>
    PROVE  /\ Tail(s) \in Seq(S) /\ Head(s) \in Range(s) /\ Head(s) \in S
           /\ Range(Tail(s)) \subseteq Range(s)
           /\ IsInjective(s) => IsInjective(Tail(s)) /\ Head(s) \notin Range(Tail(s))
  <1>1. /\ Tail(s) \in Seq(S) /\ Len(s) \in Nat \ {0}
        /\ DOMAIN s = 1..Len(s) /\ DOMAIN Tail(s) = 1..Len(s) - 1
        /\ \A i \in 1..Len(s) - 1 : Tail(s)[i] = s[i + 1]
        /\ Head(s) = s[1]
    OBVIOUS
  <1>2. Head(s) \in Range(s) /\ Range(Tail(s)) \subseteq Range(s) /\ Head(s) \in S
    BY <1>1 DEF Range
  <1>3. ASSUME IsInjective(s)
        PROVE  IsInjective(Tail(s)) /\ Head(s) \notin Range(Tail(s))
    BY <1>1, <1>3 DEF IsInjective, Range
  <1> QED BY <1>1, <1>2, <1>3

LEMMA RangeEmpty == Range(<<>>) = {} /\ IsInjective(<<>>)
  BY DEF Range, IsInjective

\* Telling a callback one thing more.
LEMMA OrderlyAppend ==
    ASSUME NEW s \in Seq(CallbackOps), Orderly(s), NEW op \in CallbackOps,
           op \notin Range(s),
           op = "done" => "doing" \in Range(s),
           op \in {"doing", "done"} => "discard" \notin Range(s),
           op = "discard" => {"doing", "done"} \cap Range(s) = {}
    PROVE  Orderly(Append(s, op))
  <1> DEFINE t == Append(s, op)
  <1>1. /\ DOMAIN t = 1..Len(s) + 1 /\ DOMAIN s = 1..Len(s) /\ Len(s) \in Nat
        /\ \A i \in 1..Len(s) : t[i] = s[i]
        /\ t[Len(s) + 1] = op
    OBVIOUS
  <1>2. IsInjective(t) /\ Range(t) = Range(s) \cup {op}
    BY RangeAppend DEF Orderly
  <1> HIDE DEF t
  <1>3. ASSUME NEW j \in DOMAIN t, t[j] = "done"
        PROVE  \E i \in 1..j - 1 : t[i] = "doing"
    <2>1. CASE j \in 1..Len(s)
      <3>1. PICK i \in 1..j - 1 : s[i] = "doing"
        BY <1>1, <1>3, <2>1 DEF Orderly
      <3> QED BY <1>1, <2>1, <3>1
    <2>2. CASE j = Len(s) + 1
      <3>1. PICK i \in DOMAIN s : s[i] = "doing"
        BY <1>1, <1>3, <2>2 DEF Range
      <3> QED BY <1>1, <2>2, <3>1
    <2> QED BY <1>1, <2>1, <2>2
  <1>4. ASSUME NEW j \in DOMAIN t, t[j] = "discard"
        PROVE  {"doing", "done"} \cap Range(t) = {}
    <2>1. CASE op = "discard"
      BY <1>2, <2>1
    <2>2. CASE op # "discard"
      <3>1. j \in DOMAIN s /\ s[j] = "discard"
        BY <1>1, <1>4, <2>2
      <3>2. "discard" \in Range(s) /\ {"doing", "done"} \cap Range(s) = {}
        BY <3>1 DEF Orderly, Range
      <3> QED BY <1>2, <3>2
    <2> QED BY <2>1, <2>2
  <1> QED BY <1>2, <1>3, <1>4 DEF Orderly, t

-----------------------------------------------------------------------------
(* The invariant.                                                          *)


LEMMA ShapeIsType == Threads /\ Shape => TypeOK
  <1>1. \A S : \A s \in Seq(S) : Range(s) \subseteq S
    BY DEF Range
  <1> QED BY <1>1 DEF Threads, Shape, TypeOK

LEMMA IInvInit == Init => IInv
  <1> USE PoolAssumption, RangeEmpty DEF PoolAssumption, Init, Outside, Stopping
  <1>1. Init => Threads
    BY DEF Threads
  <1>2. Init => Shape
    BY DEF Shape, CallbackOps
  <1>3. Init => OneInside /\ Clearing /\ Idle
    BY DEF OneInside, Clearing, Idle
  <1>4. Init => Once
    BY DEF Once, TaskOnce, Runs, Pushes, Pushing, Told, Untouched, Orderly
  <1> QED BY <1>1, <1>2, <1>3, <1>4 DEF IInv

\* The worker that clearNolock is at.
LEMMA CurrentIsWorker ==
    ASSUME Threads, NEW c \in Clients
    PROVE  Current(c) \in W /\ cat[c] \in 1..Len(Workers)
  BY PoolAssumption DEF PoolAssumption, Threads, Current

LEMMA ThreadsStep == Threads /\ Shape /\ [Next]_vars => Threads'
  <1> SUFFICES ASSUME Threads, Shape, [Next]_vars PROVE Threads'
    OBVIOUS
  <1> USE DEF Threads, Shape, queues, clearing, Step
  <1>1. ASSUME NEW w \in W,
               WorkerLock(w) \/ GetNoTask(w) \/ TaskDone(w) \/ PushIdleThread(w) \/ Wait(w)
                 \/ Exit(w)
        PROVE  Threads'
    <2>1. CASE WorkerLock(w)
      BY <2>1 DEF WorkerLock
    <2>2. CASE GetNoTask(w)
      BY <2>2 DEF GetNoTask
    <2>3. CASE TaskDone(w) \/ PushIdleThread(w) \/ Wait(w)
      BY <2>3, ZenonT(60) DEF TaskDone, PushIdleThread, Wait
    <2>4. CASE Exit(w)
      BY <2>4 DEF Exit
    <2> QED BY <1>1, <2>1, <2>2, <2>3, <2>4
  <1>2. ASSUME NEW w \in W, GetTask(w) PROVE Threads'
    <2>1. Head(pending) \in Tasks
      BY <1>2, RangeTail DEF GetTask
    <2> QED BY <1>2, <2>1 DEF GetTask
  <1>3. ASSUME NEW w \in W, WakeBySelf(w) PROVE Threads'
    BY <1>3, PoolAssumption DEF PoolAssumption, WakeBySelf
  <1>4. ASSUME UNCHANGED <<created, exit, wpc, wtask, clearing, spurs>> PROVE Threads'
    BY <1>4
  <1>5. ASSUME NEW c \in Clients, Work(c) PROVE Threads'
    BY <1>5 DEF Work, Notified
  <1>6. ASSUME NEW c \in Clients, Awake(c) PROVE Threads'
    <2>1. carg[c] \in W
      BY <1>6 DEF Awake
    <2>2. UNCHANGED <<exit, wtask, clearing, spurs>>
      BY <1>6 DEF Awake
    <2>3. CASE ~created[carg[c]] /\ ~exit[carg[c]]
      <3>1. /\ wpc' = [wpc EXCEPT ![carg[c]] = "start"]
            /\ created' = [created EXCEPT ![carg[c]] = TRUE]
        BY <1>6, <2>3 DEF Awake
      <3> QED BY <2>1, <2>2, <3>1
    <2>4. CASE ~(~created[carg[c]] /\ ~exit[carg[c]])
      BY <1>6, <2>2, <2>4 DEF Awake
    <2> QED BY <2>3, <2>4
  <1>7. ASSUME NEW c \in Clients, NEW op \in {"finish", "clear"}, CallClear(c, op)
        PROVE  Threads'
    BY <1>7, PoolAssumption DEF PoolAssumption, CallClear
  <1>8. ASSUME NEW c \in Clients, ClearLock(c) PROVE Threads'
    BY <1>8, PoolAssumption DEF PoolAssumption, ClearLock
  <1>9. ASSUME NEW c \in Clients, FinishWakes(c) PROVE Threads'
    BY <1>9, PoolAssumption DEF PoolAssumption, FinishWakes
  <1>10. ASSUME NEW c \in Clients, NextWorker(c) PROVE cat' \in [Clients -> 1..Len(Workers)]
    <2>1. Len(Workers) \in Nat \ {0}
      BY PoolAssumption DEF PoolAssumption
    <2>2. cat' = [cat EXCEPT ![c] = IF @ < Len(Workers) THEN @ + 1 ELSE 1]
      BY <1>10 DEF NextWorker
    <2>3. cat[c] \in 1..Len(Workers)
      OBVIOUS
    <2> QED BY <2>1, <2>2, <2>3
  <1>11. ASSUME NEW c \in Clients, Sleep(c) PROVE Threads'
    <2>1. Current(c) \in W
      BY CurrentIsWorker
    <2>2. CASE created[Current(c)]
      BY <1>11, <2>1, <2>2, ZenonT(60) DEF Sleep, Notified
    <2>3. CASE ~created[Current(c)]
      <3>1. NextWorker(c) /\ UNCHANGED <<created, exit, wpc, wtask, calls, spurs>>
        BY <1>11, <2>3 DEF Sleep
      <3> QED BY <1>10, <3>1
    <2> QED BY <2>2, <2>3
  <1>12. ASSUME NEW c \in Clients, Join(c) PROVE Threads'
    <2>1. Current(c) \in W
      BY CurrentIsWorker
    <2>2. NextWorker(c) /\ UNCHANGED <<wtask, calls, spurs>>
      BY <1>12 DEF Join
    <2>3. /\ wpc' = [wpc EXCEPT ![Current(c)] = "none"]
          /\ exit' = [exit EXCEPT ![Current(c)] = FALSE]
          /\ created' = [created EXCEPT ![Current(c)] = FALSE]
      BY <1>12 DEF Join
    <2>4. cat' \in [Clients -> 1..Len(Workers)]
      BY <1>10, <2>2
    <2> QED BY <2>1, <2>2, <2>3, <2>4
  <1> HIDE DEF Threads, Shape
  <1>13. ASSUME NEW c \in Clients,
                CallPush(c) \/ PushLock(c) \/ PushTask(c) \/ TellQueued(c) \/ PickIdle(c)
                  \/ PickSleeping(c) \/ FinishCheck(c) \/ Discard(c)
         PROVE  Threads'
    BY <1>4, <1>13 DEF CallPush, PushLock, PushTask, TellQueued, PickIdle, PickSleeping,
                       FinishCheck, Discard
  <1>14. CASE UNCHANGED vars
    BY <1>4, <1>14 DEF vars
  <1> QED BY <1>1, <1>2, <1>3, <1>5, <1>6, <1>7, <1>8, <1>9, <1>11, <1>12, <1>13, <1>14
          DEF Next, Worker, Client

LEMMA ShapeStep == Threads /\ Shape /\ [Next]_vars => Shape'
  <1> SUFFICES ASSUME Threads, Shape, [Next]_vars PROVE Shape'
    OBVIOUS
  <1> USE DEF Shape, queues, clearing, Go, Step, Outside, Stopping, CallbackOps
  <1>1. ASSUME NEW w \in W,
               WorkerLock(w) \/ PushIdleThread(w) \/ Wait(w) \/ WakeBySelf(w) \/ Exit(w)
        PROVE  Shape'
    <2>1. CASE PushIdleThread(w)
      <3>1. idle' \in Seq(W)
        BY <2>1, RangeAppend DEF PushIdleThread
      <3> QED BY <2>1, <3>1 DEF Threads, PushIdleThread
    <2>2. CASE WorkerLock(w) \/ Wait(w) \/ WakeBySelf(w)
      BY <2>2 DEF Threads, WorkerLock, Wait, WakeBySelf
    <2>3. CASE Exit(w)
      BY <2>3 DEF Threads, Exit
    <2> QED BY <1>1, <2>1, <2>2, <2>3
  <1>2. ASSUME NEW w \in W, GetTask(w) PROVE Shape'
    BY <1>2 DEF Threads, GetTask, Tell
  <1>3. ASSUME NEW w \in W, GetNoTask(w) PROVE Shape'
    <2>1. \A c \in Clients : cpc'[c] = cpc[c] \/ cpc'[c] = "fincheck"
      BY <1>3 DEF GetNoTask
    <2>2. cpc' \in [Clients -> Outside \cup Stopping
                               \cup {"add", "tell", "pick", "work", "awake",
                                     "fincheck", "finwait"}]
      BY <1>3 DEF GetNoTask
    <2> QED BY <1>3, <2>1, <2>2 DEF Threads, GetNoTask
  <1>4. ASSUME NEW w \in W, TaskDone(w) PROVE Shape'
    BY <1>4 DEF Threads, TaskDone, Tell
  <1>5. ASSUME NEW c \in Clients, CallPush(c) PROVE Shape'
    BY <1>5 DEF CallPush
  <1>6. ASSUME NEW c \in Clients, PushLock(c) \/ PushTask(c) PROVE Shape'
    <2>1. CASE PushLock(c)
      BY <2>1 DEF PushLock
    <2>2. CASE PushTask(c)
      <3>1. pending' \in Seq(Tasks)
        BY <2>2, RangeAppend DEF PushTask
      <3> QED BY <2>2, <3>1 DEF PushTask
    <2> QED BY <1>6, <2>1, <2>2
  <1>7. ASSUME NEW c \in Clients, TellQueued(c) PROVE Shape'
    BY <1>7 DEF TellQueued, Tell
  <1>8. ASSUME NEW c \in Clients, PickIdle(c) PROVE Shape'
    BY <1>8 DEF PickIdle
  <1>9. ASSUME NEW c \in Clients, PickSleeping(c) PROVE Shape'
    <2>1. CASE sleeping = <<>>
      BY <1>9, <2>1 DEF PickSleeping
    <2>2. CASE sleeping # <<>>
      <3>1. Head(sleeping) \in W /\ Tail(sleeping) \in Seq(W)
        BY <2>2, RangeTail
      <3>2. /\ carg' = [carg EXCEPT ![c] = Head(sleeping)]
            /\ sleeping' = Tail(sleeping)
            /\ cpc' = [cpc EXCEPT ![c] = "awake"]
        BY <1>9, <2>2 DEF PickSleeping
      <3> QED BY <1>9, <3>1, <3>2 DEF PickSleeping
    <2> QED BY <2>1, <2>2
  <1>10. ASSUME NEW c \in Clients, Work(c) PROVE Shape'
    BY <1>10 DEF Threads, Work, Notified
  <1>11. ASSUME NEW c \in Clients, Awake(c) PROVE Shape'
    BY <1>11 DEF Threads, Awake
  <1>12. ASSUME NEW c \in Clients, NEW op \in {"finish", "clear"}, CallClear(c, op)
         PROVE  Shape'
    BY <1>12 DEF CallClear
  <1>13. ASSUME NEW c \in Clients, ClearLock(c) \/ FinishCheck(c) \/ FinishWakes(c)
         PROVE  Shape'
    BY <1>13 DEF ClearLock, FinishCheck, FinishWakes
  <1>14. ASSUME NEW c \in Clients, Sleep(c) \/ Join(c) PROVE Shape'
    <2>1. Current(c) \in W
      BY CurrentIsWorker
    <2>2. \E x \in {"sleep", "join", "discard"} : cpc' = [cpc EXCEPT ![c] = x]
      BY <1>14 DEF Sleep, Join, NextWorker
    <2>3. \A w \in W : wpc'[w] = "run" => wpc[w] = "run"
      BY <1>14, <2>1 DEF Threads, Sleep, Join, Notified
    <2>4. UNCHANGED <<queues, wtask, carg, finishing, cbs>>
      BY <1>14 DEF Sleep, Join
    <2> QED BY <2>2, <2>3, <2>4
  <1>15. ASSUME NEW c \in Clients, Discard(c) PROVE Shape'
    <2>1. Workers \in Seq(W)
      BY PoolAssumption DEF PoolAssumption
    <2> QED BY <1>15, <2>1 DEF Discard
  <1>16. CASE UNCHANGED vars
    BY <1>16 DEF vars
  <1> HIDE DEF Shape
  <1> QED BY <1>1, <1>2, <1>3, <1>4, <1>5, <1>6, <1>7, <1>8, <1>9, <1>10, <1>11, <1>12,
             <1>13, <1>14, <1>15, <1>16 DEF Next, Worker, Client

LEMMA OneInsideStep == Threads /\ Shape /\ OneInside /\ [Next]_vars => OneInside'
  <1> SUFFICES ASSUME Threads, Shape, OneInside, [Next]_vars PROVE OneInside'
    OBVIOUS
  <1> USE DEF Shape, OneInside, queues, clearing, Go, Outside, Stopping
  <1>1. ASSUME \A c \in Clients : cpc'[c] \notin Outside => cpc[c] \notin Outside
        PROVE  OneInside'
    BY <1>1
  <1>2. ASSUME NEW w \in W, Worker(w) \/ WakeBySelf(w) PROVE OneInside'
    <2>1. \A c \in Clients : cpc'[c] \notin Outside => cpc[c] \notin Outside
      BY <1>2 DEF Worker, WakeBySelf, WorkerLock, GetTask, GetNoTask, TaskDone,
                  PushIdleThread, Wait, Exit
    <2> QED BY <1>1, <2>1
  <1>3. ASSUME NEW c \in Clients, PushLock(c) \/ ClearLock(c) PROVE OneInside'
    BY <1>3, ZenonT(60) DEF PushLock, ClearLock, PoolFree
  <1>4. ASSUME NEW c \in Clients,
               CallPush(c) \/ PushTask(c) \/ TellQueued(c) \/ PickIdle(c) \/ PickSleeping(c)
                 \/ Work(c) \/ Awake(c) \/ FinishCheck(c) \/ FinishWakes(c) \/ Discard(c)
        PROVE  OneInside'
    <2>1. \A d \in Clients : cpc'[d] \notin Outside => cpc[d] \notin Outside
      BY <1>4 DEF CallPush, PushTask, TellQueued, PickIdle, PickSleeping, Work, Awake,
                  FinishCheck, FinishWakes, Discard
    <2> QED BY <1>1, <2>1
  <1>5. ASSUME NEW c \in Clients, Sleep(c) \/ Join(c) PROVE OneInside'
    <2>1. /\ cpc[c] \in {"sleep", "join"}
          /\ \E x \in {"sleep", "join", "discard"} : cpc' = [cpc EXCEPT ![c] = x]
      BY <1>5 DEF Sleep, Join, NextWorker
    <2> QED BY <1>1, <2>1
  <1>6. ASSUME NEW c \in Clients, NEW op \in {"finish", "clear"}, CallClear(c, op)
        PROVE  OneInside'
    BY <1>1, <1>6 DEF CallClear
  <1>7. CASE UNCHANGED vars
    BY <1>1, <1>7 DEF vars
  <1> HIDE DEF Shape, OneInside
  <1> QED BY <1>2, <1>3, <1>4, <1>5, <1>6, <1>7 DEF Next, Client

\* While a client is inside and stops nobody, nobody is stopped.
LEMMA NobodyStops ==
    ASSUME OneInside, NEW c \in Clients, cpc[c] \notin Outside \cup Stopping
    PROVE  \A d \in Clients : cpc[d] \notin Stopping
  BY DEF OneInside, Outside, Stopping

LEMMA ClearingStep == Threads /\ Shape /\ OneInside /\ Clearing /\ [Next]_vars => Clearing'
  <1> SUFFICES ASSUME Threads, Shape, OneInside, Clearing, [Next]_vars PROVE Clearing'
    OBVIOUS
  <1> USE DEF queues, clearing, Go, Step, Outside, Stopping
  <1>0. \A i \in 1..Len(Workers) : Workers[i] \in W
    BY PoolAssumption DEF PoolAssumption
  <1>1. ASSUME \A v \in W : wpc[v] = "none" => wpc'[v] = "none",
               pending = <<>> => pending' = <<>>,
               UNCHANGED <<cat, finishing>>,
               \A c \in Clients :
                   /\ cpc'[c] \in Stopping \cup {"clear"} => cpc'[c] = cpc[c]
                   /\ cpc'[c] \in {"fincheck", "finwait"} => cpc[c] \in {"fincheck", "finwait"}
        PROVE  Clearing'
    BY <1>0, <1>1 DEF Threads, Clearing
  <1>2. ASSUME NEW w \in W, Worker(w) \/ WakeBySelf(w) PROVE Clearing'
    <2>1. \A v \in W : wpc[v] = "none" => wpc'[v] = "none"
      BY <1>2 DEF Threads, Worker, WakeBySelf, WorkerLock, GetTask, GetNoTask, TaskDone,
                  PushIdleThread, Wait, Exit
    <2>2. pending = <<>> => pending' = <<>>
      BY <1>2 DEF Worker, WakeBySelf, WorkerLock, GetTask, GetNoTask, TaskDone,
                  PushIdleThread, Wait, Exit
    <2>3. UNCHANGED <<cat, finishing>>
      BY <1>2 DEF Worker, WakeBySelf, WorkerLock, GetTask, GetNoTask, TaskDone,
                  PushIdleThread, Wait, Exit
    <2>4. \A c \in Clients :
            /\ cpc'[c] \in Stopping \cup {"clear"} => cpc'[c] = cpc[c]
            /\ cpc'[c] \in {"fincheck", "finwait"} => cpc[c] \in {"fincheck", "finwait"}
      BY <1>2 DEF Shape, Worker, WakeBySelf, WorkerLock, GetTask, GetNoTask, TaskDone,
                  PushIdleThread, Wait, Exit
    <2> QED BY <1>1, <2>1, <2>2, <2>3, <2>4
  <1>3. ASSUME NEW c \in Clients,
               CallPush(c) \/ PushLock(c) \/ TellQueued(c) \/ PickIdle(c) \/ PickSleeping(c)
                 \/ Work(c) \/ FinishWakes(c) \/ Discard(c)
        PROVE  Clearing'
    <2>1. \A v \in W : wpc[v] = "none" => wpc'[v] = "none"
      BY <1>3 DEF Threads, CallPush, PushLock, TellQueued, PickIdle, PickSleeping, Work,
                  Notified, FinishWakes, Discard
    <2>2. (pending = <<>> => pending' = <<>>) /\ UNCHANGED <<cat, finishing>>
      BY <1>3 DEF CallPush, PushLock, TellQueued, PickIdle, PickSleeping, Work,
                  FinishWakes, Discard
    <2>3. \A d \in Clients :
            /\ cpc'[d] \in Stopping \cup {"clear"} => cpc'[d] = cpc[d]
            /\ cpc'[d] \in {"fincheck", "finwait"} => cpc[d] \in {"fincheck", "finwait"}
      BY <1>3 DEF Shape, CallPush, PushLock, TellQueued, PickIdle, PickSleeping, Work,
                  FinishWakes, Discard
    <2> QED BY <1>1, <2>1, <2>2, <2>3
  <1>4. ASSUME NEW c \in Clients, PushTask(c) \/ Awake(c) PROVE Clearing'
    <2>1. \A d \in Clients : cpc[d] \notin Stopping
      BY <1>4, NobodyStops DEF PushTask, Awake
    <2>2. \A d \in Clients : cpc'[d] = cpc[d] \/ cpc'[d] \in {"tell", "out"}
      BY <1>4 DEF Shape, PushTask, Awake
    <2>3. UNCHANGED <<finishing, cat>>
      BY <1>4 DEF PushTask, Awake
    <2> QED BY <2>1, <2>2, <2>3 DEF Clearing
  <1>5. ASSUME NEW c \in Clients, NEW op \in {"finish", "clear"}, CallClear(c, op)
        PROVE  Clearing'
    <2>1. /\ cpc' = [cpc EXCEPT ![c] = op]
          /\ finishing' = [finishing EXCEPT ![c] = (op = "finish")]
          /\ UNCHANGED <<pending, wpc, cat>>
      BY <1>5 DEF CallClear
    <2>2. \A d \in Clients : d # c => cpc'[d] = cpc[d] /\ finishing'[d] = finishing[d]
      BY <2>1 DEF Shape
    <2>3. cpc'[c] = op /\ (op = "clear" => ~finishing'[c])
      BY <2>1 DEF Shape
    <2> QED BY <2>1, <2>2, <2>3 DEF Clearing
  <1>6. ASSUME NEW c \in Clients, ClearLock(c) PROVE Clearing'
    <2>1. /\ cpc' = [cpc EXCEPT ![c] = IF cpc[c] = "finish" THEN "fincheck" ELSE "sleep"]
          /\ cat' = [cat EXCEPT ![c] = 1]
          /\ UNCHANGED <<pending, wpc, finishing>>
      BY <1>6 DEF ClearLock
    <2>2. \A d \in Clients : d # c => cpc'[d] = cpc[d] /\ cat'[d] = cat[d]
      BY <2>1 DEF Shape, Threads
    <2>3. cat'[c] = 1 /\ (cpc'[c] = "fincheck" \/ (cpc'[c] = "sleep" /\ ~finishing[c]))
      BY <1>6, <2>1 DEF ClearLock, Shape, Threads, Clearing
    <2> QED BY <2>1, <2>2, <2>3 DEF Clearing
  <1>7. ASSUME NEW c \in Clients, FinishCheck(c) PROVE Clearing'
    <2>1. \A d \in Clients : cpc[d] \notin Stopping
      BY <1>7, NobodyStops DEF FinishCheck
    <2>2. /\ \A d \in Clients : d # c => cpc'[d] = cpc[d]
          /\ (cpc'[c] = "sleep" /\ pending = <<>>) \/ cpc'[c] = "finwait"
          /\ UNCHANGED <<pending, wpc, cat, finishing>>
      BY <1>7 DEF FinishCheck, Shape
    <2>3. cat[c] = 1
      BY <1>7 DEF FinishCheck, Clearing
    <2> QED BY <2>1, <2>2, <2>3 DEF Clearing
  <1>8. ASSUME NEW c \in Clients, cpc[c] \in {"sleep", "join"}, NextWorker(c),
               UNCHANGED <<pending, finishing>>,
               \A v \in W : wpc[v] = "none" => wpc'[v] = "none",
               wpc'[Current(c)] = "none"
        PROVE  Clearing'
    <2>1. \A d \in Clients : d # c => cpc'[d] = cpc[d] /\ cat'[d] = cat[d]
      BY <1>8 DEF NextWorker, Shape, Threads
    <2>2. \A d \in Clients : d # c => cpc[d] \notin Stopping \cup {"fincheck", "finwait"}
      BY <1>8 DEF OneInside
    <2>3. cat[c] \in 1..Len(Workers) /\ Len(Workers) \in Nat
      BY CurrentIsWorker, PoolAssumption DEF PoolAssumption
    <2>4. \A i \in 1..cat[c] : wpc'[Workers[i]] = "none"
      <3>1. \A i \in 1..cat[c] - 1 : wpc[Workers[i]] = "none" /\ Workers[i] \in W
        BY <1>0, <1>8, <2>3 DEF Clearing
      <3> QED BY <1>8, <2>3, <3>1 DEF Current
    <2>5. finishing[c] => pending = <<>>
      BY <1>8 DEF Clearing
    <2>6. CASE cat[c] < Len(Workers)
      <3>1. cat'[c] = cat[c] + 1 /\ cpc'[c] = "sleep"
        BY <1>8, <2>6 DEF NextWorker, Shape, Threads
      <3>2. \A i \in 1..cat'[c] - 1 : wpc'[Workers[i]] = "none"
        BY <2>3, <2>4, <3>1
      <3> QED BY <1>8, <2>1, <2>2, <2>5, <3>1, <3>2 DEF Clearing
    <2>7. CASE ~(cat[c] < Len(Workers))
      <3>1. cpc'[c] = "discard"
        BY <1>8, <2>7 DEF NextWorker, Shape
      <3>2. \A w \in W : \E i \in 1..Len(Workers) : Workers[i] = w
        BY PoolAssumption DEF PoolAssumption, W, Range
      <3>3. \A w \in W : wpc'[w] = "none"
        BY <2>3, <2>4, <2>7, <3>2
      <3> QED BY <1>8, <2>1, <2>2, <2>5, <3>1, <3>3 DEF Clearing
    <2> QED BY <2>6, <2>7
  <1>9. ASSUME NEW c \in Clients, Sleep(c) PROVE Clearing'
    <2>1. Current(c) \in W
      BY CurrentIsWorker
    <2>2. CASE created[Current(c)]
      <3>1. /\ cpc' = [cpc EXCEPT ![c] = "join"] /\ cpc[c] = "sleep"
            /\ UNCHANGED <<pending, cat, finishing>>
            /\ wpc' = [wpc EXCEPT ![Current(c)] = Notified(Current(c))]
        BY <1>9, <2>2 DEF Sleep
      <3>2. \A v \in W : wpc[v] = "none" => wpc'[v] = "none"
        BY <2>1, <3>1 DEF Notified, Threads
      <3>3. /\ cpc'[c] = "join" /\ \A d \in Clients : d # c => cpc'[d] = cpc[d]
            /\ \A d \in Clients : d # c => cpc[d] \notin Stopping
        BY <3>1 DEF Shape, OneInside
      <3>4. \A i \in 1..cat[c] - 1 : wpc[Workers[i]] = "none" /\ Workers[i] \in W
        BY <1>0, <3>1, CurrentIsWorker, PoolAssumption DEF Clearing, PoolAssumption
      <3> QED BY <3>1, <3>2, <3>3, <3>4 DEF Clearing
    <2>3. CASE ~created[Current(c)]
      BY <1>8, <1>9, <2>1, <2>3 DEF Sleep, Threads
    <2> QED BY <2>2, <2>3
  <1>10. ASSUME NEW c \in Clients, Join(c) PROVE Clearing'
    <2>1. Current(c) \in W
      BY CurrentIsWorker
    <2>2. wpc' = [wpc EXCEPT ![Current(c)] = "none"]
      BY <1>10 DEF Join
    <2> QED BY <1>8, <1>10, <2>1, <2>2 DEF Join, Threads
  <1>11. CASE UNCHANGED vars
    BY <1>1, <1>11 DEF vars
  <1> QED BY <1>2, <1>3, <1>4, <1>5, <1>6, <1>7, <1>9, <1>10, <1>11 DEF Next, Client

LEMMA IdleStep == Threads /\ Shape /\ OneInside /\ Idle /\ [Next]_vars => Idle'
  <1> SUFFICES ASSUME Threads, Shape, OneInside, Idle, [Next]_vars,
                      spurs' = 0, \A c \in Clients : cpc'[c] \notin Stopping
               PROVE  /\ IsInjective(idle)'
                      /\ \A w \in Range(idle)' : wpc'[w] \in {"wait", "waiting"}
                      /\ \A c \in Clients : cpc'[c] = "work" => carg'[c] \notin Range(idle)'
    BY DEF Idle
  <1> DEFINE Goal == /\ IsInjective(idle)'
                     /\ \A w \in Range(idle)' : wpc'[w] \in {"wait", "waiting"}
                     /\ \A c \in Clients : cpc'[c] = "work" => carg'[c] \notin Range(idle)'
             Waits == /\ IsInjective(idle)
                      /\ \A w \in Range(idle) : wpc[w] \in {"wait", "waiting"}
                      /\ \A c \in Clients : cpc[c] = "work" => carg[c] \notin Range(idle)
  <1> USE DEF queues, clearing, Go, Step, Outside, Stopping
  <1>0. ASSUME spurs = 0, \A c \in Clients : cpc[c] \notin Stopping PROVE Waits
    BY <1>0 DEF Idle
  <1>1. ASSUME spurs = 0, \A c \in Clients : cpc[c] \notin Stopping, idle' = idle,
               \A w \in Range(idle) : wpc[w] \in {"wait", "waiting"}
                                        => wpc'[w] \in {"wait", "waiting"},
               \A c \in Clients : cpc'[c] = "work" => cpc[c] = "work" /\ carg'[c] = carg[c]
        PROVE  Goal
    BY <1>0, <1>1
  <1>2. \A w \in Range(idle) : w \in W
    BY DEF Shape, Range
  <1>3. ASSUME NEW w \in W,
               WorkerLock(w) \/ GetTask(w) \/ GetNoTask(w) \/ TaskDone(w) \/ Wait(w) \/ Exit(w)
        PROVE  Goal
    <2>1. \A v \in W : wpc[v] \in {"wait", "waiting"} => wpc'[v] \in {"wait", "waiting"}
      BY <1>3 DEF Threads, WorkerLock, GetTask, GetNoTask, TaskDone, Wait, Exit
    <2>2. idle' = idle /\ spurs' = spurs /\ carg' = carg
      BY <1>3 DEF WorkerLock, GetTask, GetNoTask, TaskDone, Wait, Exit
    <2>3. \A c \in Clients : /\ cpc'[c] = "work" => cpc[c] = "work"
                             /\ cpc[c] \in Stopping => cpc'[c] = cpc[c]
      BY <1>3 DEF Shape, WorkerLock, GetTask, GetNoTask, TaskDone, Wait, Exit
    <2> QED BY <1>1, <1>2, <2>1, <2>2, <2>3
  <1>4. ASSUME NEW w \in W, PushIdleThread(w) PROVE Goal
    <2>1. /\ idle' = Append(idle, w) /\ wpc' = [wpc EXCEPT ![w] = "wait"]
          /\ wpc[w] = "gap" /\ UNCHANGED <<cpc, carg, spurs>>
          /\ \A c \in Clients : cpc[c] # "work"
      BY <1>4 DEF PushIdleThread, TaskFree
    <2>2. Waits
      BY <1>0, <2>1
    <2>3. idle \in Seq(W) /\ IsInjective(idle) /\ w \notin Range(idle)
      BY <2>1, <2>2 DEF Shape
    <2>4. /\ Range(Append(idle, w)) = Range(idle) \cup {w}
          /\ IsInjective(Append(idle, w))
      BY <2>3, RangeAppend
    <2>5. Range(idle') = Range(idle) \cup {w} /\ IsInjective(idle')
      BY <2>1, <2>4
    <2> QED BY <1>2, <2>1, <2>2, <2>5 DEF Threads
  <1>5. ASSUME NEW w \in W, WakeBySelf(w) PROVE Goal
    BY <1>5 DEF WakeBySelf, Threads
  <1>6. ASSUME NEW c \in Clients,
               CallPush(c) \/ PushLock(c) \/ PushTask(c) \/ TellQueued(c) \/ PickSleeping(c)
                 \/ ClearLock(c) \/ FinishCheck(c)
        PROVE  Goal
    <2>1. UNCHANGED <<idle, wpc, spurs>>
      BY <1>6 DEF CallPush, PushLock, PushTask, TellQueued, PickSleeping, ClearLock,
                  FinishCheck
    <2>2. \A d \in Clients : /\ cpc[d] \in Stopping => cpc'[d] = cpc[d]
                             /\ cpc'[d] = "work" => cpc[d] = "work" /\ carg'[d] = carg[d]
      BY <1>6 DEF Shape, CallPush, PushLock, PushTask, TellQueued, PickSleeping,
         ClearLock,
                  FinishCheck
    <2> QED BY <1>1, <2>1, <2>2
  <1>7. ASSUME NEW c \in Clients, FinishWakes(c) PROVE Goal
    BY <1>7 DEF FinishWakes, Threads
  <1>8. ASSUME NEW c \in Clients, PickIdle(c) PROVE Goal
    <2>1. /\ idle # <<>> /\ idle' = Tail(idle) /\ carg' = [carg EXCEPT ![c] = Head(idle)]
          /\ cpc' = [cpc EXCEPT ![c] = "work"] /\ cpc[c] = "pick" /\ UNCHANGED <<wpc, spurs>>
          /\ \A d \in Clients : cpc[d] # "work"
      BY <1>8 DEF PickIdle, TaskFree
    <2>2. Waits
      BY <1>0, <2>1, NobodyStops
    <2>3. /\ IsInjective(idle') /\ Head(idle) \notin Range(idle')
          /\ Range(idle') \subseteq Range(idle)
      BY <2>1, <2>2, RangeTail DEF Shape
    <2>4. \A d \in Clients : cpc'[d] = "work" => d = c /\ carg'[d] = Head(idle)
      BY <2>1 DEF Shape
    <2> QED BY <2>1, <2>2, <2>3, <2>4
  <1>9. ASSUME NEW c \in Clients, Work(c) PROVE Goal
    <2>1. /\ wpc' = [wpc EXCEPT ![carg[c]] = Notified(carg[c])]
          /\ cpc' = [cpc EXCEPT ![c] = "out"] /\ cpc[c] = "work"
          /\ carg' = [carg EXCEPT ![c] = None] /\ UNCHANGED <<idle, spurs>>
      BY <1>9 DEF Work
    <2>2. Waits
      BY <1>0, <2>1, NobodyStops
    <2>3. carg[c] \notin Range(idle)
      BY <2>1, <2>2
    <2>4. \A w \in Range(idle) : wpc'[w] = wpc[w]
      BY <1>2, <2>1, <2>3 DEF Threads
    <2>5. \A d \in Clients : cpc'[d] = "work" => cpc[d] = "work" /\ carg'[d] = carg[d]
      BY <2>1 DEF Shape
    <2> QED BY <2>1, <2>2, <2>4, <2>5
  <1>10. ASSUME NEW c \in Clients, Awake(c) PROVE Goal
    <2>1. /\ cpc' = [cpc EXCEPT ![c] = "out"] /\ cpc[c] = "awake"
          /\ carg' = [carg EXCEPT ![c] = None] /\ UNCHANGED <<idle, spurs>>
          /\ \/ UNCHANGED wpc
             \/ ~created[carg[c]] /\ wpc' = [wpc EXCEPT ![carg[c]] = "start"]
      BY <1>10 DEF Awake
    <2>2. Waits
      BY <1>0, <2>1, NobodyStops
    <2>3. \A w \in Range(idle) : wpc'[w] = wpc[w]
      BY <1>2, <2>1, <2>2 DEF Threads, Shape
    <2>4. \A d \in Clients : cpc'[d] = "work" => cpc[d] = "work" /\ carg'[d] = carg[d]
      BY <2>1 DEF Shape
    <2> QED BY <2>1, <2>2, <2>3, <2>4
  <1>11. ASSUME NEW c \in Clients, Sleep(c) \/ Join(c) PROVE Goal
    <2>1. \E x \in {"sleep", "join", "discard"} : cpc' = [cpc EXCEPT ![c] = x]
      BY <1>11 DEF Sleep, Join, NextWorker
    <2> QED BY <2>1 DEF Shape
  <1>12. ASSUME NEW c \in Clients, Discard(c) PROVE Goal
    <2>1. idle' = <<>>
      BY <1>12 DEF Discard
    <2> QED BY <2>1, RangeEmpty
  <1>13. ASSUME NEW c \in Clients, NEW op \in {"finish", "clear"}, CallClear(c, op)
         PROVE  Goal
    <2>1. \A d \in Clients : /\ cpc[d] \in Stopping => cpc'[d] = cpc[d]
                             /\ cpc'[d] = "work" => cpc[d] = "work"
      BY <1>13 DEF CallClear, Shape
    <2> QED BY <1>1, <1>13, <2>1 DEF CallClear
  <1>14. ASSUME UNCHANGED vars PROVE Goal
    BY <1>1, <1>14 DEF vars
  <1> HIDE DEF Goal, Waits, queues, clearing, Go, Step
  <1>15. Goal
    BY <1>3, <1>4, <1>5, <1>6, <1>7, <1>8, <1>9, <1>10, <1>11, <1>12, <1>13, <1>14
       DEF Next, Worker, Client
  <1> QED BY <1>15 DEF Goal

\* A task nothing happens to.
LEMMA TaskFrame ==
    ASSUME NEW t \in Tasks, TaskOnce(t), cbs'[t] = cbs[t],
           t \in Range(pending') => t \in Range(pending),
           \A w \in W : Runs(w, t)' => Runs(w, t),
           \A c \in Clients : /\ Pushes(c, t)' => Pushes(c, t)
                              /\ Pushes(c, t)' /\ cpc'[c] \in {"push", "add"} =>
                                     cpc[c] \in {"push", "add"}
                              /\ Pushes(c, t)' /\ cpc'[c] = "tell" => cpc[c] = "tell"
    PROVE  TaskOnce(t)'
  <1>1. Told(t)' = Told(t) /\ (Untouched(t)' <=> Untouched(t))
    BY DEF Told, Untouched
  <1> QED BY <1>1 DEF TaskOnce

\* Steps of the threads and of the clients that touch no callback.
LEMMA OnceFrame ==
    ASSUME Once, UNCHANGED <<pending, cbs>>,
           \A w \in W : wpc'[w] = "run" => wpc[w] = "run" /\ wtask'[w] = wtask[w],
           \A c \in Clients : cpc'[c] \in Pushing =>
               /\ carg'[c] = carg[c]
               /\ cpc'[c] = cpc[c] \/ (cpc[c] = "push" /\ cpc'[c] = "add")
    PROVE  Once'
  <1>1. ASSUME NEW t \in Tasks PROVE TaskOnce(t)'
    <2>1. \A w \in W : Runs(w, t)' => Runs(w, t)
      BY DEF Runs
    <2>2. \A c \in Clients : /\ Pushes(c, t)' => Pushes(c, t)
                             /\ Pushes(c, t)' /\ cpc'[c] \in {"push", "add"} =>
                                    cpc[c] \in {"push", "add"}
                             /\ Pushes(c, t)' /\ cpc'[c] = "tell" => cpc[c] = "tell"
      BY DEF Pushes, Pushing
    <2> QED BY <2>1, <2>2, TaskFrame DEF Once
  <1> QED BY <1>1 DEF Once

LEMMA OnceStep == Threads /\ Shape /\ Once /\ [Next]_vars => Once'
  <1> SUFFICES ASSUME Threads, Shape, Once, [Next]_vars PROVE Once'
    OBVIOUS
  <1> USE DEF queues, clearing, Go, Step
  <1>1. ASSUME NEW w \in W,
               WorkerLock(w) \/ GetNoTask(w) \/ PushIdleThread(w) \/ Wait(w)
                 \/ WakeBySelf(w) \/ Exit(w)
        PROVE  Once'
    <2>1. UNCHANGED <<pending, cbs>>
      BY <1>1 DEF WorkerLock, GetNoTask, PushIdleThread, Wait, WakeBySelf, Exit
    <2>2. \A v \in W : wpc'[v] = "run" => wpc[v] = "run" /\ wtask'[v] = wtask[v]
      BY <1>1 DEF Threads, WorkerLock, GetNoTask, PushIdleThread, Wait, WakeBySelf, Exit
    <2>3. \A c \in Clients : cpc'[c] \in Pushing => carg'[c] = carg[c] /\ cpc'[c] = cpc[c]
      BY <1>1 DEF Shape, Pushing, WorkerLock, GetNoTask, PushIdleThread, Wait,
         WakeBySelf,
                  Exit
    <2> QED BY <2>1, <2>2, <2>3, OnceFrame
  <1>2. ASSUME NEW c \in Clients,
               PushLock(c) \/ PickIdle(c) \/ PickSleeping(c) \/ Work(c) \/ ClearLock(c)
                 \/ FinishCheck(c) \/ FinishWakes(c)
        PROVE  Once'
    <2>1. UNCHANGED <<pending, cbs>>
      BY <1>2 DEF PushLock, PickIdle, PickSleeping, Work, ClearLock, FinishCheck,
                  FinishWakes
    <2>2. \A v \in W : wpc'[v] = "run" => wpc[v] = "run" /\ wtask'[v] = wtask[v]
      BY <1>2 DEF Threads, Shape, PushLock, PickIdle, PickSleeping, Work, Notified,
                  ClearLock, FinishCheck, FinishWakes
    <2>3. \A d \in Clients : cpc'[d] \in Pushing =>
               /\ carg'[d] = carg[d]
               /\ cpc'[d] = cpc[d] \/ (cpc[d] = "push" /\ cpc'[d] = "add")
      BY <1>2 DEF Shape, Pushing, PushLock, PickIdle, PickSleeping, Work, ClearLock,
                  FinishCheck, FinishWakes
    <2> QED BY <2>1, <2>2, <2>3, OnceFrame
  <1>3. ASSUME NEW c \in Clients, Awake(c) PROVE Once'
    <2>1. UNCHANGED <<pending, cbs, wtask>>
      BY <1>3 DEF Awake
    <2>2. \A v \in W : wpc'[v] = "run" => wpc[v] = "run"
      BY <1>3 DEF Threads, Shape, Awake
    <2>3. \A d \in Clients : cpc'[d] \in Pushing => carg'[d] = carg[d] /\ cpc'[d] = cpc[d]
      BY <1>3 DEF Shape, Pushing, Awake
    <2> QED BY <2>1, <2>2, <2>3, OnceFrame
  <1>4. ASSUME NEW c \in Clients, Sleep(c) \/ Join(c) PROVE Once'
    <2>1. UNCHANGED <<pending, cbs, wtask, carg>>
      BY <1>4 DEF Sleep, Join
    <2>2. Current(c) \in W
      BY CurrentIsWorker
    <2>3. \A v \in W : wpc'[v] = "run" => wpc[v] = "run"
      BY <1>4, <2>2 DEF Threads, Sleep, Join, Notified
    <2>4. \E x \in {"sleep", "join", "discard"} : cpc' = [cpc EXCEPT ![c] = x]
      BY <1>4 DEF Sleep, Join, NextWorker
    <2>5. \A d \in Clients : cpc'[d] \in Pushing => cpc'[d] = cpc[d]
      BY <2>4 DEF Shape, Pushing
    <2> QED BY <2>1, <2>3, <2>5, OnceFrame
  <1>5. ASSUME NEW c \in Clients, NEW op \in {"finish", "clear"}, CallClear(c, op)
        PROVE  Once'
    <2>1. UNCHANGED <<pending, cbs, wpc, wtask, carg>>
      BY <1>5 DEF CallClear
    <2>2. \A d \in Clients : cpc'[d] \in Pushing => cpc'[d] = cpc[d]
      BY <1>5 DEF CallClear, Shape, Pushing
    <2> QED BY <2>1, <2>2, OnceFrame
  <1>6. CASE UNCHANGED vars
    BY <1>6, OnceFrame DEF vars
  <1> USE DEF Told, Untouched
  \* A task is told op; the others are not.
  <1>7. ASSUME NEW u \in Tasks, NEW op \in CallbackOps, Tell(u, op)
        PROVE  /\ cbs'[u] = Append(cbs[u], op) /\ Told(u)' = Told(u) \cup {op}
               /\ \A t \in Tasks : t # u => cbs'[t] = cbs[t]
    <2>1. cbs[u] \in Seq(CallbackOps) /\ cbs'[u] = Append(cbs[u], op)
      BY <1>7 DEF Shape, Tell
    <2>2. Range(Append(cbs[u], op)) = Range(cbs[u]) \cup {op}
      BY <2>1, RangeAppend
    <2>3. \A t \in Tasks : t # u => cbs'[t] = cbs[t]
      BY <1>7 DEF Shape, Tell
    <2> QED BY <2>1, <2>2, <2>3
  <1>8. ASSUME NEW u \in Tasks, NEW op \in CallbackOps, TaskOnce(u), op \notin Told(u),
               op = "done" => "doing" \in Told(u),
               op \in {"doing", "done"} => "discard" \notin Told(u),
               op = "discard" => {"doing", "done"} \cap Told(u) = {}
        PROVE  Orderly(Append(cbs[u], op))
    <2>1. cbs[u] \in Seq(CallbackOps) /\ Orderly(cbs[u])
      BY <1>8 DEF Shape, TaskOnce
    <2> QED BY <1>8, <2>1, OrderlyAppend
  <1>9. \A t \in Tasks : TaskOnce(t)
    BY DEF Once
  <1>10. pending \in Seq(Tasks) /\ IsInjective(pending)
    BY DEF Shape, Once
  <1>11. ASSUME NEW w \in W, GetTask(w) PROVE Once'
    <2>0. PICK u \in Tasks : u = Head(pending)
      BY <1>10, <1>11, RangeTail DEF GetTask
    <2>1. /\ u \in Tasks /\ u \in Range(pending) /\ u \notin Range(Tail(pending))
          /\ IsInjective(Tail(pending)) /\ Range(Tail(pending)) \subseteq Range(pending)
      BY <1>10, <1>11, <2>0, RangeTail DEF GetTask
    <2>2. /\ pending' = Tail(pending) /\ Tell(u, "doing") /\ UNCHANGED <<cpc, carg>>
          /\ wpc[w] = "check" /\ wpc' = [wpc EXCEPT ![w] = "run"]
          /\ wtask' = [wtask EXCEPT ![w] = u]
      BY <1>11, <2>0 DEF GetTask
    <2>3. "doing" \in CallbackOps
      BY DEF CallbackOps
    <2>4. /\ cbs'[u] = Append(cbs[u], "doing") /\ Told(u)' = Told(u) \cup {"doing"}
          /\ \A t \in Tasks : t # u => cbs'[t] = cbs[t]
      BY <1>7, <2>1, <2>2, <2>3
    <2>5. TaskOnce(u) /\ Untouched(u)
      BY <1>9, <2>1 DEF TaskOnce
    <2>6. Orderly(cbs'[u])
      BY <1>8, <2>1, <2>3, <2>4, <2>5
    <2>7. /\ wtask'[w] = u
          /\ \A v \in W : v # w => wpc'[v] = wpc[v] /\ wtask'[v] = wtask[v]
      BY <2>2 DEF Threads
    <2>8. TaskOnce(u)'
      <3>1. \A v \in W : Runs(v, u)' => v = w
        BY <2>5, <2>7 DEF Runs, TaskOnce
      <3>2. \A c \in Clients : Pushes(c, u)' => cpc'[c] = "tell" /\ "queue" \notin Told(u)
        BY <2>1, <2>2, <2>5 DEF Pushes, Pushing, TaskOnce
      <3>3. u \notin Range(pending')
        BY <2>1, <2>2
      <3>4. \A c, d \in Clients : Pushes(c, u)' /\ Pushes(d, u)' => c = d
        BY <2>2, <2>5 DEF Pushes, TaskOnce
      <3> QED BY <2>4, <2>5, <2>6, <3>1, <3>2, <3>3, <3>4 DEF TaskOnce
    <2>9. ASSUME NEW t \in Tasks, t # u PROVE TaskOnce(t)'
      <3>1. \A v \in W : Runs(v, t)' => Runs(v, t)
        BY <2>7, <2>9 DEF Runs
      <3>2. \A c \in Clients : /\ Pushes(c, t)' => Pushes(c, t)
                               /\ cpc'[c] = cpc[c]
        BY <2>2 DEF Pushes
      <3> QED BY <1>9, <2>1, <2>2, <2>4, <2>9, <3>1, <3>2, TaskFrame
    <2> QED BY <2>1, <2>2, <2>8, <2>9 DEF Once
  <1>12. ASSUME NEW w \in W, TaskDone(w) PROVE Once'
    <2>0. PICK u \in Tasks : u = wtask[w]
      BY <1>12 DEF TaskDone, Shape
    <2>1. /\ u \in Tasks /\ Runs(w, u) /\ Tell(u, "done")
          /\ wpc' = [wpc EXCEPT ![w] = "check"] /\ UNCHANGED <<pending, wtask, cpc, carg>>
      BY <1>12, <2>0 DEF TaskDone, Shape, Runs
    <2>2. "done" \in CallbackOps
      BY DEF CallbackOps
    <2>3. /\ cbs'[u] = Append(cbs[u], "done") /\ Told(u)' = Told(u) \cup {"done"}
          /\ \A t \in Tasks : t # u => cbs'[t] = cbs[t]
      BY <1>7, <2>1, <2>2
    <2>4. /\ TaskOnce(u) /\ "doing" \in Told(u) /\ {"done", "discard"} \cap Told(u) = {}
          /\ u \notin Range(pending)
      BY <1>9, <2>1 DEF TaskOnce
    <2>5. Orderly(cbs'[u])
      BY <1>8, <2>1, <2>2, <2>3, <2>4
    <2>6. \A v \in W : wpc'[v] = "run" => wpc[v] = "run" /\ v # w
      BY <2>1 DEF Threads
    <2>7. TaskOnce(u)'
      <3>1. \A v \in W : ~Runs(v, u)'
        BY <2>1, <2>4, <2>6 DEF Runs, TaskOnce
      <3>2. \A c \in Clients : Pushes(c, u)' => cpc'[c] = "tell" /\ "queue" \notin Told(u)
        BY <2>1, <2>4 DEF Pushes, Pushing, TaskOnce
      <3>3. \A c, d \in Clients : Pushes(c, u)' /\ Pushes(d, u)' => c = d
        BY <2>1, <2>4 DEF Pushes, TaskOnce
      <3> QED BY <2>1, <2>3, <2>4, <2>5, <3>1, <3>2, <3>3 DEF TaskOnce
    <2>8. ASSUME NEW t \in Tasks, t # u PROVE TaskOnce(t)'
      <3>1. \A v \in W : Runs(v, t)' => Runs(v, t)
        BY <2>1, <2>6 DEF Runs
      <3>2. \A c \in Clients : /\ Pushes(c, t)' => Pushes(c, t)
                               /\ cpc'[c] = cpc[c]
        BY <2>1 DEF Pushes
      <3> QED BY <1>9, <2>1, <2>3, <2>8, <3>1, <3>2, TaskFrame
    <2> QED BY <1>10, <2>1, <2>7, <2>8 DEF Once
  <1>13. ASSUME NEW c \in Clients, CallPush(c) PROVE Once'
    <2>1. PICK u \in Tasks \ Pushed : /\ \A d \in Clients : carg[d] # u
                                      /\ carg' = [carg EXCEPT ![c] = u]
      BY <1>13 DEF CallPush
    <2>2. /\ cpc' = [cpc EXCEPT ![c] = "push"]
          /\ UNCHANGED <<pending, wpc, wtask, cbs>>
      BY <1>13 DEF CallPush
    <2>3. /\ cpc'[c] = "push" /\ carg'[c] = u
          /\ \A d \in Clients : d # c => cpc'[d] = cpc[d] /\ carg'[d] = carg[d]
      BY <2>1, <2>2 DEF Shape
    <2>4. TaskOnce(u)'
      <3>1. cbs[u] = <<>> /\ u \notin Range(pending)
        BY <2>1 DEF Pushed
      <3>2. Told(u) = {}
        BY <3>1, RangeEmpty
      <3>3. \A d \in Clients : Pushes(d, u)' => d = c
        BY <2>1, <2>3 DEF Pushes
      <3>4. Orderly(cbs[u]) /\ \A v \in W : ~Runs(v, u)
        BY <1>9, <2>1, <3>2 DEF TaskOnce
      <3> QED BY <2>2, <2>3, <3>1, <3>2, <3>3, <3>4 DEF TaskOnce, Runs
    <2>5. ASSUME NEW t \in Tasks, t # u PROVE TaskOnce(t)'
      <3>1. \A d \in Clients : Pushes(d, t)' => Pushes(d, t) /\ cpc'[d] = cpc[d]
        BY <2>3, <2>5 DEF Pushes
      <3>2. \A v \in W : Runs(v, t)' => Runs(v, t)
        BY <2>2 DEF Runs
      <3> QED BY <1>9, <2>2, <3>1, <3>2, TaskFrame
    <2> QED BY <1>10, <2>2, <2>4, <2>5 DEF Once
  <1>14. ASSUME NEW c \in Clients, PushTask(c) PROVE Once'
    <2>0. PICK u \in Tasks : u = carg[c]
      BY <1>14 DEF PushTask, Shape
    <2>1. /\ u \in Tasks /\ cpc[c] = "add" /\ Pushes(c, u)
          /\ pending' = Append(pending, u) /\ cpc' = [cpc EXCEPT ![c] = "tell"]
          /\ UNCHANGED <<wpc, wtask, carg, cbs>>
      BY <1>14, <2>0 DEF PushTask, Shape, Pushes, Pushing
    <2>2. TaskOnce(u) /\ Told(u) = {} /\ u \notin Range(pending)
      BY <1>9, <2>1 DEF TaskOnce
    <2>3. IsInjective(pending') /\ Range(pending') = Range(pending) \cup {u}
      BY <1>10, <2>1, <2>2, RangeAppend
    <2>4. cpc'[c] = "tell" /\ \A d \in Clients : d # c => cpc'[d] = cpc[d]
      BY <2>1 DEF Shape
    <2>5. TaskOnce(u)'
      <3>1. \A d \in Clients : Pushes(d, u)' => d = c
        BY <2>1, <2>2, <2>4 DEF Pushes, TaskOnce
      <3> QED BY <2>1, <2>2, <2>4, <3>1 DEF TaskOnce, Runs
    <2>6. ASSUME NEW t \in Tasks, t # u PROVE TaskOnce(t)'
      <3>1. \A d \in Clients : Pushes(d, t)' => Pushes(d, t) /\ cpc'[d] = cpc[d]
        BY <2>1, <2>4, <2>6 DEF Pushes
      <3>2. \A v \in W : Runs(v, t)' => Runs(v, t)
        BY <2>1 DEF Runs
      <3> QED BY <1>9, <2>1, <2>3, <2>6, <3>1, <3>2, TaskFrame
    <2> QED BY <2>3, <2>5, <2>6 DEF Once
  <1>15. ASSUME NEW c \in Clients, TellQueued(c) PROVE Once'
    <2>0. PICK u \in Tasks : u = carg[c]
      BY <1>15 DEF TellQueued, Shape
    <2>1. /\ u \in Tasks /\ cpc[c] = "tell" /\ Pushes(c, u)
          /\ Tell(u, "queue") /\ cpc' = [cpc EXCEPT ![c] = "pick"]
          /\ UNCHANGED <<pending, wpc, wtask, carg>>
      BY <1>15, <2>0 DEF TellQueued, Shape, Pushes, Pushing
    <2>2. "queue" \in CallbackOps
      BY DEF CallbackOps
    <2>3. /\ cbs'[u] = Append(cbs[u], "queue") /\ Told(u)' = Told(u) \cup {"queue"}
          /\ \A t \in Tasks : t # u => cbs'[t] = cbs[t]
      BY <1>7, <2>1, <2>2
    <2>4. TaskOnce(u) /\ "queue" \notin Told(u)
      BY <1>9, <2>1 DEF TaskOnce
    <2>5. Orderly(cbs'[u])
      BY <1>8, <2>1, <2>2, <2>3, <2>4
    <2>6. cpc'[c] = "pick" /\ \A d \in Clients : d # c => cpc'[d] = cpc[d]
      BY <2>1 DEF Shape
    <2>7. TaskOnce(u)'
      <3>1. \A d \in Clients : ~Pushes(d, u)'
        BY <2>1, <2>4, <2>6 DEF Pushes, Pushing, TaskOnce
      <3> QED BY <2>1, <2>3, <2>4, <2>5, <3>1 DEF TaskOnce, Runs
    <2>8. ASSUME NEW t \in Tasks, t # u PROVE TaskOnce(t)'
      <3>1. \A d \in Clients : Pushes(d, t)' => Pushes(d, t) /\ cpc'[d] = cpc[d]
        BY <2>1, <2>6, <2>8 DEF Pushes, Pushing
      <3>2. \A v \in W : Runs(v, t)' => Runs(v, t)
        BY <2>1 DEF Runs
      <3> QED BY <1>9, <2>1, <2>3, <2>8, <3>1, <3>2, TaskFrame
    <2> QED BY <1>10, <2>1, <2>7, <2>8 DEF Once
  <1>16. ASSUME NEW c \in Clients, Discard(c) PROVE Once'
    <2>1. /\ pending' = <<>> /\ cpc' = [cpc EXCEPT ![c] = "out"]
          /\ cbs' = [t \in Tasks |-> IF t \in Range(pending) THEN Append(cbs[t], "discard")
                                                             ELSE cbs[t]]
          /\ UNCHANGED <<wpc, wtask, carg>>
      BY <1>16 DEF Discard
    <2>2. IsInjective(pending') /\ Range(pending') = {}
      BY <2>1, RangeEmpty
    <2>3. ASSUME NEW t \in Tasks
          PROVE  /\ \A d \in Clients : Pushes(d, t)' => Pushes(d, t) /\ cpc'[d] = cpc[d]
                 /\ \A v \in W : Runs(v, t)' => Runs(v, t)
      BY <2>1 DEF Pushes, Pushing, Runs, Shape
    <2>4. ASSUME NEW t \in Tasks PROVE TaskOnce(t)'
      <3>1. CASE t \in Range(pending)
        <4>1. TaskOnce(t) /\ Untouched(t)
          BY <1>9, <3>1 DEF TaskOnce
        <4>2. cbs'[t] = Append(cbs[t], "discard") /\ "discard" \in CallbackOps
          BY <2>1, <3>1 DEF CallbackOps
        <4>3. Orderly(cbs'[t])
          BY <1>8, <4>1, <4>2
        <4>4. Told(t)' = Told(t) \cup {"discard"}
          BY <4>2, RangeAppend DEF Shape
        <4>5. \A v \in W : ~Runs(v, t)'
          BY <2>3, <4>1 DEF TaskOnce
        <4>6. \A d \in Clients : Pushes(d, t)' => cpc'[d] = "tell" /\ "queue" \notin Told(t)
          BY <2>3, <3>1, <4>1 DEF TaskOnce, Pushes, Pushing
        <4>7. \A d, e \in Clients : Pushes(d, t)' /\ Pushes(e, t)' => d = e
          BY <2>3, <4>1 DEF TaskOnce
        <4> QED BY <2>2, <4>3, <4>4, <4>5, <4>6, <4>7 DEF TaskOnce
      <3>2. CASE t \notin Range(pending)
        <4>1. cbs'[t] = cbs[t]
          BY <2>1, <3>2
        <4> QED BY <1>9, <2>2, <2>3, <4>1, TaskFrame
      <3> QED BY <3>1, <3>2
    <2> QED BY <2>2, <2>4 DEF Once
  <1> HIDE DEF queues, clearing, Go, Step, Told, Untouched
  <1> QED BY <1>1, <1>2, <1>3, <1>4, <1>5, <1>6, <1>11, <1>12, <1>13, <1>14, <1>15,
             <1>16
          DEF Next, Worker, Client

LEMMA IInvStep == IInv /\ [Next]_vars => IInv'
  BY ThreadsStep, ShapeStep, OneInsideStep, ClearingStep, IdleStep, OnceStep DEF IInv

LEMMA Invariant == Spec => []IInv
  BY IInvInit, IInvStep, PTL DEF Spec

-----------------------------------------------------------------------------

\* No task runs twice, runs after it was discarded, or is told to be done before
\* it was begun: push, the workers' getPendingTask and clear take a task from the
\* pending tasks once, however they interleave, and the late "queue" callback of
\* push does not disturb the order of the others.
THEOREM TasksRunOnce == Spec => []OncePerTask
  <1>1. IInv => OncePerTask
    BY ShapeIsType DEF IInv, Once, TaskOnce, OncePerTask
  <1> QED BY <1>1, Invariant, PTL

\* finish discards nothing: it enters clearNolock with nothing pending, keeps
\* poolMutex so that nobody pushes, and joins every thread before it comes to the
\* discarding.
THEOREM FinishDiscardsNothing == Spec => []FinishLosesNothing
  <1>1. IInv => FinishLosesNothing
    BY DEF IInv, Clearing, Stopping, FinishLosesNothing
  <1> QED BY <1>1, Invariant, PTL

\* While nobody is inside the pool and no condition variable has woken by itself,
\* the idle threads are distinct and wait or are about to: pushIdleThread and push
\* keep the list true, although clear empties it only after all threads are gone.
THEOREM IdleThreadsWait == Spec => []IdleAreWaiting
  <1>1. IInv => IdleAreWaiting
    BY DEF IInv, Idle, PoolFree, Stopping, IdleAreWaiting
  <1> QED BY <1>1, Invariant, PTL
=============================================================================
