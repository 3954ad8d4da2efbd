----------------------------- MODULE EloopProof -----------------------------
(***************************************************************************)
(* Proofs about the event loop, for any timers, descriptors and sizes.     *)
(***************************************************************************)
EXTENDS Eloop, TLAPS, FiniteSetTheorems, SequenceTheorems, WellFoundedInduction

Requests == {AddReq(t) : t \in Tasks} \cup {CancelReq(o) : o \in Timers}
PostedIn(p) == {r.task : r \in {x \in Range(p) : IsAdd(x)}}

-----------------------------------------------------------------------------
(* Sequences.                                                              *)

LEMMA RangeAppend ==
    ASSUME NEW S, NEW s \in Seq(S), NEW e \in S
    PROVE  Append(s, e) \in Seq(S) /\ Range(Append(s, e)) = Range(s) \cup {e}
  <1>1. /\ Append(s, e) \in Seq(S) /\ DOMAIN Append(s, e) = 1..Len(s) + 1
        /\ DOMAIN s = 1..Len(s) /\ Len(s) \in Nat
        /\ \A i \in 1..Len(s) : Append(s, e)[i] = s[i]
        /\ Append(s, e)[Len(s) + 1] = e
    OBVIOUS
  <1> QED BY <1>1 DEF Range

LEMMA RangeTail ==
    ASSUME NEW S, NEW s \in Seq(S), s # <<>>
    PROVE  /\ Tail(s) \in Seq(S) /\ Head(s) \in S /\ Len(Tail(s)) = Len(s) - 1
           /\ Range(s) = Range(Tail(s)) \cup {Head(s)}
  <1>1. /\ Tail(s) \in Seq(S) /\ Len(s) \in Nat \ {0} /\ Len(Tail(s)) = Len(s) - 1
        /\ DOMAIN s = 1..Len(s) /\ DOMAIN Tail(s) = 1..Len(s) - 1
        /\ \A i \in 1..Len(s) - 1 : Tail(s)[i] = s[i + 1]
        /\ Head(s) = s[1]
    OBVIOUS
  <1>2. ASSUME NEW i \in 1..Len(s) PROVE s[i] \in Range(Tail(s)) \cup {Head(s)}
    <2>1. CASE i = 1
      BY <1>1, <2>1
    <2>2. CASE i # 1
      <3>1. i - 1 \in 1..Len(s) - 1 /\ (i - 1) + 1 = i
        BY <1>1, <2>2
      <3>2. i - 1 \in DOMAIN Tail(s) /\ Tail(s)[i - 1] = s[i]
        BY <1>1, <3>1
      <3> QED BY <3>2 DEF Range
    <2> QED BY <2>1, <2>2
  <1>3. Range(Tail(s)) \cup {Head(s)} \subseteq Range(s)
    BY <1>1 DEF Range
  <1> QED BY <1>1, <1>2, <1>3 DEF Range

LEMMA RangeEmpty == Range(<<>>) = {}
  BY DEF Range

\* A set of numbers has a least element.
LEMMA MinExists ==
    ASSUME NEW S \in SUBSET Nat, S # {}
    PROVE  Min(S) \in S /\ \A y \in S : Min(S) <= y
  <1>1. PICK m \in S : \A y \in S : ~(<<y, m>> \in OpToRel(<, Nat))
    BY NatLessThanWellFounded, WFMin, Zenon
  <1>2. OpToRel(<, Nat) = {p \in Nat \X Nat : p[1] < p[2]}
    BY Zenon DEF OpToRel
  <1>3. ASSUME NEW y \in S PROVE m =< y
    <2>1. ~(<<y, m>> \in {p \in Nat \X Nat : p[1] < p[2]})
      BY <1>1, <1>2, Zenon
    <2> QED BY <2>1
  <1> QED BY <1>3 DEF Min

LEMMA RemoveAtIs ==
    ASSUME NEW S, NEW s \in Seq(S), NEW i \in 1..Len(s)
    PROVE  /\ RemoveAt(s, i) \in Seq(S) /\ Len(RemoveAt(s, i)) = Len(s) - 1
           /\ \A k \in 1..Len(s) - 1 : RemoveAt(s, i)[k] = IF k <= i - 1 THEN s[k] ELSE s[k + 1]
  <1> DEFINE a == SubSeq(s, 1, i - 1)
             b == SubSeq(s, i + 1, Len(s))
  <1>0. Len(s) \in Nat /\ i \in Nat /\ DOMAIN s = 1..Len(s) /\ \A k \in 1..Len(s) : s[k] \in S
    OBVIOUS
  <1>1. /\ a \in Seq(S) /\ Len(a) = i - 1
        /\ \A k \in 1..i - 1 : a[k] = s[k]
    BY <1>0, SubSeqProperties
  <1>2. /\ b \in Seq(S) /\ Len(b) = Len(s) - i
        /\ \A k \in 1..Len(s) - i : b[k] = s[i + k]
    <2>1. i + 1 \in Int /\ Len(s) \in Int /\ \A k \in i + 1..Len(s) : s[k] \in S
      BY <1>0
    <2>2. /\ b \in Seq(S) /\ Len(b) = IF i + 1 <= Len(s) THEN Len(s) - (i + 1) + 1 ELSE 0
          /\ \A k \in 1..Len(s) - (i + 1) + 1 : b[k] = s[(i + 1) + k - 1]
      BY <2>1, SubSeqProperties
    <2> HIDE DEF b
    <2>3. Len(s) - (i + 1) + 1 = Len(s) - i /\ Len(b) = Len(s) - i
      <3>1. Len(b) = IF i + 1 <= Len(s) THEN Len(s) - (i + 1) + 1 ELSE 0
        BY <2>2
      <3>2. i \in Nat /\ i <= Len(s) /\ Len(s) \in Nat
        BY <1>0
      <3> QED BY <3>1, <3>2
    <2>4. ASSUME NEW k \in 1..Len(s) - i PROVE b[k] = s[i + k]
      <3>1. (i + 1) + k - 1 = i + k
        BY <1>0
      <3> QED BY <2>2, <2>3, <3>1
    <2> QED BY <2>2, <2>3, <2>4
  <1> HIDE DEF a, b
  <1> DEFINE r == a \o b
  <1>3. /\ r \in Seq(S) /\ Len(r) = Len(s) - 1
        /\ \A k \in 1..Len(s) - 1 : r[k] = IF k <= i - 1 THEN a[k] ELSE b[k - (i - 1)]
    <2>1. /\ r \in Seq(S) /\ Len(r) = Len(a) + Len(b)
          /\ \A k \in 1..Len(a) + Len(b) : r[k] = IF k <= Len(a) THEN a[k]
                                                              ELSE b[k - Len(a)]
      BY <1>1, <1>2, ConcatProperties
    <2>2. Len(a) + Len(b) = Len(s) - 1
      BY <1>0, <1>1, <1>2
    <2> QED BY <1>1, <2>1, <2>2
  <1>4. DOMAIN r = 1..Len(s) - 1
    <2> HIDE DEF r
    <2> QED BY <1>3
  <1> HIDE DEF r
  <1>5. \A k \in 1..Len(s) - 1 : r[k] = IF k <= i - 1 THEN s[k] ELSE s[k + 1]
    <2> SUFFICES ASSUME NEW k \in 1..Len(s) - 1
                 PROVE  r[k] = IF k <= i - 1 THEN s[k] ELSE s[k + 1]
      OBVIOUS
    <2>1. CASE k <= i - 1
      BY <1>0, <1>1, <1>3, <2>1
    <2>2. CASE ~(k <= i - 1)
      <3>1. k - (i - 1) \in 1..Len(s) - i /\ i + (k - (i - 1)) = k + 1
        BY <1>0, <2>2
      <3> QED BY <1>2, <1>3, <2>2, <3>1
    <2> QED BY <2>1, <2>2
  <1> QED BY <1>3, <1>5 DEF RemoveAt, r, a, b

LEMMA RangeRemoveAt ==
    ASSUME NEW S, NEW s \in Seq(S), NEW i \in 1..Len(s)
    PROVE  /\ RemoveAt(s, i) \in Seq(S)
           /\ Range(RemoveAt(s, i)) \subseteq Range(s)
           /\ Range(s) \subseteq Range(RemoveAt(s, i)) \cup {s[i]}
  <1> DEFINE r == RemoveAt(s, i)
  <1>0. Len(s) \in Nat /\ i \in Nat /\ DOMAIN s = 1..Len(s)
    OBVIOUS
  <1>1. /\ r \in Seq(S) /\ Len(r) = Len(s) - 1
        /\ \A k \in 1..Len(s) - 1 : r[k] = IF k <= i - 1 THEN s[k] ELSE s[k + 1]
    BY RemoveAtIs
  <1> HIDE DEF r
  <1>2. DOMAIN r = 1..Len(s) - 1
    BY <1>1
  <1>3. Range(r) \subseteq Range(s)
    BY <1>0, <1>1, <1>2 DEF Range
  <1>4. ASSUME NEW k \in 1..Len(s), k # i PROVE s[k] \in Range(r)
    <2>1. CASE k < i
      BY <1>0, <1>1, <1>2, <2>1, k \in 1..Len(s) - 1 DEF Range
    <2>2. CASE k > i
      BY <1>0, <1>1, <1>2, <2>2, k - 1 \in 1..Len(s) - 1, r[k - 1] = s[k] DEF Range
    <2> QED BY <1>0, <1>4, <2>1, <2>2
  <1> QED BY <1>0, <1>1, <1>3, <1>4 DEF Range, r

\* tasks_queue_remove.
Without(q, o) == RemoveFirstMatch(q, LAMBDA t : t.obj = o)

LEMMA RangeWithout ==
    ASSUME NEW q \in Seq(Tasks), NEW o
    PROVE  /\ Without(q, o) \in Seq(Tasks) /\ Range(Without(q, o)) \subseteq Range(q)
           /\ \A t \in Range(q) : t.obj # o => t \in Range(Without(q, o))
  <1> DEFINE I == {i \in 1..Len(q) : q[i].obj = o}
             r == Without(q, o)
  <1>1. CASE I = {}
    <2>1. r = q
      BY <1>1 DEF Without, RemoveFirstMatch
    <2> QED BY <2>1
  <1>2. CASE I # {}
    <2>1. r = RemoveAt(q, Min(I))
      BY <1>2 DEF Without, RemoveFirstMatch, SelectInSeq
    <2>2. Min(I) \in I
      BY <1>2, I \in SUBSET Nat, MinExists
    <2>3. /\ r \in Seq(Tasks) /\ Range(r) \subseteq Range(q)
          /\ Range(q) \subseteq Range(r) \cup {q[Min(I)]}
      BY <2>1, <2>2, RangeRemoveAt
    <2> QED BY <2>2, <2>3
  <1> QED BY <1>1, <1>2

LEMMA RangeSetToSeqs ==
    ASSUME NEW S, IsFiniteSet(S), NEW s \in SetToSeqs(S)
    PROVE  Len(s) \in Nat /\ DOMAIN s = 1..Len(s) /\ Range(s) = S
  <1>1. Cardinality(S) \in Nat
    BY FS_CardinalityType
  <1>2. s \in [1..Cardinality(S) -> S] /\ s \in Seq(S) /\ Len(s) = Cardinality(S)
    BY <1>1 DEF SetToSeqs
  <1>3. s \in Injection(1..Cardinality(S), S)
    BY <1>1, <1>2 DEF SetToSeqs, Injection, IsInjective
  <1>4. Cardinality(1..Cardinality(S)) = Cardinality(S)
    BY <1>1, FS_Interval
  <1>5. s \in Surjection(1..Cardinality(S), S)
    BY <1>3, <1>4, FS_Injection
  <1> QED BY <1>1, <1>2, <1>5 DEF Surjection, Range

-----------------------------------------------------------------------------
(* The invariant.                                                          *)

\* Types, in a form that says what the sequences are.
Shape ==
    /\ pipe \in Seq(Requests) /\ Len(pipe) <= PipeCap
    /\ queue \in Seq(Tasks) /\ buffer \in Seq(Tasks)
    /\ notif \subseteq Tasks /\ missed \subseteq Objects /\ raced \subseteq Tasks
    /\ pc \in {"poll", "events", "first", "test", "run", "drain", "out", "closed"}
    /\ running \in BOOLEAN /\ stop \in BOOLEAN
    /\ cancels \in 0..MaxCancel
    /\ pc = "run" => queue # <<>>
    /\ pc # "events" => buffer = <<>>

\* The objects: a timer that runs, or a descriptor that epoll watches, exists.
Existence ==
    /\ alive \in [Objects -> BOOLEAN] /\ inc \in [Objects -> 0..MaxInc]
    /\ armed \in [Timers -> BOOLEAN]
    /\ cond \in [Fds -> SUBSET Conditions] /\ edge \in [Fds -> BOOLEAN]
    /\ \A o \in Objects : alive[o] => inc[o] >= 1
    /\ \A t \in Timers : armed[t] => alive[t]
    /\ \A f \in Fds : edge[f] => alive[f]

\* What points to an object points to the one that is there.
Fresh == \A t \in Outstanding \ raced : alive[t.obj] /\ inc[t.obj] = t.inc

IInv == Shape /\ Existence /\ Fresh /\ EdgeNotLost

LEMMA ShapeIsType == Shape /\ Existence => TypeOK
  <1> SUFFICES ASSUME Shape, Existence PROVE TypeOK
    OBVIOUS
  <1>1. Range(queue) \subseteq Tasks /\ Range(buffer) \subseteq Tasks
    BY DEF Shape, Range
  <1>2. Range(pipe) \subseteq Requests
    BY DEF Shape, Range
  <1>3. ASSUME NEW r \in Requests, IsAdd(r) PROVE r.task \in Tasks
    BY <1>3 DEF Requests, IsAdd, AddReq, CancelReq
  <1>4. Posted \subseteq Tasks
    BY <1>2, <1>3 DEF Posted
  <1> QED BY <1>1, <1>4 DEF Shape, Existence, TypeOK

LEMMA IInvInit == Init => IInv
  <1> SUFFICES ASSUME Init PROVE IInv
    OBVIOUS
  <1>1. Shape
    <2>1. <<>> \in Seq(Requests) /\ <<>> \in Seq(Tasks) /\ Len(<<>>) = 0
      OBVIOUS
    <2>2. 0 <= PipeCap /\ 0 \in 0..MaxCancel
      BY EloopAssumption DEF EloopAssumption
    <2> QED BY <2>1, <2>2 DEF Init, Shape
  <1>2. Existence
    BY EloopAssumption DEF EloopAssumption, Init, Existence, Objects
  <1>3. Outstanding = {}
    BY RangeEmpty DEF Init, Outstanding, Posted
  <1>4. EdgeNotLost
    BY DEF Init, EdgeNotLost
  <1> QED BY <1>1, <1>2, <1>3, <1>4 DEF IInv, Fresh

-----------------------------------------------------------------------------
(* How tasks move.                                                         *)

LEMMA PostedAppend ==
    ASSUME NEW p \in Seq(Requests)
    PROVE  /\ \A t \in Tasks : PostedIn(Append(p, AddReq(t))) = PostedIn(p) \cup {t}
           /\ \A o \in Timers : PostedIn(Append(p, CancelReq(o))) = PostedIn(p)
  <1>1. ASSUME NEW t \in Tasks PROVE PostedIn(Append(p, AddReq(t))) = PostedIn(p) \cup {t}
    <2>1. AddReq(t) \in Requests
      BY DEF Requests
    <2>2. Range(Append(p, AddReq(t))) = Range(p) \cup {AddReq(t)}
      BY <2>1, RangeAppend
    <2> QED BY <2>2 DEF PostedIn, IsAdd, AddReq
  <1>2. ASSUME NEW o \in Timers PROVE PostedIn(Append(p, CancelReq(o))) = PostedIn(p)
    <2>1. CancelReq(o) \in Requests
      BY DEF Requests
    <2>2. Range(Append(p, CancelReq(o))) = Range(p) \cup {CancelReq(o)}
      BY <2>1, RangeAppend
    <2> QED BY <2>2 DEF PostedIn, IsAdd, CancelReq
  <1> QED BY <1>1, <1>2

LEMMA PostedTail ==
    ASSUME NEW p \in Seq(Requests), p # <<>>
    PROVE  PostedIn(p) = PostedIn(Tail(p))
                           \cup (IF IsAdd(Head(p)) THEN {Head(p).task} ELSE {})
  <1>1. Range(p) = Range(Tail(p)) \cup {Head(p)}
    BY RangeTail
  <1> QED BY <1>1 DEF PostedIn

\* A task that is lost with what it was to announce is remembered.
Kept(t) == "read" \in t.mask /\ t.inc = inc[t.obj] => t.obj \in missed'

LEMMA LostMisses ==
    ASSUME Shape, NEW t \in Tasks, Lost(t)
    PROVE  missed' \subseteq Objects /\ missed \subseteq missed' /\ Kept(t)
  BY DEF Lost, Kept, Shape, Tasks

\* syncer_task_add puts the task in the pipe, or it is lost.
LEMMA TaskAddMoves ==
    ASSUME Shape, NEW t \in Tasks, TaskAdd(t)
    PROVE  /\ pipe' \in Seq(Requests) /\ Len(pipe') <= PipeCap
           /\ missed' \subseteq Objects /\ missed \subseteq missed'
           /\ Posted' \subseteq Posted \cup {t} /\ Posted \subseteq Posted'
           /\ t \in Posted' \/ Kept(t)
  <1>1. Posted = PostedIn(pipe) /\ Posted' = PostedIn(pipe')
    BY DEF Posted, PostedIn
  <1>2. CASE Len(pipe) < PipeCap
    <2>1. pipe' = Append(pipe, AddReq(t)) /\ missed' = missed /\ AddReq(t) \in Requests
      BY <1>2 DEF TaskAdd, Requests
    <2>2. pipe' \in Seq(Requests) /\ Len(pipe') = Len(pipe) + 1
      BY <2>1 DEF Shape
    <2>3. Posted' = Posted \cup {t}
      BY <1>1, <2>1, PostedAppend DEF Shape
    <2>4. Len(pipe') <= PipeCap
      BY <1>2, <2>2, EloopAssumption DEF Shape, EloopAssumption
    <2> QED BY <2>1, <2>2, <2>3, <2>4 DEF Shape
  <1>3. CASE ~(Len(pipe) < PipeCap)
    <2>1. Lost(t) /\ pipe' = pipe
      BY <1>3 DEF TaskAdd
    <2> QED BY <1>1, <2>1, LostMisses DEF Shape
  <1> QED BY <1>2, <1>3

\* syncer_process_request moves a task from the pipe to the queue; a cancellation
\* takes nothing but tasks of its timer.
LEMMA RequestMoves ==
    ASSUME Shape, pipe # <<>>, pipe' = Tail(pipe), HandleRequest(Head(pipe))
    PROVE  /\ pipe' \in Seq(Requests) /\ Len(pipe') <= PipeCap /\ queue' \in Seq(Tasks)
           /\ missed' \subseteq Objects /\ missed \subseteq missed'
           /\ Posted' \cup Range(queue') \subseteq Posted \cup Range(queue)
           /\ \A t \in Posted \cup Range(queue) :
                t.obj \notin Timers => t \in Posted' \cup Range(queue') \/ Kept(t)
  <1> DEFINE r == Head(pipe)
  <1>1. Posted = PostedIn(pipe) /\ Posted' = PostedIn(pipe')
    BY DEF Posted, PostedIn
  <1>2. /\ r \in Requests /\ pipe' \in Seq(Requests) /\ Len(pipe') = Len(pipe) - 1
        /\ Len(pipe) \in Nat
    BY RangeTail DEF Shape
  <1>3. Len(pipe') <= PipeCap
    BY <1>2, EloopAssumption DEF Shape, EloopAssumption
  <1>4. Posted = Posted' \cup (IF IsAdd(r) THEN {r.task} ELSE {})
    BY <1>1, PostedTail DEF Shape
  <1> HIDE DEF r
  <1>5. CASE IsAdd(r)
    <2>1. r.task \in Tasks
      BY <1>2, <1>5 DEF Requests, IsAdd, AddReq, CancelReq
    <2>2. CASE queue' = Append(queue, r.task) /\ UNCHANGED missed
      <3>1. queue' \in Seq(Tasks) /\ Range(queue') = Range(queue) \cup {r.task}
        BY <2>1, <2>2, RangeAppend DEF Shape
      <3> QED BY <1>2, <1>3, <1>4, <1>5, <2>2, <3>1 DEF Shape
    <2>3. CASE Lost(r.task) /\ UNCHANGED queue
      <3>1. missed' \subseteq Objects /\ missed \subseteq missed' /\ Kept(r.task)
        BY <2>1, <2>3, LostMisses
      <3> QED BY <1>2, <1>3, <1>4, <1>5, <2>1, <2>3, <3>1 DEF Shape
    <2> QED BY <1>5, <2>2, <2>3 DEF HandleRequest, r
  <1>6. CASE ~IsAdd(r)
    <2>1. r.id \in Timers
      BY <1>2, <1>6 DEF Requests, IsAdd, AddReq, CancelReq
    <2>2. queue' = Without(queue, r.id) /\ UNCHANGED missed
      BY <1>6 DEF HandleRequest, Without, r
    <2>3. /\ queue' \in Seq(Tasks) /\ Range(queue') \subseteq Range(queue)
          /\ \A t \in Range(queue) : t.obj # r.id => t \in Range(queue')
      BY <2>2, RangeWithout DEF Shape
    <2> QED BY <1>2, <1>3, <1>4, <1>6, <2>1, <2>2, <2>3 DEF Shape
  <1> QED BY <1>5, <1>6

\* The steps that move tasks and leave the objects alone.
Moving ==
    \/ PostEvent \/ ProcessQueue \/ ProcessFirst \/ TestQueue \/ Drain \/ Leave
    \/ \E t \in Timers : TimerStart(t) \/ TimerStop(t) \/ TaskCancel(t)
    \/ \E k \in notif : HandleTimeout(k)
    \/ SyncerStop \/ EloopStop \/ UNCHANGED vars

\* Nothing new points to an object, and what pointed to a descriptor still does,
\* or was lost and is remembered.
Moved ==
    /\ Outstanding' \subseteq Outstanding /\ missed \subseteq missed'
    /\ \A t \in Outstanding : t.obj \notin Timers => t \in Outstanding' \/ Kept(t)

LEMMA MovingMoves == Shape /\ Moving => Moved
  <1> SUFFICES ASSUME Shape, Moving PROVE Moved
    OBVIOUS
  <1>1. ASSUME UNCHANGED <<pipe, queue, buffer, notif, missed>> PROVE Moved
    <2>1. Outstanding' = Outstanding
      BY <1>1 DEF Outstanding, Posted
    <2> QED BY <1>1, <2>1 DEF Moved
  <1>2. CASE PostEvent
    <2>1. buffer # <<>> /\ buffer' = Tail(buffer) /\ UNCHANGED <<queue, notif>>
      BY <1>2 DEF PostEvent
    <2>2. /\ Head(buffer) \in Tasks
          /\ Range(buffer) = Range(buffer') \cup {Head(buffer)}
      BY <2>1, RangeTail DEF Shape
    <2>3. CASE TaskAdd(Head(buffer))
      BY <2>1, <2>2, <2>3, TaskAddMoves DEF Moved, Outstanding
    <2>4. CASE Lost(Head(buffer)) /\ UNCHANGED pipe
      <3>1. Posted' = Posted
        BY <2>4 DEF Posted
      <3> QED BY <2>1, <2>2, <2>4, <3>1, LostMisses DEF Moved, Outstanding
    <2> QED BY <1>2, <2>3, <2>4 DEF PostEvent
  <1>3. CASE ProcessFirst \/ Drain
    <2>1. UNCHANGED <<buffer, notif>>
      BY <1>3 DEF ProcessFirst, Drain
    <2>2. CASE pipe = <<>>
      BY <1>1, <1>3, <2>2 DEF ProcessFirst, Drain
    <2>3. CASE pipe # <<>>
      <3>1. pipe' = Tail(pipe) /\ HandleRequest(Head(pipe))
        BY <1>3, <2>3 DEF ProcessFirst, Drain
      <3> QED BY <2>1, <2>3, <3>1, RequestMoves DEF Moved, Outstanding
    <2> QED BY <2>2, <2>3
  <1>4. ASSUME NEW t \in Timers, TaskCancel(t) PROVE Moved
    <2>1. /\ pipe' = Append(pipe, CancelReq(t))
          /\ UNCHANGED <<queue, buffer, notif, missed>>
      BY <1>4 DEF TaskCancel
    <2>2. Posted' = Posted
      BY <2>1, PostedAppend DEF Posted, PostedIn, Shape
    <2> QED BY <2>1, <2>2 DEF Moved, Outstanding
  <1>5. ASSUME NEW k \in notif, HandleTimeout(k) PROVE Moved
    <2>1. /\ notif' = notif \ {k} /\ TaskAdd(k) /\ UNCHANGED <<queue, buffer>>
          /\ k \in Tasks
      BY <1>5 DEF HandleTimeout, Shape
    <2>2. /\ Posted' \subseteq Posted \cup {k} /\ Posted \subseteq Posted'
          /\ missed \subseteq missed' /\ (k \in Posted' \/ Kept(k))
      BY <2>1, TaskAddMoves
    <2> QED BY <2>1, <2>2 DEF Moved, Outstanding
  <1>6. CASE ProcessQueue \/ TestQueue \/ Leave \/ SyncerStop \/ EloopStop
    BY <1>1, <1>6 DEF ProcessQueue, TestQueue, Leave, SyncerStop, EloopStop, loop
  <1>7. ASSUME NEW t \in Timers, TimerStart(t) \/ TimerStop(t) PROVE Moved
    BY <1>1, <1>7 DEF TimerStart, TimerStop, loop
  <1>8. CASE UNCHANGED vars
    BY <1>1, <1>8 DEF vars
  <1> QED BY <1>2, <1>3, <1>4, <1>5, <1>6, <1>7, <1>8 DEF Moving

LEMMA MovingKeeps ==
    Moving => UNCHANGED <<alive, inc, cond, edge, raced>>
  BY DEF Moving, PostEvent, ProcessQueue, ProcessFirst, TestQueue, Drain, Leave,
     TimerStart,
         TimerStop, TaskCancel, HandleTimeout, SyncerStop, EloopStop, vars, objs, fdst

\* A new task has a number that no other task of its object has.
LEMMA UnusedNumber ==
    ASSUME NEW o, Unused(o) # {}
    PROVE  Min(Unused(o)) \in 1..MaxTicks
  <1>1. Unused(o) \in SUBSET Nat /\ Unused(o) \subseteq 1..MaxTicks
    BY EloopAssumption DEF EloopAssumption, Unused
  <1> QED BY <1>1, MinExists

\* epoll_wait makes one task of each descriptor it reports.
LEMMA EpollMoves ==
    ASSUME Shape, Existence, EpollWait
    PROVE  \E S \in SUBSET Ready :
             /\ edge' = [f \in Fds |-> f \in Ready \ S]
             /\ missed' = missed \cup {f \in S : "in" \in cond[f]
                                                 /\ {"hup", "err"} \cap cond[f] # {}}
             /\ buffer' \in Seq(Tasks)
             /\ Outstanding' = Outstanding \cup {Event(f) : f \in S}
  <1>0. PICK S \in SUBSET {f \in Ready : Unused(f) # {}} :
          /\ \E s \in SetToSeqs(S) : buffer' = [k \in 1..Len(s) |-> Event(s[k])]
          /\ edge' = [f \in Fds |-> f \in Ready \ S]
          /\ missed' = missed \cup {f \in S : "in" \in cond[f]
                                              /\ {"hup", "err"} \cap cond[f] # {}}
    BY DEF EpollWait
  <1>1. PICK s \in SetToSeqs(S) : buffer' = [k \in 1..Len(s) |-> Event(s[k])]
    BY <1>0
  <1>2. S \subseteq Ready /\ S \subseteq Fds /\ IsFiniteSet(S)
    BY <1>0, EloopAssumption, FS_Subset DEF Ready, EloopAssumption
  <1>3. Len(s) \in Nat /\ DOMAIN s = 1..Len(s) /\ Range(s) = S
    BY <1>1, <1>2, RangeSetToSeqs
  <1>4. Range(buffer') = {Event(f) : f \in S}
    BY <1>1, <1>3 DEF Range
  <1>5. ASSUME NEW f \in S PROVE Event(f) \in Tasks
    <2>1. f \in Fds /\ f \in Objects /\ edge[f]
      BY <1>2 DEF Ready, Objects
    <2>2. inc[f] \in 1..MaxInc
      BY <2>1, EloopAssumption DEF Existence, EloopAssumption
    <2>3. Min(Unused(f)) \in 1..MaxTicks
      BY <1>0, UnusedNumber
    <2>4. FdEvent(f) \in Mask
      BY DEF FdEvent, Mask
    <2> QED BY <2>1, <2>2, <2>3, <2>4 DEF Event, Tasks
  <1>6. buffer' \in Seq(Tasks)
    <2>1. \A k \in 1..Len(s) : Event(s[k]) \in Tasks
      BY <1>3, <1>5 DEF Range
    <2> QED BY <1>1, <1>3, <2>1
  <1>7. Range(buffer) = {} /\ UNCHANGED <<pipe, queue, notif>>
    BY RangeEmpty DEF EpollWait, Shape
  <1>8. Outstanding' = Outstanding \cup {Event(f) : f \in S}
    BY <1>4, <1>7 DEF Outstanding, Posted
  <1> QED BY <1>0, <1>2, <1>6, <1>8

\* tasks_queue_execute_next takes the first task.
LEMMA ExecuteMoves ==
    ASSUME Shape, ExecuteNext
    PROVE  /\ queue' \in Seq(Tasks) /\ Head(queue) \in Tasks
           /\ Outstanding' \subseteq Outstanding
           /\ Head(queue) \in Outstanding
           /\ Outstanding \subseteq Outstanding' \cup {Head(queue)}
  <1>1. queue # <<>> /\ queue' = Tail(queue) /\ UNCHANGED <<pipe, buffer, notif>>
    BY DEF ExecuteNext, Shape
  <1>2. /\ queue' \in Seq(Tasks) /\ Head(queue) \in Tasks
        /\ Range(queue) = Range(queue') \cup {Head(queue)}
    BY <1>1, RangeTail DEF Shape
  <1> QED BY <1>1, <1>2 DEF Outstanding, Posted

\* The steps of the users on objects: nothing moves, but for a new tick.
LEMMA UsersMove ==
    /\ \A t \in Timers : TimerNew(t) \/ TimerDelete(t) => Outstanding' = Outstanding
    /\ \A f \in Fds : AddFd(f) \/ RemoveFd(f) => Outstanding' = Outstanding
    /\ \A f \in Fds, c \in Conditions : Arises(f, c) \/ Ceases(f, c) =>
                                          Outstanding' = Outstanding
    /\ \A t \in Timers : Expire(t) => Outstanding' = Outstanding \cup {Tick(t)}
    /\ EloopExit => Outstanding' \subseteq Outstanding
  <1>1. UNCHANGED <<pipe, queue, buffer, notif>> => Outstanding' = Outstanding
    BY DEF Outstanding, Posted
  <1>2. ASSUME NEW t \in Timers, TimerNew(t) \/ TimerDelete(t)
        PROVE  UNCHANGED <<pipe, queue, buffer, notif>>
    BY <1>2 DEF TimerNew, TimerDelete, loop
  <1>3. ASSUME NEW f \in Fds, NEW c, AddFd(f) \/ RemoveFd(f) \/ Arises(f, c) \/ Ceases(f, c)
        PROVE  UNCHANGED <<pipe, queue, buffer, notif>>
    BY <1>3 DEF AddFd, RemoveFd, Arises, Ceases, loop
  <1>4. ASSUME NEW t \in Timers, Expire(t)
        PROVE  Outstanding' = Outstanding \cup {Tick(t)}
    BY <1>4 DEF Expire, Outstanding, Posted, loop
  <1>5. ASSUME EloopExit PROVE Outstanding' \subseteq Outstanding
    <2>1. pipe' = <<>> /\ queue' = <<>> /\ UNCHANGED <<buffer, notif>>
      BY <1>5 DEF EloopExit
    <2>2. Posted' = {} /\ Range(queue') = {}
      BY <2>1, RangeEmpty DEF Posted
    <2> QED BY <2>1, <2>2 DEF Outstanding
  <1> QED BY <1>1, <1>2, <1>3, <1>4, <1>5

-----------------------------------------------------------------------------
(* Every step keeps the invariant.                                         *)

\* The steps that are not moves, with whom they are about.
LEMMA Steps ==
    ASSUME [Next]_vars
    PROVE  \/ Moving \/ EpollWait \/ ExecuteNext \/ EloopExit
           \/ \E t \in Timers : TimerNew(t) \/ TimerDelete(t) \/ Expire(t)
           \/ \E f \in Fds : AddFd(f) \/ RemoveFd(f)
           \/ \E f \in Fds, c \in Conditions : Arises(f, c) \/ Ceases(f, c)
  BY DEF Next, LoopStep, Users, Moving

LEMMA ShapeStep == Shape /\ Existence /\ [Next]_vars => Shape'
  <1> SUFFICES ASSUME Shape, Existence, [Next]_vars PROVE Shape'
    OBVIOUS
  <1>1. ASSUME UNCHANGED <<pipe, queue, buffer, notif, pc, cancels>>,
               missed' \subseteq Objects, raced' \subseteq Tasks, running' \in BOOLEAN, stop' \in BOOLEAN
        PROVE  Shape'
    BY <1>1 DEF Shape
  <1>2. CASE EpollWait
    <2>1. buffer' \in Seq(Tasks) /\ pc' = "events"
      BY <1>2, EpollMoves DEF EpollWait
    <2>2. missed' \subseteq Objects
      BY <1>2, EpollMoves DEF Shape, Ready, Objects
    <2> QED BY <1>2, <2>1, <2>2 DEF EpollWait, Shape
  <1>3. CASE PostEvent
    <2>1. buffer # <<>> /\ buffer' = Tail(buffer) /\ pc = "events"
      BY <1>3 DEF PostEvent
    <2>2. Head(buffer) \in Tasks /\ buffer' \in Seq(Tasks)
      BY <2>1, RangeTail DEF Shape
    <2>3. CASE TaskAdd(Head(buffer))
      <3>1. pipe' \in Seq(Requests) /\ Len(pipe') <= PipeCap /\ missed' \subseteq Objects
        BY <2>2, <2>3, TaskAddMoves
      <3> QED BY <1>3, <2>1, <2>2, <2>3, <3>1 DEF PostEvent, Shape
    <2>4. CASE Lost(Head(buffer)) /\ UNCHANGED pipe
      <3>1. missed' \subseteq Objects
        BY <2>2, <2>4, LostMisses
      <3> QED BY <1>3, <2>1, <2>2, <2>4, <3>1 DEF PostEvent, Shape
    <2> QED BY <1>3, <2>3, <2>4 DEF PostEvent
  <1>4. CASE ProcessQueue \/ TestQueue \/ Leave \/ SyncerStop \/ EloopStop
    <2>1. UNCHANGED <<pipe, queue, buffer, notif, missed, raced, cancels>>
      BY <1>4 DEF ProcessQueue, TestQueue, Leave, SyncerStop, EloopStop, loop
    <2>2. /\ pc' \in {"poll", "events", "first", "test", "run", "drain", "out", "closed"}
          /\ running' \in BOOLEAN /\ stop' \in BOOLEAN
          /\ pc' = "run" => queue # <<>>
          /\ pc' # "events" => buffer = <<>>
      BY <1>4 DEF ProcessQueue, TestQueue, Leave, SyncerStop, EloopStop, loop, Shape
    <2> QED BY <2>1, <2>2 DEF Shape
  <1>5. CASE ProcessFirst \/ Drain
    <2>1. UNCHANGED <<buffer, running, stop, notif, cancels, raced>>
      BY <1>5 DEF ProcessFirst, Drain
    <2>2. pc' \in {"test", "drain"} /\ pc # "events"
      BY <1>5 DEF ProcessFirst, Drain
    <2>3. CASE pipe = <<>>
      <3>1. UNCHANGED <<pipe, queue, missed>>
        BY <1>5, <2>3 DEF ProcessFirst, Drain
      <3> QED BY <2>1, <2>2, <3>1 DEF Shape
    <2>4. CASE pipe # <<>>
      <3>1. pipe' = Tail(pipe) /\ HandleRequest(Head(pipe))
        BY <1>5, <2>4 DEF ProcessFirst, Drain
      <3>2. /\ pipe' \in Seq(Requests) /\ Len(pipe') <= PipeCap
            /\ queue' \in Seq(Tasks) /\ missed' \subseteq Objects
        BY <2>4, <3>1, RequestMoves
      <3> QED BY <2>1, <2>2, <3>2 DEF Shape
    <2> QED BY <2>3, <2>4
  <1>6. CASE ExecuteNext
    <2>1. queue' \in Seq(Tasks)
      BY <1>6, ExecuteMoves
    <2> QED BY <1>6, <2>1 DEF ExecuteNext, Shape, objs
  <1>7. ASSUME NEW t \in Timers, TaskCancel(t) PROVE Shape'
    <2>1. CancelReq(t) \in Requests
      BY DEF Requests
    <2>2. pipe' \in Seq(Requests) /\ Len(pipe') = Len(pipe) + 1
      BY <1>7, <2>1 DEF TaskCancel, Shape
    <2>3. Len(pipe') <= PipeCap /\ cancels' \in 0..MaxCancel
      BY <1>7, <2>2, EloopAssumption DEF TaskCancel, EloopAssumption, Shape
    <2> QED BY <1>7, <2>2, <2>3 DEF TaskCancel, Shape
  <1>8. ASSUME NEW t \in Timers, TimerNew(t) \/ TimerStart(t) \/ TimerStop(t) PROVE Shape'
    BY <1>1, <1>8 DEF TimerNew, TimerStart, TimerStop, loop, Shape
  <1>9. Outstanding \subseteq Tasks
    BY ShapeIsType DEF TypeOK, Outstanding
  <1>10. ASSUME NEW t \in Timers, TimerDelete(t) PROVE Shape'
    BY <1>1, <1>9, <1>10 DEF TimerDelete, loop, Shape, OnTheWay
  <1>11. ASSUME NEW t \in Timers, Expire(t) PROVE Shape'
    <2>1. inc[t] \in 1..MaxInc /\ t \in Objects
      BY <1>11, EloopAssumption DEF Expire, Existence, EloopAssumption, Objects
    <2>3. Min(Unused(t)) \in 1..MaxTicks /\ {} \in Mask
      BY <1>11, UnusedNumber DEF Expire, Mask
    <2>4. Tick(t) \in Tasks
      BY <2>1, <2>3 DEF Tick, Tasks
    <2>2. notif' \subseteq Tasks
      BY <1>11, <2>4 DEF Expire, Shape
    <2> QED BY <1>11, <2>2 DEF Expire, loop, Shape
  <1>12. ASSUME NEW k \in notif, HandleTimeout(k) PROVE Shape'
    <2>1. k \in Tasks /\ TaskAdd(k)
      BY <1>12 DEF HandleTimeout, Shape
    <2>2. pipe' \in Seq(Requests) /\ Len(pipe') <= PipeCap /\ missed' \subseteq Objects
      BY <2>1, TaskAddMoves
    <2> QED BY <1>12, <2>2 DEF HandleTimeout, Shape
  <1>13. ASSUME NEW f \in Fds, NEW c, AddFd(f) \/ Arises(f, c) \/ Ceases(f, c)
         PROVE  Shape'
    BY <1>1, <1>13 DEF AddFd, Arises, Ceases, loop, Shape
  <1>14. ASSUME NEW f \in Fds, RemoveFd(f) PROVE Shape'
    BY <1>1, <1>9, <1>14 DEF RemoveFd, loop, Shape, OnTheWay
  <1>15. CASE EloopExit
    <2>1. <<>> \in Seq(Requests) /\ <<>> \in Seq(Tasks) /\ Len(<<>>) = 0 /\ 0 <= PipeCap
      BY EloopAssumption DEF EloopAssumption
    <2> QED BY <1>9, <1>15, <2>1 DEF EloopExit, Shape
  <1>16. CASE UNCHANGED vars
    BY <1>1, <1>16 DEF vars, Shape
  <1> QED BY <1>2, <1>3, <1>4, <1>5, <1>6, <1>7, <1>8, <1>10, <1>11, <1>12, <1>13,
             <1>14,
             <1>15, <1>16 DEF Next, LoopStep, Users

LEMMA ExistenceStep == Shape /\ Existence /\ [Next]_vars => Existence'
  <1> SUFFICES ASSUME Shape, Existence, [Next]_vars PROVE Existence'
    OBVIOUS
  <1>0. \A t \in Timers : t \in Objects /\ t \notin Fds
    BY EloopAssumption DEF EloopAssumption, Objects
  <1>1. \A f \in Fds : f \in Objects /\ f \notin Timers
    BY EloopAssumption DEF EloopAssumption, Objects
  <1>2. CASE Moving
    <2>1. /\ armed' \in [Timers -> BOOLEAN]
          /\ \A t \in Timers : armed'[t] => alive[t]
      BY <1>2 DEF Moving, PostEvent, ProcessQueue, ProcessFirst, TestQueue, Drain,
         Leave,
                  TimerStart, TimerStop, TaskCancel, HandleTimeout, SyncerStop, EloopStop,
                  vars, objs, Existence
    <2> QED BY <1>2, <2>1, MovingKeeps DEF Existence
  <1>3. CASE EpollWait
    <2>1. PICK S \in SUBSET Ready : edge' = [f \in Fds |-> f \in Ready \ S]
      BY <1>3, EpollMoves
    <2>2. UNCHANGED <<alive, inc, armed, cond>>
      BY <1>3 DEF EpollWait, objs
    <2>3. \A f \in Fds : edge'[f] => alive[f]
      BY <2>1 DEF Existence, Ready
    <2> QED BY <2>1, <2>2, <2>3 DEF Existence
  <1>4. CASE ExecuteNext
    BY <1>4 DEF ExecuteNext, objs, Existence
  <1>5. CASE EloopExit
    BY <1>5 DEF EloopExit, Existence
  <1>6. ASSUME NEW t \in Timers, TimerNew(t) PROVE Existence'
    BY <1>0, <1>1, <1>6, EloopAssumption DEF TimerNew, fdst, Existence, EloopAssumption
  <1>7. ASSUME NEW t \in Timers, TimerDelete(t) PROVE Existence'
    BY <1>0, <1>1, <1>7 DEF TimerDelete, fdst, Existence
  <1>8. ASSUME NEW t \in Timers, Expire(t) PROVE Existence'
    BY <1>0, <1>1, <1>8 DEF Expire, fdst, Existence
  <1>9. ASSUME NEW f \in Fds, AddFd(f) PROVE Existence'
    <2>1. /\ alive' = [alive EXCEPT ![f] = TRUE] /\ inc' = [inc EXCEPT ![f] = @ + 1]
          /\ edge' = [edge EXCEPT ![f] = cond[f] # {}]
          /\ UNCHANGED <<armed, cond>>
      BY <1>9 DEF AddFd
    <2>2. inc[f] + 1 \in 1..MaxInc
      BY <1>1, <1>9, EloopAssumption DEF AddFd, Existence, EloopAssumption
    <2>3. edge' \in [Fds -> BOOLEAN]
      BY <2>1 DEF Existence
    <2> QED BY <1>0, <1>1, <2>1, <2>2, <2>3 DEF Existence
  <1>10. ASSUME NEW f \in Fds, RemoveFd(f) PROVE Existence'
    BY <1>0, <1>1, <1>10 DEF RemoveFd, Existence
  <1>11. ASSUME NEW f \in Fds, NEW c \in Conditions, Arises(f, c) PROVE Existence'
    BY <1>1, <1>11 DEF Arises, objs, Existence
  <1>12. ASSUME NEW f \in Fds, NEW c \in Conditions, Ceases(f, c) PROVE Existence'
    BY <1>1, <1>12 DEF Ceases, objs, Existence
  <1> QED BY <1>2, <1>3, <1>4, <1>5, <1>6, <1>7, <1>8, <1>9, <1>10, <1>11, <1>12, Steps

LEMMA FreshStep == Shape /\ Existence /\ Fresh /\ [Next]_vars => Fresh'
  <1> SUFFICES ASSUME Shape, Existence, Fresh, [Next]_vars,
                      NEW t \in Outstanding', t \notin raced'
               PROVE  alive'[t.obj] /\ inc'[t.obj] = t.inc
    BY DEF Fresh
  <1>0. \A u \in Outstanding : u.obj \in Objects
    BY ShapeIsType DEF TypeOK, Outstanding, Tasks
  <1>1. ASSUME t \in Outstanding, raced \subseteq raced',
               alive'[t.obj] = alive[t.obj], inc'[t.obj] = inc[t.obj]
        PROVE  alive'[t.obj] /\ inc'[t.obj] = t.inc
    BY <1>1 DEF Fresh
  <1>2. CASE Moving
    BY <1>1, <1>2, MovingMoves, MovingKeeps DEF Moved
  <1>3. CASE EpollWait
    <2>1. UNCHANGED <<alive, inc, raced>>
      BY <1>3 DEF EpollWait, objs
    <2>2. CASE t \in Outstanding
      BY <1>1, <2>1, <2>2
    <2>3. CASE t \notin Outstanding
      <3>1. PICK f \in Ready : t = Event(f)
        BY <1>3, <2>3, EpollMoves
      <3>2. alive[f] /\ t.obj = f /\ t.inc = inc[f]
        BY <3>1 DEF Ready, Event, Existence
      <3> QED BY <2>1, <3>2
    <2> QED BY <2>2, <2>3
  <1>4. CASE ExecuteNext
    <2>1. UNCHANGED <<alive, inc, raced>>
      BY <1>4 DEF ExecuteNext, objs
    <2> QED BY <1>1, <1>4, <2>1, ExecuteMoves
  <1>5. CASE EloopExit
    <2>1. t \in Outstanding /\ raced' = raced \cup Outstanding
      BY <1>5, UsersMove DEF EloopExit
    <2> QED BY <2>1
  <1>6. ASSUME NEW o \in Timers, TimerNew(o)
        PROVE  alive'[t.obj] /\ inc'[t.obj] = t.inc
    <2>1. /\ t \in Outstanding /\ ~alive[o] /\ raced' = raced
          /\ alive' = [alive EXCEPT ![o] = TRUE] /\ inc' = [inc EXCEPT ![o] = @ + 1]
      BY <1>6, UsersMove DEF TimerNew
    <2>2. alive[t.obj] /\ inc[t.obj] = t.inc /\ t.obj \in Objects
      BY <1>0, <2>1 DEF Fresh
    <2> QED BY <2>1, <2>2 DEF Existence
  <1>7. ASSUME NEW o \in Timers, TimerDelete(o)
        PROVE  alive'[t.obj] /\ inc'[t.obj] = t.inc
    <2>1. /\ t \in Outstanding /\ raced' = raced \cup OnTheWay(o)
          /\ alive' = [alive EXCEPT ![o] = FALSE] /\ inc' = inc
      BY <1>7, UsersMove DEF TimerDelete
    <2>2. t.obj # o /\ t.obj \in Objects
      BY <1>0, <2>1 DEF OnTheWay
    <2> QED BY <1>1, <2>1, <2>2 DEF Existence
  <1>8. ASSUME NEW o \in Timers, Expire(o)
        PROVE  alive'[t.obj] /\ inc'[t.obj] = t.inc
    <2>1. armed[o] /\ UNCHANGED <<alive, inc, raced>>
      BY <1>8 DEF Expire
    <2>2. CASE t \in Outstanding
      BY <1>1, <2>1, <2>2
    <2>3. CASE t \notin Outstanding
      <3>1. t = Tick(o)
        BY <1>8, <2>3, UsersMove
      <3> QED BY <2>1, <3>1 DEF Existence, Tick
    <2> QED BY <2>2, <2>3
  <1>9. ASSUME NEW f \in Fds, AddFd(f)
        PROVE  alive'[t.obj] /\ inc'[t.obj] = t.inc
    <2>1. /\ t \in Outstanding /\ ~alive[f] /\ raced' = raced
          /\ alive' = [alive EXCEPT ![f] = TRUE] /\ inc' = [inc EXCEPT ![f] = @ + 1]
      BY <1>9, UsersMove DEF AddFd
    <2>2. alive[t.obj] /\ inc[t.obj] = t.inc /\ t.obj \in Objects
      BY <1>0, <2>1 DEF Fresh
    <2> QED BY <2>1, <2>2 DEF Existence
  <1>10. ASSUME NEW f \in Fds, RemoveFd(f)
         PROVE  alive'[t.obj] /\ inc'[t.obj] = t.inc
    <2>1. /\ t \in Outstanding /\ raced' = raced \cup OnTheWay(f)
          /\ alive' = [alive EXCEPT ![f] = FALSE] /\ inc' = inc
      BY <1>10, UsersMove DEF RemoveFd
    <2>2. t.obj # f /\ t.obj \in Objects
      BY <1>0, <2>1 DEF OnTheWay
    <2> QED BY <1>1, <2>1, <2>2 DEF Existence
  <1>11. ASSUME NEW f \in Fds, NEW c \in Conditions, Arises(f, c) \/ Ceases(f, c)
         PROVE  alive'[t.obj] /\ inc'[t.obj] = t.inc
    BY <1>1, <1>11, UsersMove DEF Arises, Ceases, objs
  <1> QED BY <1>2, <1>3, <1>4, <1>5, <1>6, <1>7, <1>8, <1>9, <1>10, <1>11, Steps

LEMMA EdgeStep == Shape /\ Existence /\ EdgeNotLost /\ [Next]_vars => EdgeNotLost'
  <1> DEFINE Reads(t, f) == t.obj = f /\ t.inc = inc[f] /\ "read" \in t.mask
             Announced(f) == edge[f] \/ f \in missed \/ \E t \in Outstanding : Reads(t, f)
  <1> SUFFICES ASSUME Shape, Existence, EdgeNotLost, [Next]_vars,
                      NEW f \in Fds, alive'[f], "in" \in cond'[f]
               PROVE  Announced(f)'
    BY DEF EdgeNotLost
  <1>0. f \in Objects /\ f \notin Timers
    BY EloopAssumption DEF EloopAssumption, Objects
  <1>1. ASSUME alive[f], "in" \in cond[f], edge'[f] = edge[f], inc'[f] = inc[f],
               f \in missed => f \in missed',
               \A t \in Outstanding : Reads(t, f) => t \in Outstanding' \/ f \in missed'
        PROVE  Announced(f)'
    BY <1>1 DEF EdgeNotLost
  <1>2. CASE Moving
    <2>1. UNCHANGED <<alive, inc, cond, edge>> /\ missed \subseteq missed'
      BY <1>2, MovingMoves, MovingKeeps DEF Moved
    <2>2. ASSUME NEW t \in Outstanding, Reads(t, f) PROVE t \in Outstanding' \/ f \in missed'
      BY <1>0, <1>2, <2>2, MovingMoves DEF Moved, Kept
    <2> QED BY <1>1, <2>1, <2>2
  <1>3. CASE EpollWait
    <2>1. PICK S \in SUBSET Ready :
            /\ edge' = [g \in Fds |-> g \in Ready \ S]
            /\ missed' = missed \cup {g \in S : "in" \in cond[g]
                                                /\ {"hup", "err"} \cap cond[g] # {}}
            /\ Outstanding' = Outstanding \cup {Event(g) : g \in S}
      BY <1>3, EpollMoves
    <2>2. UNCHANGED <<alive, inc, cond>>
      BY <1>3 DEF EpollWait, objs
    <2>3. CASE edge[f]
      <3>1. f \in Ready
        BY <2>2, <2>3 DEF Ready
      <3>2. CASE f \in S /\ {"hup", "err"} \cap cond[f] = {}
        <4>1. "read" \in FdEvent(f)
          BY <2>2, <3>2 DEF FdEvent
        <4>2. Event(f) \in Outstanding' /\ Reads(Event(f), f)
          BY <2>1, <3>2, <4>1 DEF Event
        <4> QED BY <2>2, <4>2
      <3>3. CASE f \in S /\ {"hup", "err"} \cap cond[f] # {}
        BY <2>1, <2>2, <3>3
      <3>4. CASE f \notin S
        BY <2>1, <3>1, <3>4
      <3> QED BY <3>2, <3>3, <3>4
    <2>4. CASE ~edge[f]
      BY <2>1, <2>2, <2>4 DEF EdgeNotLost
    <2> QED BY <2>3, <2>4
  <1>4. CASE ExecuteNext
    <2> DEFINE h == Head(queue)
               read == {g \in Fds : g = h.obj /\ alive[g] /\ "read" \in h.mask}
    <2>1. /\ cond' = [g \in Fds |-> IF g \in read THEN cond[g] \ {"in"} ELSE cond[g]]
          /\ missed' = missed \ read
          /\ UNCHANGED <<alive, inc, edge>>
      BY <1>4 DEF ExecuteNext, objs
    <2>2. h \in Outstanding /\ Outstanding \subseteq Outstanding' \cup {h}
      BY <1>4, ExecuteMoves
    <2>3. f \notin read
      BY <2>1
    <2>4. alive[f] /\ "in" \in cond[f] /\ (f \in missed => f \in missed')
      BY <2>1, <2>3
    <2>5. ~Reads(h, f)
      BY <2>3, <2>4
    <2> QED BY <1>1, <2>1, <2>2, <2>4, <2>5
  <1>5. CASE EloopExit
    BY <1>0, <1>5 DEF EloopExit
  <1>6. ASSUME NEW o \in Timers, TimerNew(o) \/ TimerDelete(o) PROVE Announced(f)'
    <2>1. Outstanding' = Outstanding /\ UNCHANGED <<cond, edge, missed>>
      BY <1>6, UsersMove DEF TimerNew, TimerDelete, fdst
    <2>2. alive'[f] = alive[f] /\ inc'[f] = inc[f]
      BY <1>0, <1>6 DEF TimerNew, TimerDelete, Existence
    <2> QED BY <1>1, <2>1, <2>2
  <1>7. ASSUME NEW o \in Timers, Expire(o) PROVE Announced(f)'
    <2>1. Outstanding \subseteq Outstanding'
      BY <1>7, UsersMove
    <2> QED BY <1>1, <1>7, <2>1 DEF Expire, fdst
  <1>8. ASSUME NEW g \in Fds, NEW c \in Conditions, g # f, Arises(g, c) \/ Ceases(g, c)
        PROVE  Announced(f)'
    <2>1. Outstanding' = Outstanding /\ UNCHANGED <<alive, inc, missed>>
      BY <1>8, UsersMove DEF Arises, Ceases, objs
    <2>2. cond'[f] = cond[f] /\ edge'[f] = edge[f]
      BY <1>8 DEF Arises, Ceases, Existence
    <2> QED BY <1>1, <2>1, <2>2
  <1>9. ASSUME NEW g \in Fds, g # f, AddFd(g) \/ RemoveFd(g) PROVE Announced(f)'
    <2>1. Outstanding' = Outstanding /\ (f \in missed => f \in missed')
      BY <1>9, UsersMove DEF AddFd, RemoveFd
    <2>2. /\ alive'[f] = alive[f] /\ inc'[f] = inc[f] /\ cond'[f] = cond[f]
          /\ edge'[f] = edge[f]
      BY <1>0, <1>9 DEF AddFd, RemoveFd, Existence
    <2> QED BY <1>1, <2>1, <2>2
  <1>10. CASE AddFd(f)
    BY <1>0, <1>10 DEF AddFd, Existence
  <1>11. CASE RemoveFd(f)
    BY <1>0, <1>11 DEF RemoveFd, Existence
  <1>12. ASSUME NEW c \in Conditions, Arises(f, c) PROVE Announced(f)'
    BY <1>12 DEF Arises, objs, Existence
  <1>13. ASSUME NEW c \in Conditions, Ceases(f, c) PROVE Announced(f)'
    <2>1. alive[f] /\ "in" \in cond[f] /\ UNCHANGED <<inc, edge, missed>>
      BY <1>13 DEF Ceases, objs, Existence
    <2> QED BY <1>1, <1>13, <2>1, UsersMove
  <1> QED BY <1>2, <1>3, <1>4, <1>5, <1>6, <1>7, <1>8, <1>9, <1>10, <1>11, <1>12, <1>13,
             Steps

LEMMA IInvStep == IInv /\ [Next]_vars => IInv'
  BY ShapeStep, ExistenceStep, FreshStep, EdgeStep DEF IInv

LEMMA Invariant == Spec => []IInv
  BY IInvInit, IInvStep, PTL DEF Spec

-----------------------------------------------------------------------------

\* When it is safe to delete: whatever still points to an object (a request in
\* the pipe, a task in the queue, an event in the buffer, an announcing thread)
\* points to the object that is there, unless it already did so when an earlier
\* object at the address was deleted.
THEOREM DeletingIsSafe == Spec => []NoStaleUse
  <1>1. IInv => NoStaleUse
    BY ShapeIsType DEF IInv, Fresh, NoStaleUse
  <1> QED BY <1>1, Invariant, PTL

\* Edge triggered epoll announces data once: while a registered descriptor has
\* data to read, the announcement is still to come or a task that will read is on
\* its way, or the announcement went missing: the pipe was full, there was no
\* memory, or an error or a hang-up hid it, and no read has come since.  max_events
\* and the order of the events do not matter.
THEOREM AnnouncementsAreKept == Spec => []EdgeNotLost
  <1>1. IInv => EdgeNotLost
    BY DEF IInv
  <1> QED BY <1>1, Invariant, PTL

-----------------------------------------------------------------------------
(* Eloop implements Mailbox.                                               *)

\* The refinement mapping: the queue, and behind it the pipe.
Row(q, p) == [k \in 1..Len(q) |-> AddReq(q[k])] \o p
Box == Row(queue, pipe)
Busy == pc = "run"
Seen == <<Box, Busy>>

LEMMA RowIs ==
    ASSUME NEW q \in Seq(Tasks), NEW p \in Seq(Requests)
    PROVE  /\ Row(q, p) \in Seq(Requests) /\ Len(Row(q, p)) = Len(q) + Len(p)
           /\ Len(q) \in Nat /\ Len(p) \in Nat
           /\ \A k \in 1..Len(q) + Len(p) :
                Row(q, p)[k] = IF k <= Len(q) THEN AddReq(q[k]) ELSE p[k - Len(q)]
  <1> DEFINE a == [k \in 1..Len(q) |-> AddReq(q[k])]
  <1>1. \A k \in 1..Len(q) : AddReq(q[k]) \in Requests
    BY DEF Requests
  <1>2. a \in Seq(Requests) /\ Len(a) = Len(q) /\ \A k \in 1..Len(q) : a[k] = AddReq(q[k])
    BY <1>1
  <1> HIDE DEF a
  <1>3. /\ a \o p \in Seq(Requests) /\ Len(a \o p) = Len(a) + Len(p)
        /\ \A k \in 1..Len(a) + Len(p) :
             (a \o p)[k] = IF k <= Len(a) THEN a[k] ELSE p[k - Len(a)]
    BY <1>2, ConcatProperties
  <1>4. \A k \in 1..Len(q) + Len(p) :
          (a \o p)[k] = IF k <= Len(q) THEN AddReq(q[k]) ELSE p[k - Len(q)]
    BY <1>2, <1>3
  <1> QED BY <1>2, <1>3, <1>4 DEF Row, a

LEMMA AddReqIs == \A t : AddReq(t).op = "add" /\ AddReq(t).task = t
  BY DEF AddReq

LEMMA SameRow ==
    ASSUME NEW s \in Seq(Requests), NEW t \in Seq(Requests), Len(s) = Len(t),
           \A k \in 1..Len(s) : s[k] = t[k]
    PROVE  s = t
  OBVIOUS

\* What each thing that happens to the queue or the pipe is to the row.
LEMMA RowPost ==
    ASSUME NEW q \in Seq(Tasks), NEW p \in Seq(Requests), NEW r \in Requests
    PROVE  Row(q, Append(p, r)) = Append(Row(q, p), r)
  <1> DEFINE b == Row(q, p)
             p2 == Append(p, r)
             c == Row(q, p2)
             d == Append(b, r)
  <1>1. /\ p2 \in Seq(Requests) /\ Len(p2) = Len(p) + 1 /\ p2[Len(p) + 1] = r
        /\ \A k \in 1..Len(p) : p2[k] = p[k]
    BY AppendProperties
  <1>2. /\ b \in Seq(Requests) /\ Len(b) = Len(q) + Len(p) /\ Len(q) \in Nat /\ Len(p) \in Nat
        /\ \A k \in 1..Len(q) + Len(p) :
             b[k] = IF k <= Len(q) THEN AddReq(q[k]) ELSE p[k - Len(q)]
    BY RowIs
  <1>3. /\ d \in Seq(Requests) /\ Len(d) = Len(b) + 1 /\ d[Len(b) + 1] = r
        /\ \A k \in 1..Len(b) : d[k] = b[k]
    BY <1>2, AppendProperties
  <1> HIDE DEF p2
  <1>4. /\ c \in Seq(Requests) /\ Len(c) = Len(q) + Len(p2)
        /\ \A k \in 1..Len(q) + Len(p2) :
             c[k] = IF k <= Len(q) THEN AddReq(q[k]) ELSE p2[k - Len(q)]
    BY <1>1, RowIs
  <1> HIDE DEF b, c, d
  <1>5. Len(q) + Len(p2) = Len(b) + 1
    BY <1>1, <1>2
  <1>6. ASSUME NEW k \in 1..Len(b) + 1 PROVE c[k] = d[k]
    <2>1. c[k] = IF k <= Len(q) THEN AddReq(q[k]) ELSE p2[k - Len(q)]
      BY <1>4, <1>5
    <2>2. CASE k = Len(b) + 1
      <3>1. ~(k <= Len(q)) /\ k - Len(q) = Len(p) + 1
        BY <1>2, <2>2
      <3> QED BY <1>1, <1>3, <2>1, <2>2, <3>1
    <2>3. CASE k # Len(b) + 1
      <3>0. Len(b) = Len(q) + Len(p) /\ Len(q) \in Nat /\ Len(p) \in Nat
        BY <1>2
      <3>1. k \in 1..Len(b) /\ (~(k <= Len(q)) => k - Len(q) \in 1..Len(p))
        BY <2>3, <3>0
      <3> QED BY <1>1, <1>2, <1>3, <2>1, <3>1
    <2> QED BY <2>2, <2>3
  <1> QED BY <1>3, <1>4, <1>5, <1>6, SameRow DEF b, c, d, p2

LEMMA TailIs ==
    ASSUME NEW S, NEW s \in Seq(S), s # <<>>
    PROVE  /\ Tail(s) \in Seq(S) /\ Len(Tail(s)) = Len(s) - 1 /\ Len(s) \in Nat \ {0}
           /\ \A k \in 1..Len(s) - 1 : Tail(s)[k] = s[k + 1]
           /\ Head(s) = s[1]
  OBVIOUS

\* A task goes from the pipe to the queue.
LEMMA RowMove ==
    ASSUME NEW q \in Seq(Tasks), NEW p \in Seq(Requests), p # <<>>,
           NEW t \in Tasks, Head(p) = AddReq(t)
    PROVE  Row(Append(q, t), Tail(p)) = Row(q, p)
  <1> DEFINE b == Row(q, p)
             q2 == Append(q, t)
             p2 == Tail(p)
             c == Row(q2, p2)
  <1>1. /\ q2 \in Seq(Tasks) /\ Len(q2) = Len(q) + 1 /\ q2[Len(q) + 1] = t
        /\ \A k \in 1..Len(q) : q2[k] = q[k]
    BY AppendProperties
  <1>2. /\ p2 \in Seq(Requests) /\ Len(p2) = Len(p) - 1 /\ Len(p) \in Nat \ {0}
        /\ \A k \in 1..Len(p) - 1 : p2[k] = p[k + 1]
        /\ p[1] = AddReq(t)
    BY TailIs
  <1>3. /\ b \in Seq(Requests) /\ Len(b) = Len(q) + Len(p) /\ Len(q) \in Nat
        /\ \A k \in 1..Len(q) + Len(p) :
             b[k] = IF k <= Len(q) THEN AddReq(q[k]) ELSE p[k - Len(q)]
    BY RowIs
  <1> HIDE DEF p2, q2
  <1>4. /\ c \in Seq(Requests) /\ Len(c) = Len(q2) + Len(p2)
        /\ \A k \in 1..Len(q2) + Len(p2) :
             c[k] = IF k <= Len(q2) THEN AddReq(q2[k]) ELSE p2[k - Len(q2)]
    BY <1>1, <1>2, RowIs
  <1> HIDE DEF b, c
  <1>5. Len(c) = Len(b) /\ Len(q2) + Len(p2) = Len(b)
    BY <1>1, <1>2, <1>3, <1>4
  <1>6. ASSUME NEW k \in 1..Len(b) PROVE c[k] = b[k]
    <2>0. /\ c[k] = IF k <= Len(q) + 1 THEN AddReq(q2[k]) ELSE p2[k - (Len(q) + 1)]
          /\ b[k] = IF k <= Len(q) THEN AddReq(q[k]) ELSE p[k - Len(q)]
      BY <1>1, <1>3, <1>4, <1>5
    <2>1. CASE k <= Len(q)
      <3>1. k \in 1..Len(q) /\ k <= Len(q) + 1
        BY <1>3, <2>1
      <3> QED BY <1>1, <2>0, <2>1, <3>1
    <2>2. CASE k = Len(q) + 1
      <3>1. ~(k <= Len(q)) /\ k <= Len(q) + 1 /\ k - Len(q) = 1
        BY <1>3, <2>2
      <3> QED BY <1>1, <1>2, <2>0, <2>2, <3>1
    <2>3. CASE k > Len(q) + 1
      <3>1. /\ k - (Len(q) + 1) \in 1..Len(p) - 1 /\ (k - (Len(q) + 1)) + 1 = k - Len(q)
            /\ ~(k <= Len(q) + 1) /\ ~(k <= Len(q))
        BY <1>2, <1>3, <2>3
      <3> QED BY <1>2, <2>0, <3>1
    <2>4. k \in Nat
      BY <1>3
    <2> QED BY <1>3, <2>1, <2>2, <2>3, <2>4
  <1> QED BY <1>3, <1>4, <1>5, <1>6, SameRow DEF b, c, p2, q2

\* A request leaves the pipe and nothing comes of it.
LEMMA RowDrop ==
    ASSUME NEW q \in Seq(Tasks), NEW p \in Seq(Requests), p # <<>>
    PROVE  Row(q, Tail(p)) = RemoveAt(Row(q, p), Len(q) + 1)
  <1> DEFINE b == Row(q, p)
             p2 == Tail(p)
             c == Row(q, p2)
             d == RemoveAt(b, Len(q) + 1)
  <1>2. /\ p2 \in Seq(Requests) /\ Len(p2) = Len(p) - 1 /\ Len(p) \in Nat \ {0}
        /\ \A k \in 1..Len(p) - 1 : p2[k] = p[k + 1]
    BY TailIs
  <1>3. /\ b \in Seq(Requests) /\ Len(b) = Len(q) + Len(p) /\ Len(q) \in Nat
        /\ \A k \in 1..Len(q) + Len(p) :
             b[k] = IF k <= Len(q) THEN AddReq(q[k]) ELSE p[k - Len(q)]
    BY RowIs
  <1> HIDE DEF p2
  <1>4. /\ c \in Seq(Requests) /\ Len(c) = Len(q) + Len(p2)
        /\ \A k \in 1..Len(q) + Len(p2) :
             c[k] = IF k <= Len(q) THEN AddReq(q[k]) ELSE p2[k - Len(q)]
    BY <1>2, RowIs
  <1> HIDE DEF b, c
  <1>5. Len(q) + 1 \in 1..Len(b) /\ (Len(q) + 1) - 1 = Len(q) /\ Len(q) + Len(p2) = Len(b) - 1
    BY <1>2, <1>3
  <1>6. /\ d \in Seq(Requests) /\ Len(d) = Len(b) - 1
        /\ \A k \in 1..Len(b) - 1 : d[k] = IF k <= Len(q) THEN b[k] ELSE b[k + 1]
    BY <1>3, <1>5, RemoveAtIs
  <1> HIDE DEF d
  <1>7. ASSUME NEW k \in 1..Len(b) - 1 PROVE c[k] = d[k]
    <2>0. /\ c[k] = IF k <= Len(q) THEN AddReq(q[k]) ELSE p2[k - Len(q)]
          /\ d[k] = IF k <= Len(q) THEN b[k] ELSE b[k + 1]
      BY <1>4, <1>5, <1>6
    <2>1. CASE k <= Len(q)
      <3>1. k \in 1..Len(q) + Len(p)
        BY <1>2, <1>3
      <3> QED BY <1>3, <2>0, <2>1, <3>1
    <2>2. CASE ~(k <= Len(q))
      <3>1. /\ k + 1 \in 1..Len(q) + Len(p) /\ ~(k + 1 <= Len(q))
            /\ k - Len(q) \in 1..Len(p) - 1 /\ (k - Len(q)) + 1 = (k + 1) - Len(q)
        BY <1>2, <1>3, <2>2
      <3> QED BY <1>2, <1>3, <2>0, <2>2, <3>1
    <2> QED BY <2>1, <2>2
  <1> QED BY <1>4, <1>5, <1>6, <1>7, SameRow DEF b, c, d, p2

\* A task is taken out of the queue.
LEMMA RowRemove ==
    ASSUME NEW q \in Seq(Tasks), NEW p \in Seq(Requests), NEW i \in 1..Len(q)
    PROVE  Row(RemoveAt(q, i), p) = RemoveAt(Row(q, p), i)
  <1> DEFINE b == Row(q, p)
             q2 == RemoveAt(q, i)
             c == Row(q2, p)
             d == RemoveAt(b, i)
  <1>2. /\ q2 \in Seq(Tasks) /\ Len(q2) = Len(q) - 1
        /\ \A k \in 1..Len(q) - 1 : q2[k] = IF k <= i - 1 THEN q[k] ELSE q[k + 1]
    BY RemoveAtIs
  <1>3. /\ b \in Seq(Requests) /\ Len(b) = Len(q) + Len(p) /\ Len(q) \in Nat /\ Len(p) \in Nat
        /\ \A k \in 1..Len(q) + Len(p) :
             b[k] = IF k <= Len(q) THEN AddReq(q[k]) ELSE p[k - Len(q)]
    BY RowIs
  <1> HIDE DEF q2
  <1>4. /\ c \in Seq(Requests) /\ Len(c) = Len(q2) + Len(p)
        /\ \A k \in 1..Len(q2) + Len(p) :
             c[k] = IF k <= Len(q2) THEN AddReq(q2[k]) ELSE p[k - Len(q2)]
    BY <1>2, RowIs
  <1> HIDE DEF b, c
  <1>5. i \in 1..Len(b) /\ Len(q2) + Len(p) = Len(b) - 1
    BY <1>2, <1>3
  <1>6. /\ d \in Seq(Requests) /\ Len(d) = Len(b) - 1
        /\ \A k \in 1..Len(b) - 1 : d[k] = IF k <= i - 1 THEN b[k] ELSE b[k + 1]
    BY <1>3, <1>5, RemoveAtIs
  <1> HIDE DEF d
  <1>7. ASSUME NEW k \in 1..Len(b) - 1 PROVE c[k] = d[k]
    <2>0. /\ c[k] = IF k <= Len(q) - 1 THEN AddReq(q2[k]) ELSE p[k - (Len(q) - 1)]
          /\ d[k] = IF k <= i - 1 THEN b[k] ELSE b[k + 1]
      BY <1>2, <1>4, <1>5, <1>6
    <2>1. CASE k <= i - 1
      <3>1. k \in 1..Len(q) + Len(p) /\ k <= Len(q) /\ k <= Len(q) - 1 /\ k \in 1..Len(q) - 1
        BY <1>3, <2>1
      <3> QED BY <1>2, <1>3, <2>0, <2>1, <3>1
    <2>2. CASE ~(k <= i - 1) /\ k <= Len(q) - 1
      <3>1. k + 1 \in 1..Len(q) + Len(p) /\ k + 1 <= Len(q) /\ k \in 1..Len(q) - 1
        BY <1>3, <2>2
      <3> QED BY <1>2, <1>3, <2>0, <2>2, <3>1
    <2>3. CASE ~(k <= Len(q) - 1)
      <3>1. /\ k + 1 \in 1..Len(q) + Len(p) /\ ~(k + 1 <= Len(q)) /\ ~(k <= i - 1)
            /\ (k + 1) - Len(q) = k - (Len(q) - 1)
        BY <1>3, <2>3
      <3> QED BY <1>3, <2>0, <2>3, <3>1
    <2> QED BY <2>1, <2>2, <2>3
  <1> QED BY <1>4, <1>5, <1>6, <1>7, SameRow DEF b, c, d, q2

\* The first task of the queue is done.
LEMMA RowTail ==
    ASSUME NEW q \in Seq(Tasks), NEW p \in Seq(Requests), q # <<>>
    PROVE  Row(Tail(q), p) = Tail(Row(q, p)) /\ Head(Row(q, p)) = AddReq(Head(q))
           /\ Row(q, p) # <<>>
  <1> DEFINE b == Row(q, p)
             q2 == Tail(q)
             c == Row(q2, p)
             d == Tail(b)
  <1>2. /\ q2 \in Seq(Tasks) /\ Len(q2) = Len(q) - 1 /\ Len(q) \in Nat \ {0}
        /\ \A k \in 1..Len(q) - 1 : q2[k] = q[k + 1]
        /\ Head(q) = q[1]
    BY TailIs
  <1>3. /\ b \in Seq(Requests) /\ Len(b) = Len(q) + Len(p) /\ Len(p) \in Nat
        /\ \A k \in 1..Len(q) + Len(p) :
             b[k] = IF k <= Len(q) THEN AddReq(q[k]) ELSE p[k - Len(q)]
    BY RowIs
  <1> HIDE DEF q2
  <1>4. /\ c \in Seq(Requests) /\ Len(c) = Len(q2) + Len(p)
        /\ \A k \in 1..Len(q2) + Len(p) :
             c[k] = IF k <= Len(q2) THEN AddReq(q2[k]) ELSE p[k - Len(q2)]
    BY <1>2, RowIs
  <1> HIDE DEF b, c
  <1>5. Len(b) \in Nat \ {0} /\ b # <<>> /\ Len(q2) + Len(p) = Len(b) - 1
    BY <1>2, <1>3
  <1>6. /\ d \in Seq(Requests) /\ Len(d) = Len(b) - 1 /\ Head(b) = b[1]
        /\ \A k \in 1..Len(b) - 1 : d[k] = b[k + 1]
    BY <1>3, <1>5, TailIs
  <1> HIDE DEF d
  <1>7. ASSUME NEW k \in 1..Len(b) - 1 PROVE c[k] = d[k]
    <2>0. /\ c[k] = IF k <= Len(q) - 1 THEN AddReq(q2[k]) ELSE p[k - (Len(q) - 1)]
          /\ d[k] = b[k + 1]
      BY <1>2, <1>4, <1>5, <1>6
    <2>1. k + 1 \in 1..Len(q) + Len(p) /\ (k + 1) - Len(q) = k - (Len(q) - 1)
      BY <1>2, <1>3
    <2>2. CASE k <= Len(q) - 1
      <3>1. k + 1 <= Len(q) /\ k \in 1..Len(q) - 1
        BY <1>2, <2>2
      <3> QED BY <1>2, <1>3, <2>0, <2>1, <2>2, <3>1
    <2>3. CASE ~(k <= Len(q) - 1)
      <3>1. ~(k + 1 <= Len(q))
        BY <1>2, <2>3
      <3> QED BY <1>3, <2>0, <2>1, <2>3, <3>1
    <2> QED BY <2>2, <2>3
  <1>8. c = d
    BY <1>4, <1>5, <1>6, <1>7, SameRow
  <1>9. 1 \in 1..Len(q) + Len(p) /\ 1 <= Len(q)
    BY <1>2, <1>3
  <1>10. b[1] = AddReq(q[1])
    BY <1>3, <1>9
  <1> QED BY <1>2, <1>5, <1>6, <1>8, <1>10 DEF b, c, d, q2

-----------------------------------------------------------------------------
(* The steps.  Box' is the row of what follows.                            *)

LEMMA RowEmpty ==
    ASSUME NEW q \in Seq(Tasks), NEW p \in Seq(Requests), q = <<>>, p = <<>>
    PROVE  Row(q, p) = <<>>
  <1>1. Row(q, p) \in Seq(Requests) /\ Len(Row(q, p)) = Len(q) + Len(p)
    BY RowIs
  <1>2. Len(q) = 0 /\ Len(p) = 0
    OBVIOUS
  <1>3. Len(Row(q, p)) = 0
    BY <1>1, <1>2
  <1> QED BY <1>1, <1>3

LEMMA BoxIs ==
    ASSUME Shape, Shape'
    PROVE  /\ queue \in Seq(Tasks) /\ pipe \in Seq(Requests)
           /\ queue' \in Seq(Tasks) /\ pipe' \in Seq(Requests)
           /\ Box = Row(queue, pipe) /\ Box' = Row(queue', pipe')
  BY DEF Shape, Box, Row

\* The two halves of the mapping are what Implemented is about.
LEMMA SameRemoveAt == \A s, k : Implemented!RemoveAt(s, k) = RemoveAt(s, k)
  BY DEF RemoveAt, Implemented!RemoveAt

LEMMA Mapped ==
    /\ Implemented!Post <=>
         /\ \E r \in Requests : Box' = Append(Box, r)
         /\ Busy' = Busy
    /\ Implemented!Begin <=>
         Box # <<>> /\ Head(Box).op = "add" /\ ~Busy /\ Busy' = TRUE /\ Box' = Box
    /\ Implemented!End <=> Busy /\ Busy' = FALSE /\ Box' = Tail(Box)
    /\ Implemented!Lose <=>
         /\ ~Busy
         /\ \E k \in 1..Len(Box) : Box[k].op = "add" /\ Box' = RemoveAt(Box, k)
         /\ Busy' = Busy
    /\ Implemented!Close <=> ~Busy /\ Box' = <<>> /\ Busy' = Busy
  <1>1. Requests = {Implemented!Add(t) : t \in Tasks}
                     \cup {Implemented!Withdraw(i) : i \in Timers}
    BY DEF Implemented!Add, Implemented!Withdraw, Requests, AddReq, CancelReq
  <1>2. Implemented!Post <=>
          /\ \E r \in Requests : Box' = Append(Box, r)
          /\ Busy' = Busy
    BY <1>1, Zenon DEF Implemented!Post, Box, Row, Busy
  <1>3. /\ Implemented!Begin <=>
             Box # <<>> /\ Head(Box).op = "add" /\ ~Busy /\ Busy' = TRUE /\ Box' = Box
        /\ Implemented!End <=> Busy /\ Busy' = FALSE /\ Box' = Tail(Box)
        /\ Implemented!Close <=> ~Busy /\ Box' = <<>> /\ Busy' = Busy
    BY Zenon DEF Implemented!Begin, Implemented!End, Implemented!Close, Box, Row, Busy
  <1>4. Implemented!Lose <=>
          /\ ~Busy
          /\ \E k \in 1..Len(Box) : Box[k].op = "add" /\ Box' = RemoveAt(Box, k)
          /\ Busy' = Busy
    BY SameRemoveAt, Zenon DEF Implemented!Lose, Box, Row, Busy
  <1> QED BY <1>2, <1>3, <1>4, Zenon

LEMMA MappedCancel ==
    ASSUME NEW n \in 1..Len(Box), ~Busy, ~Busy',
           Box[n].op = "cancel", \A j \in 1..n - 1 : Box[j].op = "add",
           NEW M, M = {j \in 1..n - 1 : Box[j].task.obj = Box[n].id},
           \/ M = {} /\ Box' = RemoveAt(Box, n)
           \/ M # {} /\ \E j \in M : (\A i \in M : j <= i) /\ Box' = RemoveAt(RemoveAt(Box, n), j)
    PROVE  Implemented!Cancel
  <1>1. Implemented!Matches(n) = M
    BY Zenon DEF Implemented!Matches, Box, Row
  <1>2. Busy' = Busy
    BY DEF Busy
  <1>3. IF Implemented!Matches(n) = {} THEN Box' = Implemented!RemoveAt(Box, n)
        ELSE \E j \in Implemented!Matches(n) :
               /\ \A i \in Implemented!Matches(n) : j <= i
               /\ Box' = Implemented!RemoveAt(Implemented!RemoveAt(Box, n), j)
    BY <1>1, SameRemoveAt, Zenon
  <1> QED BY <1>2, <1>3, Zenon DEF Implemented!Cancel, Box, Row, Busy

LEMMA PostImplements ==
    ASSUME Shape, Shape', NEW r \in Requests, pipe' = Append(pipe, r),
           UNCHANGED <<queue, pc>>
    PROVE  Implemented!Post
  <1>1. Box' = Append(Box, r)
    BY BoxIs, RowPost
  <1> QED BY <1>1, Mapped DEF Busy

LEMMA TaskAddImplements ==
    ASSUME Shape, Shape', NEW t \in Tasks, TaskAdd(t), UNCHANGED <<queue, pc>>
    PROVE  Implemented!Post \/ UNCHANGED Seen
  <1>1. CASE pipe' = Append(pipe, AddReq(t))
    BY <1>1, AddReq(t) \in Requests, PostImplements DEF Requests
  <1>2. CASE pipe' = pipe
    BY <1>2 DEF Seen, Box, Row, Busy
  <1> QED BY <1>1, <1>2 DEF TaskAdd

\* The first task of the queue that a cancellation finds is the first in the row.
LEMMA CancelImplements ==
    ASSUME Shape, Shape', pc # "run", pc' # "run", pipe # <<>>, NEW o \in Timers,
           Head(pipe) = CancelReq(o), pipe' = Tail(pipe), queue' = Without(queue, o)
    PROVE  Implemented!Cancel
  <1> DEFINE n == Len(queue) + 1
             I == {i \in 1..Len(queue) : queue[i].obj = o}
             M == {j \in 1..n - 1 : Box[j].task.obj = Box[n].id}
  <1>1. /\ queue \in Seq(Tasks) /\ pipe \in Seq(Requests)
        /\ Box = Row(queue, pipe) /\ Box' = Row(queue', pipe')
    BY BoxIs
  <1>2. /\ Box \in Seq(Requests) /\ Len(Box) = Len(queue) + Len(pipe)
        /\ Len(queue) \in Nat /\ Len(pipe) \in Nat
        /\ \A k \in 1..Len(queue) + Len(pipe) :
             Box[k] = IF k <= Len(queue) THEN AddReq(queue[k]) ELSE pipe[k - Len(queue)]
    BY <1>1, RowIs
  <1>3. Len(pipe) \in Nat \ {0} /\ pipe[1] = CancelReq(o)
    BY <1>1, TailIs
  <1>4. Row(queue, Tail(pipe)) = RemoveAt(Box, n)
    BY <1>1, RowDrop
  <1>5. n \in 1..Len(Box) /\ n - 1 = Len(queue) /\ n - Len(queue) = 1 /\ ~(n <= Len(queue))
    BY <1>2, <1>3
  <1> HIDE DEF n, M, I
  <1>6. Box[n] = CancelReq(o)
    BY <1>2, <1>3, <1>5
  <1>7. \A j \in 1..n - 1 : Box[j] = AddReq(queue[j])
    BY <1>2, <1>5
  <1>8. M = I
    <2>1. Box[n].id = o
      BY <1>6 DEF CancelReq
    <2>2. \A j \in 1..n - 1 : Box[j].task = queue[j]
      BY <1>7, AddReqIs
    <2>3. \A j \in 1..n - 1 : Box[j].task.obj = Box[n].id <=> queue[j].obj = o
      BY <2>1, <2>2
    <2> QED BY <1>5, <2>3 DEF M, I
  <1>9. Box[n].op = "cancel" /\ (\A j \in 1..n - 1 : Box[j].op = "add") /\ ~Busy /\ ~Busy'
    <2>1. Box[n].op = "cancel"
      BY <1>6 DEF CancelReq
    <2>2. \A j \in 1..n - 1 : Box[j].op = "add"
      BY <1>7, AddReqIs
    <2> QED BY <2>1, <2>2 DEF Busy
  <1>10. CASE I = {}
    <2>1. queue' = queue
      BY <1>10 DEF Without, RemoveFirstMatch, I
    <2>2. Box' = RemoveAt(Box, n)
      BY <1>1, <2>1, <1>4
    <2> QED
      BY <1>5, <1>8, <1>9, <1>10, <2>2, MappedCancel DEF M
  <1>11. CASE I # {}
    <2>1. queue' = RemoveAt(queue, Min(I))
      BY <1>11 DEF Without, RemoveFirstMatch, SelectInSeq, I
    <2>2. Min(I) \in I /\ \A i \in I : Min(I) <= i
      BY <1>11, I \in SUBSET Nat, MinExists DEF I
    <2>4. Tail(pipe) \in Seq(Requests) /\ Min(I) \in 1..Len(queue)
      BY <1>1, <2>2, TailIs DEF I
    <2>5. Box' = RemoveAt(RemoveAt(Box, n), Min(I))
      BY <1>1, <1>4, <2>1, <2>4, RowRemove
    <2> QED
      BY <1>5, <1>8, <1>9, <1>11, <2>2, <2>5, MappedCancel DEF M
  <1> QED BY <1>10, <1>11

LEMMA RequestImplements ==
    ASSUME Shape, Shape', pc # "run", pc' # "run", pipe # <<>>,
           pipe' = Tail(pipe), HandleRequest(Head(pipe))
    PROVE  Implemented!Cancel \/ Implemented!Lose \/ UNCHANGED Seen
  <1> DEFINE r == Head(pipe)
  <1>1. /\ queue \in Seq(Tasks) /\ pipe \in Seq(Requests)
        /\ Box = Row(queue, pipe) /\ Box' = Row(queue', pipe')
    BY BoxIs
  <1>2. r \in Requests
    BY <1>1
  <1>3. ASSUME NEW t \in Tasks, r = AddReq(t)
        PROVE  Implemented!Lose \/ UNCHANGED Seen
    <2>1. r.task = t /\ IsAdd(r)
      BY <1>3 DEF AddReq, IsAdd
    <2>2. CASE queue' = Append(queue, t)
      BY <1>1, <1>3, <2>2, RowMove DEF Seen, Busy
    <2>3. CASE queue' = queue
      <3> DEFINE n == Len(queue) + 1
      <3>1. Box' = RemoveAt(Box, n)
        BY <1>1, <2>3, RowDrop
      <3>2. /\ Box \in Seq(Requests) /\ Len(Box) = Len(queue) + Len(pipe)
            /\ Len(queue) \in Nat /\ Len(pipe) \in Nat
            /\ \A k \in 1..Len(queue) + Len(pipe) :
                 Box[k] = IF k <= Len(queue) THEN AddReq(queue[k]) ELSE pipe[k - Len(queue)]
        BY <1>1, RowIs
      <3>3. Len(pipe) \in Nat \ {0} /\ pipe[1] = r
        BY <1>1, TailIs
      <3>4. n \in 1..Len(Box) /\ n - Len(queue) = 1 /\ ~(n <= Len(queue))
        BY <3>2, <3>3
      <3>5. Box[n].op = "add"
        BY <1>3, <3>2, <3>3, <3>4 DEF AddReq
      <3> QED BY <3>1, <3>4, <3>5, Mapped DEF Busy
    <2> QED BY <2>1, <2>2, <2>3 DEF HandleRequest
  <1>4. ASSUME NEW o \in Timers, r = CancelReq(o)
        PROVE  Implemented!Cancel
    <2>1. r.id = o /\ ~IsAdd(r)
      BY <1>4 DEF CancelReq, IsAdd
    <2> HIDE DEF r
    <2>2. queue' = Without(queue, r.id)
      BY <2>1 DEF HandleRequest, Without, r
    <2>3. queue' = Without(queue, o)
      BY <2>1, <2>2
    <2> QED BY <1>4, <2>3, CancelImplements DEF r
  <1> QED BY <1>2, <1>3, <1>4 DEF Requests

\* Every step of the loop and of its users is one of the mailbox, or none.
LEMMA StepImplements ==
    ASSUME Shape, Shape', [Next]_vars
    PROVE  [Implemented!Next]_Seen
  <1>1. ASSUME UNCHANGED <<pipe, queue, pc>> PROVE UNCHANGED Seen
    BY <1>1 DEF Seen, Box, Row, Busy
  <1>2. ASSUME UNCHANGED <<pipe, queue>>, pc # "run", pc' # "run" PROVE UNCHANGED Seen
    BY <1>2 DEF Seen, Box, Row, Busy
  <1>3. CASE EpollWait \/ ProcessQueue \/ Leave
    BY <1>2, <1>3 DEF EpollWait, ProcessQueue, Leave
  <1>4. CASE PostEvent
    <2>1. UNCHANGED <<queue, pc>> /\ Head(buffer) \in Tasks
      BY <1>4 DEF PostEvent, Shape
    <2>2. CASE TaskAdd(Head(buffer))
      BY <2>1, <2>2, TaskAddImplements DEF Implemented!Next
    <2>3. CASE UNCHANGED pipe
      BY <1>1, <2>1, <2>3
    <2> QED BY <1>4, <2>2, <2>3 DEF PostEvent
  <1>5. CASE ProcessFirst
    <2>1. pc # "run" /\ pc' # "run"
      BY <1>5 DEF ProcessFirst
    <2>2. CASE pipe = <<>>
      BY <1>2, <1>5, <2>1, <2>2 DEF ProcessFirst
    <2>3. CASE pipe # <<>>
      BY <1>5, <2>1, <2>3, RequestImplements DEF ProcessFirst, Implemented!Next
    <2> QED BY <2>2, <2>3
  <1>6. CASE Drain
    <2>1. pc # "run" /\ pc' # "run"
      BY <1>6 DEF Drain
    <2>2. CASE pipe = <<>>
      BY <1>2, <1>6, <2>1, <2>2 DEF Drain
    <2>3. CASE pipe # <<>>
      BY <1>6, <2>1, <2>3, RequestImplements DEF Drain, Implemented!Next
    <2> QED BY <2>2, <2>3
  <1>7. CASE TestQueue
    <2>1. CASE queue # <<>> /\ pc' = "run"
      <3>1. Box # <<>> /\ Head(Box) = AddReq(Head(queue))
        BY <2>1, BoxIs, RowTail
      <3>2. Box' = Box /\ ~Busy /\ Busy' = TRUE
        BY <1>7, <2>1 DEF TestQueue, Box, Row, Busy
      <3>3. Head(Box).op = "add"
        BY <3>1 DEF AddReq
      <3> QED BY <3>1, <3>2, <3>3, Mapped DEF Implemented!Next
    <2>2. CASE pc' = "poll"
      BY <1>2, <1>7, <2>2 DEF TestQueue
    <2> QED BY <1>7, <2>1, <2>2 DEF TestQueue
  <1>8. CASE ExecuteNext
    <2>1. queue # <<>> /\ queue' = Tail(queue) /\ pipe' = pipe /\ Busy /\ Busy' = FALSE
      BY <1>8 DEF ExecuteNext, Shape, Busy
    <2>2. Box' = Tail(Box)
      BY <2>1, BoxIs, RowTail
    <2> QED BY <2>1, <2>2, Mapped DEF Implemented!Next
  <1>9. ASSUME NEW t \in Timers,
               TimerNew(t) \/ TimerStart(t) \/ TimerStop(t) \/ TimerDelete(t) \/ Expire(t)
        PROVE  UNCHANGED Seen
    BY <1>1, <1>9 DEF TimerNew, TimerStart, TimerStop, TimerDelete, Expire, loop
  <1>10. ASSUME NEW t \in Timers, TaskCancel(t) PROVE Implemented!Post
    <2>1. pipe' = Append(pipe, CancelReq(t)) /\ UNCHANGED <<queue, pc>>
      BY <1>10 DEF TaskCancel
    <2> QED BY <2>1, CancelReq(t) \in Requests, PostImplements DEF Requests
  <1>11. ASSUME NEW f \in Fds, NEW c, AddFd(f) \/ RemoveFd(f) \/ Arises(f, c) \/ Ceases(f, c)
         PROVE  UNCHANGED Seen
    BY <1>1, <1>11 DEF AddFd, RemoveFd, Arises, Ceases, loop
  <1>12. ASSUME NEW k \in notif, HandleTimeout(k)
         PROVE  Implemented!Post \/ UNCHANGED Seen
    <2>1. k \in Tasks /\ TaskAdd(k) /\ UNCHANGED <<queue, pc>>
      BY <1>12 DEF HandleTimeout, Shape
    <2> QED BY <2>1, TaskAddImplements
  <1>13. CASE SyncerStop \/ EloopStop \/ UNCHANGED vars
    BY <1>1, <1>13 DEF SyncerStop, EloopStop, loop, vars
  <1>14. CASE EloopExit
    <2>1. ~Busy /\ ~Busy' /\ pipe' = <<>> /\ queue' = <<>>
      BY <1>14 DEF EloopExit, Busy
    <2>3. Box' = <<>>
      BY <2>1, BoxIs, RowEmpty
    <2> QED BY <2>1, <2>3, Mapped DEF Implemented!Next, Busy
  <1> QED
    BY <1>3, <1>4, <1>5, <1>6, <1>7, <1>8, <1>9, <1>10, <1>11, <1>12, <1>13, <1>14
    DEF Next, LoopStep, Users, Implemented!Next

\* The queue and the pipe together are one mailbox: tasks are executed one at a
\* time, each once, in the order request_add took them, and a cancellation takes
\* the first task with its id that was posted before it, never the one that is
\* executing; the pipe may be full and memory may run out at any point.
THEOREM LoopIsMailbox == Spec => FifoMailbox
  <1>1. Init => Implemented!Init
    <2> SUFFICES ASSUME Init PROVE Box = <<>> /\ Busy = FALSE
      BY DEF Implemented!Init, Box, Row, Busy
    <2>1. pipe = <<>> /\ queue = <<>> /\ pc = "poll"
      BY DEF Init
    <2>2. Box = <<>>
      BY <2>1, <<>> \in Seq(Tasks), <<>> \in Seq(Requests), RowEmpty DEF Box
    <2> QED BY <2>1, <2>2 DEF Busy
  <1>2. IInv /\ IInv' /\ [Next]_vars => [Implemented!Next]_Seen
    BY StepImplements DEF IInv
  <1> QED BY <1>1, <1>2, Invariant, PTL DEF Spec, FifoMailbox, Implemented!Spec, Seen,
             Box, Row, Busy
=============================================================================
