# YodaOS: a verification project for its framework

YodaOS is a Linux distribution for voice devices.  Most of the repository is not
its own: OpenWrt, a boot loader, kernels, vendored libraries and HALs.  Its own
logic is in `src/framework`: a few C and C++ libraries that every service links,
and a few services that own a part of the device.  This project models those
whose correctness rests on the order in which threads, processes, messages or
power failures come, states what they must do, checks it with TLC on small
instances and proves what matters most with TLAPS for all instances.

Contents: [Inventory](#inventory), [Modules](#modules), [Runs](#runs),
[Fairness](#fairness), [Findings](#findings), [Proofs](#proofs),
[Assumptions](#assumptions-and-limits), [Plan](#plan).

## Inventory

| Component | State it keeps | Operations | What is hard |
|---|---|---|---|
| **Property area** `libs/property` | a memory map shared by all processes: a trie of `prop_info` (serial word, value bytes) and the area's serial | update, add (one writer); find, get, read, serial, area_serial, wait_any (any reader) | no locks: readers copy while the writer does; futexes; serials that wrap |
| **Property service** `services/property` | the area, one file per `persist.` property, `persistent_properties_loaded`, a socket | boot, `property_set_impl` and the calls it makes, accept/receive/close; the client's connect, send, poll | power failure at any step, full disk, two timeouts that race, silent clients |
| **libeloop** `libs/libeloop` | request pipe, task queue, timers, epoll registrations | run, stop, exit; timer add/start/stop/delete; fd add/remove; task add/cancel | every operation from any thread; expirations on threads of their own; objects freed with tasks on the way; full pipe |
| **Power manager** `services/power` | list of lock names, count of locks, charger flag, idle state, idle timer | wake lock on/off, charger, autosleep, forced sleep, voice and system status, idle timeout | flora's thread against the loop's; messages during start-up; messages out of turn; lost calls |
| **Thread pool** `mingutils/misc/thr-pool.h` | pending tasks, idle and sleeping threads, flags per thread | push, finish, clear; a worker's run | three kinds of mutexes, two condition variables, reuse after finish and clear |
| **Circle stream** `mingutils/misc/circle-stream.h` | memory, front, back, `_remain_size` | create, close, write, peek, read, erase, clear | three variables for two facts, unsigned arithmetic, wrap-around |
| **Network manager** `services/networking/manager` | network mode, start flags of the HAL, AP timer and its flag, wifi and modem states, wifi status | the flora commands, AP timeout, join, modem monitor (loop's thread), wifi events, roam | four threads, one mutex that two of them do not take; a timeout that waits for the mutex and does not look again; a condition variable without a predicate |
| **Variable queue** `mingutils/misc/variable_queue.cc` | circular buffer of records, a shadow of its header | create, reuse, close, clear, write, read, peek, erase | room compared before lengths are rounded, padding in continuous mode, objects attached to old memory |

How they interact.  The property service writes the property area and every
process reads it; processes ask the service over a socket to set.  The power
manager and the network and bluetooth services run on libeloop: their timers are
libeloop's, their flora messages come on flora's thread (flora itself is a
library outside the repository).  The power manager tells other services, the
network manager among them, by flora calls when the device goes to deep idle, and
the battery service tells the power manager of the charger.  Thread pool, circle
stream and variable queue are header libraries for whoever links mingutils.

What makes each correct:

* property area: no read is torn, nobody sleeps through a change, and readers return;
* property service: what was set survives any power failure whole, read-only
  means read-only, the acknowledgement means something, nobody blocks the service;
* libeloop: tasks run in order and once, never on freed objects, no event goes
  missing, stop stops;
* power manager: a lock that is held keeps the device awake, deep idle is entered
  when idle only and its agents leave it;
* thread pool: each task once, finish finishes, nobody waits for ever;
* circle stream: what is read is what was written;
* network manager: the modes it reports are the devices that run, its timers are
  accounted for, a timeout acts on the access point it was started for and does act,
  CONNECT is answered and answered truthfully;
* variable queue: records come out whole, once and in order.

The other parts of the repository are listed in `PROJECT.json` with the reason
they are left out: serialisation and parsing without state (caps, uri, http),
formatting (rlog, logging), wrappers of third-party code (media player, audio,
http session), callbacks of closed HALs (bluetooth), scripts over a runtime that
is not here (apps), boot loader and board code.

The hazards in `PROJECT.json`, each at its line, are what the properties are for.

## Modules

| Module | Models | Read with |
|---|---|---|
| `PropArea` | `libs/property/src/system_properties.cpp`, the area | `PropAreaProof`, `MCPropArea` |
| `PropService` | `services/property`, and `send_prop_msg` of the client | `PropServiceProof`, `MCPropService` |
| `Eloop` | `libs/libeloop/src` | `Mailbox` (abstract), `EloopProof`, `MCEloop` |
| `Power` | `services/power/src`, `hardware/modules/power/power_hw.c` | `PowerProof`, `MCPower` |
| `ThreadPool` | `mingutils/include/misc/thr-pool.h` | `ThreadPoolProof`, `MCThreadPool` |
| `CircleStream` | `mingutils/include/misc/circle-stream.h` | `ByteQueue` (abstract), `CircleStreamProof`, `MCCircleStream` |
| `VariableQueue` | `mingutils/src/misc/variable_queue.cc` | `RecordQueue` (abstract), `VariableQueueProof`, `MCVariableQueue` |
| `NetManager` | `services/networking/manager/src`, its wifi event thread included | `NetManagerProof`, `MCNetManager` |

Each `MC` module only names the constants of the configurations.  Definitions
marked *Mutant* are plausible mistakes: putting one in the place of the
definition after it must violate the property `PROJECT.json` names with it.

**PropArea.** `serial[p]` is the 32-bit word of a `prop_info` as the record of
its three fields (length, generation, dirty bit), `bytes[p]` its buffer, `present`
the names linked into the trie.  A step is one access to shared memory, and a
`memcpy` is one step a byte, in any order.  The writer's steps are `UpdateBegin`
(`serial |= 1`), `UpdateCopy`, `UpdatePublish`, `UpdateWake`, `BumpArea`,
`WakeArea`, and `Add`, which is one step up to its release store, because nobody
sees the node before.  A reader's are `Find`, `LoadSerial`, `FutexWait`,
`ReadByte`, `CheckSerial`, `ReadReturn` and the three of wait_any.  A futex wait
may end by itself (`Interrupted`).  `val`, `ver`, `rsnap` and the like are history:
no guard reads them.

**PropService.** `mem` is the area, where a value is stored in one step (PropArea is
about that step).  `spc` says where the single thread is.  `property_set_impl` is
`SetRefused`, or `SetMemory` followed by what the kind of name asks for: `SetNetChange`;
`Mkstemp`, `WriteTemp`, `FsyncTemp`, `RenameTemp`; and `Changed`, which may begin
another set.  Disk is what a running system sees (`disk`) and what it may fall back to
when power fails (`older`): a rename is undone until the directory is written back, and
the content of a file that was not synced is lost. With `FilesFail` a write may be cut,
an `fsync` may fail (`short` remembers for which property), a save may fail before or at
its rename (`behind`), and at boot the directory may not open or a file may be passed
over, for one of the four reasons the loader has (`skipped`). The client is `Connect`,
`Send`, `Timeout` after 250 ms, `Die`.

**Eloop.** `pc` follows `eloop_run` through `epoll_wait`, the posting of events,
the one request read first, the tasks, and the draining of the pipe after each.
`Timers` and `Fds` are addresses; every pointer to an object (in the pipe, in the
queue, in the events buffer, with an announcing thread) carries the incarnation it
was made for, so that a use after free or on a successor at the same address
shows.  Descriptors are edge triggered, as the code registers them, and what epoll
reports of one is a set of conditions (readable, writable, error, hang-up), from which
`FdEvent` makes what the callback is told, as fd.c does: an error or a hang-up hides
the rest.  Timer threads post at any time, while the loop executes tasks too.
`MaxTicks` bounds how many tasks of one object are on their way at once, not how many
come.  `missed` and `raced` are history: descriptors whose data nothing announces
any more, and tasks that were on their way when their object was deleted.  `Mailbox` is what
those who post may rely on: one row of tasks and cancellations, in which a task waits
its turn and a cancellation takes the first task with its id that stands before it.
The queue followed by the pipe is that row.

**Power.** Flora delivers one message at a time (`Deliver`), each handler being one
step; the loop's thread runs `power_idle_timeout_func` in steps, one flora call
each, and the main thread's start-up steps come between.  `kernel` and `known` are
what the kernel does with names written to `wake_lock` and `wake_unlock`.  The
history variables `early`, `astray` and `lost` record that a message came before
the set-up was over, that an application asked twice or gave up what it had not,
and that flora lost something: properties that need their absence say so.

**ThreadPool.** Program counters of workers and clients; who holds which mutex
follows from them (`PoolFree`, `TaskFree`, `ThrFree`).  Between `GetNoTask` and
`PushIdleThread` lies the gap in which a worker is neither at work nor idle.

**CircleStream.** One action per operation; `result` is its length, what it returned
and what read copied to the caller.  The bytes are consecutive numbers
modulo the capacity plus two, so that no two bytes in use are equal.  `Overrun`
says whether callers write past the end of the memory while the free space does
not reach it.

**VariableQueue.** One action per operation; `write` is split into its four ways
(straight, padded, split, refused).  Memory is an array of words: a word is a header
or the k-th word of a record's content, so that a record that is overwritten, split
wrongly or read from the wrong place shows.  The control block lives in the memory
and outlives the object (`attached`), as `reuse` relies on.  `result` is what the last
call gave its caller, with the length of a write that was refused.  `records` is history.
`RecordQueue` has no memory: a sequence of records, and how much of the room is used.
It refuses a length only when that length does not fit, or in continuous mode when it
takes more than half of what is free.

**NetManager.** `dev` holds the mode, the HAL's start flags, what really runs, and
`p_net->wifi_state`; `timer` the pointer `p_net->wifi_ap_timeout`, its flag, and which
timers exist, run, and have lost their one tick on a full pipe; `mon` the wifi event and
roam threads with the status they report; `wpa` as much of wpa_supplicant as the manager
sees, and whether it runs: the drivers of the HAL do not always notice when what they
start fails.  `pc` is where WIFI CONNECT is: it is the one command that takes several
steps, because it waits for the event thread and then for the outcome while other
threads go on.  Every other handler holds `func_mutex` from beginning to end and is one
step, its failures among its outcomes. `ticks` are callbacks on their way to the loop's
thread, `loop` the one it is in: the AP timeout's two steps are before and after it gets
`func_mutex`.  `fault` stops the model where the program's behaviour is undefined.  The
history variables `ap`, `raced`, `left`, `failed`, `modemRaced`, `blind` and `woke`
record which access point is whose, and the races the properties make an exception of;
each exception is listed under [Findings](#findings).

## Runs

Passing runs:

| Run | Instance | Shows |
|---|---|---|
| `prop_area` | 2 properties, 1 reader, values of different lengths that differ in every byte, 3 changes, `GenMod` = 2 | `NoTornRead`, `NoLostWakeup`, `NoStaleSleep`, `RestingValue`; `ReadReturns` and `WaitAnyReturns` under fairness |
| `prop_service` | 2 calls with any name and value, 2 boots, disk that may be full, files that cannot be read at boot | `PersistWhole`, `Saved`, `BootKeepsFiles`: the files, and that a reload is answered; `RoOnce`: memory; `RequestHandled`: a silent client holds nobody up |
| `eloop_objects` | a periodic timer and a descriptor with all four conditions, 2 incarnations each, pipe of 1, allocations that fail | `NoStaleUse`: what must be off before a timer or a descriptor may be deleted; `EdgeNotLost` |
| `eloop_posts` | a periodic timer with up to 2 ticks on their way and no bound on their number, a descriptor, pipe of 3, a cancellation | `FifoMailbox`: refinement of `Mailbox`; `PostedIsHandled`, `FdsAreServed`, `StopEnds` under fairness |
| `power` | 2 applications, 2 agents, any 5 messages | `HeldKeepsAwake`, `CountIsLocks` (the charger's lock included), `ForceSleepInTurn`, `DeepIdleOnlyWhenIdle`; `AgentsLeaveDeepIdle` under fairness |
| `thread_pool` | 2 workers, 3 tasks, 2 calls of finish or clear, 1 wake-up without cause | `OncePerTask`, `FinishLosesNothing`, `IdleAreWaiting`; `CallsReturn` under fairness |
| `circle_stream` | capacity 4, every length from 0 to 5 | `Agree`, `PeekedIsWritten`; `IsByteQueue`: refinement of `ByteQueue` |
| `variable_queue` | 20 bytes, lengths 0, 4, 7, 16 and 17, two contents, both modes | `Layout`, `AssertionsHold`; `IsRecordQueue`: refinement of `RecordQueue` |
| `net_manager` | wifi, access point and modem; boots with nothing or the access point; 4 commands or reports, 1 trouble, `FailedTimes` = 1 | `ModeMatchesDevices`, `TimerAccounted`, `TimeoutHitsItsOwn`; `OkIsThisNetwork`, `StatusTrue`; `CommandsAnswered` and `ApTimesOut` under fairness |

`TypeOK` is an invariant of its own in `prop_area` and proved for `CircleStream`;
elsewhere it is a conjunct of one invariant of the component (`PersistWhole`,
`NoStaleUse`, `CountIsLocks`, `OncePerTask`, `Layout`, `TimerAccounted`).  The three
runs that expect a violation are under [Findings](#findings).

Why the bounds are enough for what they are for:

* `prop_area`: with two generations the serial wraps on the second update, so a
  reader can be lapped in three changes, and `Lapped` excuses exactly that; two
  properties tell a wake-up for one from a wake-up for the other.  Readers do not
  touch shared state, so one is all of them; the theorems have any number.
* `prop_service`: each of the two calls may carry any kind of name, so any two
  kinds follow one another; the service keeps nothing between requests but memory
  and files.  The area has one place fewer than there are names, so it fills up.
  Two boots are one power failure between any two steps of boot or service.
  `ctl.` names take the path of illegal ones; `prop_service_ack` has both.
* `eloop_objects`: the pipe of one is full whenever the other object has posted; two
  incarnations at one address are what a stale pointer needs; each of the four
  conditions may come with any other.
* `eloop_posts`: the pipe holds a backlog of two ticks of the timer with the
  descriptor's task or a cancellation behind the one request that is read first, and
  the timer's thread posts again and again while the inner loop executes tasks.  The
  timer may also be started and stopped for ever, so that the behaviours in which ticks
  keep the loop busy are there, and so are those in which they end.
* `power`: the shortest way to forced sleep over a held lock (on, off, off, on,
  sleep) has five messages, and so have two overlapping locks that are both given up
  with the charger's lock taken between.
* `thread_pool`: one client, because push, finish and clear hold `poolMutex` from
  beginning to end, so that calls of several clients come one after the other; three
  tasks for two workers leave one that waits; a second finish or clear after the
  first shows that the pool starts again from nothing.
* `circle_stream`: there are no bounds but the capacity, and the state space is
  complete; four cells let every case (straight, wrapped, full, empty, exactly at
  the end) meet every length.
* `variable_queue`: the state space is complete.  Five words hold two records and a
  remainder, or one record of the full length; the lengths are zero, one word, more
  than one word by a part, the longest and one too long.  Two contents tell records
  apart, and are interchangeable, so that their symmetry is sound; the refinement it is
  used with is a safety property.
* `net_manager`: the timeout that hits a later access point needs three commands
  (start, stop, start) while a tick is on its way, the failed join two reports
  (`FailedTimes` is 3 in the code and only counted up to), and an access point that
  START_SCAN leaves its timer to, a third command to meet it.  A trouble is a HAL start that
  fails, with or without the HAL's noticing, an event thread that ends or gets a new
  socket, a request to disable the networks that is refused or gets no answer, a tick
  lost on libeloop's full pipe, a spurious wake-up or a tick of the modem's monitor: one
  at a time, against any order of the rest.  Ethernet is left out of the
  instance: its handlers are the modem's without the access point around them.

`CHECK_DEADLOCK FALSE` is given where the system really stops: the bounded sets of
calls, messages and events are used up, or the device is off.

## Fairness

Safety properties need none.  The others assume no more than this:

* `PropArea`: the writer finishes the change it began, and a reader that is inside
  a call is scheduled.  Both are threads that hold no lock and wait for nobody.
  Neither has to begin a call.  `ReadReturns` also needs that changes come to an
  end (`MaxOps`): a writer that never rests can keep a reader copying for ever.
* `PropService`: the service's thread is scheduled, and `poll` ends after two
  seconds.  Clients may stop anywhere, power need not fail.
* `Eloop`: the loop's thread is scheduled and callbacks return.  Nothing is assumed of
  the threads that post: a behaviour in which ticks come for ever faster than the loop
  takes them is allowed, and named in the properties (`Swamped`).
* `Power`: the loop's thread is scheduled and a flora call ends within its second.
* `ThreadPool`: threads are scheduled, tasks return, and a mutex that is free again
  and again is granted in the end (strong fairness of the two steps that take
  `poolMutex`).  Nobody has to call, no condition variable has to wake by itself.
* `NetManager`: a WIFI CONNECT that has begun goes on (its condition variable's
  timeout passes; a wpa_supplicant that runs grants the abort of a scan in the
  end), running timers expire, the loop's thread takes its ticks, and
  `func_mutex`, free again and again, is granted to the AP timeout in the end (strong
  fairness).  No report of wpa_supplicant and no command has to come.

## Findings

Each is a run in which TLC finds a behaviour of the code against what the
repository says of it.

* `prop_service_ack`, `AckMeansHandled`.  The service closes a connection on which
  no message came for two seconds.  A client that was preempted between connect and
  send and sends just then sees the close and takes it for the acknowledgement,
  though its message is never read.
* `thread_pool_finish`, `FinishReturns`.  A task pushed after the only worker found
  nothing to do and before it is on the idle list wakes nobody, and finish waits for
  it for ever.
* `circle_stream_overrun`, `PeekedIsWritten`.  A write that reaches past the end of
  the memory while unread bytes lie between back and the end overwrites them.

What else the models show, as the exceptions that passing properties have to make:

* Property area: a reader that is preempted while the writer makes as many changes as
  the serial has generations takes a torn copy for whole (`Lapped` in `NoTornRead`).
* Property service, saving: the results of `write()` and `fsync()` are not looked at, so
  that a failed one replaces a good file by one that is, or after a power failure may
  be, cut short (`short` in `PersistWhole` and `BootKeepsFiles`).  When the temporary
  file cannot be made or renamed, the client is told of success and the value is gone at
  the next boot (`behind` in `Saved`).  A power failure before the rename leaves a
  `.temp` file that nothing removes.
* Property service, loading: when the directory does not open, or a file does not open,
  cannot be examined or read, or has the wrong owner or mode, the flag is set and boot
  goes on.  Until the next set memory holds the default while the file holds the user's
  value, and the next set replaces that file (`skipped` in `Saved`).
* Property service, messages: a message that was given up by its client after 250 ms is
  still handled, and replaces what was set since.  `RequestHandled` only says that it
  is dealt with.
* libeloop, deletion: `scheduler_timer_delete` and `fd_handler_remove_fd` free the
  object and do not cancel what is on its way.  A task that was then in the pipe, in
  the queue, in the events buffer or with a thread that announces an expiration is
  executed on freed memory, or on the object that took its place (`raced` in
  `NoStaleUse`).
* libeloop, descriptors: an announcement of data is lost when the pipe is full or memory
  is short, and hidden when it comes with an error or a hang-up; as descriptors are
  edge triggered nothing announces the data again (`missed` in `EdgeNotLost`).
* libeloop, starvation: `syncer_process_queue` stays with the tasks until there are
  none.  A periodic timer whose callback takes longer than its period keeps it there:
  descriptors are not looked at and `eloop_stop` does not stop.  Ticks that come faster
  than the pipe can be read keep even the next task from being executed (`Swamped` in
  `FdsAreServed`, `StopEnds` and `PostedIsHandled`).
* Power: a lock asked for between subscription and `pm_wakelock_init` is forgotten,
  and a voice command at that time dereferences a timer that is not there yet
  (`early`, `crashed`).  Giving up a lock that is not held is counted down as long as
  the list is empty; the count becomes negative, the next lock brings it to zero, and
  forced sleep is obeyed while that lock is held (`astray` in `ForceSleepInTurn` and
  `CountIsLocks`).  A timeout that is already in its callback, or on its way there, when
  a voice or system message ends idle goes on to deep idle: the device is in deep idle
  and in use until the next message (`late` in `DeepIdleOnlyWhenIdle`).  An exit call
  that flora loses is not repeated, and its agent stays in deep idle (`lost` in
  `AgentsLeaveDeepIdle`).
* Thread pool: push wakes a worker with `taskMutex` held, and a worker whose wait
  ended by itself holds its own mutex and wants `taskMutex`: neither goes on (`spurs`
  in `CallsReturn`).
* Variable queue: `clear` makes a continuous queue one that splits, whatever it was
  created as; a continuous queue, an empty one too, may refuse a record that takes more
  than half of what is free (`RecordQueue!Refuse`); a record of length zero reads like
  no record.
* Network manager, the access point's timer: a timeout that is under way while its timer
  is deleted closes the next access point, or deletes a timer twice (`raced`).  The
  timer expires once: if libeloop's pipe is full then, the access point is never closed
  (`timer.lost` in `ApTimesOut`).
  START_SCAN, MODEM CONNECT and a failed start leave the timer without the access
  point, or with another (`left`).
* Network manager, devices: a HAL start that failed leaves its flag set, so that the
  next one is taken for done, and some failures (wpa_supplicant or hostapd exits) are
  reported as success (`failed` in `ModeMatchesDevices`); the modem's monitor restarts
  the modem without the lock, after MODEM DISCONNECT too (`modemRaced`); stopping a
  device that the board does not have writes through a null pointer (`StopAbsent`).
* Network manager, CONNECT: its wait has no predicate, so that it may end for no reason
  and find the result of an earlier join, which is OK at first (`woke`), and an event
  queued before the networks were disabled counts for the one asked for (`queued`).  A
  request to disable the networks that gets no answer is taken for done, and the network
  that was kept may answer for the one asked for (`kept`, all three in
  `OkIsThisNetwork`).  `g_wifi_monitor_open` may be set by an event thread that was
  cancelled and taken for the new one's: without a wpa_supplicant
  `wifi_disable_all_network` then asks for ever, with `func_mutex` held, and no later
  command is answered (`AsksForEver` in `CommandsAnswered`).  Failures of earlier joins
  are counted with this one's.  A command with bad arguments leaves the state at
  JOINING.
* Network manager, status: it is overwritten by the roam thread's old copy and by
  starting a monitor that runs, REENABLED is taken for connected, and an event thread
  that attaches a new socket after an error does not see what the old one held (`blind`
  in `StatusTrue`, until the next event).  An event thread that ended is never started
  again while its flag is set.

## Proofs

Every safety property of a passing run, the action properties and the three
refinements included, is a theorem: the run shows it on an instance, the theorem for
every value of the constants that the module's named assumption allows.  Where the
property is not inductive, the proof module defines an inductive invariant `IInv` as a
conjunction of named parts.
The bounds of the models (`MaxOps`, `MaxCalls`, `MaxInc` and the like) are constants
too, so that a theorem covers any number of operations.

**PropAreaProof** proves, from `BoundsAssumption` and `ValuesAssumption` (widths are
positive numbers, an area serial has two values at least, values fit the buffer)
and for any readers, properties, lengths and widths:

* `Typing`: `Spec => []TypeOK`;
* `ReadsAreWhole`: `Spec => []NoTornRead`;
* `ValuesAtRest`: `Spec => []RestingValue`;
* `WakeupsAreNotLost`: `Spec => []NoLostWakeup`;
* `CachesAreFresh`: `Spec => []NoStaleSleep`.

None but `TypeOK` is inductive.  `IInv` adds what the code relies on tacitly.
`WriterInv`: one property at most is dirty, namely the one being copied, and of it
the bytes already copied are the new value's.  `ReaderInv`: a reader that is copying
loaded the serial of the value it is copying; as many values have come since as the
generation moved round its ring (`After`), so that an equal serial means the same
value unless a whole round passed, and then everything copied so far is that value.
`AreaInv` does the same for the area serial and adds that a value the reader has not
seen is announced in the area serial or will be by the writer's next steps.  One
lemma for each conjunct goes through the actions; a frame lemma disposes of the
other readers.

**CircleStreamProof** proves, from `StreamAssumption` and `Overrun = FALSE`, for any
capacity and any lengths:

* `IndicesAgree`: `Spec => [](TypeOK /\ Agree)`.  The conjunction is inductive.  Each
  operation gets a lemma on plain numbers (`StraightAgrees`, `WrappedAgrees`,
  `ReadAgrees`) and one that says what the action does to the variables once the
  32-bit arithmetic is seen to be exact; so `_remain_size` never wraps.
* `PeekShowsTheStream`: `Spec => []PeekedIsWritten`.  `Stored` says that the cell at
  distance `Age` from front holds the byte sent at that place after what was read;
  the lemmas on `Age` say how the distance changes when front or back move.
* `StreamIsByteQueue`: `Spec => IsByteQueue`.  With `Stored` the content of the abstract
  queue, the cells from front on, is just the bytes sent and not taken yet (`Sent`), so
  that a write appends to it and a read takes its head whatever way round they lie.

That `Overrun = FALSE` is needed is what `circle_stream_overrun` shows.

**PowerProof** proves, from `PowerAssumption` and for any applications and agents and
any number of messages:

* `HeldLocksKeepAwake`: `Spec => []HeldKeepsAwake`;
* `CountsAreRight`: `Spec => []CountIsLocks`, which includes `TypeOK`;
* `ForcedSleepWaits`: `Spec => []ForceSleepInTurn`;
* `DeepIdleFollowsIdle`: `Spec => []DeepIdleOnlyWhenIdle`.

None is inductive.  `LockInv` adds that the charger's name is locked in the kernel
exactly while the charger is in; that, if no message came early, the list is the set of
those who hold a lock; and that, if nobody asked out of turn either, the service's name
is locked exactly while that set is not empty, and the count is the number of names the
kernel holds.  `IdleInv` adds that the idle timer runs only while the device is idle,
and that a tick or a callback under way in a device that is not idle is known to be
late.  The type invariant is proved in two halves, one for the Boolean variables
(`Flags`) and one for the sets and numbers (`Ranges`), as one prover is better at each.

**PropServiceProof** proves, from `ServiceAssumption` (the kinds of names are disjoint,
the values the code itself writes are values, `Absent` and `Torn` are not) and for any
names, values, defaults, files, clients and boots:

* `FilesAreWhole`: `Spec => []PersistWhole`, which includes `TypeOK`;
* `SetsAreSaved`: `Spec => []Saved`;
* `ReadOnlyIsSetOnce`: `Spec => RoOnce`;
* `BootingKeepsFiles`: `Spec => BootKeepsFiles`.

`IInv` is `TypeOK` with `Shape` (which set is in progress, of what kind of name, and for
whom), `Whole` (what is torn, in a file, in what it may fall back to, or in the
temporary file, came from a write that failed, and a temporary file is renamed only when
it was synced, or its property is in `short`), `Phase` (nothing is saved before the
defaults are done, and a file that is being loaded is saved as it is), `Agree` (memory
and file agree, but for the property that is being saved, the files that are not loaded
yet and those that were passed over) and `Reload` (a request to reload is being
answered).  A power failure keeps `IInv` because `Whole` speaks of both `disk` and
`older`.

**ThreadPoolProof** proves, from `PoolAssumption` and for any workers, clients, tasks and
calls:

* `TasksRunOnce`: `Spec => []OncePerTask`, which includes `TypeOK`;
* `FinishDiscardsNothing`: `Spec => []FinishLosesNothing`;
* `IdleThreadsWait`: `Spec => []IdleAreWaiting`.

`IInv` is the types (`Threads`, `Shape`) with `OneInside` (`poolMutex` has one holder),
`Clearing` (the threads clear has come past are joined, and finish comes to it with
nothing pending), `Idle` (a thread on the idle list waits, and the one push has picked
is on the list no more) and `Once` (what a task's callback was told says whether the
task is being pushed, is pending, or runs, and where it is, it is once).

**EloopProof** proves, from `EloopAssumption` and for any timers, descriptors, pipe and
events buffer:

* `DeletingIsSafe`: `Spec => []NoStaleUse`, which includes `TypeOK`;
* `AnnouncementsAreKept`: `Spec => []EdgeNotLost`;
* `LoopIsMailbox`: `Spec => FifoMailbox`.

`IInv` is `Shape`, `Existence` (a timer that runs and a descriptor that epoll watches
exist), `Fresh` (what points to an object, and was not on its way when an object was
deleted, points to the one that is there) and `EdgeNotLost`.  Most actions only move
tasks from one place to another: one lemma (`MovingMoves`) says for all of them that
nothing new comes up and nothing of a descriptor's goes missing.  For the refinement
five lemmas say what posting, moving, dropping, removing and finishing do to the row of
queue and pipe (`RowPost`, `RowMove`, `RowDrop`, `RowRemove`, `RowTail`); moving a
request from the pipe to the queue leaves the row as it is.

**VariableQueueProof** proves, from `QueueAssumption` (the memory is some words) and for
any number of words, lengths and calls, in both modes:

* `RecordsLieEndToEnd`: `Spec => []Layout`, which includes `TypeOK`;
* `AssertionsNeverFail`: `Spec => []AssertionsHold`;
* `QueueIsRecordQueue`: `Spec => IsRecordQueue`.

Positions are counted in words from front on (`Dist`), which turns the wrap-around into
plain order: `Places` says that each record ends before the next one begins and that the
last ends where the words in use do, `Contents` that the memory holds each record,
`Chain` that a reader who goes from one record to the next, over padding in continuous
mode, finds it.

**NetManagerProof** proves, from `NetManagerAssumption` and for any capacities, modes at
boot, commands, reports and troubles:

* `ModeIsWhatRuns`: `Spec => []ModeMatchesDevices`;
* `TimersAreAccounted`: `Spec => []TimerAccounted`, which includes `TypeOK`;
* `TimeoutsHitTheirOwn`: `Spec => TimeoutHitsItsOwn`;
* `OkIsForThisNetwork`: `Spec => []OkIsThisNetwork`;
* `StatusIsTrue`: `Spec => []StatusTrue`.

`IInv` is `Types`, `Devices` (mode, start flags and what runs, with what the modem's
monitor may be doing to them), `Accounted` (there is one timer or none, and every
callback on its way is that timer's or a race), `Asked` (once the networks are disabled
an event that wakes CONNECT is about the network asked for, or older, or about one that
was not disabled) and `Heard` (the last unread event that changes the status says what
the link is).  The proof found that guards of three `CASE` expressions of the model
overlapped; they are disjoint now.

Only model-checked is liveness, which needs fairness and `ENABLED`, and the prover
reasons about neither: `ReadReturns` and `WaitAnyReturns`, `RequestHandled`,
`PostedIsHandled`, `StopEnds` and `FdsAreServed`, `AgentsLeaveDeepIdle`, `CallsReturn`,
`CommandsAnswered` and `ApTimesOut`.  The violations under [Findings](#findings) are
counterexamples, not theorems.

## Assumptions and limits

* Memory fences do what the code's comments ask of them: accesses take effect in
  program order.  What a weaker memory model would do with a missing fence is not
  modelled.
* The trie of the property area is one set of names; permission checks succeed, as
  the functions in the repository always do.
* `.prop` files and the kernel command line are a constant sequence of sets.
* Temporary files left by a power failure are forgotten: the code never looks at them.
* libeloop's lists are unlocked although any thread may change them.  What a data
  race does to them is undefined, and the model assumes that it does not happen.
* The power HAL's files can be opened.  The kernel refuses to unlock only a name it
  never saw.
* Tasks of the pool do not call the pool, callbacks of the pool do nothing.  (`finish`
  holds `poolMutex` while it waits: a task that pushes then would never end.)
* Callers of the variable queue serialise their calls, and the memory they give it is
  a whole number of words: `write` asserts it, `create` and `reuse` do not look.
  Lengths near 2^32, where adding the header overflows, are left out, and so is a
  process that dies inside `write` before another calls `reuse`.
* Network manager.  At boot the HAL does not fail.  Left out: the scan timer, queries
  and reports, commands that only pass strings on, the ping thread, `network_sched`, and
  flora messages before `network_parm_init` is over.  The reply buffer that
  wpa_command.c shares between threads, and races on `wifi_state` inside a handler, are
  data races that are taken not to happen.  Two joins on their way to the loop are one.
  The twenty seconds of CONNECT's wait are over only after the loop, ten milliseconds
  later, ran the join, unless it is held up.  wpa_supplicant does not exit by itself
  once it has started.
* Flora is outside the repository: it delivers messages one at a time, may lose the
  connection once, and calls may fail or time out.

## Plan

Done: the eight components above, in the order of the table of modules, and proofs of
all their safety properties.  What is left:

1. `PropTrie`: find and add in the binary tries, concurrent with readers, as a
   refinement of the set `present` of `PropArea`; and `PropArea` as a refinement of
   an atomic register for each property.
2. Composition of `Eloop` and `Power`: the idle timer as a timer of libeloop.
3. Then battery, bluetooth profiles, input events and recovery, as far as the
   source says enough.
