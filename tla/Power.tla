-------------------------------- MODULE Power --------------------------------
(***************************************************************************)
(* The power manager (services/power) over its HAL (hardware/modules/      *)
(* power).                                                                 *)
(*                                                                         *)
(* Applications ask for wake locks, for sleep and for idle with flora      *)
(* messages.  Flora delivers them one at a time on a thread of its own, as *)
(* soon as the service has subscribed.  The service keeps the names of the *)
(* wake locks in a list and holds one kernel wake lock for all of them,    *)
(* another one while the charger is on line, and counts what it took.  A   *)
(* one minute timer of the event loop, whose callback runs on the loop's   *)
(* thread, takes an idle device to deep idle, telling other services       *)
(* before and after.                                                       *)
(***************************************************************************)
EXTENDS Integers, Sequences, FiniteSets

CONSTANTS
    Apps,           \* names of wake locks
    Agents,         \* the services told of deep idle, in order
    MaxMessages     \* bound: messages delivered

ASSUME PowerAssumption ==
    /\ MaxMessages \in Nat
    /\ Agents \in Seq(STRING)

PMS == "pm_service"
CHG == "charger"

VARIABLES
    start,      \* where pm_flora_handle is
    connected,  \* whether flora delivers
    list,       \* wakelock_list_head: names
    total,      \* partial_lock_total
    chg,        \* chg_flag: -1, 0 or 1
    kernel,     \* the kernel wake locks that are active
    known,      \* the kernel wake locks that were ever taken
    autosleep,  \* /sys/power/autosleep
    idle,       \* idle_status
    app,        \* appId # NULL
    hw,         \* what set_idle was last told: 0, 1 or 2
    timer,      \* the idle timer: "none", "off" or "armed"
    ticks,      \* its expirations posted to the event loop
    lpc,        \* where power_idle_timeout_func is
    agent,      \* the agent it calls next
    told,       \* told[k]: what agent k was last told
    crashed,    \* whether the service is gone
    messages,   \* messages delivered
    \* History variables.
    holders,    \* applications whose last message asked for a wake lock
    slept,      \* holders at the last forced sleep that was asked of the kernel
    late,       \* idle was left with the timeout already on its way
    early,      \* a message came before the service was set up
    astray,     \* an application asked for a lock it had, or gave up one it
                \* had not
    lost        \* flora lost the connection, or a call

locks  == <<list, total, chg, kernel, known>>
idling == <<idle, app, hw, timer>>
timing == <<ticks, lpc, agent, told>>
faults == <<early, astray, lost>>
vars == <<start, connected, list, total, chg, kernel, known, autosleep, idle, app,
          hw, timer, ticks, lpc, agent, told, crashed, messages, holders, slept,
          late, early, astray, lost>>

Init ==
    /\ start = "connect" /\ connected = FALSE
    /\ list = {} /\ total = 0 /\ chg = -1
    /\ kernel = {} /\ known = {} /\ autosleep = FALSE
    /\ idle = FALSE /\ app = FALSE /\ hw = 0
    /\ timer = "none" /\ ticks = 0
    /\ lpc = "wait" /\ agent = 1
    /\ told = [k \in DOMAIN Agents |-> "exit"]
    /\ crashed = FALSE /\ messages = 0
    /\ holders = {} /\ slept = {} /\ late = FALSE
    /\ early = FALSE /\ astray = FALSE /\ lost = FALSE

-----------------------------------------------------------------------------
(* power.c over the HAL: each wake lock is a name written to a file.       *)

\* Writing to wake_lock and wake_unlock.  The kernel refuses to unlock only a
\* name it has never seen.
AcquireWakeLock(id) ==
    /\ kernel' = kernel \cup {id}
    /\ known' = known \cup {id}

ReleaseWakeLock(id) ==
    /\ kernel' = kernel \ {id}
    /\ UNCHANGED known

\* Mutant: the lock is counted and not taken.
RequestCountOnly(id) ==
    /\ total' = total + 1
    /\ UNCHANGED <<kernel, known>>

\* power_wakelock_request: counted each time it succeeds.
Request(id) ==
    /\ AcquireWakeLock(id)
    /\ total' = total + 1

\* power_wakelock_release: counted down only if the kernel took it.
Release(id) ==
    /\ ReleaseWakeLock(id)
    /\ total' = IF id \in known THEN total - 1 ELSE total

\* power_lock_state_poll() == NO_LOCK_STATE; full_lock_total stays zero.
NoLock == total <= 0

\* pm_wakelock_add and pm_wakelock_del: the names, each once.
ListAdd(a) == list \cup {a}
ListDel(a) == list \ {a}

-----------------------------------------------------------------------------
(* Messages: pm_service_command_callback and its handlers.                 *)

\* Mutant: whoever gives up a lock, the kernel's goes.
WakelockOffAny(a) ==
    /\ astray' = (astray \/ a \notin holders)
    /\ list' = ListDel(a)
    /\ Release(PMS)
    /\ holders' = holders \ {a}
    /\ UNCHANGED <<chg, autosleep, idling, ticks, crashed, slept, late>>

\* The kernel's lock if that makes, or leaves, one name.
WakelockOn(a) ==
    /\ astray' = (astray \/ a \in holders)
    /\ list' = ListAdd(a)
    /\ IF Cardinality(list') = 1 THEN Request(PMS) ELSE UNCHANGED <<kernel, known, total>>
    /\ holders' = holders \cup {a}
    /\ UNCHANGED <<chg, autosleep, idling, ticks, crashed, slept, late>>

\* The kernel's lock if there is no name left, whether or
\* not this one was there.
WakelockOff(a) ==
    /\ astray' = (astray \/ a \notin holders)
    /\ list' = ListDel(a)
    /\ IF list' = {} THEN Release(PMS) ELSE UNCHANGED <<kernel, known, total>>
    /\ holders' = holders \ {a}
    /\ UNCHANGED <<chg, autosleep, idling, ticks, crashed, slept, late>>

\* pm_battery_command_handle.
Battery(online) ==
    /\ \/ online /\ chg # 1 /\ chg' = 1 /\ Request(CHG)
       \/ ~online /\ chg = 1 /\ chg' = 0 /\ Release(CHG)
       \/ (online <=> chg = 1) /\ UNCHANGED <<chg, kernel, known, total>>
    /\ UNCHANGED <<list, autosleep, idling, ticks, crashed, holders, slept, late, astray>>

\* pm_autosleep_command_handle.
Autosleep(on) ==
    /\ autosleep' = on
    /\ UNCHANGED <<locks, idling, ticks, crashed, holders, slept, late, astray>>

\* Mutant: the kernel is not asked about.
ForceSleepAlways ==
    /\ slept' = holders
    /\ UNCHANGED <<locks, autosleep, idling, ticks, crashed, holders, late, astray>>

\* pm_sleep_command_handle: refused, silently, while a lock is counted.
ForceSleep ==
    /\ slept' = IF NoLock THEN holders ELSE slept
    /\ UNCHANGED <<locks, autosleep, idling, ticks, crashed, holders, late, astray>>

\* pm_idle_entry.  The timer's address is 0 until it was added.
IdleEnter ==
    IF idle THEN UNCHANGED <<idle, hw, timer, crashed, late>>
    ELSE /\ hw' = 1
         /\ idle' = TRUE
         /\ timer' = IF timer = "none" THEN "none" ELSE "armed"
         /\ crashed' = (timer = "none")
         /\ late' = FALSE

\* Mutant: the timer goes on.
IdleExitRunning ==
    IF ~idle THEN UNCHANGED <<idle, hw, timer, crashed, late>>
    ELSE /\ hw' = 0
         /\ idle' = FALSE
         /\ late' = (late \/ ticks > 0 \/ lpc # "wait")
         /\ UNCHANGED <<timer, crashed>>

IdleExit ==
    IF ~idle THEN UNCHANGED <<idle, hw, timer, crashed, late>>
    ELSE /\ hw' = 0
         /\ idle' = FALSE
         /\ timer' = IF timer = "none" THEN "none" ELSE "off"
         /\ crashed' = (timer = "none")
         /\ late' = (late \/ ticks > 0 \/ lpc # "wait")

VoiceComing ==
    /\ IdleExit
    /\ UNCHANGED <<locks, autosleep, app, ticks, holders, slept, astray>>

VoiceEnd ==
    /\ IF app THEN UNCHANGED <<idle, hw, timer, crashed, late>> ELSE IdleEnter
    /\ UNCHANGED <<locks, autosleep, app, ticks, holders, slept, astray>>

SysStatus(busy) ==
    /\ IF busy THEN IdleExit ELSE IdleEnter
    /\ app' = busy
    /\ UNCHANGED <<locks, autosleep, ticks, holders, slept, astray>>

Deliver ==
    /\ connected /\ ~crashed /\ messages < MaxMessages
    /\ early' = (early \/ start # "run")
    /\ messages' = messages + 1
    /\ \/ \E a \in Apps : WakelockOn(a) \/ WakelockOff(a)
       \/ \E b \in BOOLEAN : Battery(b) \/ Autosleep(b) \/ SysStatus(b)
       \/ ForceSleep \/ VoiceComing \/ VoiceEnd
    /\ UNCHANGED <<start, connected, lpc, agent, told, lost>>

\* The service never connects again.
Disconnect ==
    /\ connected
    /\ connected' = FALSE /\ lost' = TRUE
    /\ UNCHANGED <<start, locks, autosleep, idling, timing, crashed, messages, holders,
                   slept, late, early, astray>>

-----------------------------------------------------------------------------
(* pm_flora_handle: connect and subscribe, then set up, then eloop_run.    *)

Connect ==
    /\ start = "connect"
    /\ start' = "init" /\ connected' = TRUE
    /\ UNCHANGED <<locks, autosleep, idling, timing, crashed, messages, holders, slept,
                   late, faults>>

WakelockInit ==
    /\ start = "init" /\ ~crashed
    /\ start' = "timer" /\ list' = {}
    /\ UNCHANGED <<connected, total, chg, kernel, known, autosleep, idling, timing,
                   crashed, messages, holders, slept, late, faults>>

TimerAdd ==
    /\ start = "timer" /\ ~crashed
    /\ start' = "idle" /\ timer' = "off"
    /\ UNCHANGED <<connected, locks, autosleep, idle, app, hw, timing, crashed, messages,
                   holders, slept, late, faults>>

FirstIdle ==
    /\ start = "idle" /\ ~crashed
    /\ start' = "run"
    /\ IdleEnter
    /\ UNCHANGED <<connected, locks, autosleep, app, timing, messages, holders, slept, faults>>

-----------------------------------------------------------------------------
(* The idle timer and its callback on the event loop's thread.             *)

Expire ==
    /\ timer = "armed" /\ ~crashed
    /\ timer' = "off"
    /\ ticks' = ticks + 1
    /\ UNCHANGED <<start, connected, locks, autosleep, idle, app, hw, lpc, agent, told,
                   crashed, messages, holders, slept, late, faults>>

TimeoutBegin ==
    /\ start = "run" /\ lpc = "wait" /\ ticks > 0 /\ ~crashed
    /\ ticks' = ticks - 1
    /\ lpc' = "enter" /\ agent' = 1
    /\ UNCHANGED <<start, connected, locks, autosleep, idling, told, crashed, messages,
                   holders, slept, late, faults>>

\* flora_cli_call, for at most a second: an agent that does not answer in time
\* is only logged, and may or may not have heard.
CallAgent(what) ==
    /\ lpc = what /\ agent <= Len(Agents) /\ ~crashed
    /\ \/ connected /\ told' = [told EXCEPT ![agent] = what] /\ UNCHANGED lost
       \/ lost' = TRUE /\ UNCHANGED told
    /\ agent' = agent + 1
    /\ UNCHANGED <<start, connected, locks, autosleep, idling, ticks, lpc, crashed,
                   messages, holders, slept, late, early, astray>>

\* Mutant: the agents are left as they are.
DeepIdleOnly ==
    /\ lpc = "enter" /\ agent > Len(Agents) /\ ~crashed
    /\ hw' = 2
    /\ lpc' = "wait" /\ agent' = 1
    /\ UNCHANGED <<start, connected, locks, autosleep, idle, app, timer, ticks, told,
                   crashed, messages, holders, slept, late, faults>>

\* power_deep_idle_enter, whatever idle_status says by now.
DeepIdle ==
    /\ lpc = "enter" /\ agent > Len(Agents) /\ ~crashed
    /\ hw' = 2
    /\ lpc' = "exit" /\ agent' = 1
    /\ UNCHANGED <<start, connected, locks, autosleep, idle, app, timer, ticks, told,
                   crashed, messages, holders, slept, late, faults>>

TimeoutEnd ==
    /\ lpc = "exit" /\ agent > Len(Agents) /\ ~crashed
    /\ lpc' = "wait" /\ agent' = 1
    /\ UNCHANGED <<start, connected, locks, autosleep, idling, ticks, told, crashed,
                   messages, holders, slept, late, faults>>

Loop == TimeoutBegin \/ CallAgent("enter") \/ DeepIdle \/ CallAgent("exit") \/ TimeoutEnd

Next ==
    \/ Connect \/ WakelockInit \/ TimerAdd \/ FirstIdle
    \/ Deliver \/ Disconnect \/ Expire \/ Loop

Spec == Init /\ [][Next]_vars

\* The loop's thread is scheduled, and a call returns within a second.
FairSpec == Spec /\ WF_vars(Loop)

-----------------------------------------------------------------------------
TypeOK ==
    /\ start \in {"connect", "init", "timer", "idle", "run"}
    /\ connected \in BOOLEAN /\ autosleep \in BOOLEAN /\ crashed \in BOOLEAN
    /\ idle \in BOOLEAN /\ app \in BOOLEAN /\ late \in BOOLEAN
    /\ early \in BOOLEAN /\ astray \in BOOLEAN /\ lost \in BOOLEAN
    /\ list \subseteq Apps /\ holders \subseteq Apps /\ slept \subseteq Apps
    /\ total \in Int /\ chg \in {-1, 0, 1}
    /\ kernel \subseteq known /\ known \subseteq {PMS, CHG}
    /\ hw \in 0..2 /\ timer \in {"none", "off", "armed"} /\ ticks \in Nat
    /\ lpc \in {"wait", "enter", "exit"} /\ agent \in 1..Len(Agents) + 1
    /\ told \in [DOMAIN Agents -> {"enter", "exit"}]
    /\ messages \in 0..MaxMessages

\* As long as an application has asked for a wake lock and not given it up, the
\* kernel's lock is held: with autosleep on, the device stays awake
\* (README.md: the service manages the applications' locks and takes one lock
\* from the kernel for all of them, keeping the system from sleeping).  A lock
\* asked for before pm_wakelock_init may be forgotten.
HeldKeepsAwake == holders # {} /\ ~early => PMS \in kernel

\* The charger's lock is held exactly while the charger was last seen on line,
\* and the count is the number of kernel locks held, which is what
\* power_lock_state_poll takes it for, as long as applications ask and give up
\* in turn.
CountIsLocks ==
    /\ TypeOK
    /\ CHG \in kernel <=> chg = 1
    /\ ~early /\ ~astray => total = Cardinality(kernel)

\* Forced sleep looks at the count of locks, not at the list: still nobody who
\* asked for a wake lock is put to sleep (README.md: an application asks for a
\* wake lock to keep the system from sleeping), as long as applications ask and
\* give up in turn.
ForceSleepInTurn == ~early /\ ~astray => slept = {}

\* A device that is not idle is in deep idle only if idle was left when the
\* timeout was already on its way to, or in, its callback.
DeepIdleOnlyWhenIdle == hw = 2 /\ ~idle => late

\* An agent that was told to enter deep idle is told to leave it, as long as
\* calls arrive.
AgentsLeaveDeepIdle ==
    \A k \in DOMAIN Agents : told[k] = "enter" ~> (told[k] = "exit" \/ crashed \/ lost)
=============================================================================
