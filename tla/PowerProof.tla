----------------------------- MODULE PowerProof -----------------------------
(***************************************************************************)
(* Proofs about the power manager, for any set of applications, any list   *)
(* of agents and any number of messages.                                   *)
(*                                                                         *)
(* None of the properties is inductive.  Wake locks: the list is the set of*)
(* holders once the service is set up, and the kernel's lock is held       *)
(* exactly for it (LockInv).  Idle: a tick, or a callback, that is under   *)
(* way in a device that is not idle is known to be late (IdleInv).         *)
(***************************************************************************)
EXTENDS Power, FiniteSetTheorems, TLAPS

holding == <<list, total, chg, kernel, known, holders, slept, astray>>

\* The service was set up before the first message.
InTime == ~early /\ start # "run" => holders = {}

\* What the service believes of the locks.
ListIsHolders == ~early => list = holders
TurnInv ==
    ~early /\ ~astray =>
        /\ PMS \in kernel <=> holders # {}
        /\ total = Cardinality(kernel)
        /\ slept = {}

LockInv ==
    /\ IsFiniteSet(list)
    /\ CHG \in kernel <=> chg = 1
    /\ InTime /\ ListIsHolders /\ HeldKeepsAwake /\ TurnInv

\* What is under way while the device is not idle is known to be late.
IdleInv ==
    /\ timer = "armed" => idle
    /\ ~idle /\ (hw = 2 \/ ticks > 0 \/ lpc # "wait") => late

-----------------------------------------------------------------------------
(* Types.  Flags and ranges are apart because different provers see to     *)
(* them.                                                                   *)

Flags ==
    /\ connected \in BOOLEAN /\ autosleep \in BOOLEAN /\ crashed \in BOOLEAN
    /\ idle \in BOOLEAN /\ app \in BOOLEAN /\ late \in BOOLEAN
    /\ early \in BOOLEAN /\ astray \in BOOLEAN /\ lost \in BOOLEAN

Ranges ==
    /\ start \in {"connect", "init", "timer", "idle", "run"}
    /\ list \subseteq Apps /\ holders \subseteq Apps /\ slept \subseteq Apps
    /\ total \in Int /\ chg \in {-1, 0, 1}
    /\ kernel \subseteq known /\ known \subseteq {PMS, CHG}
    /\ hw \in 0..2 /\ timer \in {"none", "off", "armed"} /\ ticks \in Nat
    /\ lpc \in {"wait", "enter", "exit"} /\ agent \in 1..Len(Agents) + 1
    /\ told \in [DOMAIN Agents -> {"enter", "exit"}]
    /\ messages \in 0..MaxMessages

LEMMA TypesInit == Init => Flags /\ Ranges
  <1>1. Init => Flags
    BY Zenon DEF Init, Flags
  <1>2. Init => Ranges
    BY PowerAssumption DEF PowerAssumption, Init, Ranges
  <1> QED BY <1>1, <1>2

LEMMA FlagsStep == Flags /\ [Next]_vars => Flags'
  <1> SUFFICES ASSUME Flags, [Next]_vars PROVE Flags'
    OBVIOUS
  <1> USE DEF Flags, locks, idling, timing, faults
  <1>1. ASSUME IdleEnter \/ IdleExit
        PROVE  idle' \in BOOLEAN /\ crashed' \in BOOLEAN /\ late' \in BOOLEAN
    BY <1>1, Zenon DEF IdleEnter, IdleExit
  <1>2. CASE Connect \/ WakelockInit \/ TimerAdd \/ Disconnect \/ Expire
    BY <1>2, ZenonT(60) DEF Connect, WakelockInit, TimerAdd, Disconnect, Expire
  <1>3. CASE FirstIdle
    BY <1>1, <1>3, Zenon DEF FirstIdle
  <1>4. CASE Deliver
    <2>0. early' \in BOOLEAN /\ connected' \in BOOLEAN /\ lost' \in BOOLEAN
      BY <1>4, Zenon DEF Deliver
    <2>1. ASSUME NEW a \in Apps, WakelockOn(a) \/ WakelockOff(a) PROVE Flags'
      BY <2>0, <2>1, Zenon DEF WakelockOn, WakelockOff
    <2>2. ASSUME NEW b \in BOOLEAN, Battery(b) \/ Autosleep(b) PROVE Flags'
      BY <2>0, <2>2, Zenon DEF Battery, Autosleep
    <2>3. ASSUME NEW b \in BOOLEAN, SysStatus(b) PROVE Flags'
      BY <1>1, <2>0, <2>3, Zenon DEF SysStatus
    <2>4. CASE ForceSleep
      BY <2>0, <2>4, Zenon DEF ForceSleep
    <2>5. CASE VoiceComing \/ VoiceEnd
      BY <1>1, <2>0, <2>5, Zenon DEF VoiceComing, VoiceEnd
    <2> QED BY <1>4, <2>1, <2>2, <2>3, <2>4, <2>5, Zenon DEF Deliver
  <1>5. CASE TimeoutBegin \/ DeepIdle \/ TimeoutEnd
    BY <1>5, Zenon DEF TimeoutBegin, DeepIdle, TimeoutEnd
  <1>6. ASSUME NEW what \in {"enter", "exit"}, CallAgent(what) PROVE Flags'
    BY <1>6, Zenon DEF CallAgent
  <1>7. CASE UNCHANGED vars
    BY <1>7, Zenon DEF vars
  <1> QED BY <1>2, <1>3, <1>4, <1>5, <1>6, <1>7, Zenon DEF Next, Loop

LEMMA RangesStep == Ranges /\ [Next]_vars => Ranges'
  <1> SUFFICES ASSUME Ranges, [Next]_vars PROVE Ranges'
    OBVIOUS
  <1> USE PowerAssumption DEF PowerAssumption, Ranges, locks, idling, timing, faults
  <1>1. ASSUME IdleEnter \/ IdleExit
        PROVE  hw' \in 0..2 /\ timer' \in {"none", "off", "armed"}
    BY <1>1 DEF IdleEnter, IdleExit
  <1>2. CASE Connect \/ WakelockInit \/ TimerAdd \/ Disconnect \/ Expire
    BY <1>2, SMTT(30) DEF Connect, WakelockInit, TimerAdd, Disconnect, Expire
  <1>3. CASE FirstIdle
    BY <1>1, <1>3 DEF FirstIdle
  <1>4. CASE Deliver
    <2>0. /\ messages' \in 0..MaxMessages
          /\ UNCHANGED <<start, connected, lpc, agent, told, lost>>
      BY <1>4 DEF Deliver
    <2>1. ASSUME NEW a \in Apps, WakelockOn(a) \/ WakelockOff(a) PROVE Ranges'
      BY <2>0, <2>1 DEF WakelockOn, WakelockOff, ListAdd, ListDel, Request, Release,
                        AcquireWakeLock, ReleaseWakeLock
    <2>2. ASSUME NEW b \in BOOLEAN, Battery(b) PROVE Ranges'
      BY <2>0, <2>2 DEF Battery, Request, Release, AcquireWakeLock, ReleaseWakeLock
    <2>3. ASSUME NEW b \in BOOLEAN, Autosleep(b) \/ ForceSleep PROVE Ranges'
      BY <2>0, <2>3 DEF Autosleep, ForceSleep
    <2>4. ASSUME NEW b \in BOOLEAN, SysStatus(b) PROVE Ranges'
      BY <1>1, <2>0, <2>4 DEF SysStatus
    <2>5. CASE VoiceComing \/ VoiceEnd
      BY <1>1, <2>0, <2>5 DEF VoiceComing, VoiceEnd
    <2> QED BY <1>4, <2>1, <2>2, <2>3, <2>4, <2>5 DEF Deliver
  <1>5. CASE TimeoutBegin \/ DeepIdle \/ TimeoutEnd
    BY <1>5 DEF TimeoutBegin, DeepIdle, TimeoutEnd
  <1>6. ASSUME NEW what \in {"enter", "exit"}, CallAgent(what) PROVE Ranges'
    BY <1>6 DEF CallAgent
  <1>7. CASE UNCHANGED vars
    BY <1>7 DEF vars
  <1> QED BY <1>2, <1>3, <1>4, <1>5, <1>6, <1>7 DEF Next, Loop

-----------------------------------------------------------------------------
(* Idle and deep idle.                                                     *)

LEMMA IdleInit == Init => IdleInv
  BY DEF Init, IdleInv

LEMMA IdleStep == Ranges /\ IdleInv /\ [Next]_vars => IdleInv'
  <1> SUFFICES ASSUME Ranges, IdleInv, [Next]_vars PROVE IdleInv'
    OBVIOUS
  <1> USE DEF Ranges, IdleInv, locks, idling, timing, faults
  <1>1. ASSUME IdleEnter \/ IdleExit \/ UNCHANGED <<idle, hw, timer, crashed, late>>,
               UNCHANGED <<ticks, lpc>>
        PROVE  IdleInv'
    <2>1. CASE UNCHANGED <<idle, hw, timer, crashed, late>>
      BY <1>1, <2>1
    <2>2. CASE IdleEnter /\ ~idle
      <3>1. idle'
        BY <2>2, Zenon DEF IdleEnter
      <3> QED BY <3>1
    <2>3. CASE IdleExit /\ idle
      <3>1. late' <=> late \/ ticks > 0 \/ lpc # "wait"
        BY <2>3, Zenon DEF IdleExit
      <3>2. hw' = 0 /\ timer' # "armed"
        BY <2>3 DEF IdleExit
      <3> QED BY <1>1, <3>1, <3>2
    <2> QED BY <1>1, <2>1, <2>2, <2>3, Zenon DEF IdleEnter, IdleExit
  <1>2. ASSUME Connect \/ WakelockInit \/ TimerAdd \/ Disconnect PROVE IdleInv'
    BY <1>2 DEF Connect, WakelockInit, TimerAdd, Disconnect
  <1>3. ASSUME FirstIdle PROVE IdleInv'
    BY <1>1, <1>3 DEF FirstIdle
  <1>4. ASSUME Deliver PROVE IdleInv'
    <2>1. /\ UNCHANGED <<ticks, lpc>>
          /\ IdleEnter \/ IdleExit \/ UNCHANGED <<idle, hw, timer, crashed, late>>
      BY <1>4 DEF Deliver, WakelockOn, WakelockOff, Battery, Autosleep, SysStatus,
                  ForceSleep, VoiceComing, VoiceEnd
    <2> QED BY <1>1, <2>1
  <1>5. ASSUME Expire \/ TimeoutBegin \/ DeepIdle \/ TimeoutEnd PROVE IdleInv'
    BY <1>5 DEF Expire, TimeoutBegin, DeepIdle, TimeoutEnd
  <1>6. ASSUME NEW what \in {"enter", "exit"}, CallAgent(what) PROVE IdleInv'
    BY <1>6 DEF CallAgent
  <1>7. ASSUME UNCHANGED vars PROVE IdleInv'
    BY <1>7 DEF vars
  <1> QED BY <1>2, <1>3, <1>4, <1>5, <1>6, <1>7 DEF Next, Loop

\* power_idle_timeout_func takes a device that is not idle to deep idle only when
\* idle was left too late to stop it, for any number of messages and agents.
THEOREM DeepIdleFollowsIdle == Spec => []DeepIdleOnlyWhenIdle
  <1>1. IdleInv => DeepIdleOnlyWhenIdle
    BY DEF IdleInv, DeepIdleOnlyWhenIdle
  <1> QED BY <1>1, TypesInit, RangesStep, IdleInit, IdleStep, PTL DEF Spec

-----------------------------------------------------------------------------
(* Wake locks.                                                             *)

LEMMA LockInit == Init => LockInv
  BY FS_EmptySet DEF Init, LockInv, InTime, ListIsHolders, HeldKeepsAwake, TurnInv,
                     PMS, CHG

\* The two kernel locks are few enough to be counted.
LEMMA KernelCount ==
    ASSUME Ranges, NEW id
    PROVE  /\ IsFiniteSet(kernel) /\ Cardinality(kernel) \in Nat
           /\ Cardinality(kernel) = 0 => kernel = {}
           /\ id \notin kernel => Cardinality(kernel \cup {id}) = Cardinality(kernel) + 1
           /\ id \in kernel => Cardinality(kernel \ {id}) = Cardinality(kernel) - 1
           /\ id \in kernel => Cardinality(kernel) > 0
  <1>1. IsFiniteSet({}) /\ IsFiniteSet({PMS}) /\ IsFiniteSet({PMS, CHG})
    <2>1. IsFiniteSet({}) /\ IsFiniteSet({} \cup {PMS})
      BY FS_EmptySet, FS_AddElement
    <2>2. {} \cup {PMS} = {PMS} /\ {PMS} \cup {CHG} = {PMS, CHG}
      OBVIOUS
    <2> QED BY <2>1, <2>2, FS_AddElement
  <1>2. IsFiniteSet(kernel)
    BY <1>1, FS_Subset DEF Ranges
  <1>3. Cardinality(kernel) \in Nat
    BY <1>2, FS_CardinalityType
  <1>4. Cardinality(kernel) = 0 <=> kernel = {}
    BY <1>2, FS_EmptySet
  <1>5. id \notin kernel => Cardinality(kernel \cup {id}) = Cardinality(kernel) + 1
    BY <1>2, FS_AddElement
  <1>6. id \in kernel => Cardinality(kernel \ {id}) = Cardinality(kernel) - 1
    BY <1>2, FS_RemoveElement
  <1>7. id \in kernel => Cardinality(kernel) > 0
    BY <1>3, <1>4
  <1> QED BY <1>2, <1>3, <1>4, <1>5, <1>6, <1>7

\* pm_wakelock_add leaves one name only if there was no other.
LEMMA OneName ==
    ASSUME IsFiniteSet(list), NEW a
    PROVE  /\ IsFiniteSet(list \cup {a}) /\ IsFiniteSet(list \ {a})
           /\ Cardinality(list \cup {a}) = 1 <=> list \subseteq {a}
  <1>1. IsFiniteSet(list \cup {a}) /\ IsFiniteSet(list \ {a})
    BY FS_AddElement, FS_RemoveElement
  <1>2. Cardinality(list \cup {a}) = 1 <=> \E x : list \cup {a} = {x}
    BY <1>1, FS_Singleton
  <1>3. (\E x : list \cup {a} = {x}) <=> list \subseteq {a}
    OBVIOUS
  <1> QED BY <1>1, <1>2, <1>3

LEMMA LockStep == Ranges /\ LockInv /\ [Next]_vars => LockInv'
  <1> SUFFICES ASSUME Ranges, LockInv, [Next]_vars PROVE LockInv'
    OBVIOUS
  <1> USE DEF LockInv, InTime, ListIsHolders, HeldKeepsAwake, TurnInv
  <1>1. ASSUME UNCHANGED holding, UNCHANGED early, start' = start \/ start' = "run"
               \/ start # "run"
        PROVE  LockInv'
    BY <1>1 DEF holding
  <1>2. CASE Connect \/ TimerAdd \/ FirstIdle
    BY <1>1, <1>2 DEF Connect, TimerAdd, FirstIdle, locks, faults, holding
  <1>3. CASE WakelockInit
    BY <1>3, FS_EmptySet DEF WakelockInit, faults
  <1>4. CASE Deliver
    <2>0. start' = start /\ (early' <=> early \/ start # "run")
      BY <1>4 DEF Deliver
    <2>1. ASSUME NEW a \in Apps, WakelockOn(a) PROVE LockInv'
      <3> USE DEF WakelockOn, ListAdd, Request, AcquireWakeLock, PMS, CHG
      <3>1. /\ list' = list \cup {a} /\ holders' = holders \cup {a}
            /\ slept' = slept /\ chg' = chg
            /\ astray' <=> astray \/ a \in holders
        BY <2>1
      <3>2. IsFiniteSet(list') /\ (Cardinality(list') = 1 <=> list \subseteq {a})
        BY <3>1, OneName
      <3>3. CASE list \subseteq {a}
        <4>1. kernel' = kernel \cup {PMS} /\ total' = total + 1
          BY <2>1, <3>2, <3>3
        <4> QED BY <2>0, <3>1, <3>2, <3>3, <4>1, KernelCount
      <3>4. CASE ~(list \subseteq {a})
        <4>1. kernel' = kernel /\ total' = total
          BY <2>1, <3>2, <3>4
        <4> QED BY <2>0, <3>1, <3>2, <3>4, <4>1
      <3> QED BY <3>3, <3>4
    <2>2. ASSUME NEW a \in Apps, WakelockOff(a) PROVE LockInv'
      <3> USE DEF WakelockOff, ListDel, Release, ReleaseWakeLock, PMS, CHG
      <3>1. /\ list' = list \ {a} /\ holders' = holders \ {a}
            /\ slept' = slept /\ chg' = chg
            /\ astray' <=> astray \/ a \notin holders
        BY <2>2
      <3>2. IsFiniteSet(list')
        BY <3>1, OneName
      <3>3. CASE list' = {}
        <4>1. /\ kernel' = kernel \ {PMS}
              /\ PMS \in kernel => total' = total - 1
          BY <2>2, <3>3 DEF Ranges
        <4> QED BY <2>0, <3>1, <3>2, <3>3, <4>1, KernelCount
      <3>4. CASE list' # {}
        <4>1. kernel' = kernel /\ total' = total
          BY <2>2, <3>4
        <4> QED BY <2>0, <3>1, <3>2, <3>4, <4>1
      <3> QED BY <3>3, <3>4
    <2>3. ASSUME NEW b \in BOOLEAN, Battery(b) PROVE LockInv'
      <3> USE DEF Battery, Request, Release, AcquireWakeLock, ReleaseWakeLock, PMS, CHG
      <3>1. UNCHANGED <<list, holders, slept, astray>>
        BY <2>3
      <3>2. CASE chg # 1 /\ chg' = 1 /\ Request(CHG)
        BY <2>0, <3>1, <3>2, KernelCount
      <3>3. CASE chg = 1 /\ chg' = 0 /\ Release(CHG)
        <4>1. kernel' = kernel \ {CHG} /\ total' = total - 1
          BY <3>3 DEF Ranges
        <4> QED BY <2>0, <3>1, <3>3, <4>1, KernelCount
      <3>4. CASE UNCHANGED <<chg, kernel, known, total>>
        BY <2>0, <3>1, <3>4
      <3> QED BY <2>3, <3>2, <3>3, <3>4
    <2>4. CASE ForceSleep
      <3>1. ~early /\ ~astray /\ NoLock => holders = {}
        <4>1. Cardinality(kernel) \in Nat /\ (PMS \in kernel => Cardinality(kernel) > 0)
          BY KernelCount
        <4> QED BY <4>1 DEF NoLock
      <3> QED BY <2>0, <2>4, <3>1 DEF ForceSleep, locks
    <2>5. ASSUME UNCHANGED holding PROVE LockInv'
      BY <2>0, <2>5 DEF holding
    <2> QED
      BY <1>4, <2>1, <2>2, <2>3, <2>4, <2>5
         DEF Deliver, Autosleep, SysStatus, VoiceComing, VoiceEnd, locks, holding
  <1>5. CASE Disconnect \/ Expire \/ TimeoutBegin \/ DeepIdle \/ TimeoutEnd
    BY <1>1, <1>5 DEF Disconnect, Expire, TimeoutBegin, DeepIdle, TimeoutEnd, locks,
                      faults, holding
  <1>6. ASSUME NEW what \in {"enter", "exit"}, CallAgent(what) PROVE LockInv'
    BY <1>1, <1>6 DEF CallAgent, locks, holding
  <1>7. CASE UNCHANGED vars
    BY <1>1, <1>7 DEF vars, holding
  <1> QED BY <1>2, <1>3, <1>4, <1>5, <1>6, <1>7 DEF Next, Loop

\* pm_wakelock_command_handle: as long as somebody holds a wake lock the kernel's
\* is held, for any number of applications.
THEOREM HeldLocksKeepAwake == Spec => []HeldKeepsAwake
  <1>1. LockInv => HeldKeepsAwake
    BY DEF LockInv
  <1> QED BY <1>1, TypesInit, RangesStep, LockInit, LockStep, PTL DEF Spec

\* The variables keep their types, the charger's lock follows the charger and
\* partial_lock_total counts the kernel's locks, for any number of applications
\* that ask and give up in turn.
THEOREM CountsAreRight == Spec => []CountIsLocks
  <1>1. Flags /\ Ranges => TypeOK
    BY Zenon DEF Flags, Ranges, TypeOK
  <1>2. TypeOK /\ LockInv => CountIsLocks
    BY DEF LockInv, TurnInv, CountIsLocks
  <1> QED
    BY <1>1, <1>2, TypesInit, FlagsStep, RangesStep, LockInit, LockStep, PTL DEF Spec

\* pm_sleep_command_handle never puts to sleep an application that holds a wake
\* lock, as long as applications ask and give up in turn.
THEOREM ForcedSleepWaits == Spec => []ForceSleepInTurn
  <1>1. LockInv => ForceSleepInTurn
    BY DEF LockInv, TurnInv, ForceSleepInTurn
  <1> QED BY <1>1, TypesInit, RangesStep, LockInit, LockStep, PTL DEF Spec
=============================================================================
