----------------------------- MODULE NetManager -----------------------------
(***************************************************************************)
(* services/networking/manager: the owner of wifi, access point, modem and *)
(* ethernet.                                                               *)
(*                                                                         *)
(* Commands arrive through flora and run one at a time under func_mutex.   *)
(* Beside them run the loop's thread (libeloop: the access point's         *)
(* timeout, the join that WIFI CONNECT asks for, the modem's monitor), the *)
(* wifi event thread, which reads what wpa_supplicant reports, and the     *)
(* roam thread, which rewrites the reported wifi status.  Only WIFI        *)
(* CONNECT takes several steps here: it waits for the event thread to      *)
(* open, then, on a condition variable, for the outcome of the join.       *)
(* Every other handler is one step: what can happen inside it commutes     *)
(* with it or is among its outcomes.                                       *)
(*                                                                         *)
(* wpa_supplicant is external.  Of the HAL's drivers it matters what they  *)
(* start and what they say of it, of libeloop what becomes of a timer.     *)
(***************************************************************************)
EXTENDS Integers, Sequences, FiniteSets

CONSTANTS
    Capacity,       \* g_capacity
    InitModes,      \* what the persist.* properties may say at boot
    FailedTimes,    \* WIFI_FAILED_TIMES
    MaxInputs,      \* bound: commands, and what wpa_supplicant reports by itself
    MaxTrouble      \* bound: failures of the HAL, of the event thread, of requests
                    \* to wpa_supplicant and of libeloop's pipe, spurious wake-ups
                    \* and ticks of the modem's monitor

Modes == {"WIFI", "WIFI_AP", "MODEM", "ETHERENT"}
States == {"CLOSE", "PRE_JOIN", "JOINING", "CONNECTED", "UNCONNECTED",
           "AP_CLOSE", "AP_CONNECTED", "AP_UNCONNECTED"}
Kinds == {"connected", "reenabled", "disconnected", "not_found", "wrong_key",
          "disabled"}

ASSUME NetManagerAssumption ==
    /\ Capacity \subseteq Modes /\ ("WIFI" \in Capacity <=> "WIFI_AP" \in Capacity)
    /\ InitModes \subseteq SUBSET Modes
    /\ {FailedTimes, MaxInputs, MaxTrouble} \subseteq Nat

VARIABLES
    dev,        \* g_network_mode, the HAL's start flags, what really runs
                \* (up), p_net->wifi_state, g_modem_start_monitor
    timer,      \* p_net->wifi_ap_timeout, g_ap_timeout_flag, and the timers
                \* that exist, that still run, and whose one tick was lost
    mon,        \* g_wifi_monitor_flag, _open, the event thread, wifi_faild_time,
                \* g_wifi_status.state, and the roam thread's copy of it
    wpa,        \* wpa_supplicant: whether it runs, its link, whether networks are
                \* enabled, which network it is at, and what the event thread has
                \* not read
    pc,         \* where WIFI CONNECT is; func_mutex is free iff "idle"
    result,     \* g_result.result
    got,        \* CONNECT's copy of it
    ticks,      \* callbacks on their way to the loop's thread
    loop,       \* the callback the loop's thread is in
    fault,      \* undefined behaviour: a null dereference or a second delete
    count,      \* inputs and trouble so far
    \* History variables.
    ap,         \* did the running access point ask for a timeout; its timer
    raced,      \* timers deleted while their tick was on its way
    left,       \* timers that outlived their access point
    failed,     \* modes whose HAL start has failed
    modemRaced, \* MODEM DISCONNECT met a tick of the monitor
    blind,      \* the status was written by something other than an event, or
                \* an event was lost
    woke        \* what ended CONNECT's wait

hist == <<ap, raced, left, failed, modemRaced, blind, woke>>
vars == <<dev, timer, mon, wpa, pc, result, got, ticks, loop, fault, count, hist>>

Tick(cb, n) == [cb |-> cb, n |-> n]
Idle == Tick("none", 0)
NoAp == [asked |-> FALSE, own |-> 0]

-----------------------------------------------------------------------------
(* The HAL and the mode.                                                   *)

Rivals(m) == CASE m = "WIFI" -> {"WIFI_AP"}
               [] m = "WIFI_AP" -> {"WIFI"}
               [] OTHER -> {}

\* network_set_mode.
SetMode(d, m) == [d EXCEPT !.mode = (@ \ Rivals(m)) \cup {m}]
ClearMode(d, m) == [d EXCEPT !.mode = @ \ {m}]

\* The start functions of the HAL: nothing when the flag is set; the flag is
\* set before the driver is called and stays set when it fails.
HalStart(d, m, ok) ==
    IF m \in d.hal THEN d
    ELSE [d EXCEPT !.hal = @ \cup {m}, !.up = IF ok THEN @ \cup {m} ELSE @]

\* The stop functions.  Station and access point share the radio, and each of
\* them ends with wifi_device->off().
HalStop(d, m) ==
    IF m \notin d.hal THEN d
    ELSE [d EXCEPT !.hal = @ \ {m}, !.up = @ \ ({m} \cup Rivals(m))]

\* A start that does something may fail: it runs commands of the system, and the
\* modem's sends AT commands.  The station's is not told when wpa_supplicant exits
\* with an error, the access point's not when hostapd does in the background.
MayStart(d, m, ok) == ok \/ (m \notin d.hal /\ count.trouble < MaxTrouble)
Failing(m, ok) == failed' = IF ok THEN failed ELSE failed \cup {m}

\* network_configure_net(WIFI_AP, STOP), network_set_mode and wifi_state.
CloseAp(d) ==
    [ClearMode(HalStop(d, "WIFI_AP"), "WIFI_AP") EXCEPT !.state = "AP_CLOSE"]

\* Mutant: only the mode is changed.
CloseModeIfOn(d) == ClearMode(d, "WIFI_AP")

CloseApIfOn(d) == IF "WIFI_AP" \in d.mode THEN CloseAp(d) ELSE d

\* eloop_timer_stop, eloop_timer_delete and the flag.
DeleteTimer(t) ==
    [t EXCEPT !.flag = FALSE, !.alive = @ \ {t.ptr}, !.armed = @ \ {t.ptr}]

\* Mutants: the flag stays set; the timer stays.
DeleteKeepsFlag(t) == IF t.flag THEN [DeleteTimer(t) EXCEPT !.flag = TRUE] ELSE t
DeleteNothing(t) == t

DeleteTimerIfOn(t) == IF t.flag THEN DeleteTimer(t) ELSE t

\* Mutant: the timer is not started.
AddTimerOnly(t) == [t EXCEPT !.flag = TRUE, !.ptr = @ + 1, !.alive = @ \cup {t.ptr + 1}]

\* eloop_timer_add and eloop_timer_start.
AddTimer(t) ==
    [t EXCEPT !.flag = TRUE, !.ptr = @ + 1, !.alive = @ \cup {t.ptr + 1},
              !.armed = @ \cup {t.ptr + 1}]

-----------------------------------------------------------------------------
(* wpa_supplicant, as far as the manager sees it.                          *)

Event(w, k) == [kind |-> k, net |-> w.net]
Tell(w, k) ==
    IF mon.thread = "open" THEN [w EXCEPT !.sock = Append(@, Event(w, k))] ELSE w
Drop(w) == IF w.link THEN Tell([w EXCEPT !.link = FALSE], "disconnected") ELSE w

\* Mutant: the answer comes, and nothing was disabled.
DisableNone(w, done) == [w EXCEPT !.net = "saved"]

\* wifi_disable_all_network.  A request that gets no answer counts as done:
\* wifi_send_command returns 0, and res is still 0.
DisableAll(w, done) ==
    IF done THEN [Drop(w) EXCEPT !.enabled = FALSE, !.net = "saved"]
    ELSE [w EXCEPT !.net = "kept"]

\* wifi_enable_all_network.  Where it fails, nobody looks, and nothing connects.
EnableAll(w) == [w EXCEPT !.enabled = TRUE, !.net = "saved"]

\* What becomes of it when the station is stopped, started or loses the radio.  It
\* may run (half) although the start of the station failed.
Supplicant(w, d, half) ==
    CASE "WIFI" \notin d.hal -> [Drop(w) EXCEPT !.enabled = FALSE, !.runs = FALSE]
      [] "WIFI" \in d.hal \ dev.hal ->
           [EnableAll(w) EXCEPT !.sock = <<>>, !.runs = "WIFI" \in d.up \/ half]
      [] OTHER -> IF "WIFI" \in d.up THEN w ELSE Drop(w)

-----------------------------------------------------------------------------
(* The wifi monitor: wifi_event.c.                                         *)

\* wifi_start_monitor: the status is cleared even when the threads run.
StartMonitor(m) ==
    IF m.flag THEN [m EXCEPT !.status = "DISCONNECTED"]
    ELSE [m EXCEPT !.status = "DISCONNECTED", !.flag = TRUE, !.thread = "starting"]

\* wifi_stop_monitor.  The cancelled threads run on to their next cancellation
\* point: the roam thread writes what it read, and the event thread may set
\* g_wifi_monitor_open (o) after it was cleared.
StopMonitor(m, o) ==
    IF ~m.flag THEN m
    ELSE [m EXCEPT !.flag = FALSE, !.thread = "none", !.roam = "none",
                   !.open = o /\ m.thread \in {"starting", "open"},
                   !.status = IF m.roam = "none" THEN @ ELSE m.roam]

Unread(w, m) == IF m.flag THEN w ELSE [w EXCEPT !.sock = <<>>]

Init ==
    \E want \in InitModes, configured \in BOOLEAN :
      LET wired == want \cap {"MODEM", "ETHERENT"} \cap Capacity
          wifi == want \cap {"WIFI", "WIFI_AP"} \cap Capacity
          station == wifi = {"WIFI"} \/ (wifi # {"WIFI_AP"} /\ configured
                                         /\ "WIFI" \in Capacity)
          on == wired \cup (IF wifi = {"WIFI_AP"} THEN wifi ELSE {})
          runs == on \cup (IF station THEN {"WIFI"} ELSE {})
      IN /\ dev = [mode |-> on, hal |-> runs, up |-> runs, state |-> "UNCONNECTED",
                   modem |-> "MODEM" \in wired]
         /\ mon = [flag |-> station, open |-> FALSE, failed |-> 0, roam |-> "none",
                   thread |-> IF station THEN "starting" ELSE "none",
                   status |-> IF station /\ wifi # {"WIFI"} THEN "CONNECTED"
                              ELSE "DISCONNECTED"]
         /\ wpa = [runs |-> station, link |-> FALSE, enabled |-> station, net |-> "saved",
                   sock |-> <<>>]
         /\ timer = [ptr |-> 0, flag |-> FALSE, alive |-> {}, armed |-> {}, lost |-> {}]
         /\ pc = "idle" /\ result = "OK" /\ got = "NOK" /\ ticks = {} /\ loop = Idle
         /\ fault = "none"
         /\ count = [inputs |-> 0, trouble |-> 0]
         /\ ap = NoAp /\ raced = {} /\ left = {} /\ failed = {}
         /\ modemRaced = FALSE /\ blind = FALSE /\ woke = "nothing"

-----------------------------------------------------------------------------
(* Commands: network_ctrl.c.                                               *)

\* handle_net_command takes func_mutex.
Command == pc = "idle" /\ count.inputs < MaxInputs
Counted(fails) ==
    count' = [count EXCEPT !.inputs = @ + 1, !.trouble = @ + fails]
One(ok) == IF ok THEN 0 ELSE 1

\* What a step does to the history of the access point and its timers.
RememberTimers(underWay) ==
    /\ left' = left \cup (IF "WIFI_AP" \in dev'.mode THEN {} ELSE timer'.alive)
    /\ raced' = raced \cup {n \in timer.alive \ timer'.alive : Tick("ap", n) \in underWay}
Remember(underWay) ==
    /\ ap' = IF "WIFI_AP" \in dev'.mode THEN ap ELSE NoAp
    /\ RememberTimers(underWay)

\* network_configure_net(m, STOP, NULL) of a device that is not there writes
\* through the null pointer.
StopAbsent ==
    /\ Command /\ Capacity # Modes
    /\ fault' = "null" /\ Counted(0)
    /\ UNCHANGED <<dev, timer, mon, wpa, pc, result, got, ticks, loop, hist>>

\* netmanager_start_wifi_scan: closes the access point and leaves its timer.
StartWifiScan(ok, half) ==
    /\ LET c == CloseApIfOn(dev)
           d == [HalStart(c, "WIFI", ok) EXCEPT !.state = "PRE_JOIN"]
       IN MayStart(c, "WIFI", ok) /\ dev' = d /\ wpa' = Supplicant(wpa, d, half)
    /\ UNCHANGED timer

\* netmanager_remove_network: closes the access point and starts the station.
RemoveNetwork(ok, half) ==
    /\ LET c == CloseApIfOn(dev)
           d == HalStart(c, "WIFI", ok)
       IN MayStart(c, "WIFI", ok) /\ dev' = d /\ wpa' = Supplicant(wpa, d, half)
    /\ timer' = IF "WIFI_AP" \in dev.mode THEN DeleteTimerIfOn(timer) ELSE timer

ScanOrRemove ==
    /\ Command /\ "WIFI" \in Capacity
    /\ \E ok, half \in BOOLEAN : /\ StartWifiScan(ok, half) \/ RemoveNetwork(ok, half)
                                 /\ Failing("WIFI", ok) /\ Counted(One(ok))
    /\ Remember(ticks \cup {loop})
    /\ UNCHANGED <<mon, pc, result, got, ticks, loop, fault, modemRaced, blind, woke>>

\* netmanager_stop_wifi_station.
StopWifiStation ==
    /\ Command /\ "WIFI" \in Capacity
    /\ \E o \in BOOLEAN : mon' = StopMonitor(mon, o)
    /\ dev' = [ClearMode(HalStop(dev, "WIFI"), "WIFI") EXCEPT !.state = "CLOSE"]
    /\ wpa' = Unread(Supplicant(wpa, dev', FALSE), mon')
    /\ Counted(0)
    /\ UNCHANGED <<timer, pc, result, got, ticks, loop, fault, failed, modemRaced,
                   blind, woke>>
    /\ Remember(ticks \cup {loop})

\* network_configure_net(WIFI, STOP) and what follows it in WIFI_AP CONNECT: the
\* station is stopped, a running access point with its timer too.
ToAp(d) == CloseApIfOn([ClearMode(HalStop(d, "WIFI"), "WIFI")
                        EXCEPT !.state = "CLOSE"])

\* netmanager_start_wifi_ap, its arguments well formed: the timer is added
\* whether or not the access point came up (or is said to have), unless the flag is
\* still set.
StartWifiAp(asked, ok, said) ==
    LET c == ToAp(dev)
        d == HalStart(c, "WIFI_AP", ok)
        on == "WIFI_AP" \in c.hal \/ said
        t == IF "WIFI_AP" \in dev.mode THEN DeleteTimerIfOn(timer) ELSE timer
    IN /\ MayStart(c, "WIFI_AP", ok) /\ (ok => said)
       /\ dev' = IF on THEN [SetMode(d, "WIFI_AP") EXCEPT !.state = "AP_CONNECTED"]
                 ELSE [d EXCEPT !.state = "AP_UNCONNECTED"]
       /\ timer' = IF asked /\ ~t.flag THEN AddTimer(t) ELSE t
       /\ ap' = IF ~on THEN NoAp
                ELSE [asked |-> asked, own |-> IF asked /\ ~t.flag
                                               THEN timer'.ptr ELSE 0]

\* The same with arguments that are not: what ran is already stopped.
StartWifiApBadFormat ==
    /\ dev' = ToAp(dev)
    /\ timer' = IF "WIFI_AP" \in dev.mode THEN DeleteTimerIfOn(timer) ELSE timer
    /\ ap' = NoAp

ApConnect ==
    /\ Command /\ "WIFI" \in Capacity
    /\ \E o \in BOOLEAN : mon' = StopMonitor(mon, o)
    /\ \/ \E asked, ok, said \in BOOLEAN :
            StartWifiAp(asked, ok, said) /\ Failing("WIFI_AP", ok) /\ Counted(One(ok))
       \/ StartWifiApBadFormat /\ Counted(0) /\ UNCHANGED failed
    /\ wpa' = Unread(Supplicant(wpa, dev', FALSE), mon')
    /\ RememberTimers(ticks \cup {loop})
    /\ UNCHANGED <<pc, result, got, ticks, loop, fault, modemRaced, blind, woke>>

\* netmanager_stop_wifi_ap.
StopWifiAp ==
    /\ Command /\ "WIFI" \in Capacity
    /\ dev' = CloseAp(dev)
    /\ timer' = DeleteTimerIfOn(timer)
    /\ wpa' = Supplicant(wpa, dev', FALSE)
    /\ Counted(0) /\ Remember(ticks \cup {loop})
    /\ UNCHANGED <<mon, pc, result, got, ticks, loop, fault, failed, modemRaced, blind,
                   woke>>

\* network_stop_modem, network_stop_etherent.
StopWired(d, m) == [HalStop(d, m) EXCEPT !.modem = @ /\ m # "MODEM"]

\* netmanager_start_modem and netmanager_start_etherent.  The modem stops the
\* access point first and starts it again afterwards (apOk, said); its timer runs on.
StartWired(m, ok, apOk, said) ==
    LET around == m = "MODEM" /\ "WIFI_AP" \in dev.mode
        a == IF around THEN [HalStop(dev, "WIFI_AP") EXCEPT !.state = "AP_CLOSE"]
             ELSE dev
        b == IF m \in a.mode THEN ClearMode(StopWired(a, m), m) ELSE a
        up == m \in Capacity /\ (m \in b.hal \/ ok)
        c == IF m \in Capacity THEN HalStart(b, m, ok) ELSE b
        d == IF up THEN [SetMode(c, m) EXCEPT !.modem = @ \/ m = "MODEM"] ELSE c
        e == HalStart(d, "WIFI_AP", apOk)
    IN /\ ok \/ m \in Capacity
       /\ MayStart(b, m, ok) /\ MayStart(d, "WIFI_AP", apOk)
       /\ count.trouble + One(ok) + One(apOk) <= MaxTrouble \/ (ok /\ apOk)
       /\ apOk \/ around
       /\ apOk => said
       /\ dev' = CASE ~around -> d
                   [] around /\ said -> [e EXCEPT !.state = "AP_CONNECTED"]
                   [] OTHER -> ClearMode(e, "WIFI_AP")

StartModemOrEtherent ==
    /\ Command
    /\ \E m \in {"MODEM", "ETHERENT"}, ok, apOk, said \in BOOLEAN :
         /\ StartWired(m, ok, apOk, said)
         /\ Counted(One(ok) + One(apOk))
         /\ failed' = failed \cup (IF ok THEN {} ELSE {m})
                             \cup (IF apOk THEN {} ELSE {"WIFI_AP"})
    /\ UNCHANGED timer /\ Remember(ticks \cup {loop})
    /\ UNCHANGED <<mon, wpa, pc, result, got, ticks, loop, fault, modemRaced, blind, woke>>

\* netmanager_stop_modem, netmanager_stop_etherent.
StopModemOrEtherent ==
    /\ Command
    /\ \E m \in {"MODEM", "ETHERENT"} \cap Capacity :
         /\ dev' = ClearMode(StopWired(dev, m), m)
         /\ modemRaced' = (modemRaced \/ (m = "MODEM" /\ \E k \in ticks \cup {loop} :
                                                            k.cb = "modem"))
    /\ Counted(0)
    /\ UNCHANGED <<timer, mon, wpa, pc, result, got, ticks, loop, fault, ap, raced, left,
                   failed, blind, woke>>

-----------------------------------------------------------------------------
(* WIFI CONNECT: netmanager_start_wifi_station and network_start_wifi.     *)

\* Up to get_wifi_station_info: nothing resets JOINING when that fails.
ConnectBegins ==
    /\ Command
    /\ timer' = IF "WIFI_AP" \in dev.mode THEN DeleteTimerIfOn(timer) ELSE timer
    /\ UNCHANGED <<result, got, ticks, loop, fault, modemRaced>>
Joining(d) == [CloseApIfOn(d) EXCEPT !.state = "JOINING"]

ConnectBadFormat ==
    /\ ConnectBegins
    /\ dev' = Joining(dev)
    /\ wpa' = Supplicant(wpa, dev', FALSE)
    /\ Counted(0) /\ Remember(ticks \cup {loop})
    /\ UNCHANGED <<mon, pc, failed, blind, woke>>

\* The answer is NOK before anything is waited for: out of capacity, or the
\* station or the threads of its monitor do not start.
ConnectFails ==
    /\ ConnectBegins
    /\ \E what \in {"capacity", "station", "monitor"} :
         /\ (what = "capacity") = ("WIFI" \notin Capacity)
         /\ what = "station" => MayStart(Joining(dev), "WIFI", FALSE)
         /\ what = "monitor" => count.trouble < MaxTrouble /\ ~mon.flag
         /\ dev' = [(IF what = "capacity" THEN Joining(dev)
                     ELSE HalStart(Joining(dev), "WIFI", what # "station"))
                    EXCEPT !.state = "UNCONNECTED"]
         /\ mon' = IF what = "monitor" THEN [mon EXCEPT !.status = "DISCONNECTED"]
                   ELSE mon
         /\ Failing("WIFI", what # "station")
         /\ Counted(One(what = "capacity"))
    /\ \E half \in BOOLEAN :
         wpa' = LET w == Supplicant(wpa, dev', half)
                IN IF w.runs THEN EnableAll(w) ELSE w
    /\ Remember(ticks \cup {loop})
    /\ UNCHANGED <<pc, blind, woke>>

\* wifi_hal_start_station, which may fail without telling, and wifi_start_monitor.
ConnectStarts ==
    /\ ConnectBegins /\ "WIFI" \in Capacity
    /\ \E ok \in BOOLEAN : /\ MayStart(Joining(dev), "WIFI", ok)
                           /\ dev' = HalStart(Joining(dev), "WIFI", ok)
                           /\ Failing("WIFI", ok) /\ Counted(One(ok))
    /\ wpa' = Supplicant(wpa, dev', FALSE)
    /\ mon' = StartMonitor(mon)
    /\ pc' = "open"
    /\ blind' = wpa'.link
    /\ Remember(ticks \cup {loop}) /\ UNCHANGED woke

\* The tail of netmanager_start_wifi_station: the answer, and every network
\* enabled again.
Answer(ok) ==
    /\ dev' = IF ok THEN [SetMode(dev, "WIFI") EXCEPT !.state = "CONNECTED"]
              ELSE [dev EXCEPT !.state = "UNCONNECTED"]
    /\ pc' = "idle"

\* Ten looks at g_wifi_monitor_open, a second apart.
MonitorNotOpen ==
    /\ pc = "open" /\ ~mon.open
    /\ Answer(FALSE)
    /\ wpa' = IF wpa.runs THEN EnableAll(wpa) ELSE wpa
    /\ UNCHANGED <<timer, mon, result, got, ticks, loop, fault, count, hist>>

\* wifi_disable_all_network asks for the scan to be aborted, again and again until
\* it is: without a wpa_supplicant to ask, for ever, with func_mutex held.
CanAsk == pc = "open" /\ mon.open /\ wpa.runs
AsksForEver == pc = "open" /\ mon.open /\ ~wpa.runs

\* DISABLE_NETWORK is answered with OK or not at all; eloop_timer_start(wifi_connect).
DisableAndJoin ==
    /\ CanAsk
    /\ \E done \in BOOLEAN :
         /\ done \/ count.trouble < MaxTrouble
         /\ LET w == DisableAll(wpa, done)
            IN wpa' = [w EXCEPT !.sock = [i \in DOMAIN w.sock |->
                                            [w.sock[i] EXCEPT !.net = "queued"]]]
         /\ count' = [count EXCEPT !.trouble = @ + One(done)]
    /\ ticks' = ticks \cup {Tick("join", 0)}
    /\ pc' = "join"
    /\ UNCHANGED <<dev, timer, mon, result, got, loop, fault, hist>>

\* DISABLE_NETWORK is answered with FAIL.
DisableFails ==
    /\ CanAsk /\ count.trouble < MaxTrouble
    /\ Answer(FALSE)
    /\ wpa' = EnableAll(wpa)
    /\ count' = [count EXCEPT !.trouble = @ + 1]
    /\ UNCHANGED <<timer, mon, result, got, ticks, loop, fault, hist>>

\* pthread_cond_timedwait begins.  Nothing is tested before it.
WaitForResult ==
    /\ pc = "join"
    /\ pc' = "wait"
    /\ UNCHANGED <<dev, timer, mon, wpa, result, got, ticks, loop, fault, count, hist>>

\* What wifi_wait_for_result copies out of g_result.
GotResult(timedOut) == IF timedOut THEN "NOK" ELSE result

\* Mutant: no timeout while the loop's thread has not run the join.
TimeIsUpAfterJoin == Tick("join", 0) \notin ticks

\* Twenty seconds have passed.  The loop's thread, unless it is held up, has run
\* the join by then.
TimeIsUp == Tick("join", 0) \in ticks => loop # Idle

\* The wait is over, because of time or of a signal.
WaitEnds(timedOut) ==
    /\ IF timedOut THEN pc = "wait" /\ TimeIsUp ELSE pc = "signalled"
    /\ got' = GotResult(timedOut) /\ result' = got'
    /\ pc' = "woken"
    /\ woke' = IF timedOut THEN "timeout" ELSE woke
    /\ UNCHANGED <<dev, timer, mon, wpa, ticks, loop, fault, count, ap, raced, left,
                   failed, modemRaced, blind>>

\* pthread_cond_timedwait may return for no reason, and is not called again.
SpuriousWakeUp ==
    /\ pc = "wait" /\ count.trouble < MaxTrouble
    /\ pc' = "signalled" /\ woke' = "spurious"
    /\ count' = [count EXCEPT !.trouble = @ + 1]
    /\ UNCHANGED <<dev, timer, mon, wpa, result, got, ticks, loop, fault, ap, raced,
                   left, failed, modemRaced, blind>>

\* The answer.  After a failure the network wpa_supplicant is at is removed, if it
\* says which one that is.
ConnectEnds ==
    /\ pc = "woken"
    /\ Answer(got = "OK")
    /\ \E w \in {wpa} \cup (IF got = "OK" THEN {} ELSE {Drop(wpa)}) :
         wpa' = IF wpa.runs THEN EnableAll(w) ELSE wpa
    /\ got' = "NOK" /\ woke' = "nothing"
    /\ UNCHANGED <<timer, mon, result, ticks, loop, fault, count, ap, raced, left,
                   failed, modemRaced, blind>>

-----------------------------------------------------------------------------
(* wpa_supplicant and the threads that listen to it.                       *)

\* wpa_supplicant connects, loses its network, or cannot join one.
Report(k) ==
    /\ wpa.runs /\ count.inputs < MaxInputs
    /\ CASE k = "connected" -> wpa.enabled /\ ~wpa.link /\ "WIFI" \in dev.up
         [] k = "disconnected" -> wpa.link \/ (wpa.enabled /\ mon.thread = "open")
         [] OTHER -> wpa.enabled /\ ~wpa.link /\ mon.thread = "open"
    /\ wpa' = Tell([wpa EXCEPT !.link = k = "connected"], k)
    /\ count' = [count EXCEPT !.inputs = @ + 1]
    /\ UNCHANGED <<dev, timer, mon, pc, result, got, ticks, loop, fault, hist>>

\* wifi_get_monitor_event attaches its socket and enters its loop.  What was
\* reported before that is not heard.
MonitorOpens ==
    /\ mon.thread = "starting" /\ wpa.runs
    /\ mon' = [mon EXCEPT !.thread = "open", !.open = TRUE]
    /\ blind' = (wpa.link # (mon.status = "CONNECTED"))
    /\ UNCHANGED <<dev, timer, wpa, pc, result, got, ticks, loop, fault, count, ap, raced,
                   left, failed, modemRaced, woke>>

\* It returns instead, at the start or after an error: g_wifi_monitor_flag stays
\* set, so that nothing starts it again.
MonitorEnds ==
    /\ mon.thread \in {"starting", "open"}
    /\ wpa.runs => count.trouble < MaxTrouble
    /\ mon' = [mon EXCEPT !.thread = "ended"]
    /\ wpa' = [wpa EXCEPT !.sock = <<>>]
    /\ count' = [count EXCEPT !.trouble = @ + One(~wpa.runs)]
    /\ UNCHANGED <<dev, timer, pc, result, got, ticks, loop, fault, hist>>

\* After an error it attaches a new socket and goes on.  What was in the old one is
\* not read.
MonitorAttachesAgain ==
    /\ mon.thread = "open" /\ wpa.runs /\ count.trouble < MaxTrouble
    /\ wpa' = [wpa EXCEPT !.sock = <<>>]
    /\ blind' = (wpa.link # (mon.status = "CONNECTED"))
    /\ count' = [count EXCEPT !.trouble = @ + 1]
    /\ UNCHANGED <<dev, timer, mon, pc, result, got, ticks, loop, fault, ap, raced, left,
                   failed, modemRaced, woke>>

Connects == {"connected", "reenabled"}

\* What process_recv_info wakes CONNECT with: OK, NOK, or not at all.
Outcome(k, fails) ==
    CASE k \in Connects -> "OK"
      [] k = "disconnected" -> IF fails > FailedTimes THEN "NOK" ELSE "none"
      [] k \in {"not_found", "wrong_key"} -> "NOK"
      [] OTHER -> "none"

\* p_net->wifi_state afterwards.
StateAfter(s, k) ==
    CASE k \in Connects /\ s = "UNCONNECTED" -> "CONNECTED"
      [] k \notin Connects /\ s = "CONNECTED" -> "UNCONNECTED"
      [] OTHER -> s

\* Mutant: the status is reported where the state changes, and only there.
StatusAfterChange(s, k) ==
    CASE k \in Connects /\ dev.state = "UNCONNECTED" -> "CONNECTED"
      [] k \notin Connects /\ dev.state = "CONNECTED" -> "DISCONNECTED"
      [] OTHER -> s

\* wifi_report_connect_state: NETWORK_NOT_FOUND is not reported.
StatusAfter(s, k) ==
    CASE k \in Connects -> "CONNECTED"
      [] k = "not_found" -> s
      [] OTHER -> "DISCONNECTED"

\* One message read and processed: process_recv_info, wifi_wakeup_wait.
HandleEvent ==
    /\ mon.thread = "open" /\ wpa.sock # <<>>
    /\ LET e == Head(wpa.sock)
           fails == CASE e.kind \in Connects -> 0
                      [] e.kind = "disconnected" /\ mon.failed <= FailedTimes
                           -> mon.failed + 1
                      [] OTHER -> mon.failed
           r == IF dev.state = "JOINING" THEN Outcome(e.kind, fails) ELSE "none"
       IN /\ wpa' = [wpa EXCEPT !.sock = Tail(@)]
          /\ dev' = [dev EXCEPT !.state = StateAfter(@, e.kind)]
          /\ mon' = [mon EXCEPT !.failed = fails, !.status = StatusAfter(@, e.kind)]
          /\ result' = IF r = "none" THEN result ELSE r
          /\ pc' = IF pc = "wait" /\ r # "none" THEN "signalled" ELSE pc
          /\ woke' = IF pc' = "signalled" /\ r # "none" THEN e.net ELSE woke
          /\ blind' = IF e.kind = "not_found" THEN blind ELSE e.kind = "reenabled"
    /\ UNCHANGED <<timer, got, ticks, loop, fault, count, ap, raced, left, failed,
                   modemRaced>>

\* wifi_report_signal_strength, on the roam thread: the status is copied, and
\* the copy written back.  wifi_get_signal fails only where nobody can be asked.
RoamReads ==
    /\ mon.flag /\ wpa.runs /\ mon.roam = "none"
    /\ mon' = [mon EXCEPT !.roam = mon.status]
    /\ UNCHANGED <<dev, timer, wpa, pc, result, got, ticks, loop, fault, count, hist>>

RoamWrites ==
    /\ mon.roam # "none"
    /\ mon' = [mon EXCEPT !.roam = "none", !.status = mon.roam]
    /\ blind' = (blind \/ mon.roam # mon.status)
    /\ UNCHANGED <<dev, timer, wpa, pc, result, got, ticks, loop, fault, count, ap, raced,
                   left, failed, modemRaced, woke>>

-----------------------------------------------------------------------------
(* The loop's thread.                                                      *)

\* The timer's thread posts its task to the loop; a full pipe refuses it, and a
\* timer that is not periodic does not try again.
Expire(n) ==
    /\ n \in timer.armed
    /\ \/ /\ timer' = [timer EXCEPT !.armed = @ \ {n}]
          /\ ticks' = ticks \cup {Tick("ap", n)}
          /\ UNCHANGED count
       \/ /\ count.trouble < MaxTrouble
          /\ timer' = [timer EXCEPT !.armed = @ \ {n}, !.lost = @ \cup {n}]
          /\ count' = [count EXCEPT !.trouble = @ + 1]
          /\ UNCHANGED ticks
    /\ UNCHANGED <<dev, mon, wpa, pc, result, got, loop, fault, hist>>

ModemExpires ==
    /\ dev.modem /\ count.trouble < MaxTrouble
    /\ ticks' = ticks \cup {Tick("modem", 0)}
    /\ count' = [count EXCEPT !.trouble = @ + 1]
    /\ UNCHANGED <<dev, timer, mon, wpa, pc, result, got, loop, fault, hist>>

\* wifi_change_to_station up to pthread_mutex_lock.
ApTimeoutBegins(n) ==
    /\ loop = Idle /\ Tick("ap", n) \in ticks
    /\ ticks' = ticks \ {Tick("ap", n)}
    /\ loop' = Tick("ap", n)
    /\ UNCHANGED <<dev, timer, mon, wpa, pc, result, got, fault, count, hist>>

\* The rest of it.  It deletes the timer p_net points to, whatever its own was.
ApTimeout ==
    /\ loop.cb = "ap" /\ pc = "idle"
    /\ \E ok \in BOOLEAN :
         LET c == CloseAp(dev)
         IN /\ MayStart(c, "WIFI", ok)
            /\ dev' = HalStart(c, "WIFI", ok)
            /\ Failing("WIFI", ok)
            /\ count' = [count EXCEPT !.trouble = @ + One(ok)]
    /\ \E half \in BOOLEAN : wpa' = Supplicant(wpa, dev', half)
    /\ mon' = StartMonitor(mon)
    /\ blind' = wpa'.link
    /\ fault' = IF timer.ptr \in timer.alive THEN fault ELSE "freed twice"
    /\ timer' = DeleteTimer(timer)
    /\ loop' = Idle
    /\ Remember(ticks)
    /\ UNCHANGED <<pc, result, got, ticks, modemRaced, woke>>

\* wifi_connecting_network: wifi_join_network, whose failure nobody is told.
Join ==
    /\ loop = Idle /\ Tick("join", 0) \in ticks
    /\ ticks' = ticks \ {Tick("join", 0)}
    /\ \/ /\ wpa.runs
          /\ wpa' = [Drop(wpa) EXCEPT !.enabled = TRUE,
                        !.net = IF pc \in {"idle", "open"} THEN "saved" ELSE "asked"]
       \/ UNCHANGED wpa
    /\ UNCHANGED <<dev, timer, mon, pc, result, got, loop, fault, count, hist>>

\* modem_event_monitor: reports, and the twelfth failure (again) restarts the
\* modem: stop, a pause, start.  No lock is held.
ModemMonitor(again) ==
    /\ loop = Idle /\ Tick("modem", 0) \in ticks
    /\ ticks' = ticks \ {Tick("modem", 0)}
    /\ dev' = IF again THEN HalStop(dev, "MODEM") ELSE dev
    /\ loop' = IF again THEN Tick("modem", 0) ELSE loop
    /\ UNCHANGED <<timer, mon, wpa, pc, result, got, fault, count, hist>>

ModemRestarts ==
    /\ loop.cb = "modem"
    /\ \E ok \in BOOLEAN : /\ MayStart(dev, "MODEM", ok)
                           /\ dev' = HalStart(dev, "MODEM", ok)
                           /\ Failing("MODEM", ok)
                           /\ count' = [count EXCEPT !.trouble = @ + One(ok)]
    /\ loop' = Idle
    /\ UNCHANGED <<timer, mon, wpa, pc, result, got, ticks, fault, ap, raced, left,
                   modemRaced, blind, woke>>

-----------------------------------------------------------------------------
\* WIFI CONNECT, once begun.
ConnectGoesOn ==
    \/ MonitorNotOpen \/ DisableAndJoin \/ DisableFails \/ WaitForResult
    \/ \E timedOut \in BOOLEAN : WaitEnds(timedOut)
    \/ ConnectEnds

Connect ==
    \/ ConnectBadFormat \/ ConnectFails \/ ConnectStarts
    \/ ConnectGoesOn \/ SpuriousWakeUp

Commands ==
    \/ StopAbsent \/ ScanOrRemove \/ StopWifiStation \/ ApConnect \/ StopWifiAp
    \/ StartModemOrEtherent \/ StopModemOrEtherent

Listening ==
    \/ \E k \in Kinds : Report(k)
    \/ MonitorOpens \/ MonitorEnds \/ MonitorAttachesAgain
    \/ HandleEvent \/ RoamReads \/ RoamWrites

Tasks ==
    \/ \E k \in ticks : ApTimeoutBegins(k.n)
    \/ \E again \in BOOLEAN : ModemMonitor(again)
    \/ Join \/ ModemRestarts

Looping ==
    \/ \E n \in timer.armed : Expire(n)
    \/ ModemExpires \/ ApTimeout \/ Tasks

\* Nothing is known of the program after a fault.
Next == fault = "none" /\ (Connect \/ Commands \/ Listening \/ Looping)

\* A command that has begun goes on; the condition variable's timeout passes;
\* timers expire; the loop's thread takes its ticks and, as func_mutex becomes
\* free again and again, gets it.
Fairness ==
    LET Goes(A) == fault = "none" /\ A IN
    /\ WF_vars(Goes(ConnectGoesOn))
    /\ WF_vars(Goes(\E n \in timer.armed : Expire(n)))
    /\ WF_vars(Goes(Tasks))
    /\ SF_vars(Goes(ApTimeout))

Spec == Init /\ [][Next]_vars /\ Fairness

-----------------------------------------------------------------------------
(* Properties.                                                             *)

TypeOK ==
    /\ dev \in [mode : SUBSET Modes, hal : SUBSET Modes, up : SUBSET Modes,
                state : States, modem : BOOLEAN]
    /\ dev.up \subseteq dev.hal \cup {"WIFI", "WIFI_AP"}
    /\ timer.armed \subseteq timer.alive /\ timer.alive \subseteq 1..timer.ptr
    /\ mon.thread \in {"none", "starting", "open", "ended"}
    /\ pc \in {"idle", "open", "join", "wait", "signalled", "woken"}
    /\ {result, got} \subseteq {"OK", "NOK"}
    /\ fault \in {"none", "null", "freed twice"}

\* Between commands, what GET_MODE answers is what runs: a mode is on only with
\* its device, the access point never with a station beside it, and a device
\* other than the station only in its mode.  The exceptions are a HAL start that
\* failed, whether it said so or not (its flag stays set, so the next start is taken
\* for done; stopping such an access point switches the station's radio off) and a
\* modem that its monitor restarts just then, or after MODEM DISCONNECT.
ModeMatchesDevices ==
    pc = "idle" =>
      /\ \A m \in dev.mode : \/ m \in dev.up \/ m \in failed
                             \/ m = "WIFI" /\ "WIFI_AP" \in failed
                             \/ m = "MODEM" /\ loop.cb = "modem"
      /\ \A m \in dev.up \ {"WIFI"} : \/ m \in dev.mode \/ m \in failed
                                      \/ m = "MODEM" /\ modemRaced
      /\ "WIFI_AP" \in dev.mode => "WIFI" \notin dev.hal

\* Between commands g_ap_timeout_flag says whether p_net->wifi_ap_timeout is a
\* timer, and there is no other; one is deleted twice only by a timeout that was
\* under way, waiting for func_mutex or in the loop's queue, when a command
\* deleted its timer.
TimerAccounted ==
    /\ TypeOK
    /\ pc = "idle" /\ fault = "none" =>
         /\ timer.flag <=> timer.ptr \in timer.alive
         /\ timer.alive \subseteq {timer.ptr}
    /\ fault = "freed twice" => raced # {}

\* The access point's timeout closes the access point it was set for, except when
\* it was under way while its timer was deleted, and when START_SCAN, MODEM
\* CONNECT or a failed start left the timer without its access point.
TimeoutHitsItsOwn ==
    [][loop.cb = "ap" /\ loop' = Idle /\ "WIFI_AP" \in dev.mode
       => loop.n \in {ap.own} \cup raced \cup left]_vars

\* WIFI CONNECT succeeds only because of an event about the network it asked for,
\* unless one was in the socket before wifi_disable_all_network, or the networks
\* were kept because that request got no answer, or the wait for the result ended
\* for no reason.
OkIsThisNetwork ==
    pc = "woken" /\ got = "OK" => woke \in {"asked", "queued", "kept", "spurious"}

\* While the event thread listens and has read all there is, the wifi status is
\* that of wpa_supplicant's link, unless it was last written by something other
\* than an event (wifi_start_monitor on a running monitor, the roam thread's old
\* copy, or REENABLED, which does not mean connected), or what the link did was
\* reported to no socket or to one that was then replaced.
StatusTrue ==
    mon.thread = "open" /\ wpa.sock = <<>> /\ ~blind
    => (mon.status = "CONNECTED" <=> wpa.link)

\* Every command is answered, although the loop's thread, which is to run
\* CONNECT's join, may be waiting for the func_mutex that CONNECT holds.  The
\* exception is a CONNECT that takes an old g_wifi_monitor_open for the new one and
\* then asks a wpa_supplicant that did not start.
CommandsAnswered == pc # "idle" ~> pc = "idle" \/ AsksForEver

\* An access point that was started with a timeout is closed some time, unless the
\* one tick of its timer is lost.
ApTimesOut == ap.asked ~> ~ap.asked \/ fault # "none" \/ timer.ptr \in timer.lost

=============================================================================
