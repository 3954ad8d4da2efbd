--------------------------- MODULE NetManagerProof ---------------------------
(***************************************************************************)
(* Proofs about the network manager, for any capacity and any bounds.      *)
(***************************************************************************)
EXTENDS NetManager, TLAPS, SequenceTheorems

Wired == {"MODEM", "ETHERENT"}
Devs == [mode : SUBSET Modes, hal : SUBSET Modes, up : SUBSET Modes, state : States,
         modem : BOOLEAN]
Ticks == [cb : {"none", "ap", "modem", "join"}, n : Nat]

-----------------------------------------------------------------------------
(* The HAL.                                                                *)

LEMMA HalStartIs ==
    ASSUME NEW d \in Devs, NEW m \in Modes, NEW ok \in BOOLEAN
    PROVE  LET e == HalStart(d, m, ok) IN
           /\ e \in Devs /\ e.mode = d.mode /\ e.state = d.state /\ e.modem = d.modem
           /\ e.hal = d.hal \cup {m}
           /\ e.up = IF m \notin d.hal /\ ok THEN d.up \cup {m} ELSE d.up
  <1>1. CASE m \in d.hal
    BY <1>1 DEF HalStart, Devs
  <1>2. CASE m \notin d.hal
    <2>1. CASE ok
      <3>1. HalStart(d, m, ok) = [d EXCEPT !.hal = @ \cup {m}, !.up = @ \cup {m}]
        BY <1>2, <2>1 DEF HalStart
      <3> DEFINE e == [d EXCEPT !.hal = @ \cup {m}, !.up = @ \cup {m}]
      <3>2. /\ e \in Devs /\ e.mode = d.mode /\ e.state = d.state /\ e.modem = d.modem
            /\ e.hal = d.hal \cup {m} /\ e.up = d.up \cup {m}
        BY DEF Devs
      <3> HIDE DEF e
      <3> QED BY <1>2, <2>1, <3>1, <3>2 DEF e
    <2>2. CASE ~ok
      <3>1. HalStart(d, m, ok) = [d EXCEPT !.hal = @ \cup {m}, !.up = @]
        BY <1>2, <2>2 DEF HalStart
      <3> QED BY <1>2, <2>2, <3>1 DEF Devs
    <2> QED BY <2>1, <2>2
  <1> QED BY <1>1, <1>2

LEMMA HalStopIs ==
    ASSUME NEW d \in Devs, NEW m \in Modes
    PROVE  LET e == HalStop(d, m) IN
           /\ e \in Devs /\ e.mode = d.mode /\ e.state = d.state /\ e.modem = d.modem
           /\ e.hal = d.hal \ {m}
           /\ e.up = IF m \in d.hal THEN d.up \ ({m} \cup Rivals(m)) ELSE d.up
  <1>1. CASE m \in d.hal
    <2>1. HalStop(d, m) = [d EXCEPT !.hal = @ \ {m}, !.up = @ \ ({m} \cup Rivals(m))]
      BY <1>1 DEF HalStop
    <2> QED BY <1>1, <2>1 DEF Devs
  <1>2. CASE m \notin d.hal
    BY <1>2 DEF HalStop, Devs
  <1> QED BY <1>1, <1>2

LEMMA ModeIs ==
    ASSUME NEW d \in Devs, NEW m \in Modes
    PROVE  /\ LET e == SetMode(d, m) IN
              /\ e \in Devs /\ e.hal = d.hal /\ e.up = d.up /\ e.state = d.state
              /\ e.modem = d.modem /\ e.mode = (d.mode \ Rivals(m)) \cup {m}
           /\ LET e == ClearMode(d, m) IN
              /\ e \in Devs /\ e.hal = d.hal /\ e.up = d.up /\ e.state = d.state
              /\ e.modem = d.modem /\ e.mode = d.mode \ {m}
  BY DEF SetMode, ClearMode, Devs

LEMMA StateIs ==
    ASSUME NEW d \in Devs, NEW s \in States
    PROVE  LET e == [d EXCEPT !.state = s] IN
           /\ e \in Devs /\ e.hal = d.hal /\ e.up = d.up /\ e.state = s
           /\ e.modem = d.modem /\ e.mode = d.mode
  BY DEF Devs

\* The devices, the modem's monitor aside.  f are the modes whose start has
\* failed.
Coherent(d, f) ==
    /\ d \in Devs /\ d.up \subseteq d.hal
    /\ \A m \in d.hal : m \in d.up \/ m \in f \/ (m = "WIFI" /\ "WIFI_AP" \in f)
    /\ d.mode \cap Wired \subseteq Capacity
    /\ \A m \in d.mode \ {"MODEM"} : m \in d.hal
    /\ \A m \in d.hal \ {"WIFI", "MODEM"} : m \in d.mode \/ m \in f
    /\ "WIFI_AP" \in d.mode => "WIFI" \notin d.hal
    /\ d.modem => "MODEM" \in d.mode

\* The modem and the ethernet are the same in d and e.
SameWired(d, e) ==
    /\ d.mode \cap Wired = e.mode \cap Wired
    /\ d.hal \cap Wired = e.hal \cap Wired

LEMMA CloseApKeeps ==
    ASSUME NEW d, NEW f \in SUBSET Modes, Coherent(d, f)
    PROVE  LET e == CloseAp(d) IN
           /\ Coherent(e, f) /\ SameWired(d, e) /\ "WIFI_AP" \notin e.mode \cup e.hal
           /\ e.mode = d.mode \ {"WIFI_AP"}
           /\ "WIFI" \in e.hal <=> "WIFI" \in d.hal
           /\ "WIFI" \in e.up => "WIFI" \in d.up
  <1> DEFINE a == HalStop(d, "WIFI_AP")
             b == ClearMode(a, "WIFI_AP")
             e == CloseAp(d)
  <1>0. "WIFI_AP" \in Modes /\ "AP_CLOSE" \in States /\ d \in Devs
    BY DEF Modes, States, Coherent
  <1>1. /\ a \in Devs /\ a.mode = d.mode /\ a.modem = d.modem /\ a.hal = d.hal \ {"WIFI_AP"}
        /\ a.up = IF "WIFI_AP" \in d.hal THEN d.up \ {"WIFI_AP", "WIFI"} ELSE d.up
    BY <1>0, HalStopIs DEF Rivals
  <1>2. /\ b \in Devs /\ b.mode = d.mode \ {"WIFI_AP"} /\ b.modem = d.modem
        /\ b.hal = a.hal /\ b.up = a.up
    BY <1>0, <1>1, ModeIs
  <1>3. e = [b EXCEPT !.state = "AP_CLOSE"]
    BY DEF CloseAp
  <1> HIDE DEF a, b
  <1>4. /\ e \in Devs /\ e.mode = d.mode \ {"WIFI_AP"} /\ e.modem = d.modem
        /\ e.hal = d.hal \ {"WIFI_AP"}
        /\ e.up = IF "WIFI_AP" \in d.hal THEN d.up \ {"WIFI_AP", "WIFI"} ELSE d.up
    BY <1>0, <1>1, <1>2, <1>3, StateIs
  <1> HIDE DEF e
  <1>5. Coherent(e, f)
    BY <1>4 DEF Coherent, Wired
  <1>6. SameWired(d, e)
    BY <1>4 DEF SameWired, Wired
  <1> QED BY <1>4, <1>5, <1>6 DEF e

LEMMA CloseApIfOnKeeps ==
    ASSUME NEW d, NEW f \in SUBSET Modes, Coherent(d, f)
    PROVE  LET e == CloseApIfOn(d) IN
           /\ Coherent(e, f) /\ SameWired(d, e) /\ "WIFI_AP" \notin e.mode
           /\ e.mode = d.mode \ {"WIFI_AP"}
           /\ "WIFI" \in e.hal <=> "WIFI" \in d.hal
           /\ "WIFI" \in e.up => "WIFI" \in d.up
  <1>1. CASE "WIFI_AP" \in d.mode
    <2>1. CloseApIfOn(d) = CloseAp(d)
      BY <1>1 DEF CloseApIfOn
    <2>2. LET e == CloseAp(d) IN
          /\ Coherent(e, f) /\ SameWired(d, e) /\ "WIFI_AP" \notin e.mode \cup e.hal
          /\ e.mode = d.mode \ {"WIFI_AP"}
          /\ "WIFI" \in e.hal <=> "WIFI" \in d.hal
          /\ "WIFI" \in e.up => "WIFI" \in d.up
      BY CloseApKeeps
    <2> QED BY <2>1, <2>2
  <1>2. CASE "WIFI_AP" \notin d.mode
    <2>1. CloseApIfOn(d) = d
      BY <1>2 DEF CloseApIfOn
    <2>2. d.mode = d.mode \ {"WIFI_AP"}
      BY <1>2
    <2> QED BY <1>2, <2>1, <2>2 DEF SameWired
  <1> QED BY <1>1, <1>2

LEMMA StateKeeps ==
    ASSUME NEW d, NEW f \in SUBSET Modes, Coherent(d, f), NEW s \in States
    PROVE  LET e == [d EXCEPT !.state = s] IN
           /\ Coherent(e, f) /\ SameWired(d, e)
           /\ e.hal = d.hal /\ e.up = d.up /\ e.mode = d.mode
  <1> DEFINE e == [d EXCEPT !.state = s]
  <1>1. /\ e \in Devs /\ e.hal = d.hal /\ e.up = d.up
        /\ e.modem = d.modem /\ e.mode = d.mode
    BY StateIs DEF Coherent
  <1> HIDE DEF e
  <1>2. Coherent(e, f) /\ SameWired(d, e)
    BY <1>1 DEF Coherent, SameWired
  <1> QED BY <1>1, <1>2 DEF e

\* Fails(m, ok): what a start adds to the failed ones.
Fails(m, ok) == IF ok THEN {} ELSE {m}

LEMMA StationStarts ==
    ASSUME NEW d, NEW f \in SUBSET Modes, Coherent(d, f), "WIFI_AP" \notin d.mode,
           NEW ok \in BOOLEAN
    PROVE  LET e == HalStart(d, "WIFI", ok) IN
           /\ Coherent(e, f \cup Fails("WIFI", ok)) /\ SameWired(d, e)
           /\ "WIFI" \in e.hal /\ e.mode = d.mode
           /\ "WIFI" \in d.hal => e.up = d.up
  <1> DEFINE e == HalStart(d, "WIFI", ok)
  <1>1. /\ e \in Devs /\ e.mode = d.mode /\ e.modem = d.modem
        /\ e.hal = d.hal \cup {"WIFI"}
        /\ e.up = IF "WIFI" \notin d.hal /\ ok THEN d.up \cup {"WIFI"} ELSE d.up
    BY HalStartIs, ZenonT(60) DEF Coherent, Modes
  <1> HIDE DEF e
  <1>2. Coherent(e, f \cup Fails("WIFI", ok))
    BY <1>1 DEF Coherent, Fails, Wired
  <1>3. SameWired(d, e)
    BY <1>1 DEF SameWired, Wired
  <1> QED BY <1>1, <1>2, <1>3 DEF e

\* network_configure_net(WIFI, STOP).
StopStation(d) == [ClearMode(HalStop(d, "WIFI"), "WIFI") EXCEPT !.state = "CLOSE"]

LEMMA StationStops ==
    ASSUME NEW d, NEW f \in SUBSET Modes, Coherent(d, f)
    PROVE  LET e == StopStation(d) IN
           /\ Coherent(e, f) /\ SameWired(d, e)
           /\ "WIFI" \notin e.mode \cup e.hal \cup e.up
           /\ e.mode = d.mode \ {"WIFI"}
  <1> DEFINE a == HalStop(d, "WIFI")
             b == ClearMode(a, "WIFI")
             e == StopStation(d)
  <1>0. "WIFI" \in Modes /\ "CLOSE" \in States /\ d \in Devs
    BY DEF Modes, States, Coherent
  <1>1. /\ a \in Devs /\ a.mode = d.mode /\ a.modem = d.modem /\ a.hal = d.hal \ {"WIFI"}
        /\ a.up = IF "WIFI" \in d.hal THEN d.up \ {"WIFI_AP", "WIFI"} ELSE d.up
    BY <1>0, HalStopIs DEF Rivals
  <1>2. /\ b \in Devs /\ b.mode = d.mode \ {"WIFI"} /\ b.modem = d.modem
        /\ b.hal = a.hal /\ b.up = a.up
    BY <1>0, <1>1, ModeIs
  <1>3. e = [b EXCEPT !.state = "CLOSE"]
    BY DEF StopStation
  <1> HIDE DEF a, b
  <1>4. /\ e \in Devs /\ e.mode = d.mode \ {"WIFI"} /\ e.modem = d.modem
        /\ e.hal = d.hal \ {"WIFI"}
        /\ e.up = IF "WIFI" \in d.hal THEN d.up \ {"WIFI_AP", "WIFI"} ELSE d.up
    BY <1>0, <1>1, <1>2, <1>3, StateIs
  <1> HIDE DEF e
  <1>5. Coherent(e, f)
    BY <1>4 DEF Coherent, Wired
  <1>6. SameWired(d, e)
    BY <1>4 DEF SameWired, Wired
  <1>7. "WIFI" \notin e.mode \cup e.hal \cup e.up
    BY <1>4 DEF Coherent
  <1> QED BY <1>4, <1>5, <1>6, <1>7 DEF e

LEMMA ToApKeeps ==
    ASSUME NEW d, NEW f \in SUBSET Modes, Coherent(d, f)
    PROVE  LET e == ToAp(d) IN
           /\ Coherent(e, f) /\ SameWired(d, e)
           /\ "WIFI" \notin e.mode \cup e.hal \cup e.up /\ "WIFI_AP" \notin e.mode
  <1> DEFINE a == StopStation(d)
  <1>1. /\ Coherent(a, f) /\ SameWired(d, a)
        /\ "WIFI" \notin a.mode \cup a.hal \cup a.up
    BY StationStops
  <1>2. ToAp(d) = CloseApIfOn(a)
    BY DEF ToAp, StopStation
  <1> HIDE DEF a
  <1>3. LET e == CloseApIfOn(a) IN
        /\ Coherent(e, f) /\ SameWired(a, e) /\ "WIFI_AP" \notin e.mode
        /\ e.mode = a.mode \ {"WIFI_AP"}
        /\ "WIFI" \in e.hal <=> "WIFI" \in a.hal
        /\ "WIFI" \in e.up => "WIFI" \in a.up
    BY <1>1, CloseApIfOnKeeps
  <1> QED BY <1>1, <1>2, <1>3 DEF SameWired

\* The access point is started and its mode set.
LEMMA ApStarts ==
    ASSUME NEW d, NEW f \in SUBSET Modes, Coherent(d, f),
           "WIFI" \notin d.mode \cup d.hal \cup d.up, NEW ok \in BOOLEAN
    PROVE  LET g == f \cup Fails("WIFI_AP", ok)
               a == HalStart(d, "WIFI_AP", ok)
               e == SetMode(a, "WIFI_AP")
           IN /\ SameWired(d, a) /\ SameWired(d, e)
              /\ "WIFI" \notin a.hal \cup a.up \cup e.hal \cup e.up
              /\ Coherent(e, g) /\ "WIFI_AP" \in e.mode
              /\ a \in Devs /\ a.mode = d.mode
              /\ ~ok \/ "WIFI_AP" \in d.mode => Coherent(a, g)
  <1> DEFINE g == f \cup Fails("WIFI_AP", ok)
             a == HalStart(d, "WIFI_AP", ok)
             e == SetMode(a, "WIFI_AP")
  <1>0. "WIFI_AP" \in Modes /\ d \in Devs
    BY DEF Modes, Coherent
  <1>1. /\ a \in Devs /\ a.mode = d.mode /\ a.modem = d.modem
        /\ a.hal = d.hal \cup {"WIFI_AP"}
        /\ a.up = IF "WIFI_AP" \notin d.hal /\ ok THEN d.up \cup {"WIFI_AP"} ELSE d.up
    BY <1>0, HalStartIs
  <1> HIDE DEF a
  <1>2. /\ e \in Devs /\ e.mode = (d.mode \ {"WIFI"}) \cup {"WIFI_AP"}
        /\ e.modem = d.modem /\ e.hal = a.hal /\ e.up = a.up
    BY <1>0, <1>1, ModeIs DEF Rivals
  <1> HIDE DEF e
  <1>3. SameWired(d, a) /\ SameWired(d, e)
    BY <1>1, <1>2 DEF SameWired, Wired
  <1>4. Coherent(e, g)
    BY <1>1, <1>2 DEF Coherent, Fails, Wired
  <1>5. ~ok \/ "WIFI_AP" \in d.mode => Coherent(a, g)
    BY <1>1 DEF Coherent, Fails, Wired
  <1>6. "WIFI" \notin a.hal \cup a.up \cup e.hal \cup e.up
    BY <1>1, <1>2
  <1> QED BY <1>1, <1>2, <1>3, <1>4, <1>5, <1>6 DEF a, e

LEMMA WiredStops ==
    ASSUME NEW d \in Devs, NEW m \in Wired
    PROVE  LET e == ClearMode(StopWired(d, m), m) IN
           /\ e \in Devs /\ e.mode = d.mode \ {m} /\ e.hal = d.hal \ {m}
           /\ e.up = IF m \in d.hal THEN d.up \ {m} ELSE d.up
           /\ e.modem <=> d.modem /\ m # "MODEM"
  <1> DEFINE a == HalStop(d, m)
             b == StopWired(d, m)
             e == ClearMode(b, m)
  <1>0. m \in Modes /\ Rivals(m) = {}
    BY DEF Wired, Modes, Rivals
  <1>1. /\ a \in Devs /\ a.mode = d.mode /\ a.state = d.state /\ a.modem = d.modem
        /\ a.hal = d.hal \ {m} /\ a.up = IF m \in d.hal THEN d.up \ {m} ELSE d.up
    BY <1>0, HalStopIs
  <1>2. b = [a EXCEPT !.modem = @ /\ m # "MODEM"]
    BY DEF StopWired
  <1> HIDE DEF a
  <1>3. /\ b \in Devs /\ b.mode = a.mode /\ b.hal = a.hal /\ b.up = a.up
        /\ b.modem = (a.modem /\ m # "MODEM")
    BY <1>1, <1>2 DEF Devs
  <1> HIDE DEF b
  <1>4. /\ e \in Devs /\ e.mode = d.mode \ {m} /\ e.hal = b.hal /\ e.up = b.up
        /\ e.modem = b.modem
    BY <1>0, <1>1, <1>3, ModeIs
  <1> HIDE DEF e
  <1>5. e.modem <=> d.modem /\ m # "MODEM"
    BY <1>1, <1>3, <1>4
  <1> QED BY <1>1, <1>3, <1>4, <1>5 DEF e, b

\* Coherent, but for the access point while the modem is started.
Around(d, f) ==
    /\ d \in Devs /\ d.up \subseteq d.hal
    /\ \A m \in d.hal : m \in d.up \/ m \in f \/ (m = "WIFI" /\ "WIFI_AP" \in f)
    /\ d.mode \cap Wired \subseteq Capacity
    /\ \A m \in d.mode \ {"MODEM", "WIFI_AP"} : m \in d.hal
    /\ \A m \in d.hal \ {"WIFI", "MODEM"} : m \in d.mode \/ m \in f
    /\ "WIFI_AP" \in d.mode => "WIFI" \notin d.hal
    /\ d.modem => "MODEM" \in d.mode

SameWifi(d, e) ==
    /\ \A m \in {"WIFI", "WIFI_AP"} :
         (m \in d.mode <=> m \in e.mode) /\ (m \in d.hal <=> m \in e.hal)
    /\ "WIFI" \in d.up <=> "WIFI" \in e.up

\* One of the wired modes is m, on with its device or off.
Restarted(d, e, m, f) ==
    /\ \A x \in Wired \ {m} :
         (x \in d.mode <=> x \in e.mode) /\ (x \in d.hal <=> x \in e.hal)
    /\ m \in e.mode => m \in e.hal
    /\ m \in e.hal => m \in e.mode \/ m \in f \/ (m \in d.hal /\ m \notin d.mode)
    /\ m \in d.mode => m \in e.mode \/ m \in f

LEMMA WiredRestarts ==
    ASSUME NEW a, NEW f \in SUBSET Modes, Around(a, f), NEW m \in Wired,
           NEW ok \in BOOLEAN, ok \/ m \in Capacity
    PROVE  LET b == IF m \in a.mode THEN ClearMode(StopWired(a, m), m) ELSE a
               up == m \in Capacity /\ (m \in b.hal \/ ok)
               c == IF m \in Capacity THEN HalStart(b, m, ok) ELSE b
               d == IF up THEN [SetMode(c, m) EXCEPT !.modem = @ \/ m = "MODEM"] ELSE c
               g == f \cup Fails(m, ok)
           IN ok \/ m \notin b.hal =>
                Around(d, g) /\ SameWifi(a, d) /\ Restarted(a, d, m, g)
  <1> DEFINE b == IF m \in a.mode THEN ClearMode(StopWired(a, m), m) ELSE a
             up == m \in Capacity /\ (m \in b.hal \/ ok)
             c == IF m \in Capacity THEN HalStart(b, m, ok) ELSE b
             d == IF up THEN [SetMode(c, m) EXCEPT !.modem = @ \/ m = "MODEM"] ELSE c
             g == f \cup Fails(m, ok)
  <1> SUFFICES ASSUME ok \/ m \notin b.hal
               PROVE  Around(d, g) /\ SameWifi(a, d) /\ Restarted(a, d, m, g)
    OBVIOUS
  <1>0. m \in Modes /\ Rivals(m) = {} /\ a \in Devs
    BY DEF Wired, Modes, Rivals, Around
  <1>1. /\ b \in Devs /\ b.mode = a.mode \ {m}
        /\ b.hal = IF m \in a.mode THEN a.hal \ {m} ELSE a.hal
        /\ b.up = IF m \in a.mode /\ m \in a.hal THEN a.up \ {m} ELSE a.up
        /\ b.modem <=> a.modem /\ m # "MODEM"
    <2>1. CASE m \in a.mode
      <3>1. b = ClearMode(StopWired(a, m), m)
        BY <2>1
      <3> HIDE DEF b
      <3> QED BY <1>0, <2>1, <3>1, WiredStops
    <2>2. CASE m \notin a.mode
      <3>1. b = a /\ a.mode = a.mode \ {m}
        BY <2>2
      <3> HIDE DEF b
      <3> QED BY <1>0, <2>2, <3>1 DEF Around
    <2> QED BY <2>1, <2>2
  <1> HIDE DEF b
  <1>2. Around(b, f) /\ SameWifi(a, b) /\ m \notin b.mode
    BY <1>1 DEF Around, SameWifi, Wired
  <1>3. \A x \in Wired \ {m} : (x \in a.mode <=> x \in b.mode) /\ (x \in a.hal <=> x \in b.hal)
    BY <1>1
  <1>4. CASE m \notin Capacity
    <2>1. d = b /\ g = f /\ m \notin a.mode
      BY <1>4 DEF Around, Fails
    <2> HIDE DEF d, g
    <2>2. Restarted(a, b, m, f)
      BY <1>1, <1>2, <1>3, <1>4, <2>1 DEF Restarted
    <2> QED BY <1>2, <2>1, <2>2
  <1>5. CASE m \in Capacity
    <2>1. /\ c \in Devs /\ c.mode = b.mode /\ c.modem = b.modem
          /\ c.hal = b.hal \cup {m}
          /\ c.up = IF m \notin b.hal /\ ok THEN b.up \cup {m} ELSE b.up
      BY <1>0, <1>1, <1>5, HalStartIs
    <2> HIDE DEF c
    <2>2. CASE ok
      <3> DEFINE h == SetMode(c, m)
      <3>1. /\ h \in Devs /\ h.mode = c.mode \cup {m} /\ h.hal = c.hal /\ h.up = c.up
            /\ h.modem = c.modem
        BY <1>0, <2>1, ModeIs
      <3>2. d = [h EXCEPT !.modem = @ \/ m = "MODEM"]
        BY <1>5, <2>2
      <3> HIDE DEF h
      <3>3. /\ d \in Devs /\ d.mode = b.mode \cup {m} /\ d.hal = c.hal /\ d.up = c.up
            /\ d.modem = (c.modem \/ m = "MODEM")
        BY <2>1, <3>1, <3>2 DEF Devs
      <3>4. g = f
        BY <2>2 DEF Fails
      <3> HIDE DEF d, g
      <3>5. Around(d, f)
        BY <1>2, <1>5, <2>1, <2>2, <3>3 DEF Around, Wired
      <3>6. SameWifi(b, d)
        BY <2>1, <2>2, <3>3 DEF SameWifi, Wired
      <3>7. Restarted(a, d, m, f)
        BY <1>3, <2>1, <3>3 DEF Restarted
      <3> QED BY <1>2, <3>4, <3>5, <3>6, <3>7 DEF SameWifi
    <2>3. CASE ~ok
      <3>1. d = c /\ m \notin b.hal
        BY <2>3
      <3>2. g = f \cup {m}
        BY <2>3 DEF Fails
      <3> HIDE DEF d, g
      <3>3. Around(c, g)
        BY <1>2, <2>1, <2>3, <3>1, <3>2 DEF Around, Wired
      <3>4. SameWifi(b, c)
        BY <2>1, <2>3 DEF SameWifi, Wired
      <3>5. Restarted(a, c, m, g)
        BY <1>1, <1>3, <2>1, <3>2 DEF Restarted
      <3> QED BY <1>2, <3>1, <3>3, <3>4, <3>5 DEF SameWifi
    <2> QED BY <2>2, <2>3
  <1> QED BY <1>4, <1>5

-----------------------------------------------------------------------------
(* The inductive invariant.                                                *)

Statuses == {"CONNECTED", "DISCONNECTED"}
Nets == {"saved", "asked", "queued", "kept"}
Events == [kind : Kinds, net : Nets]

Mons == [flag : BOOLEAN, open : BOOLEAN, failed : Nat, roam : Statuses \cup {"none"},
         thread : {"none", "starting", "open", "ended"}, status : Statuses]
Wpas == [runs : BOOLEAN, link : BOOLEAN, enabled : BOOLEAN, net : Nets,
         sock : Seq(Events)]

Types ==
    /\ mon \in Mons /\ wpa \in Wpas
    /\ pc \in {"idle", "open", "join", "wait", "signalled", "woken"}
    /\ result \in {"OK", "NOK"} /\ got \in {"OK", "NOK"}
    /\ ticks \subseteq Ticks /\ loop \in Ticks
    /\ fault \in {"none", "null", "freed twice"}
    /\ modemRaced \in BOOLEAN /\ blind \in BOOLEAN

\* The devices, with what the modem's monitor may be doing to them.
Devices ==
    /\ failed \subseteq Modes /\ Coherent(dev, failed)
    /\ "MODEM" \in dev.hal => "MODEM" \in dev.mode \cup failed \/ modemRaced
    /\ "MODEM" \in dev.mode => "MODEM" \in dev.hal \/ loop.cb = "modem"
    /\ \A k \in ticks \cup {loop} :
         k.cb = "modem" => "MODEM" \in dev.mode \cup failed \/ modemRaced
    /\ pc # "idle" => "WIFI" \in dev.hal /\ "WIFI_AP" \notin dev.mode
    /\ mon.flag => "WIFI" \in dev.hal

Timers == [ptr : Nat, flag : BOOLEAN, alive : SUBSET Nat, armed : SUBSET Nat,
           lost : SUBSET Nat]

\* There is one timer or none, and the flag says which.
OneTimer(t) ==
    /\ t \in Timers
    /\ t.armed \subseteq t.alive /\ t.alive \subseteq 1..t.ptr
    /\ t.flag <=> t.ptr \in t.alive
    /\ t.alive \subseteq {t.ptr}

\* The access point's timers and their ticks.
Accounted ==
    /\ OneTimer(timer)
    /\ \A k \in ticks \cup {loop} :
         k.cb = "ap" => k.n \in (timer.alive \ timer.armed) \cup raced
    /\ timer.alive \subseteq
         left \cup (IF "WIFI_AP" \in dev.mode THEN {ap.own} ELSE {})
    /\ fault = "freed twice" => raced # {}

\* From wifi_disable_all_network on, wpa_supplicant is at the network asked for, at
\* none, or at one that was not disabled; and an event that wakes CONNECT with OK is
\* about one of these, or older.
NoneSaved(w) ==
    /\ \A i \in DOMAIN w.sock : w.sock[i].kind \in Connects => w.sock[i].net # "saved"
    /\ w.net = "saved" => ~w.enabled /\ ~w.link
Asked ==
    /\ pc \in {"join", "wait", "signalled", "woken"} => NoneSaved(wpa)
    /\ pc = "signalled" /\ result = "OK" => woke \in {"asked", "queued", "kept", "spurious"}
    /\ OkIsThisNetwork

\* What the unread events q will make of the status: Final(q) is the last that
\* changes it, Silent(q) says that there is none.
Final(q) == {i \in DOMAIN q : /\ q[i].kind # "not_found"
                              /\ \A j \in DOMAIN q : j > i => q[j].kind = "not_found"}
Silent(q) == \A i \in DOMAIN q : q[i].kind = "not_found"

HeardIn(w, m, b) ==
    /\ m.thread # "none" => m.flag
    /\ m.thread # "open" => w.sock = <<>>
    /\ m.thread = "open" =>
         /\ \A i \in Final(w.sock) : w.sock[i].kind = "connected" <=> w.link
         /\ Silent(w.sock) /\ ~b => (m.status = "CONNECTED" <=> w.link)
Heard == HeardIn(wpa, mon, blind)

IInv == Types /\ Devices /\ Accounted /\ Asked /\ Heard

-----------------------------------------------------------------------------
(* The devices.                                                            *)

\* No step but WIFI_AP CONNECT turns the access point on.
NoNewAp == "WIFI_AP" \in dev'.mode => "WIFI_AP" \in dev.mode
Moved == Devices' /\ NoNewAp

\* A step that leaves the modem and the ethernet alone.
LEMMA WifiMoves ==
    ASSUME Devices, Coherent(dev', failed'), SameWired(dev, dev'),
           failed \subseteq failed', failed' \subseteq Modes, modemRaced' = modemRaced,
           \A k \in ticks' \cup {loop'} : k.cb = "modem" => k \in ticks \cup {loop},
           loop.cb = "modem" => loop'.cb = "modem",
           pc' # "idle" => "WIFI" \in dev'.hal /\ "WIFI_AP" \notin dev'.mode,
           mon'.flag => "WIFI" \in dev'.hal
    PROVE  Devices'
  <1>1. /\ "MODEM" \in dev.hal <=> "MODEM" \in dev'.hal
        /\ "MODEM" \in dev.mode <=> "MODEM" \in dev'.mode
    BY DEF SameWired, Wired
  <1> QED BY <1>1 DEF Devices

LEMMA FailingIs ==
    ASSUME NEW m \in Modes, NEW ok \in BOOLEAN, Failing(m, ok), failed \subseteq Modes
    PROVE  failed' = failed \cup Fails(m, ok) /\ failed' \subseteq Modes
  BY DEF Failing, Fails

LEMMA SameIsSame == ASSUME NEW d PROVE SameWired(d, d)
  BY DEF SameWired

LEMMA SameTwice ==
    ASSUME NEW a, NEW b, NEW c, SameWired(a, b), SameWired(b, c)
    PROVE  SameWired(a, c)
  BY DEF SameWired

LEMMA StationDevices ==
    ASSUME Types, Devices
    PROVE  /\ ScanOrRemove => Moved
           /\ StopWifiStation => Moved
           /\ StopWifiAp => Moved
  <1> USE DEF Devices
  <1>1. ASSUME ScanOrRemove PROVE Moved
    <2> DEFINE c == CloseApIfOn(dev)
    <2>1. PICK ok \in BOOLEAN, half \in BOOLEAN :
            /\ StartWifiScan(ok, half) \/ RemoveNetwork(ok, half)
            /\ Failing("WIFI", ok)
      BY <1>1 DEF ScanOrRemove
    <2>2. failed' = failed \cup Fails("WIFI", ok) /\ failed' \subseteq Modes
      BY <2>1, FailingIs DEF Modes
    <2>3. /\ Coherent(c, failed) /\ SameWired(dev, c) /\ "WIFI_AP" \notin c.mode
          /\ "WIFI" \in c.hal <=> "WIFI" \in dev.hal
          /\ "WIFI" \in c.up => "WIFI" \in dev.up
      BY CloseApIfOnKeeps
    <2> DEFINE e == HalStart(c, "WIFI", ok)
    <2>4. /\ dev' = e \/ dev' = [e EXCEPT !.state = "PRE_JOIN"]
      BY <2>1 DEF StartWifiScan, RemoveNetwork
    <2> HIDE DEF c
    <2>5. /\ Coherent(e, failed') /\ SameWired(c, e) /\ "WIFI" \in e.hal /\ e.mode = c.mode
          /\ "WIFI" \in c.hal => e.up = c.up
      BY <2>2, <2>3, StationStarts
    <2> HIDE DEF e
    <2>6. /\ Coherent(dev', failed') /\ SameWired(e, dev') /\ "WIFI" \in dev'.hal
          /\ dev'.mode = e.mode /\ dev'.up = e.up
      <3>1. CASE dev' = e
        BY <2>5, <3>1, SameIsSame
      <3>2. CASE dev' = [e EXCEPT !.state = "PRE_JOIN"]
        BY <2>2, <2>5, <3>2, StateKeeps DEF States
      <3> QED BY <2>4, <3>1, <3>2
    <2>7. SameWired(dev, dev')
      BY <2>3, <2>5, <2>6, SameTwice
    <2>8. NoNewAp
      BY <2>3, <2>5, <2>6 DEF NoNewAp
    <2> QED BY <1>1, <2>2, <2>6, <2>7, <2>8, WifiMoves DEF ScanOrRemove, Command, Moved
  <1>2. ASSUME StopWifiStation PROVE Moved
    <2>1. dev' = StopStation(dev) /\ failed' = failed /\ pc' = "idle" /\ ~mon'.flag
      <3>1. PICK o \in BOOLEAN : mon' = StopMonitor(mon, o)
        BY <1>2 DEF StopWifiStation
      <3> QED BY <1>2, <3>1 DEF StopWifiStation, Command, StopStation, StopMonitor,
                 Types, Mons
    <2>2. /\ Coherent(dev', failed') /\ SameWired(dev, dev')
          /\ "WIFI" \notin dev'.up /\ dev'.mode = dev.mode \ {"WIFI"}
      BY <2>1, StationStops
    <2>3. NoNewAp
      BY <2>2 DEF NoNewAp
    <2> QED BY <1>2, <2>1, <2>2, <2>3, WifiMoves DEF StopWifiStation, Moved
  <1>3. ASSUME StopWifiAp PROVE Moved
    <2>1. dev' = CloseAp(dev) /\ failed' = failed /\ pc' = "idle" /\ mon' = mon
      BY <1>3 DEF StopWifiAp, Command
    <2>2. /\ Coherent(dev', failed') /\ SameWired(dev, dev')
          /\ "WIFI" \in dev'.hal <=> "WIFI" \in dev.hal
          /\ "WIFI" \in dev'.up => "WIFI" \in dev.up
          /\ "WIFI_AP" \notin dev'.mode
      BY <2>1, CloseApKeeps
    <2>3. NoNewAp
      BY <2>2 DEF NoNewAp
    <2> QED BY <1>3, <2>1, <2>2, <2>3, WifiMoves DEF StopWifiAp, Moved
  <1> QED BY <1>1, <1>2, <1>3

LEMMA ApDevices ==
    ASSUME Types, Devices, ApConnect
    PROVE  Devices'
  <1> USE DEF Devices
  <1> DEFINE c == ToAp(dev)
  <1>1. ~mon'.flag /\ pc' = "idle"
    <2>1. PICK o \in BOOLEAN : mon' = StopMonitor(mon, o)
      BY DEF ApConnect
    <2> QED BY <2>1 DEF ApConnect, Command, StopMonitor, Types, Mons
  <1>2. /\ Coherent(c, failed) /\ SameWired(dev, c)
        /\ "WIFI" \notin c.mode \cup c.hal \cup c.up /\ "WIFI_AP" \notin c.mode
    BY ToApKeeps
  <1>3. ASSUME NEW asked \in BOOLEAN, NEW ok \in BOOLEAN, NEW said \in BOOLEAN,
               StartWifiAp(asked, ok, said), Failing("WIFI_AP", ok)
        PROVE  /\ Coherent(dev', failed') /\ SameWired(dev, dev')
               /\ failed \subseteq failed' /\ failed' \subseteq Modes
               /\ "WIFI" \notin dev'.up
    <2> DEFINE a == HalStart(c, "WIFI_AP", ok)
               e == SetMode(a, "WIFI_AP")
               g == failed \cup Fails("WIFI_AP", ok)
    <2>1. failed' = g /\ failed' \subseteq Modes
      BY <1>3, FailingIs DEF Modes
    <2>2. \/ dev' = [e EXCEPT !.state = "AP_CONNECTED"]
          \/ ~ok /\ dev' = [a EXCEPT !.state = "AP_UNCONNECTED"]
      BY <1>3 DEF StartWifiAp
    <2> HIDE DEF c
    <2>3. /\ SameWired(c, a) /\ SameWired(c, e) /\ Coherent(e, g)
          /\ ~ok => Coherent(a, g)
          /\ "WIFI" \notin a.up \cup e.up
      BY <1>2, ApStarts
    <2> HIDE DEF a, e, g
    <2>4. CASE dev' = [e EXCEPT !.state = "AP_CONNECTED"]
      <3>1. Coherent(dev', failed') /\ SameWired(e, dev') /\ dev'.up = e.up
        BY <2>1, <2>3, <2>4, StateKeeps DEF States
      <3> QED BY <1>2, <2>1, <2>3, <3>1, SameTwice DEF g
    <2>5. CASE ~ok /\ dev' = [a EXCEPT !.state = "AP_UNCONNECTED"]
      <3>1. Coherent(dev', failed') /\ SameWired(a, dev') /\ dev'.up = a.up
        BY <2>1, <2>3, <2>5, StateKeeps DEF States
      <3> QED BY <1>2, <2>1, <2>3, <3>1, SameTwice DEF g
    <2> QED BY <2>2, <2>4, <2>5
  <1>4. ASSUME StartWifiApBadFormat, UNCHANGED failed
        PROVE  Coherent(dev', failed') /\ SameWired(dev, dev') /\ "WIFI" \notin dev'.up
    BY <1>2, <1>4 DEF StartWifiApBadFormat
  <1> HIDE DEF c
  <1>5. /\ Coherent(dev', failed') /\ SameWired(dev, dev')
        /\ failed \subseteq failed' /\ failed' \subseteq Modes /\ "WIFI" \notin dev'.up
    BY <1>3, <1>4 DEF ApConnect
  <1>6. ticks' = ticks /\ loop' = loop /\ modemRaced' = modemRaced
    BY DEF ApConnect
  <1> QED BY <1>1, <1>5, <1>6, WifiMoves

LEMMA JoiningKeeps ==
    ASSUME NEW d, NEW f \in SUBSET Modes, Coherent(d, f)
    PROVE  LET e == Joining(d) IN
           /\ Coherent(e, f) /\ SameWired(d, e) /\ "WIFI_AP" \notin e.mode
           /\ e.mode = d.mode \ {"WIFI_AP"}
           /\ "WIFI" \in e.hal <=> "WIFI" \in d.hal
           /\ "WIFI" \in e.up => "WIFI" \in d.up
  <1> DEFINE a == CloseApIfOn(d)
  <1>1. /\ Coherent(a, f) /\ SameWired(d, a) /\ "WIFI_AP" \notin a.mode
        /\ a.mode = d.mode \ {"WIFI_AP"}
        /\ "WIFI" \in a.hal <=> "WIFI" \in d.hal
        /\ "WIFI" \in a.up => "WIFI" \in d.up
    BY CloseApIfOnKeeps
  <1>2. Joining(d) = [a EXCEPT !.state = "JOINING"]
    BY DEF Joining
  <1> HIDE DEF a
  <1>3. LET e == [a EXCEPT !.state = "JOINING"] IN
        /\ Coherent(e, f) /\ SameWired(a, e)
        /\ e.hal = a.hal /\ e.up = a.up /\ e.mode = a.mode
    BY <1>1, StateKeeps DEF States
  <1> QED BY <1>1, <1>2, <1>3 DEF SameWired

\* The steps of WIFI CONNECT, and the others that need no more than this.
LEMMA ConnectDevices ==
    ASSUME Types, Devices
    PROVE  /\ ConnectBadFormat => Moved
           /\ ConnectFails => Moved
           /\ ConnectStarts => Moved
  <1> USE DEF Devices
  <1> DEFINE j == Joining(dev)
  <1>0. /\ Coherent(j, failed) /\ SameWired(dev, j) /\ "WIFI_AP" \notin j.mode
        /\ j.mode = dev.mode \ {"WIFI_AP"}
        /\ "WIFI" \in j.hal <=> "WIFI" \in dev.hal
        /\ "WIFI" \in j.up => "WIFI" \in dev.up
    BY JoiningKeeps
  <1>1. ASSUME ConnectBadFormat PROVE Moved
    <2>1. /\ dev' = j /\ failed' = failed /\ pc' = "idle" /\ mon' = mon
          /\ ticks' = ticks /\ loop' = loop /\ modemRaced' = modemRaced
      BY <1>1 DEF ConnectBadFormat, ConnectBegins, Command
    <2> HIDE DEF j
    <2>2. NoNewAp
      BY <1>0, <2>1 DEF NoNewAp
    <2> QED BY <1>0, <2>1, <2>2, WifiMoves DEF Moved
  <1>2. ASSUME ConnectFails PROVE Moved
    <2>1. PICK what \in {"capacity", "station", "monitor"} :
            /\ dev' = [(IF what = "capacity" THEN j ELSE HalStart(j, "WIFI", what # "station"))
                       EXCEPT !.state = "UNCONNECTED"]
            /\ mon' = IF what = "monitor" THEN [mon EXCEPT !.status = "DISCONNECTED"]
                      ELSE mon
            /\ Failing("WIFI", what # "station")
      BY <1>2 DEF ConnectFails
    <2>2. mon'.flag = mon.flag
      BY <2>1 DEF Types, Mons
    <2> DEFINE ok == what # "station"
               h == HalStart(j, "WIFI", ok)
               e == IF what = "capacity" THEN j ELSE h
    <2>3. failed' = failed \cup Fails("WIFI", ok) /\ failed' \subseteq Modes
      BY <2>1, FailingIs DEF Modes
    <2>4. dev' = [e EXCEPT !.state = "UNCONNECTED"]
      BY <2>1
    <2> HIDE DEF j
    <2>5. /\ Coherent(h, failed') /\ SameWired(j, h) /\ "WIFI" \in h.hal
          /\ h.mode = j.mode /\ ("WIFI" \in j.hal => h.up = j.up)
      BY <1>0, <2>3, StationStarts
    <2>6. what = "capacity" => failed' = failed
      BY <2>3 DEF Fails
    <2> HIDE DEF h, ok
    <2>7. /\ Coherent(e, failed') /\ SameWired(j, e)
          /\ "WIFI" \in dev.hal => "WIFI" \in e.hal /\ e.up = j.up
          /\ e.mode = j.mode
      BY <1>0, <2>5, <2>6, SameIsSame
    <2> HIDE DEF e
    <2>8. /\ Coherent(dev', failed') /\ SameWired(e, dev') /\ dev'.hal = e.hal
          /\ dev'.up = e.up /\ dev'.mode = e.mode
      BY <2>3, <2>4, <2>7, StateKeeps DEF States
    <2>9. SameWired(dev, dev')
      BY <1>0, <2>7, <2>8, SameTwice
    <2>10. /\ pc' = "idle" /\ ticks' = ticks /\ loop' = loop /\ modemRaced' = modemRaced
      BY <1>2 DEF ConnectFails, ConnectBegins, Command
    <2>11. NoNewAp
      BY <1>0, <2>7, <2>8 DEF NoNewAp
    <2> QED BY <2>2, <2>3, <2>7, <2>8, <2>9, <2>10, <2>11, WifiMoves DEF Moved
  <1>3. ASSUME ConnectStarts PROVE Moved
    <2>1. PICK ok \in BOOLEAN : dev' = HalStart(j, "WIFI", ok) /\ Failing("WIFI", ok)
      BY <1>3 DEF ConnectStarts
    <2>2. /\ failed' = failed \cup Fails("WIFI", ok) /\ failed' \subseteq Modes
          /\ ticks' = ticks /\ loop' = loop /\ modemRaced' = modemRaced
      BY <1>3, <2>1, FailingIs DEF ConnectStarts, ConnectBegins, Modes
    <2> HIDE DEF j
    <2>3. /\ Coherent(dev', failed') /\ SameWired(j, dev') /\ "WIFI" \in dev'.hal
          /\ dev'.mode = j.mode
      BY <1>0, <2>1, <2>2, StationStarts
    <2>4. SameWired(dev, dev')
      BY <1>0, <2>3, SameTwice
    <2>5. NoNewAp
      BY <1>0, <2>3 DEF NoNewAp
    <2>6. failed \subseteq failed'
      BY <2>2
    <2> QED BY <1>0, <2>2, <2>3, <2>4, <2>5, <2>6, WifiMoves DEF Moved
  <1> QED BY <1>1, <1>2, <1>3

\* Answer: the mode is set only where the station was started.
LEMMA AnswerKeeps ==
    ASSUME Devices, NEW ok \in BOOLEAN, Answer(ok), pc # "idle"
    PROVE  /\ Coherent(dev', failed) /\ SameWired(dev, dev') /\ dev'.hal = dev.hal
           /\ NoNewAp
  <1> USE DEF Devices
  <1>1. CASE ok
    <2> DEFINE e == SetMode(dev, "WIFI")
    <2>1. dev' = [e EXCEPT !.state = "CONNECTED"]
      BY <1>1 DEF Answer
    <2>2. /\ e \in Devs /\ e.hal = dev.hal /\ e.up = dev.up /\ e.modem = dev.modem
          /\ e.mode = (dev.mode \ {"WIFI_AP"}) \cup {"WIFI"}
      BY ModeIs DEF Rivals, Coherent, Modes
    <2> HIDE DEF e
    <2>3. Coherent(e, failed)
      BY <2>2 DEF Coherent, Wired
    <2>4. SameWired(dev, e)
      BY <2>2 DEF SameWired, Wired
    <2>5. /\ Coherent(dev', failed) /\ SameWired(e, dev') /\ dev'.hal = e.hal
          /\ dev'.up = e.up /\ dev'.mode = e.mode
      BY <2>1, <2>3, StateKeeps DEF States
    <2> QED BY <2>2, <2>4, <2>5, SameTwice DEF NoNewAp
  <1>2. CASE ~ok
    BY <1>2, StateKeeps DEF Answer, States, NoNewAp
  <1> QED BY <1>1, <1>2

LEMMA ConnectGoesOnDevices ==
    ASSUME Types, Devices, ConnectGoesOn \/ SpuriousWakeUp
    PROVE  Moved
  <1> USE DEF Devices
  <1>1. ASSUME NEW ok \in BOOLEAN, Answer(ok), pc # "idle",
               UNCHANGED <<mon, ticks, loop, failed, modemRaced>>
        PROVE  Moved
    <2>1. /\ Coherent(dev', failed') /\ SameWired(dev, dev') /\ dev'.hal = dev.hal
          /\ NoNewAp
      BY <1>1, AnswerKeeps
    <2> QED BY <1>1, <2>1, WifiMoves DEF Answer, Moved
  <1>2. ASSUME UNCHANGED <<dev, mon, loop, failed, modemRaced>>, pc # "idle",
               ticks' = ticks \/ ticks' = ticks \cup {Tick("join", 0)}
        PROVE  Moved
    <2>1. \A k \in ticks' \cup {loop'} : k.cb = "modem" => k \in ticks \cup {loop}
      BY <1>2 DEF Tick
    <2> QED BY <1>2, <2>1, SameIsSame, WifiMoves DEF Moved, NoNewAp
  <1>3. CASE MonitorNotOpen
    BY <1>1, <1>3 DEF MonitorNotOpen, hist
  <1>4. CASE DisableAndJoin
    BY <1>2, <1>4 DEF DisableAndJoin, CanAsk, hist
  <1>5. CASE DisableFails
    BY <1>1, <1>5 DEF DisableFails, CanAsk, hist
  <1>6. CASE WaitForResult
    BY <1>2, <1>6 DEF WaitForResult, hist
  <1>7. CASE \E timedOut \in BOOLEAN : WaitEnds(timedOut)
    BY <1>2, <1>7 DEF WaitEnds
  <1>8. CASE ConnectEnds
    <2>1. (got = "OK") \in BOOLEAN
      OBVIOUS
    <2> QED BY <1>1, <1>8, <2>1 DEF ConnectEnds
  <1>9. CASE SpuriousWakeUp
    BY <1>2, <1>9 DEF SpuriousWakeUp
  <1> QED BY <1>3, <1>4, <1>5, <1>6, <1>7, <1>8, <1>9 DEF ConnectGoesOn

LEMMA WiredDevices ==
    ASSUME Types, Devices, StartModemOrEtherent
    PROVE  Moved
  <1> USE DEF Devices
  <1>1. PICK m \in Wired, ok \in BOOLEAN, apOk \in BOOLEAN, said \in BOOLEAN :
          /\ StartWired(m, ok, apOk, said)
          /\ failed' = failed \cup Fails(m, ok) \cup Fails("WIFI_AP", apOk)
    BY DEF StartModemOrEtherent, Wired, Fails
  <1>2. /\ UNCHANGED <<pc, mon, ticks, loop, modemRaced>> /\ pc = "idle"
        /\ failed' \subseteq Modes
    BY <1>1 DEF StartModemOrEtherent, Command, Fails, Modes, Wired
  <1> DEFINE around == m = "MODEM" /\ "WIFI_AP" \in dev.mode
             g == failed \cup Fails(m, ok)
  <1>3. PICK a : a = IF around THEN [HalStop(dev, "WIFI_AP") EXCEPT !.state = "AP_CLOSE"]
                     ELSE dev
    OBVIOUS
  <1>4. PICK d :
          /\ ok \/ m \in Capacity
          /\ LET b == IF m \in a.mode THEN ClearMode(StopWired(a, m), m) ELSE a
                 up == m \in Capacity /\ (m \in b.hal \/ ok)
                 c == IF m \in Capacity THEN HalStart(b, m, ok) ELSE b
             IN /\ ok \/ m \notin b.hal
                /\ d = IF up THEN [SetMode(c, m) EXCEPT !.modem = @ \/ m = "MODEM"] ELSE c
          /\ (apOk \/ around) /\ (apOk => said)
          /\ dev' = CASE ~around -> d
                      [] around /\ said -> [HalStart(d, "WIFI_AP", apOk) EXCEPT
                                            !.state = "AP_CONNECTED"]
                      [] OTHER -> ClearMode(HalStart(d, "WIFI_AP", apOk), "WIFI_AP")
    BY <1>1, <1>3 DEF StartWired, MayStart
  <1>5. /\ Around(a, failed) /\ a.mode = dev.mode
        /\ "WIFI" \in a.hal <=> "WIFI" \in dev.hal
        /\ \A x \in Wired : x \in a.hal <=> x \in dev.hal
        /\ "WIFI" \in a.up => "WIFI" \in dev.up
        /\ ~around => a = dev
        /\ around => "WIFI_AP" \notin a.hal
    <2>1. CASE around
      <3> DEFINE h == HalStop(dev, "WIFI_AP")
      <3>1. /\ h \in Devs /\ h.mode = dev.mode /\ h.modem = dev.modem
            /\ h.hal = dev.hal \ {"WIFI_AP"}
            /\ h.up = IF "WIFI_AP" \in dev.hal THEN dev.up \ {"WIFI_AP", "WIFI"}
                      ELSE dev.up
        BY HalStopIs DEF Coherent, Modes, Rivals
      <3>2. a = [h EXCEPT !.state = "AP_CLOSE"]
        BY <1>3, <2>1
      <3> HIDE DEF h
      <3>3. a \in Devs /\ a.hal = h.hal /\ a.up = h.up /\ a.modem = h.modem /\ a.mode = h.mode
        BY <3>1, <3>2, StateIs DEF States
      <3>4. Around(a, failed)
        BY <2>1, <3>1, <3>3 DEF Around, Coherent
      <3> QED BY <2>1, <3>1, <3>3, <3>4 DEF Wired
    <2>2. CASE ~around
      <3>1. a = dev
        BY <1>3, <2>2
      <3> QED BY <2>2, <3>1 DEF Around, Coherent
    <2> QED BY <2>1, <2>2
  <1>6. Around(d, g) /\ SameWifi(a, d) /\ Restarted(a, d, m, g)
    BY <1>4, <1>5, WiredRestarts
  <1>7. /\ Coherent(dev', failed')
        /\ \A x \in Wired : (x \in d.mode <=> x \in dev'.mode) /\ (x \in d.hal <=> x \in dev'.hal)
        /\ "WIFI" \in d.hal <=> "WIFI" \in dev'.hal
        /\ "WIFI" \in d.up <=> "WIFI" \in dev'.up
        /\ "WIFI_AP" \in dev'.mode => "WIFI_AP" \in d.mode
    <2>1. CASE ~around
      <3>1. dev' = d /\ failed' = g
        <4>1. apOk
          BY <1>4, <2>1
        <4>2. dev' = d
          BY <1>4, <2>1
        <4> QED BY <1>1, <4>1, <4>2 DEF Fails
      <3>2. "WIFI_AP" \in d.mode => "WIFI_AP" \in d.hal
        BY <1>5, <1>6, <2>1 DEF SameWifi, Coherent
      <3> HIDE DEF g
      <3>3. Coherent(d, g)
        BY <1>6, <3>2 DEF Around, Coherent
      <3> QED BY <3>1, <3>3
    <2>2. CASE around
      <3> DEFINE e == HalStart(d, "WIFI_AP", apOk)
      <3>0. "WIFI_AP" \notin d.hal /\ "WIFI_AP" \in d.mode /\ d \in Devs
        BY <1>5, <1>6, <2>2 DEF SameWifi, Around
      <3>1. /\ e \in Devs /\ e.mode = d.mode /\ e.modem = d.modem
            /\ e.hal = d.hal \cup {"WIFI_AP"}
            /\ e.up = IF apOk THEN d.up \cup {"WIFI_AP"} ELSE d.up
        <4>1. /\ e \in Devs /\ e.mode = d.mode /\ e.modem = d.modem
              /\ e.hal = d.hal \cup {"WIFI_AP"}
              /\ e.up = IF "WIFI_AP" \notin d.hal /\ apOk THEN d.up \cup {"WIFI_AP"}
                        ELSE d.up
          <5>1. "WIFI_AP" \in Modes
            BY DEF Modes
          <5> HIDE DEF around, g
          <5> QED BY <3>0, <5>1, HalStartIs
        <4> HIDE DEF e
        <4> QED BY <3>0, <4>1
      <3>2. CASE said
        <4>1. dev' = [e EXCEPT !.state = "AP_CONNECTED"]
              /\ failed' = g \cup Fails("WIFI_AP", apOk)
          BY <1>1, <1>4, <2>2, <3>2
        <4> HIDE DEF e, g
        <4>2. Coherent(e, failed')
          BY <1>6, <3>0, <3>1, <4>1 DEF Around, Coherent, Fails
        <4>3. /\ Coherent(dev', failed') /\ dev'.hal = e.hal /\ dev'.mode = e.mode
              /\ dev'.up = e.up
          BY <1>2, <4>1, <4>2, StateKeeps DEF States
        <4> QED BY <3>1, <4>3 DEF Wired
      <3>3. CASE ~said
        <4>1. dev' = ClearMode(e, "WIFI_AP") /\ failed' = g \cup {"WIFI_AP"}
              /\ ~apOk
          BY <1>1, <1>4, <2>2, <3>3 DEF Fails
        <4> HIDE DEF e, g
        <4>2. /\ dev' \in Devs /\ dev'.hal = e.hal /\ dev'.up = e.up
              /\ dev'.modem = e.modem /\ dev'.mode = e.mode \ {"WIFI_AP"}
          BY <3>1, <4>1, ModeIs DEF Modes
        <4>3. Coherent(dev', failed')
          BY <1>6, <3>1, <4>1, <4>2 DEF Around, Coherent, Wired
        <4> QED BY <3>1, <4>2, <4>3 DEF Wired
      <3> QED BY <3>2, <3>3
    <2> QED BY <2>1, <2>2
  <1>8. g \subseteq failed' /\ failed \subseteq g
    BY <1>1
  <1>9. NoNewAp
    BY <1>5, <1>6, <1>7 DEF SameWifi, NoNewAp
  <1>10. CASE m = "MODEM"
    <2> HIDE DEF g
    <2>1. /\ "MODEM" \in dev'.mode => "MODEM" \in dev'.hal
          /\ "MODEM" \in dev'.hal => \/ "MODEM" \in dev'.mode \cup failed'
                                     \/ "MODEM" \in dev.hal /\ "MODEM" \notin dev.mode
          /\ "MODEM" \in dev.mode => "MODEM" \in dev'.mode \cup failed'
      BY <1>5, <1>6, <1>7, <1>8, <1>10 DEF Restarted, Wired
    <2>2. "WIFI" \in dev.hal => "WIFI" \in dev'.hal
      BY <1>5, <1>6, <1>7 DEF SameWifi
    <2> QED BY <1>2, <1>7, <1>8, <1>9, <2>1, <2>2 DEF Moved
  <1>11. CASE m # "MODEM"
    <2> HIDE DEF g
    <2>1. /\ "MODEM" \in dev'.mode <=> "MODEM" \in dev.mode
          /\ "MODEM" \in dev'.hal <=> "MODEM" \in dev.hal
      BY <1>5, <1>6, <1>7, <1>11 DEF Restarted, Wired
    <2>2. "WIFI" \in dev.hal => "WIFI" \in dev'.hal
      BY <1>5, <1>6, <1>7 DEF SameWifi
    <2> QED BY <1>2, <1>7, <1>8, <1>9, <2>1, <2>2 DEF Moved
  <1> QED BY <1>10, <1>11

LEMMA StopWiredDevices ==
    ASSUME Types, Devices, StopModemOrEtherent
    PROVE  Moved
  <1> USE DEF Devices
  <1>1. PICK m \in Wired :
          /\ dev' = ClearMode(StopWired(dev, m), m)
          /\ modemRaced' = (modemRaced \/ (m = "MODEM" /\ \E k \in ticks \cup {loop} :
                                                             k.cb = "modem"))
    BY DEF StopModemOrEtherent, Wired
  <1>2. /\ UNCHANGED <<pc, mon, ticks, loop, failed>> /\ pc = "idle"
    BY DEF StopModemOrEtherent, Command
  <1>3. /\ dev' \in Devs /\ dev'.mode = dev.mode \ {m} /\ dev'.hal = dev.hal \ {m}
        /\ dev'.up = IF m \in dev.hal THEN dev.up \ {m} ELSE dev.up
        /\ dev'.modem <=> dev.modem /\ m # "MODEM"
    BY <1>1, WiredStops DEF Coherent
  <1>4. Coherent(dev', failed')
    BY <1>2, <1>3 DEF Coherent, Wired
  <1>5. "WIFI" \in dev.hal => "WIFI" \in dev'.hal
    BY <1>3 DEF Wired
  <1>6. NoNewAp
    BY <1>3 DEF NoNewAp
  <1>7. CASE m = "MODEM"
    BY <1>1, <1>2, <1>3, <1>4, <1>5, <1>6, <1>7 DEF Moved
  <1>8. CASE m # "MODEM"
    BY <1>1, <1>2, <1>3, <1>4, <1>5, <1>6, <1>8 DEF Moved
  <1> QED BY <1>7, <1>8

LEMMA ListeningDevices ==
    ASSUME Types, Devices, Listening
    PROVE  Moved
  <1> USE DEF Devices
  <1>1. ASSUME UNCHANGED <<dev, pc, ticks, loop, failed, modemRaced>>,
               mon'.flag = mon.flag
        PROVE  Moved
    BY <1>1, SameIsSame, WifiMoves DEF Moved, NoNewAp
  <1>2. ASSUME NEW k \in Kinds, Report(k) PROVE Moved
    BY <1>1, <1>2 DEF Report, hist
  <1>3. CASE MonitorOpens
    BY <1>1, <1>3 DEF MonitorOpens, Types, Mons
  <1>4. CASE MonitorEnds
    BY <1>1, <1>4 DEF MonitorEnds, hist, Types, Mons
  <1>8. CASE MonitorAttachesAgain
    BY <1>1, <1>8 DEF MonitorAttachesAgain
  <1>5. CASE HandleEvent
    <2>1. PICK e : dev' = [dev EXCEPT !.state = StateAfter(dev.state, e)]
      BY <1>5 DEF HandleEvent
    <2>2. StateAfter(dev.state, e) \in States
      BY DEF StateAfter, States, Coherent, Devs
    <2>3. /\ Coherent(dev', failed) /\ SameWired(dev, dev') /\ dev'.hal = dev.hal
          /\ dev'.mode = dev.mode /\ dev'.up = dev.up
      BY <2>1, <2>2, StateKeeps
    <2>4. mon'.flag = mon.flag /\ (pc' # "idle" => pc # "idle")
      BY <1>5 DEF HandleEvent, Types, Mons
    <2>5. UNCHANGED <<ticks, loop, failed, modemRaced>>
      BY <1>5 DEF HandleEvent
    <2> QED BY <2>3, <2>4, <2>5, WifiMoves DEF Moved, NoNewAp
  <1>6. CASE RoamReads
    BY <1>1, <1>6 DEF RoamReads, hist, Types, Mons
  <1>7. CASE RoamWrites
    BY <1>1, <1>7 DEF RoamWrites, Types, Mons
  <1> QED BY <1>2, <1>3, <1>4, <1>5, <1>6, <1>7, <1>8 DEF Listening

LEMMA LoopingDevices ==
    ASSUME Types, Devices, Looping
    PROVE  Moved
  <1> USE DEF Devices
  <1>1. ASSUME UNCHANGED <<dev, mon, pc, failed, modemRaced>>,
               \A k \in ticks' \cup {loop'} : k.cb = "modem" => k \in ticks \cup {loop},
               loop' = loop \/ loop = Idle
        PROVE  Moved
    <2>1. loop.cb = "modem" => loop'.cb = "modem"
      BY <1>1 DEF Idle, Tick
    <2> QED BY <1>1, <2>1, SameIsSame, WifiMoves DEF Moved, NoNewAp
  <1>2. ASSUME NEW n \in timer.armed, Expire(n) PROVE Moved
    BY <1>1, <1>2 DEF Expire, hist, Tick
  <1>3. CASE ModemExpires
    <2>1. /\ dev.modem /\ ticks' = ticks \cup {Tick("modem", 0)}
          /\ UNCHANGED <<dev, mon, pc, loop, failed, modemRaced>>
      BY <1>3 DEF ModemExpires, hist
    <2>2. "MODEM" \in dev.mode
      BY <2>1 DEF Coherent
    <2> QED BY <2>1, <2>2 DEF Moved, NoNewAp
  <1>4. CASE ApTimeout
    <2> DEFINE c == CloseAp(dev)
    <2>1. PICK ok \in BOOLEAN : dev' = HalStart(c, "WIFI", ok) /\ Failing("WIFI", ok)
      BY <1>4 DEF ApTimeout
    <2>2. failed' = failed \cup Fails("WIFI", ok) /\ failed' \subseteq Modes
      BY <2>1, FailingIs DEF Modes
    <2>3. /\ Coherent(c, failed) /\ SameWired(dev, c) /\ "WIFI_AP" \notin c.mode
          /\ "WIFI" \in c.hal <=> "WIFI" \in dev.hal
          /\ "WIFI" \in c.up => "WIFI" \in dev.up
      BY CloseApKeeps
    <2> HIDE DEF c
    <2>4. /\ Coherent(dev', failed') /\ SameWired(c, dev') /\ "WIFI" \in dev'.hal
          /\ dev'.mode = c.mode /\ ("WIFI" \in c.hal => dev'.up = c.up)
      BY <2>1, <2>2, <2>3, StationStarts
    <2>5. /\ pc' = "idle" /\ ticks' = ticks /\ loop' = Idle /\ loop.cb = "ap"
          /\ modemRaced' = modemRaced
      BY <1>4 DEF ApTimeout
    <2>6. /\ \A k \in ticks' \cup {loop'} : k.cb = "modem" => k \in ticks \cup {loop}
          /\ loop.cb # "modem"
      BY <2>5 DEF Idle, Tick
    <2>7. NoNewAp
      BY <2>3, <2>4 DEF NoNewAp
    <2> QED BY <2>2, <2>3, <2>4, <2>5, <2>6, <2>7, SameTwice, WifiMoves DEF Moved
  <1>5. ASSUME NEW k \in ticks, ApTimeoutBegins(k.n) PROVE Moved
    BY <1>1, <1>5 DEF ApTimeoutBegins, hist, Tick
  <1>6. CASE Join
    BY <1>1, <1>6 DEF Join, hist
  <1>7. ASSUME NEW again \in BOOLEAN, ModemMonitor(again) PROVE Moved
    <2>1. CASE ~again
      BY <1>1, <1>7, <2>1 DEF ModemMonitor, hist
    <2>2. CASE again
      <3>1. /\ dev' = HalStop(dev, "MODEM") /\ loop' = Tick("modem", 0)
            /\ Tick("modem", 0) \in ticks /\ ticks' \subseteq ticks
            /\ UNCHANGED <<mon, pc, failed, modemRaced>>
        BY <1>7, <2>2 DEF ModemMonitor, hist
      <3>2. /\ dev' \in Devs /\ dev'.mode = dev.mode /\ dev'.modem = dev.modem
            /\ dev'.hal = dev.hal \ {"MODEM"}
            /\ dev'.up = IF "MODEM" \in dev.hal THEN dev.up \ {"MODEM"} ELSE dev.up
        BY <3>1, HalStopIs DEF Coherent, Modes, Rivals
      <3>3. Coherent(dev', failed)
        BY <3>2 DEF Coherent
      <3>4. "WIFI" \in dev.hal => "WIFI" \in dev'.hal
        BY <3>2
      <3>5. \A k \in ticks' \cup {loop'} : k \in ticks
        BY <3>1
      <3>6. loop'.cb = "modem"
        BY <3>1 DEF Tick
      <3> QED BY <3>1, <3>2, <3>3, <3>4, <3>5, <3>6 DEF Moved, NoNewAp
    <2> QED BY <2>1, <2>2
  <1>8. CASE ModemRestarts
    <2>1. PICK ok \in BOOLEAN : dev' = HalStart(dev, "MODEM", ok) /\ Failing("MODEM", ok)
      BY <1>8 DEF ModemRestarts
    <2>2. failed' = failed \cup Fails("MODEM", ok) /\ failed' \subseteq Modes
      BY <2>1, FailingIs DEF Modes
    <2>3. /\ dev' \in Devs /\ dev'.mode = dev.mode /\ dev'.modem = dev.modem
          /\ dev'.hal = dev.hal \cup {"MODEM"}
          /\ dev'.up = IF "MODEM" \notin dev.hal /\ ok THEN dev.up \cup {"MODEM"} ELSE dev.up
      <3>1. "MODEM" \in Modes /\ dev \in Devs
        BY DEF Coherent, Modes
      <3> HIDE DEF Devices
      <3> QED BY <2>1, <3>1, HalStartIs
    <2>4. Coherent(dev', failed')
      BY <2>2, <2>3 DEF Coherent, Fails
    <2>5. /\ loop.cb = "modem" /\ loop' = Idle
          /\ UNCHANGED <<mon, pc, ticks, modemRaced>>
      BY <1>8 DEF ModemRestarts
    <2>6. loop'.cb # "modem"
      BY <2>5 DEF Idle, Tick
    <2> QED BY <2>2, <2>3, <2>4, <2>5, <2>6 DEF Moved, NoNewAp
  <1> QED BY <1>2, <1>3, <1>4, <1>5, <1>6, <1>7, <1>8 DEF Looping, Tasks

LEMMA DevicesStep ==
    ASSUME Types, Devices, [Next]_vars
    PROVE  Devices' /\ (NoNewAp \/ ApConnect)
  <1>1. CASE UNCHANGED vars
    BY <1>1 DEF vars, hist, Devices, Coherent, NoNewAp
  <1>2. CASE StopAbsent
    BY <1>2 DEF StopAbsent, hist, Devices, Coherent, NoNewAp
  <1>3. CASE Commands
    BY <1>2, <1>3, StationDevices, ApDevices, WiredDevices, StopWiredDevices
       DEF Commands, Moved
  <1>4. CASE Connect
    BY <1>4, ConnectDevices, ConnectGoesOnDevices DEF Connect, Moved
  <1> QED BY <1>1, <1>3, <1>4, ListeningDevices, LoopingDevices DEF Next, Moved

-----------------------------------------------------------------------------
(* The access point's timer.                                               *)

LEMMA TimerDeleted ==
    ASSUME NEW t, OneTimer(t)
    PROVE  /\ LET e == DeleteTimer(t) IN
              OneTimer(e) /\ e.alive = {} /\ e.armed = {} /\ e.ptr = t.ptr /\ ~e.flag
           /\ LET e == DeleteTimerIfOn(t) IN
              OneTimer(e) /\ e.alive = {} /\ e.armed = {} /\ e.ptr = t.ptr /\ ~e.flag
  <1> DEFINE e == DeleteTimer(t)
  <1>1. /\ e \in Timers
        /\ e.flag = FALSE /\ e.ptr = t.ptr /\ e.alive = t.alive \ {t.ptr}
        /\ e.armed = t.armed \ {t.ptr}
    BY DEF DeleteTimer, OneTimer, Timers
  <1> HIDE DEF e
  <1>2. e.alive = {} /\ e.armed = {}
    BY <1>1 DEF OneTimer
  <1>3. OneTimer(e)
    BY <1>1, <1>2 DEF OneTimer
  <1>4. ~t.flag => t.alive = {} /\ t.armed = {}
    BY DEF OneTimer
  <1> QED BY <1>1, <1>2, <1>3, <1>4 DEF e, DeleteTimerIfOn

LEMMA TimerAdded ==
    ASSUME NEW t, OneTimer(t), ~t.flag
    PROVE  LET e == AddTimer(t) IN
           OneTimer(e) /\ e.alive = {e.ptr} /\ e.ptr = t.ptr + 1
  <1> DEFINE e == AddTimer(t)
  <1>0. t \in Timers /\ t.alive = {} /\ t.armed = {} /\ t.ptr \in Nat
    BY DEF OneTimer, Timers
  <1>1. /\ e \in Timers /\ e.flag = TRUE /\ e.ptr = t.ptr + 1
        /\ e.alive = {t.ptr + 1} /\ e.armed = {t.ptr + 1}
    <2>1. {} \cup {t.ptr + 1} = {t.ptr + 1} /\ {t.ptr + 1} \subseteq Nat
      BY <1>0
    <2>2. e = [t EXCEPT !.flag = TRUE, !.ptr = t.ptr + 1, !.alive = {t.ptr + 1},
                        !.armed = {t.ptr + 1}]
      BY <1>0, <2>1 DEF AddTimer
    <2> HIDE DEF e
    <2> QED BY <1>0, <2>1, <2>2 DEF Timers
  <1> HIDE DEF e
  <1>2. OneTimer(e)
    BY <1>0, <1>1 DEF OneTimer
  <1> QED BY <1>1, <1>2 DEF e

\* Every tick on its way is of a timer that waits to be deleted, or was deleted.
LEMMA TicksKept ==
    ASSUME Types, Accounted, RememberTimers(ticks \cup {loop}), UNCHANGED <<ticks, loop>>,
           timer'.alive \cap timer.alive = {} \/ timer' = timer
    PROVE  \A k \in ticks' \cup {loop'} :
             k.cb = "ap" => k.n \in (timer'.alive \ timer'.armed) \cup raced'
  <1> SUFFICES ASSUME NEW k \in ticks \cup {loop}, k.cb = "ap"
               PROVE  k.n \in (timer'.alive \ timer'.armed) \cup raced'
    OBVIOUS
  <1>1. k = Tick("ap", k.n)
    BY DEF Types, Ticks, Tick
  <1>2. k.n \in (timer.alive \ timer.armed) \cup raced
    BY DEF Accounted
  <1>3. raced' = raced \cup {n \in timer.alive \ timer'.alive :
                               Tick("ap", n) \in ticks \cup {loop}}
    BY DEF RememberTimers
  <1> QED BY <1>1, <1>2, <1>3

\* A command that starts no access point.
LEMMA CommandTimers ==
    ASSUME Types, Accounted, Remember(ticks \cup {loop}), NoNewAp,
           UNCHANGED <<ticks, loop, fault>>, fault = "none",
           timer' \in {timer, DeleteTimer(timer), DeleteTimerIfOn(timer)}
    PROVE  Accounted'
  <1>1. timer' = timer \/ timer'.alive = {}
    BY TimerDeleted DEF Accounted
  <1>2. OneTimer(timer')
    BY TimerDeleted DEF Accounted
  <1>3. \A k \in ticks' \cup {loop'} :
          k.cb = "ap" => k.n \in (timer'.alive \ timer'.armed) \cup raced'
    BY <1>1, TicksKept DEF Remember
  <1>4. timer'.alive \subseteq
          left' \cup (IF "WIFI_AP" \in dev'.mode THEN {ap'.own} ELSE {})
    <2>1. CASE "WIFI_AP" \in dev'.mode
      <3>1. ap' = ap /\ "WIFI_AP" \in dev.mode /\ left \subseteq left'
        BY <2>1 DEF Remember, RememberTimers, NoNewAp
      <3> QED BY <1>1, <2>1, <3>1 DEF Accounted
    <2>2. CASE "WIFI_AP" \notin dev'.mode
      BY <2>2 DEF Remember, RememberTimers
    <2> QED BY <2>1, <2>2
  <1> QED BY <1>2, <1>3, <1>4 DEF Accounted

LEMMA ApConnectTimers ==
    ASSUME Types, Devices, Accounted, ApConnect, fault = "none"
    PROVE  Accounted'
  <1> DEFINE t == IF "WIFI_AP" \in dev.mode THEN DeleteTimerIfOn(timer) ELSE timer
  <1>0. UNCHANGED <<ticks, loop, fault>> /\ RememberTimers(ticks \cup {loop})
    BY DEF ApConnect
  <1>1. /\ OneTimer(t) /\ t.ptr = timer.ptr
        /\ (t = timer /\ "WIFI_AP" \notin dev.mode) \/ t.alive = {}
    BY TimerDeleted DEF Accounted
  <1>2. t.alive \subseteq left
    BY <1>1 DEF Accounted
  <1>3. \/ \E asked, ok, said \in BOOLEAN : StartWifiAp(asked, ok, said)
        \/ StartWifiApBadFormat
    BY DEF ApConnect
  <1>4. /\ timer' = t \/ (~t.flag /\ timer' = AddTimer(t))
        /\ timer' # t => ap'.own = timer'.ptr \/ "WIFI_AP" \notin dev'.mode
    <2>1. ASSUME NEW asked \in BOOLEAN, NEW ok \in BOOLEAN, NEW said \in BOOLEAN,
                 StartWifiAp(asked, ok, said)
          PROVE  /\ timer' = t \/ (~t.flag /\ timer' = AddTimer(t))
                 /\ timer' # t => ap'.own = timer'.ptr \/ "WIFI_AP" \notin dev'.mode
      <3> DEFINE on == "WIFI_AP" \in ToAp(dev).hal \/ said
      <3>1. /\ timer' = IF asked /\ ~t.flag THEN AddTimer(t) ELSE t
            /\ ap' = IF ~on THEN NoAp
                     ELSE [asked |-> asked,
                           own |-> IF asked /\ ~t.flag THEN timer'.ptr ELSE 0]
            /\ ~on => dev' = [HalStart(ToAp(dev), "WIFI_AP", ok) EXCEPT
                              !.state = "AP_UNCONNECTED"]
        BY <2>1 DEF StartWifiAp
      <3>2. ~on => "WIFI_AP" \notin dev'.mode
        <4> DEFINE c == ToAp(dev)
        <4>1. c \in Devs /\ "WIFI_AP" \notin c.mode /\ "WIFI_AP" \in Modes
          BY ToApKeeps DEF Devices, Coherent, Modes
        <4> HIDE DEF c
        <4> DEFINE e == HalStart(c, "WIFI_AP", ok)
        <4>2. e \in Devs /\ e.mode = c.mode
          BY <4>1, HalStartIs
        <4> HIDE DEF e
        <4>3. [e EXCEPT !.state = "AP_UNCONNECTED"].mode = e.mode
          BY <4>2, StateIs DEF States
        <4> QED BY <3>1, <4>1, <4>2, <4>3 DEF c, e
      <3> HIDE DEF t, on
      <3> QED BY <3>1, <3>2
    <2>2. ASSUME StartWifiApBadFormat PROVE timer' = t
      BY <2>2 DEF StartWifiApBadFormat
    <2> QED BY <1>3, <2>1, <2>2
  <1> HIDE DEF t
  <1>5. /\ OneTimer(timer')
        /\ timer'.alive \cap timer.alive = {} \/ timer' = timer
        /\ timer'.alive = {timer'.ptr} \/ timer' = t
    <2>1. CASE timer' = t
      BY <1>1, <2>1
    <2>2. CASE ~t.flag /\ timer' = AddTimer(t)
      <3>1. OneTimer(timer') /\ timer'.alive = {timer'.ptr} /\ timer'.ptr = timer.ptr + 1
        BY <1>1, <2>2, TimerAdded
      <3>2. timer.ptr \in Nat /\ timer.alive \subseteq {timer.ptr}
        BY DEF Accounted, OneTimer, Timers
      <3> QED BY <3>1, <3>2
    <2> QED BY <1>4, <2>1, <2>2
  <1>6. \A k \in ticks' \cup {loop'} :
          k.cb = "ap" => k.n \in (timer'.alive \ timer'.armed) \cup raced'
    BY <1>0, <1>5, TicksKept
  <1>7. timer'.alive \subseteq
          left' \cup (IF "WIFI_AP" \in dev'.mode THEN {ap'.own} ELSE {})
    <2>1. CASE "WIFI_AP" \in dev'.mode
      BY <1>0, <1>2, <1>4, <1>5, <2>1 DEF RememberTimers
    <2>2. CASE "WIFI_AP" \notin dev'.mode
      BY <1>0, <2>2 DEF RememberTimers
    <2> QED BY <2>1, <2>2
  <1> QED BY <1>0, <1>5, <1>6, <1>7 DEF Accounted

\* A step that leaves the timer, its history and the ticks of timers alone.
LEMMA OtherTimers ==
    ASSUME Accounted, NoNewAp, UNCHANGED <<timer, ap, raced, left>>,
           fault' # "freed twice" \/ fault' = fault,
           \A k \in ticks' \cup {loop'} : k.cb = "ap" => k \in ticks \cup {loop},
           "WIFI_AP" \in dev.mode => "WIFI_AP" \in dev'.mode
    PROVE  Accounted'
  BY DEF Accounted, NoNewAp, OneTimer

LEMMA ConnectTimers ==
    ASSUME Types, Devices, Accounted, NoNewAp, Connect, fault = "none"
    PROVE  Accounted'
  <1>1. ASSUME ConnectBegins, Remember(ticks \cup {loop}) PROVE Accounted'
    <2>1. timer' \in {timer, DeleteTimer(timer), DeleteTimerIfOn(timer)}
      BY <1>1 DEF ConnectBegins
    <2> QED BY <1>1, <2>1, CommandTimers DEF ConnectBegins
  <1>2. ConnectBadFormat \/ ConnectFails \/ ConnectStarts => Accounted'
    BY <1>1 DEF ConnectBadFormat, ConnectFails, ConnectStarts
  <1>3. ASSUME pc # "idle", UNCHANGED <<timer, ap, raced, left, loop, fault>>,
               ticks' = ticks \/ ticks' = ticks \cup {Tick("join", 0)}
        PROVE  Accounted'
    <2>1. "WIFI_AP" \notin dev.mode
      BY <1>3 DEF Devices
    <2>2. \A k \in ticks' \cup {loop'} : k.cb = "ap" => k \in ticks \cup {loop}
      BY <1>3 DEF Tick
    <2> QED BY <1>3, <2>1, <2>2, OtherTimers
  <1>4. CASE MonitorNotOpen
    BY <1>3, <1>4 DEF MonitorNotOpen, hist
  <1>5. CASE DisableAndJoin
    BY <1>3, <1>5 DEF DisableAndJoin, CanAsk, hist
  <1>6. CASE DisableFails
    BY <1>3, <1>6 DEF DisableFails, CanAsk, hist
  <1>7. CASE WaitForResult
    BY <1>3, <1>7 DEF WaitForResult, hist
  <1>8. CASE \E timedOut \in BOOLEAN : WaitEnds(timedOut)
    BY <1>3, <1>8 DEF WaitEnds
  <1>9. CASE ConnectEnds
    BY <1>3, <1>9 DEF ConnectEnds
  <1>10. CASE SpuriousWakeUp
    BY <1>3, <1>10 DEF SpuriousWakeUp
  <1> QED BY <1>2, <1>4, <1>5, <1>6, <1>7, <1>8, <1>9, <1>10 DEF Connect, ConnectGoesOn

LEMMA CommandsTimers ==
    ASSUME Types, Devices, Accounted, NoNewAp \/ ApConnect, Commands, fault = "none"
    PROVE  Accounted'
  <1>1. CASE StopAbsent
    BY <1>1 DEF StopAbsent, hist, Accounted, OneTimer
  <1>2. CASE ScanOrRemove /\ NoNewAp
    <2>1. timer' \in {timer, DeleteTimer(timer), DeleteTimerIfOn(timer)}
      BY <1>2 DEF ScanOrRemove, StartWifiScan, RemoveNetwork
    <2> QED BY <1>2, <2>1, CommandTimers DEF ScanOrRemove
  <1>3. CASE StopWifiStation /\ NoNewAp
    BY <1>3, CommandTimers DEF StopWifiStation
  <1>4. CASE ApConnect
    BY <1>4, ApConnectTimers
  <1>5. CASE StopWifiAp /\ NoNewAp
    BY <1>5, CommandTimers DEF StopWifiAp
  <1>6. CASE StartModemOrEtherent /\ NoNewAp
    BY <1>6, CommandTimers DEF StartModemOrEtherent
  <1>7. CASE StopModemOrEtherent /\ NoNewAp
    <2>1. PICK m \in Wired : dev' = ClearMode(StopWired(dev, m), m)
      BY <1>7 DEF StopModemOrEtherent, Wired
    <2>2. dev'.mode = dev.mode \ {m}
      BY <2>1, WiredStops DEF Devices, Coherent
    <2>3. "WIFI_AP" \in dev.mode => "WIFI_AP" \in dev'.mode
      BY <2>2 DEF Wired
    <2> QED BY <1>7, <2>3, OtherTimers DEF StopModemOrEtherent
  <1> QED BY <1>1, <1>2, <1>3, <1>4, <1>5, <1>6, <1>7 DEF Commands

LEMMA ListeningTimers ==
    ASSUME Types, Devices, Accounted, Listening
    PROVE  Accounted'
  <1>1. ASSUME UNCHANGED <<timer, ap, raced, left, ticks, loop, fault>>, dev'.mode = dev.mode
        PROVE  Accounted'
    BY <1>1, OtherTimers DEF NoNewAp
  <1>2. CASE \E k \in Kinds : Report(k)
    BY <1>1, <1>2 DEF Report, hist
  <1>3. CASE MonitorOpens
    BY <1>1, <1>3 DEF MonitorOpens
  <1>4. CASE MonitorEnds
    BY <1>1, <1>4 DEF MonitorEnds, hist
  <1>8. CASE MonitorAttachesAgain
    BY <1>1, <1>8 DEF MonitorAttachesAgain
  <1>5. CASE HandleEvent
    <2>1. dev'.mode = dev.mode
      BY <1>5 DEF HandleEvent, Devices, Coherent, Devs
    <2> QED BY <1>1, <1>5, <2>1 DEF HandleEvent
  <1>6. CASE RoamReads
    BY <1>1, <1>6 DEF RoamReads, hist
  <1>7. CASE RoamWrites
    BY <1>1, <1>7 DEF RoamWrites
  <1> QED BY <1>2, <1>3, <1>4, <1>5, <1>6, <1>7, <1>8 DEF Listening

LEMMA LoopingTimers ==
    ASSUME Types, Devices, Accounted, NoNewAp, Looping, fault = "none"
    PROVE  Accounted'
  <1>1. ASSUME UNCHANGED <<timer, ap, raced, left, fault>>, dev'.mode = dev.mode,
               \A k \in ticks' \cup {loop'} : k.cb = "ap" => k \in ticks \cup {loop}
        PROVE  Accounted'
    BY <1>1, OtherTimers DEF NoNewAp
  <1>2. ASSUME NEW n \in timer.armed, Expire(n) PROVE Accounted'
    <2>1. /\ \/ timer' = [timer EXCEPT !.armed = @ \ {n}]
             \/ timer' = [timer EXCEPT !.armed = @ \ {n}, !.lost = @ \cup {n}]
          /\ ticks' = ticks \/ ticks' = ticks \cup {Tick("ap", n)}
          /\ UNCHANGED <<dev, loop, fault, ap, raced, left>>
      BY <1>2 DEF Expire, hist
    <2>3. n \in timer.alive /\ n \in Nat /\ timer \in Timers
      BY DEF Accounted, OneTimer, Timers
    <2>5. /\ timer' \in Timers /\ timer'.alive = timer.alive
          /\ timer'.armed = timer.armed \ {n} /\ timer'.ptr = timer.ptr
          /\ timer'.flag = timer.flag
      BY <2>1, <2>3 DEF Timers
    <2>2. OneTimer(timer') /\ timer'.alive = timer.alive /\ timer'.armed = timer.armed \ {n}
      BY <2>5 DEF Accounted, OneTimer
    <2>4. ASSUME NEW k \in ticks' \cup {loop'}, k.cb = "ap"
          PROVE  k.n \in (timer'.alive \ timer'.armed) \cup raced'
      <3>1. k = Tick("ap", n) \/ k \in ticks \cup {loop}
        BY <2>1
      <3>2. k = Tick("ap", n) => k.n = n
        BY DEF Tick
      <3> QED BY <2>1, <2>2, <2>3, <2>4, <3>1, <3>2 DEF Accounted
    <2> QED BY <2>1, <2>2, <2>4 DEF Accounted
  <1>3. CASE ModemExpires
    BY <1>1, <1>3 DEF ModemExpires, hist, Tick
  <1>4. CASE ApTimeout
    <2>1. /\ timer' = DeleteTimer(timer) /\ loop' = Idle /\ Remember(ticks)
          /\ fault' = IF timer.ptr \in timer.alive THEN fault ELSE "freed twice"
          /\ loop.cb = "ap" /\ ticks' = ticks
      BY <1>4 DEF ApTimeout
    <2>2. OneTimer(timer') /\ timer'.alive = {}
      BY <2>1, TimerDeleted DEF Accounted
    <2>3. raced' = raced \cup {n \in timer.alive : Tick("ap", n) \in ticks}
      BY <2>1, <2>2 DEF Remember, RememberTimers
    <2>4. ASSUME NEW k \in ticks' \cup {loop'}, k.cb = "ap"
          PROVE  k.n \in raced'
      <3>1. k \in ticks
        <4>1. Idle.cb = "none"
          BY DEF Idle, Tick
        <4> QED BY <2>1, <2>4, <4>1
      <3>2. k = Tick("ap", k.n)
        BY <2>4, <3>1 DEF Types, Ticks, Tick
      <3> QED BY <2>3, <2>4, <3>1, <3>2 DEF Accounted
    <2>5. fault' = "freed twice" => raced' # {}
      <3>1. timer.ptr \notin timer.alive => timer.alive = {}
        BY DEF Accounted, OneTimer
      <3>2. loop.n \in timer.alive \cup raced
        BY <2>1 DEF Accounted
      <3> QED BY <2>1, <2>3, <3>1, <3>2
    <2> QED BY <2>2, <2>4, <2>5 DEF Accounted
  <1>5. ASSUME NEW k \in ticks, ApTimeoutBegins(k.n) PROVE Accounted'
    BY <1>1, <1>5 DEF ApTimeoutBegins, hist
  <1>6. CASE Join
    BY <1>1, <1>6 DEF Join, hist
  <1>7. ASSUME NEW again \in BOOLEAN, ModemMonitor(again) PROVE Accounted'
    <2>1. dev'.mode = dev.mode
      BY <1>7, HalStopIs DEF ModemMonitor, Devices, Coherent, Modes
    <2>2. \A k \in ticks' \cup {loop'} : k.cb = "ap" => k \in ticks \cup {loop}
      BY <1>7 DEF ModemMonitor, Tick
    <2> QED BY <1>1, <1>7, <2>1, <2>2 DEF ModemMonitor, hist
  <1>8. CASE ModemRestarts
    <2>1. PICK ok \in BOOLEAN : dev' = HalStart(dev, "MODEM", ok)
      BY <1>8 DEF ModemRestarts
    <2>2. "MODEM" \in Modes /\ dev \in Devs
      BY DEF Devices, Coherent, Modes
    <2>3. dev'.mode = dev.mode
      BY <2>1, <2>2, HalStartIs
    <2>4. \A k \in ticks' \cup {loop'} : k.cb = "ap" => k \in ticks \cup {loop}
      BY <1>8 DEF ModemRestarts, Idle, Tick
    <2> QED BY <1>1, <1>8, <2>3, <2>4 DEF ModemRestarts
  <1> QED BY <1>2, <1>3, <1>4, <1>5, <1>6, <1>7, <1>8 DEF Looping, Tasks

-----------------------------------------------------------------------------
(* wpa_supplicant and its events.                                          *)

LEMMA TellIs ==
    ASSUME NEW w \in Wpas, NEW k \in Kinds
    PROVE  LET e == Tell(w, k) IN
           /\ e \in Wpas /\ e.link = w.link /\ e.enabled = w.enabled /\ e.net = w.net
           /\ e.sock = IF mon.thread = "open"
                       THEN Append(w.sock, [kind |-> k, net |-> w.net]) ELSE w.sock
  <1> DEFINE v == [kind |-> k, net |-> w.net]
             q == Append(w.sock, v)
  <1>1. v \in Events /\ w.sock \in Seq(Events)
    BY DEF Wpas, Events
  <1>2. q \in Seq(Events)
    BY <1>1
  <1>3. CASE mon.thread = "open"
    <2>1. Tell(w, k) = [w EXCEPT !.sock = q]
      BY <1>3 DEF Tell, Event
    <2> HIDE DEF q
    <2>2. LET e == [w EXCEPT !.sock = q] IN
          /\ e \in Wpas /\ e.link = w.link /\ e.enabled = w.enabled /\ e.net = w.net
          /\ e.sock = q
      BY <1>2 DEF Wpas
    <2> QED BY <1>3, <2>1, <2>2 DEF q
  <1>4. CASE mon.thread # "open"
    BY <1>4 DEF Tell
  <1> QED BY <1>3, <1>4

LEMMA DropIs ==
    ASSUME NEW w \in Wpas
    PROVE  LET e == Drop(w) IN
           /\ e \in Wpas /\ ~e.link /\ e.enabled = w.enabled /\ e.net = w.net
           /\ e.sock = IF mon.thread = "open" /\ w.link
                       THEN Append(w.sock, [kind |-> "disconnected", net |-> w.net])
                       ELSE w.sock
  <1>1. CASE w.link
    <2> DEFINE u == [w EXCEPT !.link = FALSE]
    <2>1. /\ u \in Wpas /\ ~u.link /\ u.enabled = w.enabled /\ u.net = w.net
          /\ u.sock = w.sock
      BY DEF Wpas
    <2>2. Drop(w) = Tell(u, "disconnected")
      BY <1>1 DEF Drop
    <2> HIDE DEF u
    <2>3. LET e == Tell(u, "disconnected") IN
          /\ e \in Wpas /\ e.link = u.link /\ e.enabled = u.enabled /\ e.net = u.net
          /\ e.sock = IF mon.thread = "open"
                      THEN Append(u.sock, [kind |-> "disconnected", net |-> u.net])
                      ELSE u.sock
      BY <2>1, TellIs DEF Kinds
    <2> QED BY <1>1, <2>1, <2>2, <2>3
  <1>2. CASE ~w.link
    BY <1>2 DEF Drop
  <1> QED BY <1>1, <1>2

LEMMA EnableIs ==
    ASSUME NEW w \in Wpas
    PROVE  LET e == EnableAll(w) IN
           e \in Wpas /\ e.link = w.link /\ e.sock = w.sock
  BY DEF EnableAll, Wpas, Nets

LEMMA SockEmptied ==
    ASSUME NEW w \in Wpas
    PROVE  LET e == [w EXCEPT !.sock = <<>>] IN
           e \in Wpas /\ e.sock = <<>> /\ e.link = w.link /\ e.net = w.net
           /\ e.enabled = w.enabled
  <1>1. PICK q : q = <<>>
    OBVIOUS
  <1>2. q \in Seq(Events)
    BY <1>1
  <1>3. LET e == [w EXCEPT !.sock = q] IN
        e \in Wpas /\ e.sock = q /\ e.link = w.link /\ e.net = w.net
        /\ e.enabled = w.enabled
    BY <1>2 DEF Wpas
  <1> QED BY <1>1, <1>3

LEMMA NoneSavedKept ==
    ASSUME NEW w \in Wpas, NoneSaved(w), NEW k \in Kinds,
           k \in Connects => w.net # "saved",
           NEW e, e.sock = w.sock \/ e.sock = Append(w.sock, [kind |-> k, net |-> w.net])
    PROVE  \A i \in DOMAIN e.sock : e.sock[i].kind \in Connects => e.sock[i].net # "saved"
  <1> DEFINE v == [kind |-> k, net |-> w.net]
             q == Append(w.sock, v)
  <1>1. v \in Events /\ w.sock \in Seq(Events)
    BY DEF Wpas, Events
  <1>2. /\ DOMAIN q = 1..(Len(w.sock) + 1)
        /\ \A i \in DOMAIN q : IF i \in DOMAIN w.sock THEN q[i] = w.sock[i] ELSE q[i] = v
    BY <1>1
  <1>3. v.kind = k /\ v.net = w.net
    OBVIOUS
  <1> HIDE DEF q, v
  <1>4. CASE e.sock = q
    <2> TAKE i \in DOMAIN e.sock
    <2> QED BY <1>2, <1>3, <1>4 DEF NoneSaved
  <1> QED BY <1>4 DEF NoneSaved, q, v

LEMMA FinalAppended ==
    ASSUME NEW q \in Seq(Events), NEW v \in Events
    PROVE  /\ v.kind # "not_found" =>
                /\ ~Silent(Append(q, v))
                /\ \A i \in Final(Append(q, v)) : Append(q, v)[i] = v
           /\ v.kind = "not_found" =>
                /\ Silent(Append(q, v)) => Silent(q)
                /\ \A i \in Final(Append(q, v)) : i \in Final(q) /\ Append(q, v)[i] = q[i]
  <1> DEFINE r == Append(q, v)
  <1>1. /\ DOMAIN r = 1..(Len(q) + 1) /\ DOMAIN q = 1..Len(q) /\ Len(q) \in Nat
        /\ r[Len(q) + 1] = v /\ \A i \in 1..Len(q) : r[i] = q[i]
    OBVIOUS
  <1> HIDE DEF r
  <1>2. ASSUME v.kind # "not_found"
        PROVE  ~Silent(r) /\ \A i \in Final(r) : r[i] = v
    <2>1. Len(q) + 1 \in DOMAIN r
      BY <1>1
    <2>2. ASSUME NEW i \in Final(r) PROVE i = Len(q) + 1
      BY <1>1, <1>2, <2>1 DEF Final
    <2> QED BY <1>1, <1>2, <2>1, <2>2 DEF Silent
  <1>3. ASSUME v.kind = "not_found"
        PROVE  /\ Silent(r) => Silent(q)
               /\ \A i \in Final(r) : i \in Final(q) /\ r[i] = q[i]
    <2>1. ASSUME NEW i \in Final(r) PROVE i \in 1..Len(q)
      BY <1>1, <1>3 DEF Final
    <2>2. ASSUME NEW i \in Final(r) PROVE i \in Final(q) /\ r[i] = q[i]
      BY <1>1, <2>1 DEF Final
    <2>3. Silent(r) => Silent(q)
      BY <1>1 DEF Silent
    <2> QED BY <2>2, <2>3
  <1> QED BY <1>2, <1>3 DEF r

LEMMA FinalTail ==
    ASSUME NEW q \in Seq(Events), q # <<>>
    PROVE  /\ \A i \in Final(Tail(q)) : i + 1 \in Final(q) /\ Tail(q)[i] = q[i + 1]
           /\ Silent(Tail(q)) => IF Head(q).kind = "not_found" THEN Silent(q)
                                 ELSE 1 \in Final(q)
  <1> DEFINE r == Tail(q)
  <1>1. /\ Len(q) \in Nat \ {0} /\ DOMAIN q = 1..Len(q) /\ DOMAIN r = 1..(Len(q) - 1)
        /\ \A i \in 1..(Len(q) - 1) : r[i] = q[i + 1]
        /\ Head(q) = q[1]
    OBVIOUS
  <1> HIDE DEF r
  <1>2. \A i \in DOMAIN q : i = 1 \/ (i - 1 \in DOMAIN r /\ q[i] = r[i - 1])
    BY <1>1
  <1>3. ASSUME NEW i \in Final(r) PROVE i + 1 \in Final(q) /\ r[i] = q[i + 1]
    <2>1. i \in DOMAIN r /\ r[i] = q[i + 1] /\ i + 1 \in DOMAIN q
      BY <1>1 DEF Final
    <2>2. ASSUME NEW j \in DOMAIN q, j > i + 1 PROVE q[j].kind = "not_found"
      <3>1. j # 1 /\ j - 1 > i
        BY <1>1, <2>1, <2>2
      <3> QED BY <1>2, <3>1 DEF Final
    <2> QED BY <2>1, <2>2 DEF Final
  <1>4. ASSUME Silent(r)
        PROVE  IF Head(q).kind = "not_found" THEN Silent(q) ELSE 1 \in Final(q)
    BY <1>1, <1>2, <1>4 DEF Silent, Final
  <1> QED BY <1>3, <1>4 DEF r

\* An event is reported together with the change of the link that it tells of.
LEMMA TellHeard ==
    ASSUME NEW w \in Wpas, NEW k \in Kinds, NEW b, HeardIn(w, mon, b),
           NEW u \in Wpas, u.sock = w.sock, u.link = (k = "connected"),
           k = "not_found" => u.link = w.link
    PROVE  HeardIn(Tell(u, k), mon, b)
  <1> DEFINE e == Tell(u, k)
             v == [kind |-> k, net |-> u.net]
             q == Append(u.sock, v)
  <1>1. e \in Wpas /\ e.link = u.link /\ e.sock = IF mon.thread = "open" THEN q ELSE u.sock
    BY TellIs
  <1>2. v \in Events /\ u.sock \in Seq(Events) /\ v.kind = k
    BY DEF Wpas, Events
  <1> HIDE DEF e, v
  <1>3. CASE mon.thread = "open"
    <2>1. e.sock = q
      BY <1>1, <1>3
    <2>2. \A i \in Final(q) : q[i].kind = "connected" <=> e.link
      <3>1. CASE k = "not_found"
        <4>1. \A i \in Final(q) : i \in Final(u.sock) /\ q[i] = u.sock[i]
          BY <1>2, <3>1, FinalAppended
        <4> QED BY <1>1, <1>3, <3>1, <4>1 DEF HeardIn
      <3>2. CASE k # "not_found"
        <4>1. \A i \in Final(q) : q[i] = v
          BY <1>2, <3>2, FinalAppended
        <4> QED BY <1>1, <1>2, <4>1
      <3> QED BY <3>1, <3>2
    <2>3. ASSUME Silent(q), ~b PROVE mon.status = "CONNECTED" <=> e.link
      <3>1. k = "not_found" /\ Silent(u.sock)
        BY <1>2, <2>3, FinalAppended
      <3> QED BY <1>1, <1>3, <2>3, <3>1 DEF HeardIn
    <2> HIDE DEF q
    <2> QED BY <1>3, <2>1, <2>2, <2>3 DEF HeardIn, e
  <1>4. CASE mon.thread # "open"
    BY <1>1, <1>4 DEF HeardIn, e
  <1> QED BY <1>3, <1>4

LEMMA DropHeard ==
    ASSUME NEW w \in Wpas, NEW b, HeardIn(w, mon, b)
    PROVE  HeardIn(Drop(w), mon, b)
  <1>1. CASE w.link
    <2> DEFINE u == [w EXCEPT !.link = FALSE]
    <2>1. u \in Wpas /\ u.sock = w.sock /\ u.link = FALSE
      BY DEF Wpas
    <2>2. Drop(w) = Tell(u, "disconnected")
      BY <1>1 DEF Drop
    <2> HIDE DEF u
    <2>3. HeardIn(Tell(u, "disconnected"), mon, b)
      BY <2>1, TellHeard DEF Kinds
    <2> QED BY <2>2, <2>3
  <1>2. CASE ~w.link
    BY <1>2 DEF Drop
  <1> QED BY <1>1, <1>2

LEMMA EnableHeard ==
    ASSUME NEW w \in Wpas, NEW m, NEW b, HeardIn(w, m, b)
    PROVE  HeardIn(EnableAll(w), m, b)
  BY EnableIs DEF HeardIn

LEMMA SupplicantHeard ==
    ASSUME wpa \in Wpas, NEW d, NEW half \in BOOLEAN, NEW b, HeardIn(wpa, mon, b),
           mon.flag => "WIFI" \in dev.hal
    PROVE  LET e == Supplicant(wpa, d, half) IN e \in Wpas /\ HeardIn(e, mon, b)
  <1>0. Drop(wpa) \in Wpas /\ HeardIn(Drop(wpa), mon, b)
    BY DropIs, DropHeard
  <1>1. CASE "WIFI" \notin d.hal
    <2> DEFINE a == Drop(wpa)
    <2>1. Supplicant(wpa, d, half) = [a EXCEPT !.enabled = FALSE, !.runs = FALSE]
      BY <1>1 DEF Supplicant
    <2> HIDE DEF a
    <2>2. LET e == [a EXCEPT !.enabled = FALSE, !.runs = FALSE] IN
          e \in Wpas /\ e.sock = a.sock /\ e.link = a.link
      BY <1>0 DEF Wpas, a
    <2> QED BY <1>0, <2>1, <2>2 DEF HeardIn, a
  <1>2. CASE "WIFI" \in d.hal \ dev.hal
    <2> DEFINE a == EnableAll(wpa)
               c == [a EXCEPT !.sock = <<>>]
               runs == "WIFI" \in d.up \/ half
    <2>1. a \in Wpas
      BY EnableIs
    <2>2. Supplicant(wpa, d, half) = [a EXCEPT !.sock = <<>>, !.runs = runs]
      BY <1>2 DEF Supplicant
    <2>3. runs \in BOOLEAN
      OBVIOUS
    <2> HIDE DEF a, runs
    <2>4. c \in Wpas /\ c.sock = <<>>
      BY <2>1, SockEmptied
    <2>5. [a EXCEPT !.sock = <<>>, !.runs = runs] = [c EXCEPT !.runs = runs]
      OBVIOUS
    <2> HIDE DEF c
    <2>6. LET e == [c EXCEPT !.runs = runs] IN e \in Wpas /\ e.sock = c.sock
      BY <2>3, <2>4 DEF Wpas
    <2>7. mon.thread # "open"
      BY <1>2 DEF HeardIn
    <2> QED BY <2>2, <2>4, <2>5, <2>6, <2>7 DEF HeardIn
  <1>3. CASE "WIFI" \in d.hal /\ "WIFI" \in dev.hal
    BY <1>0, <1>3 DEF Supplicant
  <1> QED BY <1>1, <1>2, <1>3

\* wifi_start_monitor clears the status, which is a lie when the link is up.
LEMMA StartHeard ==
    ASSUME NEW w \in Wpas, mon \in Mons, NEW b, HeardIn(w, mon, b)
    PROVE  StartMonitor(mon) \in Mons /\ HeardIn(w, StartMonitor(mon), w.link)
  <1>1. w.link \in BOOLEAN
    BY DEF Wpas
  <1>2. CASE mon.flag
    <2> DEFINE m == [mon EXCEPT !.status = "DISCONNECTED"]
    <2>1. m \in Mons /\ m.flag = mon.flag /\ m.thread = mon.thread
          /\ m.status = "DISCONNECTED"
      BY DEF Mons, Statuses
    <2>2. StartMonitor(mon) = m
      BY <1>2 DEF StartMonitor
    <2> HIDE DEF m
    <2> QED BY <1>1, <2>1, <2>2 DEF HeardIn
  <1>3. CASE ~mon.flag
    <2> DEFINE m == [mon EXCEPT !.status = "DISCONNECTED", !.flag = TRUE,
                                !.thread = "starting"]
    <2>1. m \in Mons /\ m.flag = TRUE /\ m.thread = "starting"
      BY DEF Mons, Statuses
    <2>2. StartMonitor(mon) = m
      BY <1>3 DEF StartMonitor
    <2>3. w.sock = <<>>
      BY <1>3 DEF HeardIn
    <2> HIDE DEF m
    <2> QED BY <2>1, <2>2, <2>3 DEF HeardIn
  <1> QED BY <1>2, <1>3

LEMMA StopHeard ==
    ASSUME NEW w \in Wpas, mon \in Mons, NEW b, NEW c, HeardIn(w, mon, b), NEW o \in BOOLEAN
    PROVE  LET m == StopMonitor(mon, o) IN
           m \in Mons /\ Unread(w, m) \in Wpas /\ HeardIn(Unread(w, m), m, c)
  <1> DEFINE m == StopMonitor(mon, o)
  <1>1. m \in Mons /\ m.flag = FALSE /\ m.thread = "none"
    <2>1. CASE mon.flag
      <3> DEFINE st == IF mon.roam = "none" THEN mon.status ELSE mon.roam
                 op == o /\ mon.thread \in {"starting", "open"}
      <3>1. m = [mon EXCEPT !.flag = FALSE, !.thread = "none", !.roam = "none",
                            !.open = op, !.status = st]
        BY <2>1 DEF StopMonitor
      <3>2. st \in Statuses /\ op \in BOOLEAN
        BY DEF Mons
      <3> HIDE DEF m, st, op
      <3> QED BY <3>1, <3>2 DEF Mons
    <2>2. CASE ~mon.flag
      BY <2>2 DEF StopMonitor, HeardIn, Mons
    <2> QED BY <2>1, <2>2
  <1> HIDE DEF m
  <1>2. LET e == [w EXCEPT !.sock = <<>>] IN e \in Wpas /\ e.sock = <<>>
    BY SockEmptied
  <1>3. Unread(w, m) = [w EXCEPT !.sock = <<>>]
    BY <1>1 DEF Unread
  <1> QED BY <1>1, <1>2, <1>3 DEF HeardIn, m

HeardWell == mon' \in Mons /\ wpa' \in Wpas /\ Heard'

LEMMA CommandsHeard ==
    ASSUME Types, Devices, Heard, Commands
    PROVE  HeardWell
  <1> DEFINE s(half) == Supplicant(wpa, dev', half)
  <1>0. mon \in Mons /\ wpa \in Wpas /\ HeardIn(wpa, mon, blind)
    BY DEF Types, Heard
  <1>1. ASSUME NEW half \in BOOLEAN PROVE s(half) \in Wpas /\ HeardIn(s(half), mon, blind)
    BY <1>0, SupplicantHeard DEF Devices
  <1>2. ASSUME mon' = mon, wpa' = wpa, blind' = blind PROVE HeardWell
    BY <1>0, <1>2 DEF HeardWell, Heard
  <1>3. ASSUME NEW half \in BOOLEAN, mon' = mon, wpa' = s(half), blind' = blind
        PROVE  HeardWell
    <2> HIDE DEF s
    <2> QED BY <1>0, <1>1, <1>3 DEF HeardWell, Heard
  <1>4. ASSUME NEW o \in BOOLEAN, mon' = StopMonitor(mon, o), wpa' = Unread(s(FALSE), mon')
        PROVE  HeardWell
    <2> HIDE DEF s
    <2> QED BY <1>0, <1>1, <1>4, StopHeard DEF HeardWell, Heard
  <1>5. CASE StopAbsent
    BY <1>2, <1>5 DEF StopAbsent, hist
  <1>6. CASE ScanOrRemove
    BY <1>3, <1>6 DEF ScanOrRemove, StartWifiScan, RemoveNetwork
  <1>7. CASE StopWifiStation
    BY <1>4, <1>7 DEF StopWifiStation
  <1>8. CASE ApConnect
    BY <1>4, <1>8 DEF ApConnect
  <1>9. CASE StopWifiAp
    BY <1>3, <1>9 DEF StopWifiAp
  <1>10. CASE StartModemOrEtherent
    BY <1>2, <1>10 DEF StartModemOrEtherent
  <1>11. CASE StopModemOrEtherent
    BY <1>2, <1>11 DEF StopModemOrEtherent
  <1> QED BY <1>5, <1>6, <1>7, <1>8, <1>9, <1>10, <1>11 DEF Commands

\* Every event so far marked as older than the join.
LEMMA DisabledIs ==
    ASSUME NEW w \in Wpas
    PROVE  LET e == [w EXCEPT !.sock = [i \in DOMAIN w.sock |->
                                          [w.sock[i] EXCEPT !.net = "queued"]]]
           IN /\ e \in Wpas /\ e.link = w.link /\ e.enabled = w.enabled /\ e.net = w.net
              /\ DOMAIN e.sock = DOMAIN w.sock
              /\ \A i \in DOMAIN w.sock :
                   e.sock[i].kind = w.sock[i].kind /\ e.sock[i].net = "queued"
  <1> DEFINE q == [i \in DOMAIN w.sock |-> [w.sock[i] EXCEPT !.net = "queued"]]
  <1>1. w.sock \in Seq(Events)
    BY DEF Wpas
  <1>2. \A i \in DOMAIN w.sock : w.sock[i] \in Events
    BY <1>1
  <1>3. \A v \in Events : LET x == [v EXCEPT !.net = "queued"] IN
                          x \in Events /\ x.kind = v.kind /\ x.net = "queued"
    BY DEF Events, Nets
  <1>4. /\ DOMAIN q = DOMAIN w.sock
        /\ \A i \in DOMAIN w.sock : /\ q[i] \in Events /\ q[i].kind = w.sock[i].kind
                                    /\ q[i].net = "queued"
    BY <1>2, <1>3
  <1>5. q \in Seq(Events)
    <2>1. DOMAIN w.sock = 1..Len(w.sock) /\ Len(w.sock) \in Nat
      BY <1>1
    <2>2. q \in [1..Len(w.sock) -> Events]
      BY <1>4, <2>1
    <2> HIDE DEF q
    <2> QED BY <2>1, <2>2, SeqDef
  <1> HIDE DEF q
  <1>6. LET e == [w EXCEPT !.sock = q] IN
        /\ e \in Wpas /\ e.link = w.link /\ e.enabled = w.enabled /\ e.net = w.net
        /\ e.sock = q
    BY <1>5 DEF Wpas
  <1> QED BY <1>4, <1>6 DEF q

\* wifi_disable_all_network.
LEMMA DisableAllIs ==
    ASSUME NEW w \in Wpas, NEW b, HeardIn(w, mon, b), NEW done \in BOOLEAN
    PROVE  LET e == DisableAll(w, done) IN
           e \in Wpas /\ HeardIn(e, mon, b) /\ (e.net = "saved" => ~e.enabled /\ ~e.link)
  <1>1. CASE done
    <2> DEFINE d == Drop(w)
    <2>1. d \in Wpas /\ ~d.link /\ HeardIn(d, mon, b)
      BY DropIs, DropHeard
    <2>2. DisableAll(w, done) = [d EXCEPT !.enabled = FALSE, !.net = "saved"]
      BY <1>1 DEF DisableAll
    <2> HIDE DEF d
    <2>3. LET e == [d EXCEPT !.enabled = FALSE, !.net = "saved"] IN
          e \in Wpas /\ e.sock = d.sock /\ e.link = d.link /\ ~e.enabled
      BY <2>1 DEF Wpas, Nets
    <2> QED BY <2>1, <2>2, <2>3 DEF HeardIn
  <1>2. CASE ~done
    <2>1. DisableAll(w, done) = [w EXCEPT !.net = "kept"]
      BY <1>2 DEF DisableAll
    <2>2. LET e == [w EXCEPT !.net = "kept"] IN
          e \in Wpas /\ e.sock = w.sock /\ e.link = w.link /\ e.net = "kept"
      BY DEF Wpas, Nets
    <2> QED BY <2>1, <2>2 DEF HeardIn
  <1> QED BY <1>1, <1>2

LEMMA ConnectHeard ==
    ASSUME Types, Devices, Heard, Connect
    PROVE  HeardWell
  <1> DEFINE s(half) == Supplicant(wpa, dev', half)
  <1>0. mon \in Mons /\ wpa \in Wpas /\ HeardIn(wpa, mon, blind)
    BY DEF Types, Heard
  <1>1. ASSUME NEW half \in BOOLEAN PROVE s(half) \in Wpas /\ HeardIn(s(half), mon, blind)
    BY <1>0, SupplicantHeard DEF Devices
  <1>2. ASSUME mon' = mon, wpa' \in {wpa, EnableAll(wpa), EnableAll(Drop(wpa))},
               blind' = blind
        PROVE HeardWell
    <2>1. EnableAll(wpa) \in Wpas /\ HeardIn(EnableAll(wpa), mon, blind)
      BY <1>0, EnableIs, EnableHeard
    <2>2. Drop(wpa) \in Wpas /\ HeardIn(Drop(wpa), mon, blind)
      BY <1>0, DropIs, DropHeard
    <2>3. EnableAll(Drop(wpa)) \in Wpas /\ HeardIn(EnableAll(Drop(wpa)), mon, blind)
      BY <2>2, EnableIs, EnableHeard
    <2> QED BY <1>0, <1>2, <2>1, <2>3 DEF HeardWell, Heard
  <1>3. CASE ConnectBadFormat
    <2>1. mon' = mon /\ wpa' = s(FALSE) /\ blind' = blind
      BY <1>3 DEF ConnectBadFormat
    <2> HIDE DEF s
    <2> QED BY <1>0, <1>1, <2>1 DEF HeardWell, Heard
  <1>4. CASE ConnectFails
    <2>1. PICK half \in BOOLEAN :
          /\ wpa' = s(half) \/ wpa' = EnableAll(s(half))
          /\ mon' = mon \/ (~mon.flag /\ mon' = [mon EXCEPT !.status = "DISCONNECTED"])
          /\ blind' = blind
      BY <1>4 DEF ConnectFails
    <2> HIDE DEF s
    <2>2. wpa' \in Wpas /\ HeardIn(wpa', mon, blind)
      BY <1>1, <2>1, EnableIs, EnableHeard
    <2>3. CASE mon' = mon
      BY <1>0, <2>1, <2>2, <2>3 DEF HeardWell, Heard
    <2>4. CASE ~mon.flag /\ mon' = [mon EXCEPT !.status = "DISCONNECTED"]
      <3>1. mon' \in Mons /\ mon'.flag = mon.flag /\ mon'.thread = mon.thread
        BY <1>0, <2>4 DEF Mons, Statuses
      <3> QED BY <2>2, <2>4, <3>1 DEF HeardWell, Heard, HeardIn
    <2> QED BY <2>1, <2>3, <2>4
  <1>5. CASE ConnectStarts
    <2>1. wpa' = s(FALSE) /\ mon' = StartMonitor(mon) /\ blind' = wpa'.link
      BY <1>5 DEF ConnectStarts
    <2> HIDE DEF s
    <2> QED BY <1>0, <1>1, <2>1, StartHeard DEF HeardWell, Heard
  <1>6. CASE MonitorNotOpen
    BY <1>2, <1>6 DEF MonitorNotOpen, hist
  <1>7. CASE DisableAndJoin
    <2>1. PICK done \in BOOLEAN :
            wpa' = LET w == DisableAll(wpa, done)
                   IN [w EXCEPT !.sock = [i \in DOMAIN w.sock |->
                                            [w.sock[i] EXCEPT !.net = "queued"]]]
      BY <1>7 DEF DisableAndJoin
    <2> DEFINE d == DisableAll(wpa, done)
    <2>2. d \in Wpas /\ HeardIn(d, mon, blind)
      BY <1>0, DisableAllIs
    <2>3. /\ wpa' = [d EXCEPT !.sock = [i \in DOMAIN d.sock |->
                                          [d.sock[i] EXCEPT !.net = "queued"]]]
          /\ mon' = mon /\ blind' = blind
      BY <1>7, <2>1 DEF DisableAndJoin, CanAsk, hist
    <2> HIDE DEF d
    <2>5. /\ wpa' \in Wpas /\ wpa'.link = d.link /\ DOMAIN wpa'.sock = DOMAIN d.sock
          /\ \A i \in DOMAIN d.sock : wpa'.sock[i].kind = d.sock[i].kind
      BY <2>2, <2>3, DisabledIs
    <2>6. /\ Final(wpa'.sock) = Final(d.sock) /\ (Silent(wpa'.sock) <=> Silent(d.sock))
          /\ \A i \in Final(d.sock) : wpa'.sock[i].kind = d.sock[i].kind
      BY <2>5 DEF Final, Silent
    <2>7. d.sock = <<>> => wpa'.sock = <<>>
      <3>1. wpa'.sock \in Seq(Events)
        BY <2>5 DEF Wpas
      <3>2. d.sock = <<>> => 1 \notin DOMAIN wpa'.sock
        BY <2>5
      <3> QED BY <3>1, <3>2, EmptySeq, LenProperties
    <2> QED BY <1>0, <2>2, <2>3, <2>5, <2>6, <2>7 DEF HeardWell, Heard, HeardIn
  <1>8. CASE DisableFails
    BY <1>2, <1>8 DEF DisableFails, CanAsk, hist
  <1>9. CASE WaitForResult
    BY <1>2, <1>9 DEF WaitForResult, hist
  <1>10. CASE \E timedOut \in BOOLEAN : WaitEnds(timedOut)
    BY <1>2, <1>10 DEF WaitEnds
  <1>11. CASE ConnectEnds
    BY <1>2, <1>11 DEF ConnectEnds
  <1>12. CASE SpuriousWakeUp
    BY <1>2, <1>12 DEF SpuriousWakeUp
  <1> QED BY <1>3, <1>4, <1>5, <1>6, <1>7, <1>8, <1>9, <1>10, <1>11, <1>12
          DEF Connect, ConnectGoesOn

LEMMA SockRead ==
    ASSUME NEW w \in Wpas, w.sock # <<>>
    PROVE  LET e == [w EXCEPT !.sock = Tail(@)] IN
           /\ e \in Wpas /\ e.sock = Tail(w.sock) /\ e.link = w.link /\ e.net = w.net
           /\ e.enabled = w.enabled /\ Head(w.sock) \in Events
  <1>1. w.sock \in Seq(Events)
    BY DEF Wpas
  <1>2. Tail(w.sock) \in Seq(Events) /\ Head(w.sock) \in Events
    BY <1>1, HeadTailProperties
  <1>3. PICK q : q = Tail(w.sock)
    OBVIOUS
  <1>4. LET e == [w EXCEPT !.sock = q] IN
        /\ e \in Wpas /\ e.sock = q /\ e.link = w.link /\ e.net = w.net
        /\ e.enabled = w.enabled
    BY <1>2, <1>3 DEF Wpas
  <1> QED BY <1>2, <1>3, <1>4

LEMMA EventHeard ==
    ASSUME Types, Heard, HandleEvent
    PROVE  HeardWell
  <1> DEFINE e == Head(wpa.sock)
             q == wpa.sock
  <1>0. /\ mon \in Mons /\ wpa \in Wpas /\ HeardIn(wpa, mon, blind)
        /\ mon.thread = "open" /\ q # <<>> /\ q \in Seq(Events)
    BY DEF Types, Heard, HandleEvent, Wpas
  <1>1. PICK fails :
          /\ fails = CASE e.kind \in Connects -> 0
                       [] e.kind = "disconnected" /\ mon.failed <= FailedTimes
                            -> mon.failed + 1
                       [] OTHER -> mon.failed
          /\ mon' = [mon EXCEPT !.failed = fails, !.status = StatusAfter(@, e.kind)]
          /\ wpa' = [wpa EXCEPT !.sock = Tail(@)]
          /\ blind' = IF e.kind = "not_found" THEN blind ELSE e.kind = "reenabled"
    BY DEF HandleEvent
  <1>2. fails \in Nat
    BY <1>0, <1>1 DEF Mons, Connects
  <1>3. StatusAfter(mon.status, e.kind) \in Statuses
    BY <1>0 DEF StatusAfter, Statuses, Mons
  <1>4. /\ mon' \in Mons /\ mon'.thread = mon.thread /\ mon'.flag = mon.flag
        /\ mon'.status = StatusAfter(mon.status, e.kind)
    BY <1>0, <1>1, <1>2, <1>3 DEF Mons
  <1>5. wpa' \in Wpas /\ wpa'.sock = Tail(q) /\ wpa'.link = wpa.link /\ e \in Events
    BY <1>0, <1>1, SockRead
  <1>6. /\ \A i \in Final(Tail(q)) : i + 1 \in Final(q) /\ Tail(q)[i] = q[i + 1]
        /\ Silent(Tail(q)) => IF e.kind = "not_found" THEN Silent(q) ELSE 1 \in Final(q)
    BY <1>0, FinalTail
  <1>7. e = q[1]
    BY <1>0
  <1> HIDE DEF e
  <1>8. /\ \A i \in Final(q) : q[i].kind = "connected" <=> wpa.link
        /\ Silent(q) /\ ~blind => (mon.status = "CONNECTED" <=> wpa.link)
    BY <1>0 DEF HeardIn
  <1>9. \A i \in Final(wpa'.sock) : wpa'.sock[i].kind = "connected" <=> wpa'.link
    BY <1>5, <1>6, <1>8, ZenonT(60)
  <1>10. ASSUME Silent(wpa'.sock), ~blind' PROVE mon'.status = "CONNECTED" <=> wpa'.link
    <2>1. CASE e.kind = "not_found"
      <3>1. mon'.status = mon.status /\ blind' = blind /\ Silent(q)
        BY <1>1, <1>4, <1>5, <1>6, <1>10, <2>1 DEF StatusAfter, Connects
      <3> QED BY <1>5, <1>8, <1>10, <3>1
    <2>2. CASE e.kind # "not_found"
      <3>1. (e.kind = "connected" <=> wpa.link) /\ e.kind # "reenabled"
        BY <1>1, <1>5, <1>6, <1>7, <1>8, <1>10, <2>2
      <3>2. mon'.status = "CONNECTED" <=> e.kind = "connected"
        BY <1>4, <2>2, <3>1 DEF StatusAfter, Connects
      <3> QED BY <1>5, <3>1, <3>2
    <2> QED BY <2>1, <2>2
  <1> QED BY <1>0, <1>4, <1>5, <1>9, <1>10 DEF HeardWell, Heard, HeardIn

LEMMA ListeningHeard ==
    ASSUME Types, Devices, Heard, Listening
    PROVE  HeardWell
  <1>0. mon \in Mons /\ wpa \in Wpas /\ HeardIn(wpa, mon, blind)
    BY DEF Types, Heard
  <1>1. ASSUME NEW k \in Kinds, Report(k) PROVE HeardWell
    <2> DEFINE u == [wpa EXCEPT !.link = k = "connected"]
    <2>1. /\ wpa' = Tell(u, k) /\ mon' = mon /\ blind' = blind
          /\ k = "not_found" => ~wpa.link
      BY <1>1 DEF Report, hist
    <2>2. u \in Wpas /\ u.sock = wpa.sock /\ u.link = (k = "connected")
      BY <1>0 DEF Wpas
    <2>3. k = "not_found" => u.link = wpa.link
      BY <1>0, <2>1, <2>2 DEF Wpas
    <2> HIDE DEF u
    <2>4. wpa' \in Wpas /\ HeardIn(wpa', mon, blind)
      BY <1>0, <2>1, <2>2, <2>3, TellIs, TellHeard
    <2> QED BY <1>0, <2>1, <2>4 DEF HeardWell, Heard
  <1>2. CASE MonitorOpens
    <2>1. /\ mon' = [mon EXCEPT !.thread = "open", !.open = TRUE] /\ wpa' = wpa
          /\ blind' = (wpa.link # (mon.status = "CONNECTED")) /\ mon.thread = "starting"
      BY <1>2 DEF MonitorOpens
    <2>2. /\ mon' \in Mons /\ mon'.thread = "open" /\ mon'.status = mon.status
          /\ mon'.flag = mon.flag
      BY <1>0, <2>1 DEF Mons
    <2>3. wpa.sock = <<>> /\ mon.flag
      BY <1>0, <2>1 DEF HeardIn
    <2>4. Final(wpa.sock) = {}
      BY <2>3 DEF Final
    <2>5. wpa.link \in BOOLEAN
      BY <1>0 DEF Wpas
    <2>6. ~blind' => (mon.status = "CONNECTED" <=> wpa.link)
      BY <2>1, <2>5
    <2> QED BY <1>0, <2>1, <2>2, <2>3, <2>4, <2>6 DEF HeardWell, Heard, HeardIn
  <1>3. CASE MonitorEnds
    <2>1. /\ mon' = [mon EXCEPT !.thread = "ended"] /\ wpa' = [wpa EXCEPT !.sock = <<>>]
          /\ blind' = blind /\ mon.thread # "none"
      BY <1>3 DEF MonitorEnds, hist
    <2>2. mon' \in Mons /\ mon'.thread = "ended" /\ mon'.flag = mon.flag
      BY <1>0, <2>1 DEF Mons
    <2>3. wpa' \in Wpas /\ wpa'.sock = <<>>
      BY <1>0, <2>1, SockEmptied
    <2> QED BY <1>0, <2>1, <2>2, <2>3 DEF HeardWell, Heard, HeardIn
  <1>7. CASE MonitorAttachesAgain
    <2>1. /\ mon' = mon /\ wpa' = [wpa EXCEPT !.sock = <<>>] /\ mon.thread = "open"
          /\ blind' = (wpa.link # (mon.status = "CONNECTED"))
      BY <1>7 DEF MonitorAttachesAgain
    <2>2. wpa' \in Wpas /\ wpa'.sock = <<>> /\ wpa'.link = wpa.link
      BY <1>0, <2>1, SockEmptied
    <2>3. Final(wpa'.sock) = {}
      BY <2>2 DEF Final
    <2>4. wpa.link \in BOOLEAN
      BY <1>0 DEF Wpas
    <2>5. ~blind' => (mon.status = "CONNECTED" <=> wpa.link)
      BY <2>1, <2>4
    <2> QED BY <1>0, <2>1, <2>2, <2>3, <2>5 DEF HeardWell, Heard, HeardIn
  <1>4. CASE HandleEvent
    BY <1>4, EventHeard
  <1>5. CASE RoamReads
    <2>1. mon' = [mon EXCEPT !.roam = mon.status] /\ wpa' = wpa /\ blind' = blind
      BY <1>5 DEF RoamReads, hist
    <2>2. /\ mon' \in Mons /\ mon'.thread = mon.thread /\ mon'.flag = mon.flag
          /\ mon'.status = mon.status
      BY <1>0, <2>1 DEF Mons
    <2> QED BY <1>0, <2>1, <2>2 DEF HeardWell, Heard, HeardIn
  <1>6. CASE RoamWrites
    <2>1. /\ mon' = [mon EXCEPT !.roam = "none", !.status = mon.roam] /\ wpa' = wpa
          /\ blind' = (blind \/ mon.roam # mon.status) /\ mon.roam # "none"
      BY <1>6 DEF RoamWrites
    <2>2. /\ mon' \in Mons /\ mon'.thread = mon.thread /\ mon'.flag = mon.flag
          /\ mon'.status = mon.roam
      BY <1>0, <2>1 DEF Mons
    <2> QED BY <1>0, <2>1, <2>2 DEF HeardWell, Heard, HeardIn
  <1> QED BY <1>1, <1>2, <1>3, <1>4, <1>5, <1>6, <1>7 DEF Listening

LEMMA LoopingHeard ==
    ASSUME Types, Devices, Heard, Looping
    PROVE  HeardWell
  <1>0. mon \in Mons /\ wpa \in Wpas /\ HeardIn(wpa, mon, blind)
    BY DEF Types, Heard
  <1>1. ASSUME mon' = mon, wpa' = wpa, blind' = blind PROVE HeardWell
    BY <1>0, <1>1 DEF HeardWell, Heard
  <1>2. CASE ApTimeout
    <2>0. PICK half \in BOOLEAN : wpa' = Supplicant(wpa, dev', half)
      BY <1>2 DEF ApTimeout
    <2> DEFINE s == Supplicant(wpa, dev', half)
    <2>1. s \in Wpas /\ HeardIn(s, mon, blind)
      BY <1>0, SupplicantHeard DEF Devices
    <2>2. wpa' = s /\ mon' = StartMonitor(mon) /\ blind' = wpa'.link
      BY <1>2, <2>0 DEF ApTimeout
    <2> HIDE DEF s
    <2> QED BY <1>0, <2>1, <2>2, StartHeard DEF HeardWell, Heard
  <1>3. CASE Join
    <2> DEFINE d == Drop(wpa)
    <2>1. d \in Wpas /\ HeardIn(d, mon, blind)
      BY <1>0, DropIs, DropHeard
    <2>2. PICK n \in Nets : wpa' = wpa \/ wpa' = [d EXCEPT !.enabled = TRUE, !.net = n]
      BY <1>3 DEF Join, Nets
    <2>3. mon' = mon /\ blind' = blind
      BY <1>3 DEF Join, hist
    <2> HIDE DEF d
    <2>4. LET e == [d EXCEPT !.enabled = TRUE, !.net = n] IN
          e \in Wpas /\ e.link = d.link /\ e.sock = d.sock
      BY <2>1 DEF Wpas
    <2>5. wpa' \in Wpas /\ HeardIn(wpa', mon, blind)
      <3>1. CASE wpa' = wpa
        BY <1>0, <3>1
      <3>2. CASE wpa' = [d EXCEPT !.enabled = TRUE, !.net = n]
        BY <2>1, <2>4, <3>2 DEF HeardIn
      <3> QED BY <2>2, <3>1, <3>2
    <2> QED BY <1>0, <2>3, <2>5 DEF HeardWell, Heard
  <1>4. CASE \E n \in timer.armed : Expire(n)
    BY <1>1, <1>4 DEF Expire, hist
  <1>5. CASE ModemExpires
    BY <1>1, <1>5 DEF ModemExpires, hist
  <1>6. CASE \E k \in ticks : ApTimeoutBegins(k.n)
    BY <1>1, <1>6 DEF ApTimeoutBegins, hist
  <1>7. CASE \E again \in BOOLEAN : ModemMonitor(again)
    BY <1>1, <1>7 DEF ModemMonitor, hist
  <1>8. CASE ModemRestarts
    BY <1>1, <1>8 DEF ModemRestarts
  <1> QED BY <1>2, <1>3, <1>4, <1>5, <1>6, <1>7, <1>8 DEF Looping, Tasks

LEMMA HeardStep ==
    ASSUME Types, Devices, Heard, [Next]_vars
    PROVE  HeardWell
  <1>1. CASE UNCHANGED vars
    BY <1>1 DEF vars, hist, HeardWell, Heard, HeardIn, Types
  <1> QED BY <1>1, CommandsHeard, ConnectHeard, ListeningHeard, LoopingHeard DEF Next

-----------------------------------------------------------------------------
(* Types, and what WIFI CONNECT is told.                                   *)

Rest ==
    /\ pc \in {"idle", "open", "join", "wait", "signalled", "woken"}
    /\ result \in {"OK", "NOK"} /\ got \in {"OK", "NOK"}
    /\ ticks \subseteq Ticks /\ loop \in Ticks
    /\ fault \in {"none", "null", "freed twice"}
    /\ modemRaced \in BOOLEAN /\ blind \in BOOLEAN

LEMMA RestStep ==
    ASSUME Types, Accounted, HeardWell, [Next]_vars
    PROVE  Rest'
  <1>0. Rest /\ wpa'.link \in BOOLEAN
    BY DEF Types, Rest, HeardWell, Wpas
  <1>1. Tick("join", 0) \in Ticks /\ Tick("modem", 0) \in Ticks /\ Idle \in Ticks
    BY DEF Tick, Ticks, Idle
  <1>2. CASE UNCHANGED vars
    BY <1>0, <1>2 DEF vars, hist, Rest
  <1>3. ASSUME Commands PROVE Rest'
    <2>1. /\ UNCHANGED <<pc, result, got, ticks, loop, blind>>
          /\ fault' \in {fault, "null"} /\ modemRaced' \in BOOLEAN
      BY <1>0, <1>3 DEF Commands, StopAbsent, ScanOrRemove, StopWifiStation, ApConnect,
           StopWifiAp, StartModemOrEtherent, StopModemOrEtherent, hist, Rest
    <2> QED BY <1>0, <2>1 DEF Rest
  <1>4. ASSUME Connect PROVE Rest'
    <2>1. CASE ConnectBadFormat \/ ConnectFails \/ ConnectStarts
      BY <1>0, <2>1 DEF ConnectBadFormat, ConnectFails, ConnectStarts, ConnectBegins,
         Rest
    <2>2. CASE MonitorNotOpen \/ DisableAndJoin \/ DisableFails
      BY <1>0, <1>1, <2>2 DEF MonitorNotOpen, DisableAndJoin, DisableFails, Answer,
         hist, Rest
    <2>3. CASE WaitForResult
      BY <1>0, <2>3 DEF WaitForResult, hist, Rest
    <2>4. CASE \E timedOut \in BOOLEAN : WaitEnds(timedOut)
      BY <1>0, <2>4 DEF WaitEnds, GotResult, Rest
    <2>5. CASE ConnectEnds \/ SpuriousWakeUp
      BY <1>0, <2>5 DEF ConnectEnds, SpuriousWakeUp, Answer, Rest
    <2> QED BY <1>4, <2>1, <2>2, <2>3, <2>4, <2>5 DEF Connect, ConnectGoesOn
  <1>5. ASSUME Listening PROVE Rest'
    <2>1. CASE \E k \in Kinds : Report(k)
      BY <1>0, <2>1 DEF Report, hist, Rest
    <2>2. CASE MonitorOpens
      BY <1>0, <2>2 DEF MonitorOpens, Rest
    <2>3. CASE MonitorEnds
      BY <1>0, <2>3 DEF MonitorEnds, hist, Rest
    <2>7. CASE MonitorAttachesAgain
      BY <1>0, <2>7 DEF MonitorAttachesAgain, Rest
    <2>4. CASE HandleEvent
      <3> DEFINE e == Head(wpa.sock)
      <3>1. PICK r, f :
              /\ r = IF dev.state = "JOINING" THEN Outcome(e.kind, f) ELSE "none"
              /\ result' = IF r = "none" THEN result ELSE r
              /\ pc' = IF pc = "wait" /\ r # "none" THEN "signalled" ELSE pc
              /\ blind' = IF e.kind = "not_found" THEN blind ELSE e.kind = "reenabled"
        BY <2>4 DEF HandleEvent
      <3>2. r \in {"OK", "NOK", "none"}
        BY <3>1 DEF Outcome
      <3>3. UNCHANGED <<got, ticks, loop, fault, modemRaced>>
        BY <2>4 DEF HandleEvent
      <3> QED BY <1>0, <3>1, <3>2, <3>3 DEF Rest
    <2>5. CASE RoamReads
      BY <1>0, <2>5 DEF RoamReads, hist, Rest
    <2>6. CASE RoamWrites
      BY <1>0, <2>6 DEF RoamWrites, Rest
    <2> QED BY <1>5, <2>1, <2>2, <2>3, <2>4, <2>5, <2>6, <2>7 DEF Listening
  <1>6. ASSUME Looping PROVE Rest'
    <2>1. ASSUME NEW n \in timer.armed, Expire(n) PROVE Rest'
      <3>1. Tick("ap", n) \in Ticks
        BY DEF Accounted, OneTimer, Timers, Tick, Ticks
      <3> QED BY <1>0, <2>1, <3>1 DEF Expire, hist, Rest
    <2>2. CASE ModemExpires
      BY <1>0, <1>1, <2>2 DEF ModemExpires, hist, Rest
    <2>3. CASE ApTimeout
      BY <1>0, <1>1, <2>3 DEF ApTimeout, Rest
    <2>4. CASE \E k \in ticks : ApTimeoutBegins(k.n)
      BY <1>0, <2>4 DEF ApTimeoutBegins, hist, Rest
    <2>5. CASE Join
      BY <1>0, <2>5 DEF Join, hist, Rest
    <2>6. CASE \E again \in BOOLEAN : ModemMonitor(again)
      BY <1>0, <1>1, <2>6 DEF ModemMonitor, hist, Rest
    <2>7. CASE ModemRestarts
      BY <1>0, <1>1, <2>7 DEF ModemRestarts, Rest
    <2> QED BY <1>6, <2>1, <2>2, <2>3, <2>4, <2>5, <2>6, <2>7 DEF Looping, Tasks
  <1> QED BY <1>2, <1>3, <1>4, <1>5, <1>6 DEF Next

\* A step that adds no event and changes neither what CONNECT waits for nor what
\* wpa_supplicant is at.
LEMMA AskedFrame ==
    ASSUME Asked, UNCHANGED <<pc, result, got, woke>>, NoneSaved(wpa) => NoneSaved(wpa')
    PROVE  Asked'
  BY DEF Asked, OkIsThisNetwork

LEMMA AskedStep ==
    ASSUME Types, Devices, Heard, Asked, [Next]_vars, HeardWell
    PROVE  Asked'
  <1>0. mon \in Mons /\ wpa \in Wpas
    BY DEF Types
  <1>1. CASE UNCHANGED vars
    BY <1>1, AskedFrame DEF vars, hist
  <1>2. ASSUME pc' \in {"idle", "open"} PROVE Asked'
    BY <1>2 DEF Asked, OkIsThisNetwork
  <1>3. ASSUME wpa' = wpa, UNCHANGED <<pc, result, got, woke>> PROVE Asked'
    BY <1>3, AskedFrame
  <1>4. CASE Commands
    <2>1. pc' = "idle"
      BY <1>4 DEF Commands, StopAbsent, ScanOrRemove, StopWifiStation, ApConnect,
           StopWifiAp, StartModemOrEtherent, StopModemOrEtherent, Command
    <2> QED BY <1>2, <2>1
  <1>5. CASE ConnectBadFormat \/ ConnectFails \/ ConnectStarts
    BY <1>2, <1>5 DEF ConnectBadFormat, ConnectFails, ConnectStarts, ConnectBegins,
       Command
  <1>6. CASE MonitorNotOpen \/ DisableFails \/ ConnectEnds
    BY <1>2, <1>6 DEF MonitorNotOpen, DisableFails, ConnectEnds, Answer
  <1>7. CASE DisableAndJoin
    <2>1. PICK done \in BOOLEAN :
            wpa' = LET w == DisableAll(wpa, done)
                   IN [w EXCEPT !.sock = [i \in DOMAIN w.sock |->
                                            [w.sock[i] EXCEPT !.net = "queued"]]]
      BY <1>7 DEF DisableAndJoin
    <2> DEFINE d == DisableAll(wpa, done)
    <2>2. d \in Wpas /\ (d.net = "saved" => ~d.enabled /\ ~d.link)
      BY <1>0, DisableAllIs DEF Heard
    <2>3. /\ wpa' = [d EXCEPT !.sock = [i \in DOMAIN d.sock |->
                                          [d.sock[i] EXCEPT !.net = "queued"]]]
          /\ pc' = "join"
      BY <1>7, <2>1 DEF DisableAndJoin
    <2> HIDE DEF d
    <2>5. /\ wpa'.link = d.link /\ wpa'.enabled = d.enabled /\ wpa'.net = d.net
          /\ DOMAIN wpa'.sock = DOMAIN d.sock
          /\ \A i \in DOMAIN d.sock : wpa'.sock[i].net = "queued"
      BY <2>2, <2>3, DisabledIs
    <2>6. NoneSaved(wpa')
      BY <2>2, <2>5 DEF NoneSaved
    <2> QED BY <2>3, <2>6 DEF Asked, OkIsThisNetwork
  <1>8. CASE WaitForResult
    BY <1>8 DEF WaitForResult, hist, Asked, OkIsThisNetwork
  <1>9. CASE \E timedOut \in BOOLEAN : WaitEnds(timedOut)
    BY <1>9 DEF WaitEnds, GotResult, Asked, OkIsThisNetwork
  <1>10. CASE SpuriousWakeUp
    BY <1>10 DEF SpuriousWakeUp, Asked, OkIsThisNetwork
  <1>11. ASSUME NEW k \in Kinds, Report(k) PROVE Asked'
    <2> DEFINE u == [wpa EXCEPT !.link = k = "connected"]
    <2>1. /\ wpa' = Tell(u, k) /\ UNCHANGED <<pc, result, got, woke>>
          /\ k \in Connects => wpa.enabled
          /\ k = "connected" => wpa.enabled
      BY <1>11 DEF Report, hist, Connects
    <2>2. /\ u \in Wpas /\ u.sock = wpa.sock /\ u.link = (k = "connected")
          /\ u.enabled = wpa.enabled /\ u.net = wpa.net
      BY <1>0 DEF Wpas
    <2> HIDE DEF u
    <2>3. /\ wpa'.link = u.link /\ wpa'.enabled = u.enabled /\ wpa'.net = u.net
          /\ \/ wpa'.sock = u.sock
             \/ wpa'.sock = Append(u.sock, [kind |-> k, net |-> u.net])
      BY <2>1, <2>2, TellIs
    <2>4. ASSUME NoneSaved(wpa) PROVE NoneSaved(wpa')
      <3>1. k \in Connects => wpa.net # "saved"
        BY <2>1, <2>4 DEF NoneSaved
      <3>2. \A i \in DOMAIN wpa'.sock :
              wpa'.sock[i].kind \in Connects => wpa'.sock[i].net # "saved"
        <4>1. \/ wpa'.sock = wpa.sock
              \/ wpa'.sock = Append(wpa.sock, [kind |-> k, net |-> wpa.net])
          BY <2>2, <2>3
        <4> QED BY <1>0, <2>4, <3>1, <4>1, NoneSavedKept
      <3> QED BY <2>1, <2>2, <2>3, <2>4, <3>2 DEF NoneSaved
    <2> QED BY <2>1, <2>4, AskedFrame
  <1>12. CASE MonitorOpens
    BY <1>3, <1>12 DEF MonitorOpens
  <1>13. CASE MonitorEnds \/ MonitorAttachesAgain
    <2>1. wpa' = [wpa EXCEPT !.sock = <<>>] /\ UNCHANGED <<pc, result, got, woke>>
      BY <1>13 DEF MonitorEnds, MonitorAttachesAgain, hist
    <2>2. /\ wpa'.sock = <<>> /\ wpa'.link = wpa.link /\ wpa'.net = wpa.net
          /\ wpa'.enabled = wpa.enabled
      BY <1>0, <2>1, SockEmptied
    <2>3. NoneSaved(wpa) => NoneSaved(wpa')
      BY <2>2 DEF NoneSaved
    <2> QED BY <2>1, <2>3, AskedFrame
  <1>14. CASE HandleEvent
    <2> DEFINE e == Head(wpa.sock)
    <2>0. wpa.sock \in Seq(Events) /\ wpa.sock # <<>>
      BY <1>0, <1>14 DEF Wpas, HandleEvent
    <2>1. PICK r, f :
            /\ r = IF dev.state = "JOINING" THEN Outcome(e.kind, f) ELSE "none"
            /\ result' = IF r = "none" THEN result ELSE r
            /\ pc' = IF pc = "wait" /\ r # "none" THEN "signalled" ELSE pc
            /\ woke' = IF pc' = "signalled" /\ r # "none" THEN e.net ELSE woke
            /\ wpa' = [wpa EXCEPT !.sock = Tail(@)]
      BY <1>14 DEF HandleEvent
    <2>2. /\ wpa'.sock = Tail(wpa.sock) /\ wpa'.link = wpa.link /\ wpa'.net = wpa.net
          /\ wpa'.enabled = wpa.enabled /\ e \in Events
      BY <1>0, <2>0, <2>1, SockRead
    <2>3. e = wpa.sock[1] /\ 1 \in DOMAIN wpa.sock
      BY <2>0
    <2>4. ASSUME NoneSaved(wpa) PROVE NoneSaved(wpa')
      <3>1. \A i \in DOMAIN Tail(wpa.sock) :
              i + 1 \in DOMAIN wpa.sock /\ Tail(wpa.sock)[i] = wpa.sock[i + 1]
        BY <2>0
      <3> QED BY <2>2, <2>4, <3>1 DEF NoneSaved
    <2> HIDE DEF e
    <2>5. r = "OK" => e.kind \in Connects
      BY <2>1 DEF Outcome
    <2>6. NoneSaved(wpa) /\ r = "OK" => e.net \in {"asked", "queued", "kept"}
      BY <2>2, <2>3, <2>5 DEF NoneSaved, Events, Nets
    <2>7. got' = got
      BY <1>14 DEF HandleEvent
    <2>8. /\ pc' \in {"join", "wait", "signalled", "woken"} =>
               pc \in {"join", "wait", "signalled", "woken"}
          /\ pc' = "woken" => pc = "woken" /\ woke' = woke
          /\ pc' = "signalled" => pc \in {"wait", "signalled"}
          /\ pc' = "signalled" /\ r = "none" => /\ pc = "signalled" /\ result' = result
                                                /\ woke' = woke
          /\ pc' = "signalled" /\ r # "none" => result' = r /\ woke' = e.net
      BY <2>1
    <2>9. pc' = "signalled" /\ result' = "OK" => woke' \in {"asked", "queued", "kept", "spurious"}
      BY <2>6, <2>8 DEF Asked
    <2> QED BY <2>4, <2>7, <2>8, <2>9 DEF Asked, OkIsThisNetwork
  <1>15. CASE RoamReads
    BY <1>3, <1>15 DEF RoamReads, hist
  <1>16. CASE RoamWrites
    BY <1>3, <1>16 DEF RoamWrites
  <1>17. CASE \E n \in timer.armed : Expire(n)
    BY <1>3, <1>17 DEF Expire, hist
  <1>18. CASE ModemExpires
    BY <1>3, <1>18 DEF ModemExpires, hist
  <1>19. CASE ApTimeout
    BY <1>2, <1>19 DEF ApTimeout
  <1>20. CASE \E k \in ticks : ApTimeoutBegins(k.n)
    BY <1>3, <1>20 DEF ApTimeoutBegins, hist
  <1>21. CASE \E again \in BOOLEAN : ModemMonitor(again)
    BY <1>3, <1>21 DEF ModemMonitor, hist
  <1>22. CASE ModemRestarts
    BY <1>3, <1>22 DEF ModemRestarts
  <1>23. CASE Join
    <2>1. UNCHANGED <<pc, result, got, woke>>
      BY <1>23 DEF Join, hist
    <2>2. CASE pc \in {"idle", "open"}
      BY <1>2, <2>1, <2>2
    <2>3. CASE wpa' = wpa
      BY <1>3, <2>1, <2>3
    <2>4. CASE pc \notin {"idle", "open"} /\ wpa' # wpa
      <3> DEFINE d == Drop(wpa)
      <3>1. /\ d \in Wpas /\ d.net = wpa.net
            /\ \/ d.sock = wpa.sock
               \/ d.sock = Append(wpa.sock, [kind |-> "disconnected", net |-> wpa.net])
        BY <1>0, DropIs
      <3>2. wpa' = [d EXCEPT !.enabled = TRUE, !.net = "asked"]
        BY <1>23, <2>4 DEF Join
      <3> HIDE DEF d
      <3>3. wpa'.sock = d.sock /\ wpa'.net = "asked"
        BY <3>1, <3>2 DEF Wpas
      <3>4. NoneSaved(wpa) => NoneSaved(wpa')
        <4>1. "disconnected" \in Kinds \ Connects
          BY DEF Kinds, Connects
        <4>2. ASSUME NoneSaved(wpa)
              PROVE  \A i \in DOMAIN d.sock :
                       d.sock[i].kind \in Connects => d.sock[i].net # "saved"
          BY <1>0, <3>1, <4>1, <4>2, NoneSavedKept
        <4> QED BY <3>3, <4>2 DEF NoneSaved
      <3> QED BY <2>1, <3>4, AskedFrame
    <2> QED BY <2>2, <2>3, <2>4
  <1> QED BY <1>1, <1>4, <1>5, <1>6, <1>7, <1>8, <1>9, <1>10, <1>11, <1>12, <1>13,
             <1>14,
             <1>15, <1>16, <1>17, <1>18, <1>19, <1>20, <1>21, <1>22, <1>23
          DEF Next, Connect, ConnectGoesOn, Listening, Looping, Tasks

-----------------------------------------------------------------------------
(* The invariant, and the theorems.                                        *)

LEMMA InitInv == Init => IInv
  <1> SUFFICES ASSUME Init PROVE IInv
    OBVIOUS
  <1>1. PICK want \in InitModes, configured \in BOOLEAN :
      LET wired == want \cap {"MODEM", "ETHERENT"} \cap Capacity
          wifi == want \cap {"WIFI", "WIFI_AP"} \cap Capacity
          station == wifi = {"WIFI"} \/ (wifi # {"WIFI_AP"} /\ configured
                                         /\ "WIFI" \in Capacity)
          on == wired \cup (IF wifi = {"WIFI_AP"} THEN wifi ELSE {})
          runs == on \cup (IF station THEN {"WIFI"} ELSE {})
      IN /\ dev = [mode |-> on, hal |-> runs, up |-> runs, state |-> "UNCONNECTED",
                   modem |-> "MODEM" \in wired]
         /\ mon = [flag |-> station, open |-> FALSE, failed |-> 0, roam |-> "none",
                   thread |-> IF station THEN "starting" ELSE "none",
                   status |-> IF station /\ wifi # {"WIFI"} THEN "CONNECTED"
                              ELSE "DISCONNECTED"]
         /\ wpa = [runs |-> station, link |-> FALSE, enabled |-> station, net |-> "saved",
               sock |-> <<>>]
         /\ timer = [ptr |-> 0, flag |-> FALSE, alive |-> {}, armed |-> {}, lost |-> {}]
         /\ pc = "idle" /\ result = "OK" /\ got = "NOK" /\ ticks = {} /\ loop = Idle
         /\ fault = "none"
         /\ count = [inputs |-> 0, trouble |-> 0]
         /\ ap = NoAp /\ raced = {} /\ left = {} /\ failed = {}
         /\ modemRaced = FALSE /\ blind = FALSE /\ woke = "nothing"
    BY DEF Init
  <1>2. /\ timer = [ptr |-> 0, flag |-> FALSE, alive |-> {}, armed |-> {}, lost |-> {}]
        /\ pc = "idle" /\ result = "OK" /\ got = "NOK" /\ ticks = {} /\ loop = Idle
        /\ fault = "none"
        /\ ap = NoAp /\ raced = {} /\ left = {} /\ failed = {}
        /\ modemRaced = FALSE /\ blind = FALSE /\ woke = "nothing"
    BY DEF Init
  <1> DEFINE wired == want \cap {"MODEM", "ETHERENT"} \cap Capacity
             wifi == want \cap {"WIFI", "WIFI_AP"} \cap Capacity
             station == wifi = {"WIFI"} \/ (wifi # {"WIFI_AP"} /\ configured
                                            /\ "WIFI" \in Capacity)
             on == wired \cup (IF wifi = {"WIFI_AP"} THEN wifi ELSE {})
             runs == on \cup (IF station THEN {"WIFI"} ELSE {})
  <1>3. /\ wired \subseteq Wired \cap Capacity /\ station \in BOOLEAN
        /\ on \subseteq Modes /\ runs \subseteq Modes
        /\ on \cap Wired = wired /\ runs \cap Wired = wired
        /\ "WIFI" \notin on /\ ("WIFI_AP" \in on => ~station)
        /\ station <=> "WIFI" \in runs
        /\ \A m \in runs : m \in on \/ m = "WIFI"
        /\ on \subseteq runs
    BY DEF Wired, Modes
  <1>4. /\ dev = [mode |-> on, hal |-> runs, up |-> runs, state |-> "UNCONNECTED",
                  modem |-> "MODEM" \in wired]
        /\ mon.flag = station /\ (mon.thread # "none" => station) /\ mon.thread # "open"
        /\ mon \in Mons
        /\ wpa = [runs |-> station, link |-> FALSE, enabled |-> station, net |-> "saved",
               sock |-> <<>>]
    <2>1. /\ dev = [mode |-> on, hal |-> runs, up |-> runs, state |-> "UNCONNECTED",
                    modem |-> "MODEM" \in wired]
          /\ wpa = [runs |-> station, link |-> FALSE, enabled |-> station, net |-> "saved",
               sock |-> <<>>]
      BY <1>1
    <2>2. PICK st \in Statuses :
            mon = [flag |-> station, open |-> FALSE, failed |-> 0, roam |-> "none",
                   thread |-> IF station THEN "starting" ELSE "none", status |-> st]
      BY <1>1 DEF Statuses
    <2> HIDE DEF wired, wifi, station, on, runs
    <2>3. CASE station
      BY <1>3, <2>1, <2>2, <2>3 DEF Mons
    <2>4. CASE ~station
      BY <1>3, <2>1, <2>2, <2>4 DEF Mons
    <2> QED BY <2>3, <2>4
  <1> HIDE DEF wired, wifi, station, on, runs
  <1>5. wpa \in Wpas /\ wpa.sock = <<>>
    <2>1. PICK q : q = <<>>
      OBVIOUS
    <2>2. q \in Seq(Events)
      BY <2>1
    <2>3. wpa = [runs |-> station, link |-> FALSE, enabled |-> station, net |-> "saved",
               sock |-> q]
      BY <1>4, <2>1
    <2> QED BY <1>3, <2>1, <2>2, <2>3 DEF Wpas, Nets
  <1>6. Idle \in Ticks /\ Idle.cb = "none"
    BY DEF Idle, Tick, Ticks
  <1>7. Types
    BY <1>2, <1>4, <1>5, <1>6 DEF Types
  <1>8. /\ dev \in Devs /\ dev.mode = on /\ dev.hal = runs /\ dev.up = runs
        /\ dev.modem = ("MODEM" \in wired)
    BY <1>3, <1>4 DEF Devs, States
  <1>9. Coherent(dev, {})
    BY <1>3, <1>8 DEF Coherent, Wired
  <1>10. Devices
    BY <1>2, <1>3, <1>4, <1>6, <1>8, <1>9 DEF Devices, Wired
  <1>11. Accounted
    <2>1. OneTimer(timer) /\ timer.alive = {}
      BY <1>2 DEF OneTimer, Timers
    <2> QED BY <1>2, <1>6, <2>1 DEF Accounted
  <1>12. Asked
    BY <1>2 DEF Asked, OkIsThisNetwork
  <1>13. Heard
    BY <1>4, <1>5 DEF Heard, HeardIn
  <1> QED BY <1>7, <1>10, <1>11, <1>12, <1>13 DEF IInv

LEMMA StepInv == IInv /\ [Next]_vars => IInv'
  <1> SUFFICES ASSUME IInv, [Next]_vars PROVE IInv'
    OBVIOUS
  <1>0. Types /\ Devices /\ Accounted /\ Asked /\ Heard
    BY DEF IInv
  <1>1. Devices' /\ (NoNewAp \/ ApConnect)
    BY <1>0, DevicesStep
  <1>2. HeardWell
    BY <1>0, <1>1, HeardStep
  <1>3. Types'
    <2>1. Rest'
      BY <1>0, <1>2, RestStep
    <2> QED BY <1>2, <2>1 DEF Types, Rest, HeardWell
  <1>4. Accounted'
    <2>1. CASE UNCHANGED vars
      BY <1>0, <2>1 DEF vars, hist, Accounted, OneTimer
    <2>2. CASE Next
      <3>1. fault = "none"
        BY <2>2 DEF Next
      <3>2. ASSUME ~Commands PROVE NoNewAp
        BY <1>1, <3>2 DEF Commands
      <3>3. CASE Commands
        BY <1>0, <1>1, <3>1, <3>3, CommandsTimers
      <3>4. CASE ~Commands
        BY <1>0, <2>2, <3>1, <3>2, <3>4, ConnectTimers, ListeningTimers, LoopingTimers
           DEF Next
      <3> QED BY <3>3, <3>4
    <2> QED BY <2>1, <2>2
  <1>5. Asked'
    BY <1>0, <1>2, AskedStep
  <1> QED BY <1>1, <1>2, <1>3, <1>4, <1>5 DEF IInv, HeardWell

LEMMA InvHolds == Spec => []IInv
  BY InitInv, StepInv, PTL DEF Spec

\* Type correctness of the network manager's state.
THEOREM NetManagerTypes == Spec => []TypeOK
  <1>1. IInv => TypeOK
    BY DEF IInv, Types, Devices, Coherent, Accounted, OneTimer, TypeOK, Devs, Mons
  <1> QED BY <1>1, InvHolds, PTL

\* Between commands GET_MODE's answer is what runs, whatever the capacity of the
\* board and however the modem's monitor, the access point's timeout and failing
\* drivers come between the commands.
THEOREM ModeIsWhatRuns == Spec => []ModeMatchesDevices
  <1>1. ASSUME IInv PROVE ModeMatchesDevices
    <2>0. Devices /\ Coherent(dev, failed)
      BY <1>1 DEF IInv, Devices
    <2>1. ASSUME NEW m \in dev.mode
          PROVE  \/ m \in dev.up \/ m \in failed
                 \/ m = "WIFI" /\ "WIFI_AP" \in failed
                 \/ m = "MODEM" /\ loop.cb = "modem"
      BY <2>0 DEF Devices, Coherent
    <2>2. ASSUME NEW m \in dev.up \ {"WIFI"}
          PROVE  m \in dev.mode \/ m \in failed \/ (m = "MODEM" /\ modemRaced)
      BY <2>0 DEF Devices, Coherent
    <2>3. "WIFI_AP" \in dev.mode => "WIFI" \notin dev.hal
      BY <2>0 DEF Coherent
    <2> QED BY <2>1, <2>2, <2>3 DEF ModeMatchesDevices
  <1> QED BY <1>1, InvHolds, PTL

\* g_ap_timeout_flag says whether wifi_ap_timeout is a timer; one is deleted twice
\* only by a timeout that was under way when a command deleted its timer.
THEOREM TimersAreAccounted == Spec => []TimerAccounted
  <1>1. IInv => TimerAccounted
    BY DEF IInv, Types, Devices, Coherent, Accounted, OneTimer, TypeOK, Devs, Mons,
       TimerAccounted
  <1> QED BY <1>1, InvHolds, PTL

\* The timeout closes the access point it was set for, with the exceptions named.
THEOREM TimeoutsHitTheirOwn == Spec => TimeoutHitsItsOwn
  <1>1. IInv /\ [Next]_vars =>
          [loop.cb = "ap" /\ loop' = Idle /\ "WIFI_AP" \in dev.mode
           => loop.n \in {ap.own} \cup raced \cup left]_vars
    BY DEF IInv, Accounted
  <1> QED BY <1>1, InvHolds, PTL DEF Spec, TimeoutHitsItsOwn

\* WIFI CONNECT answers OK only because of the network it asked for, an event that
\* was queued before it asked, a network that a lost request did not disable, or a
\* spurious wake-up.
THEOREM OkIsForThisNetwork == Spec => []OkIsThisNetwork
  <1>1. IInv => OkIsThisNetwork
    BY DEF IInv, Asked
  <1> QED BY <1>1, InvHolds, PTL

\* With every event read, the status reported is that of wpa_supplicant's link,
\* unless something other than an event wrote it last, or an event was reported to
\* no socket or to one that an error made the event thread replace.
THEOREM StatusIsTrue == Spec => []StatusTrue
  <1>1. IInv => StatusTrue
    BY DEF IInv, Heard, HeardIn, Silent, StatusTrue
  <1> QED BY <1>1, InvHolds, PTL
=============================================================================
