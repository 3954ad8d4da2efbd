-------------------------- MODULE PropServiceProof --------------------------
(***************************************************************************)
(* Proofs about the property service, for any names, values, files, calls  *)
(* and number of boots.                                                    *)
(*                                                                         *)
(* What is on disk, what is in memory and what is being set are tied       *)
(* together at every step of property_set_impl (Shape, Whole, Phase,       *)
(* Agree, Reload); the properties say what that means between requests and *)
(* at a power failure.                                                     *)
(***************************************************************************)
EXTENDS PropService, TLAPS

InSet == {"set", "netchange", "mkstemp", "write", "fsync", "rename", "changed"}
Saving == {"mkstemp", "write", "fsync", "rename"}

\* Which set is in progress, and for whom.
Shape ==
    /\ boots \in Nat
    /\ bootleft \in Seq((Names \cup IllegalNames) \X Values)
    /\ creq \in [Calls -> Requests \cup {NoRequest}]
    /\ job \in [name : Names \cup IllegalNames \cup {Absent},
                value : Values \cup {Absent, Torn},
                then : {"boot", "load", "close", "idle"}]
    /\ spc \in InSet => job.then # "idle"
    /\ spc \notin InSet => job = NoJob
    /\ (spc \in InSet /\ job.then = "close") \/ spc \in {"poll", "close"}
         => serving \in Calls
    /\ spc \in Saving => job.name \in PersistNames
    /\ spc = "netchange" => job.name \in NetNames
    /\ spc = "changed" => job.name \in Names

\* A value that is not whole came from a write, or an fsync, that failed.
Whole ==
    /\ \A n \in PersistNames : disk[n] = Torn \/ older[n] = Torn => n \in short
    /\ job.value = Torn => job.name \in short
    /\ spc \in {"fsync", "rename"} => temp.value \in {job.value, Torn}
    /\ temp.value = Torn => job.name \in short
    /\ spc \notin {"fsync", "rename"} => temp = NoTemp
    /\ spc = "rename" => temp.synced \/ job.name \in short

\* The defaults come first and are not saved, then each file is read and
\* saved as it is.
Booting == "boot" \in {spc, job.then}

Phase ==
    /\ IF Booting THEN ~loaded ELSE loaded
    /\ spc \in Saving => loaded
    /\ toread # {} => "load" \in {spc, job.then}
    /\ \A n \in toread : disk[n] # Absent
    /\ job.then = "load" =>
         /\ job.name \in PersistNames \ toread
         /\ spc # "changed" => job.value = disk[job.name]

IsDefault(n, v) == \E i \in DOMAIN BootSets : BootSets[i] = <<n, v>>

\* Memory and disk agree, but for the property that is being saved and for
\* the files that are not loaded yet, or were passed over.
Unloaded(n) ==
    \/ Booting \/ n \in toread
    \/ job.then = "load" /\ spc = "set" /\ job.name = n
    \/ n \in skipped

Agree ==
    /\ \A i \in DOMAIN bootleft : IsDefault(bootleft[i][1], bootleft[i][2])
    /\ job.then = "boot" /\ job.name \in PersistNames => IsDefault(job.name, job.value)
    /\ spc \in Saving => mem[job.name] = job.value
    /\ \A n \in PersistNames \ behind : Exists(n) =>
         \/ mem[n] = disk[n]
         \/ (disk[n] = Absent \/ Unloaded(n)) /\ IsDefault(n, mem[n])
         \/ spc \in Saving /\ n = job.name

\* A reload request that has not been answered is being answered.
Reload ==
    mem[UbootReload] = Zero =>
        /\ job.name = UbootReload
        /\ \/ spc = "changed" /\ job.value = Zero
           \/ spc = "set" /\ job.value = One

IInv == TypeOK /\ Shape /\ Whole /\ Phase /\ Agree /\ Reload

LEMMA TempType ==
    ASSUME NEW v \in Values \cup {Absent, Torn}, NEW b \in BOOLEAN
    PROVE  [value |-> v, synced |-> b]
             \in [value : Values \cup {Absent, Torn}, synced : BOOLEAN]
  BY Zenon

LEMMA IInvInit == Init => IInv
  <1> USE ServiceAssumption DEF ServiceAssumption, Init, InSet, Saving, NoJob, NoTemp,
                                NoRequest, NoCall
  <1>1. Init => TypeOK
    <2>1. Init => temp \in [value : Values \cup {Absent, Torn}, synced : BOOLEAN]
      BY TempType
    <2>2. Init => backlog \in Seq(Calls) /\ Len(backlog) <= Backlog
      OBVIOUS
    <2>3. Init => loaded \in BOOLEAN
      OBVIOUS
    <2>4. Init => /\ mem \in [Names -> Values \cup NetNames \cup {Absent, Torn}]
                  /\ disk \in [PersistNames -> Values \cup {Absent, Torn}]
                  /\ older \in [PersistNames -> Values \cup {Absent, Torn}]
      OBVIOUS
    <2>5. Init => cpc \in [Calls -> {"idle", "connected", "sent", "acked", "timedout", "broken",
                               "dead"}]
      OBVIOUS
    <2> QED BY <2>1, <2>2, <2>3, <2>4, <2>5 DEF TypeOK
  <1>2. Init => Shape /\ Whole /\ Phase
    BY DEF Shape, Whole, Phase, Booting
  <1>3. Init => Agree
    <2>1. Init => \A i \in DOMAIN bootleft : bootleft[i] = <<bootleft[i][1], bootleft[i][2]>>
      OBVIOUS
    <2> QED BY <2>1 DEF Agree, IsDefault, Exists, Names
  <1>4. Init => Reload
    BY DEF Reload, Names
  <1> QED BY <1>1, <1>2, <1>3, <1>4 DEF IInv

LEMMA TypeStep == IInv /\ [Next]_vars => TypeOK'
  <1> SUFFICES ASSUME IInv, [Next]_vars PROVE TypeOK'
    OBVIOUS
  <1> USE ServiceAssumption DEF ServiceAssumption, IInv, service, clients, files,
          history, InSet, Saving, NoCall, NoJob, NoTemp, NoRequest, TypeOK, Shape,
          Requests, Names
  <1>1. CASE SetRefused
    BY <1>1 DEF SetRefused, Finish
  <1>2. CASE SetMemory
    BY <1>2 DEF SetMemory, Finish, Refused
  <1>3. CASE SetNetChange
    BY <1>3 DEF SetNetChange
  <1>4. CASE Mkstemp
    BY <1>4 DEF Mkstemp
  <1>5. CASE WriteTemp
    <2>1. temp' \in [value : Values \cup {Absent, Torn}, synced : BOOLEAN]
      BY <1>5, TempType DEF WriteTemp
    <2>2. short' \subseteq PersistNames
      BY <1>5 DEF WriteTemp
    <2> QED BY <1>5, <2>1, <2>2 DEF WriteTemp
  <1>6. CASE FsyncTemp
    <2>3. temp' \in {temp, [temp EXCEPT !.synced = TRUE]}
      BY <1>6 DEF FsyncTemp
    <2>4. temp \in [value : Values \cup {Absent, Torn}, synced : BOOLEAN]
      OBVIOUS
    <2>5. [temp EXCEPT !.synced = TRUE] \in [value : Values \cup {Absent, Torn}, synced : BOOLEAN]
      BY <2>4
    <2>1. temp' \in [value : Values \cup {Absent, Torn}, synced : BOOLEAN]
      BY <2>3, <2>4, <2>5
    <2>2. short' \subseteq PersistNames
      BY <1>6 DEF FsyncTemp
    <2> QED BY <1>6, <2>1, <2>2 DEF FsyncTemp
  <1>7. CASE RenameTemp
    <2>1. temp.value \in Values \cup {Absent, Torn}
      OBVIOUS
    <2>6. disk' = disk \/ disk' = [disk EXCEPT ![job.name] = temp.value]
      BY <1>7 DEF RenameTemp
    <2>2. disk' \in [PersistNames -> Values \cup {Absent, Torn}]
      BY <2>1, <2>6
    <2>4. older' \in [PersistNames -> Values \cup {Absent, Torn}]
      BY <1>7 DEF RenameTemp
    <2>5. temp' \in [value : Values \cup {Absent, Torn}, synced : BOOLEAN]
      BY <1>7, TempType DEF RenameTemp
    <2>3. behind' \subseteq PersistNames
      BY <1>7 DEF RenameTemp
    <2> QED BY <1>7, <2>2, <2>3, <2>4, <2>5 DEF RenameTemp
  <1>8. CASE Changed
    BY <1>8 DEF Changed, Begin, Job, Finish
  <1>9. CASE BootSet
    BY <1>9 DEF BootSet, Begin, Job
  <1>10. CASE LoadPersistent
    BY <1>10 DEF LoadPersistent
  <1>11. ASSUME NEW n \in toread, LoadFile(n) PROVE TypeOK'
    BY <1>11 DEF LoadFile, Begin, Job
  <1>12. CASE StartService
    BY <1>12 DEF StartService
  <1>13. CASE Accept
    BY <1>13 DEF Accept
  <1>14. CASE Receive
    BY <1>14 DEF Receive, Begin, Job
  <1>15. CASE GiveUp
    BY <1>15 DEF GiveUp
  <1>16. CASE CloseSocket
    BY <1>16 DEF CloseSocket
  <1>17. ASSUME NEW c \in Calls, Client(c) PROVE TypeOK'
    <2>1. ASSUME NEW req \in Requests, Connect(c, req) PROVE TypeOK'
      <3>1. CASE Listening
        <4>1. backlog' = Append(backlog, c) /\ Len(backlog) < Backlog
          BY <2>1, <3>1 DEF Connect
        <4>2. Len(backlog') = Len(backlog) + 1 /\ backlog' \in Seq(Calls)
          BY <4>1
        <4>3. cpc' = [cpc EXCEPT ![c] = "connected"]
          BY <2>1, <3>1 DEF Connect
        <4>4. cpc' \in [Calls -> {"idle", "connected", "sent", "acked", "timedout", "broken",
                               "dead"}]
          BY <4>3
        <4>5. UNCHANGED <<mem, loaded, files, service, boots, history>>
          BY <2>1 DEF Connect
        <4>6. Len(backlog') <= Backlog
          BY <4>1, <4>2
        <4> QED BY <4>2, <4>4, <4>5, <4>6
      <3>2. CASE ~Listening
        <4>1. cpc' = [cpc EXCEPT ![c] = "broken"] /\ UNCHANGED <<backlog, creq>>
          BY <2>1, <3>2 DEF Connect
        <4>2. cpc' \in [Calls -> {"idle", "connected", "sent", "acked", "timedout", "broken",
                               "dead"}]
          BY <4>1
        <4> QED BY <2>1, <4>1, <4>2 DEF Connect
      <3> QED BY <3>1, <3>2
    <2>2. CASE Send(c) \/ Timeout(c) \/ Die(c)
      <3>1. cpc' \in [Calls -> {"idle", "connected", "sent", "acked", "timedout", "broken",
                               "dead"}]
        BY <2>2 DEF Send, Timeout, Die
      <3> QED BY <2>2, <3>1 DEF Send, Timeout, Die
    <2> QED BY <1>17, <2>1, <2>2 DEF Client
  <1>18. ASSUME NEW n \in PersistNames, WriteBack(n) PROVE TypeOK'
    BY <1>18 DEF WriteBack
  <1>19. CASE PowerFailure
    <2>1. /\ disk' \in [PersistNames -> Values \cup {Absent, Torn}]
          /\ older' \in [PersistNames -> Values \cup {Absent, Torn}]
      BY <1>19 DEF PowerFailure
    <2>2. cpc' \in [Calls -> {"idle", "connected", "sent", "acked", "timedout", "broken",
                             "dead"}]
      BY <1>19 DEF PowerFailure
    <2>3. temp' \in [value : Values \cup {Absent, Torn}, synced : BOOLEAN]
      BY <1>19, TempType DEF PowerFailure
    <2>4. backlog' \in Seq(Calls) /\ Len(backlog') <= Backlog
      BY <1>19 DEF PowerFailure
    <2> QED BY <1>19, <2>1, <2>2, <2>3, <2>4 DEF PowerFailure
  <1>20. CASE UNCHANGED vars
    BY <1>20 DEF vars
  <1> QED BY <1>1, <1>2, <1>3, <1>4, <1>5, <1>6, <1>7, <1>8, <1>9, <1>10, <1>11, <1>12,
             <1>13, <1>14, <1>15, <1>16, <1>17, <1>18, <1>19, <1>20
       DEF Next, Service, PropertySet, Serve

LEMMA ShapeStep == IInv /\ [Next]_vars => Shape'
  <1> SUFFICES ASSUME IInv, [Next]_vars PROVE Shape'
    OBVIOUS
  <1> USE ServiceAssumption DEF ServiceAssumption, IInv, service, clients, files,
          history, InSet, Saving, NoCall, NoJob, NoTemp, NoRequest, TypeOK, Shape,
          Requests, Names, Refused
  <1>1. CASE SetRefused
    BY <1>1 DEF SetRefused, Finish
  <1>2. CASE SetMemory
    BY <1>2 DEF SetMemory, Finish
  <1>3. CASE SetNetChange
    BY <1>3 DEF SetNetChange
  <1>4. CASE Mkstemp
    BY <1>4 DEF Mkstemp
  <1>5. CASE WriteTemp
    BY <1>5 DEF WriteTemp
  <1>6. CASE FsyncTemp
    BY <1>6 DEF FsyncTemp
  <1>7. CASE RenameTemp
    BY <1>7 DEF RenameTemp
  <1>8. CASE Changed
    BY <1>8 DEF Changed, Begin, Job, Finish
  <1>9. CASE BootSet
    BY <1>9 DEF BootSet, Begin, Job
  <1>10. CASE LoadPersistent
    BY <1>10 DEF LoadPersistent
  <1>11. ASSUME NEW n \in toread, LoadFile(n) PROVE Shape'
    BY <1>11 DEF LoadFile, Begin, Job
  <1>12. CASE StartService
    BY <1>12 DEF StartService
  <1>13. CASE Accept
    BY <1>13 DEF Accept
  <1>14. CASE Receive
    BY <1>14 DEF Receive, Begin, Job
  <1>15. CASE GiveUp
    BY <1>15 DEF GiveUp
  <1>16. CASE CloseSocket
    BY <1>16 DEF CloseSocket
  <1>17. ASSUME NEW c \in Calls, Client(c) PROVE Shape'
    <2>1. ASSUME NEW req \in Requests, Connect(c, req) PROVE Shape'
      <3>1. creq' \in [Calls -> Requests \cup {NoRequest}]
        <4>1. CASE Listening
          <5>1. creq' = [creq EXCEPT ![c] = req]
            BY <2>1, <4>1 DEF Connect
          <5> QED BY <2>1, <5>1
        <4>2. CASE ~Listening
          BY <2>1, <4>2 DEF Connect
        <4> QED BY <4>1, <4>2
      <3> QED BY <2>1, <3>1 DEF Connect
    <2>2. CASE Send(c) \/ Timeout(c) \/ Die(c)
      BY <2>2 DEF Send, Timeout, Die
    <2> QED BY <1>17, <2>1, <2>2 DEF Client
  <1>18. ASSUME NEW n \in PersistNames, WriteBack(n) PROVE Shape'
    BY <1>18 DEF WriteBack
  <1>19. CASE PowerFailure
    BY <1>19 DEF PowerFailure
  <1>20. CASE UNCHANGED vars
    BY <1>20 DEF vars
  <1> QED BY <1>1, <1>2, <1>3, <1>4, <1>5, <1>6, <1>7, <1>8, <1>9, <1>10, <1>11, <1>12,
             <1>13, <1>14, <1>15, <1>16, <1>17, <1>18, <1>19, <1>20
       DEF Next, Service, PropertySet, Serve

LEMMA WholeStep == IInv /\ [Next]_vars => Whole'
  <1> SUFFICES ASSUME IInv, [Next]_vars PROVE Whole'
    OBVIOUS
  <1> USE ServiceAssumption DEF ServiceAssumption, IInv, service, clients, files,
          history, InSet, Saving, NoCall, NoJob, NoTemp, NoRequest, TypeOK, Shape, Whole
  <1>1. CASE SetRefused
    BY <1>1 DEF SetRefused, Finish
  <1>2. CASE SetMemory
    BY <1>2 DEF SetMemory, Finish
  <1>3. CASE SetNetChange
    BY <1>3 DEF SetNetChange
  <1>4. CASE Mkstemp
    BY <1>4 DEF Mkstemp
  <1>5. CASE WriteTemp
    BY <1>5 DEF WriteTemp
  <1>6. CASE FsyncTemp
    BY <1>6 DEF FsyncTemp
  <1>7. CASE RenameTemp
    BY <1>7 DEF RenameTemp
  <1>8. CASE Changed
    BY <1>8 DEF Changed, Begin, Job, Finish
  <1>9. CASE BootSet
    BY <1>9 DEF BootSet, Begin, Job
  <1>10. CASE LoadPersistent
    BY <1>10 DEF LoadPersistent
  <1>11. ASSUME NEW n \in toread, LoadFile(n) PROVE Whole'
    BY <1>11 DEF LoadFile, Begin, Job
  <1>12. CASE StartService
    BY <1>12 DEF StartService
  <1>13. CASE Accept
    BY <1>13 DEF Accept
  <1>14. CASE Receive
    <2>1. creq[serving][1] \in Names => creq[serving][2] \in Values
      BY <1>14 DEF Receive, Requests, Names
    <2> QED BY <1>14, <2>1 DEF Receive, Begin, Job
  <1>15. CASE GiveUp
    BY <1>15 DEF GiveUp
  <1>16. CASE CloseSocket
    BY <1>16 DEF CloseSocket
  <1>17. ASSUME NEW c \in Calls, Client(c) PROVE Whole'
    BY <1>17 DEF Client, Connect, Send, Timeout, Die
  <1>18. ASSUME NEW n \in PersistNames, WriteBack(n) PROVE Whole'
    BY <1>18 DEF WriteBack
  <1>19. CASE PowerFailure
    BY <1>19 DEF PowerFailure
  <1>20. CASE UNCHANGED vars
    BY <1>20 DEF vars
  <1> QED BY <1>1, <1>2, <1>3, <1>4, <1>5, <1>6, <1>7, <1>8, <1>9, <1>10, <1>11, <1>12,
             <1>13, <1>14, <1>15, <1>16, <1>17, <1>18, <1>19, <1>20
       DEF Next, Service, PropertySet, Serve

LEMMA PhaseStep == IInv /\ [Next]_vars => Phase'
  <1> SUFFICES ASSUME IInv, [Next]_vars PROVE Phase'
    OBVIOUS
  <1> USE ServiceAssumption DEF ServiceAssumption, IInv, service, clients, files,
          history, InSet, Saving, NoCall, NoJob, NoTemp, NoRequest, TypeOK, Shape,
          Whole, Phase, Booting, Names, Requests
  <1>1. CASE SetRefused
    BY <1>1 DEF SetRefused, Finish
  <1>2. CASE SetMemory
    BY <1>2 DEF SetMemory, Finish
  <1>3. CASE SetNetChange
    BY <1>3 DEF SetNetChange
  <1>4. CASE Mkstemp
    BY <1>4 DEF Mkstemp
  <1>5. CASE WriteTemp
    BY <1>5 DEF WriteTemp
  <1>6. CASE FsyncTemp
    BY <1>6 DEF FsyncTemp
  <1>7. CASE RenameTemp
    BY <1>7 DEF RenameTemp
  <1>8. CASE Changed
    BY <1>8 DEF Changed, Begin, Job, Finish
  <1>9. CASE BootSet
    BY <1>9 DEF BootSet, Begin, Job
  <1>10. CASE LoadPersistent
    BY <1>10 DEF LoadPersistent
  <1>11. ASSUME NEW n \in toread, LoadFile(n) PROVE Phase'
    BY <1>11 DEF LoadFile, Begin, Job
  <1>12. CASE StartService
    BY <1>12 DEF StartService
  <1>13. CASE Accept
    BY <1>13 DEF Accept
  <1>14. CASE Receive
    BY <1>14 DEF Receive, Begin, Job
  <1>15. CASE GiveUp
    BY <1>15 DEF GiveUp
  <1>16. CASE CloseSocket
    BY <1>16 DEF CloseSocket
  <1>17. ASSUME NEW c \in Calls, Client(c) PROVE Phase'
    BY <1>17 DEF Client, Connect, Send, Timeout, Die
  <1>18. ASSUME NEW n \in PersistNames, WriteBack(n) PROVE Phase'
    BY <1>18 DEF WriteBack
  <1>19. CASE PowerFailure
    BY <1>19 DEF PowerFailure
  <1>20. CASE UNCHANGED vars
    BY <1>20 DEF vars
  <1> QED BY <1>1, <1>2, <1>3, <1>4, <1>5, <1>6, <1>7, <1>8, <1>9, <1>10, <1>11, <1>12,
             <1>13, <1>14, <1>15, <1>16, <1>17, <1>18, <1>19, <1>20
       DEF Next, Service, PropertySet, Serve

LEMMA AgreeStep == IInv /\ [Next]_vars => Agree'
  <1> SUFFICES ASSUME IInv, [Next]_vars PROVE Agree'
    OBVIOUS
  <1> USE ServiceAssumption DEF ServiceAssumption, IInv, service, clients, files,
          history, InSet, Saving, NoCall, NoJob, NoTemp, NoRequest, TypeOK, Shape,
          Whole, Phase, Booting, Agree, Unloaded, IsDefault, Exists, Refused, Names,
          Requests
  <1>1. CASE SetRefused
    BY <1>1 DEF SetRefused, Finish
  <1>2. CASE SetMemory
    <2> DEFINE n == job.name
    <2>1. n \in Names /\ mem' = [mem EXCEPT ![n] = job.value]
      BY <1>2 DEF SetMemory
    <2>2. UNCHANGED <<disk, behind, toread, bootleft, loaded>>
      BY <1>2 DEF SetMemory
    <2>3. CASE n \in PersistNames /\ loaded
      <3>1. spc' = "mkstemp" /\ job' = job
        BY <1>2, <2>3 DEF SetMemory
      <3>2. job.then \notin {"boot", "idle"}
        BY <1>2, <2>3 DEF SetMemory
      <3>3. \A m \in PersistNames : m # n => mem'[m] = mem[m]
        BY <2>1
      <3>4. mem'[n] = job.value /\ skipped' = skipped \ {n}
        BY <1>2, <2>1 DEF SetMemory
      <3>5. spc = "set"
        BY <1>2 DEF SetMemory
      <3>6. \A m \in PersistNames \ behind' : Exists(m)' =>
              \/ mem'[m] = disk'[m]
              \/ (disk'[m] = Absent \/ Unloaded(m)') /\ IsDefault(m, mem'[m])
              \/ spc' \in Saving /\ m = job'.name
        BY <2>2, <3>1, <3>2, <3>3, <3>5, <3>4
      <3> QED BY <2>2, <3>1, <3>2, <3>4, <3>6
    <2>4. CASE n \in PersistNames /\ ~loaded
      <3>1. spc' = "changed" /\ job' = job
        BY <1>2, <2>4 DEF SetMemory
      <3>2. job.then = "boot"
        BY <1>2, <2>4 DEF SetMemory
      <3>3. IsDefault(n, mem'[n])
        BY <2>1, <2>4, <3>2
      <3> QED BY <1>2, <2>1, <2>2, <2>4, <3>1, <3>2, <3>3
    <2>5. CASE n \notin PersistNames
      <3>1. \A m \in PersistNames : mem'[m] = mem[m]
        BY <2>1, <2>5
      <3>2. spc' \notin Saving
        BY <1>2, <2>5 DEF SetMemory, Finish
      <3>3. spc' \in {job.then, "netchange", "changed"} /\ job' \in {job, NoJob}
        BY <1>2, <2>5 DEF SetMemory, Finish
      <3> QED BY <1>2, <2>2, <2>5, <3>1, <3>2, <3>3 DEF SetMemory, Finish
    <2> QED BY <2>3, <2>4, <2>5
  <1>3. CASE SetNetChange
    BY <1>3 DEF SetNetChange
  <1>4. CASE Mkstemp
    BY <1>4 DEF Mkstemp
  <1>5. CASE WriteTemp
    BY <1>5 DEF WriteTemp
  <1>6. CASE FsyncTemp
    BY <1>6 DEF FsyncTemp
  <1>7. CASE RenameTemp
    BY <1>7 DEF RenameTemp
  <1>8. CASE Changed
    BY <1>8 DEF Changed, Begin, Job, Finish
  <1>9. CASE BootSet
    <2>1. IsDefault(bootleft[1][1], bootleft[1][2])
      BY <1>9 DEF BootSet
    <2>2. /\ DOMAIN bootleft' \in SUBSET DOMAIN bootleft
          /\ \A i \in DOMAIN bootleft' : bootleft'[i] = bootleft[i + 1] /\ i + 1 \in DOMAIN bootleft
      BY <1>9 DEF BootSet
    <2>3. \A i \in DOMAIN bootleft' : IsDefault(bootleft'[i][1], bootleft'[i][2])
      BY <2>2
    <2>4. /\ job' = [name |-> bootleft[1][1], value |-> bootleft[1][2], then |-> "boot"]
          /\ spc' = "set"
      BY <1>9 DEF BootSet, Begin, Job
    <2>5. UNCHANGED <<mem, disk, behind, toread>>
      BY <1>9 DEF BootSet
    <2> QED BY <1>9, <2>1, <2>3, <2>4, <2>5 DEF BootSet
  <1>10. CASE LoadPersistent
    BY <1>10 DEF LoadPersistent
  <1>11. ASSUME NEW n \in toread, LoadFile(n) PROVE Agree'
    BY <1>11 DEF LoadFile, Begin, Job
  <1>12. CASE StartService
    BY <1>12 DEF StartService
  <1>13. CASE Accept
    BY <1>13 DEF Accept
  <1>14. CASE Receive
    BY <1>14 DEF Receive, Begin, Job
  <1>15. CASE GiveUp
    BY <1>15 DEF GiveUp
  <1>16. CASE CloseSocket
    BY <1>16 DEF CloseSocket
  <1>17. ASSUME NEW c \in Calls, Client(c) PROVE Agree'
    BY <1>17 DEF Client, Connect, Send, Timeout, Die
  <1>18. ASSUME NEW n \in PersistNames, WriteBack(n) PROVE Agree'
    BY <1>18 DEF WriteBack
  <1>19. CASE PowerFailure
    BY <1>19 DEF PowerFailure
  <1>20. CASE UNCHANGED vars
    BY <1>20 DEF vars
  <1> QED BY <1>1, <1>2, <1>3, <1>4, <1>5, <1>6, <1>7, <1>8, <1>9, <1>10, <1>11, <1>12,
             <1>13, <1>14, <1>15, <1>16, <1>17, <1>18, <1>19, <1>20
       DEF Next, Service, PropertySet, Serve

LEMMA ReloadStep == IInv /\ [Next]_vars => Reload'
  <1> SUFFICES ASSUME IInv, [Next]_vars PROVE Reload'
    OBVIOUS
  <1> USE ServiceAssumption DEF ServiceAssumption, IInv, service, clients, files,
          history, InSet, Saving, NoCall, NoJob, NoTemp, NoRequest, TypeOK, Shape,
          Reload, Exists, Refused, Names
  <1>1. CASE SetRefused
    BY <1>1 DEF SetRefused, Finish
  <1>2. CASE SetMemory
    BY <1>2 DEF SetMemory, Finish
  <1>3. CASE SetNetChange
    BY <1>3 DEF SetNetChange
  <1>4. CASE Mkstemp
    BY <1>4 DEF Mkstemp
  <1>5. CASE WriteTemp
    BY <1>5 DEF WriteTemp
  <1>6. CASE FsyncTemp
    BY <1>6 DEF FsyncTemp
  <1>7. CASE RenameTemp
    BY <1>7 DEF RenameTemp
  <1>8. CASE Changed
    BY <1>8 DEF Changed, Begin, Job, Finish
  <1>9. CASE BootSet
    BY <1>9 DEF BootSet, Begin, Job
  <1>10. CASE LoadPersistent
    BY <1>10 DEF LoadPersistent
  <1>11. ASSUME NEW n \in toread, LoadFile(n) PROVE Reload'
    BY <1>11 DEF LoadFile, Begin, Job
  <1>12. CASE StartService
    BY <1>12 DEF StartService
  <1>13. CASE Accept
    BY <1>13 DEF Accept
  <1>14. CASE Receive
    BY <1>14 DEF Receive, Begin, Job
  <1>15. CASE GiveUp
    BY <1>15 DEF GiveUp
  <1>16. CASE CloseSocket
    BY <1>16 DEF CloseSocket
  <1>17. ASSUME NEW c \in Calls, Client(c) PROVE Reload'
    BY <1>17 DEF Client, Connect, Send, Timeout, Die
  <1>18. ASSUME NEW n \in PersistNames, WriteBack(n) PROVE Reload'
    BY <1>18 DEF WriteBack
  <1>19. CASE PowerFailure
    BY <1>19 DEF PowerFailure
  <1>20. CASE UNCHANGED vars
    BY <1>20 DEF vars
  <1> QED BY <1>1, <1>2, <1>3, <1>4, <1>5, <1>6, <1>7, <1>8, <1>9, <1>10, <1>11, <1>12,
             <1>13, <1>14, <1>15, <1>16, <1>17, <1>18, <1>19, <1>20
       DEF Next, Service, PropertySet, Serve

LEMMA IInvStep == IInv /\ [Next]_vars => IInv'
  BY TypeStep, ShapeStep, WholeStep, PhaseStep, AgreeStep, ReloadStep DEF IInv

LEMMA Invariant == Spec => []IInv
  BY IInvInit, IInvStep, PTL DEF Spec

\* Whenever power fails, each file is whole, unless a write() or fsync() had failed: the
\* write, fsync, rename sequence of write_persistent_property, for any number
\* of properties, boots and requests.
THEOREM FilesAreWhole == Spec => []PersistWhole
  <1>1. IInv => PersistWhole
    BY DEF IInv, Whole, PersistWhole
  <1> QED BY <1>1, Invariant, PTL

\* Between two requests memory and disk agree, but for a change that could not
\* be saved and a file this boot passed over, for which the default stands; and
\* reload requests have been answered: property_set_impl,
\* load_persistent_properties, property_changed.
THEOREM SetsAreSaved == Spec => []Saved
  <1>1. IInv => Saved
    <2> SUFFICES ASSUME IInv, spc = "idle" PROVE Saved
      BY DEF Saved
    <2>1. job = NoJob /\ toread = {} /\ ~Booting
      BY DEF IInv, Shape, Phase, InSet, NoJob, Booting
    <2>2. \A n \in PersistNames : Unloaded(n) => n \in skipped
      BY <2>1 DEF Unloaded, NoJob
    <2>3. \A n \in PersistNames \ behind : Exists(n) =>
            \/ mem[n] = disk[n]
            \/ (disk[n] = Absent \/ n \in skipped) /\ IsDefault(n, mem[n])
      BY <2>2 DEF IInv, Agree, Saving
    <2>4. mem[UbootReload] # Zero
      BY DEF IInv, Reload
    <2> QED BY <2>3, <2>4 DEF Saved, IsDefault
  <1> QED BY <1>1, Invariant, PTL

\* No step but a power failure changes a read-only property that is set:
\* property_set_impl, and the set of net.change it makes itself.
THEOREM ReadOnlyIsSetOnce == Spec => RoOnce
  <1>1. IInv /\ [Next]_vars =>
          [\A n \in RoNames : Exists(n) /\ boots' = boots => mem'[n] = mem[n]]_vars
    <2> SUFFICES ASSUME IInv, Next, NEW n \in RoNames, Exists(n), boots' = boots
                 PROVE  mem'[n] = mem[n]
      OBVIOUS
    <2>1. CASE SetMemory
      BY <2>1 DEF SetMemory, Refused, IInv, TypeOK
    <2>2. CASE SetNetChange
      BY <2>2, ServiceAssumption
      DEF ServiceAssumption, SetNetChange, Refused, IInv, TypeOK, Names
    <2>3. CASE PowerFailure
      BY <2>3 DEF PowerFailure, IInv, Shape
    <2>4. CASE UNCHANGED mem
      BY <2>4
    <2> QED BY <2>1, <2>2, <2>3, <2>4
         DEF Next, Service, PropertySet, Serve, Client, SetRefused, Mkstemp, WriteTemp,
             FsyncTemp, RenameTemp, Changed, BootSet, LoadPersistent, LoadFile,
             StartService, Accept, Receive, GiveUp, CloseSocket, Connect, Send, Timeout,
             Die, WriteBack
  <1> QED BY <1>1, Invariant, PTL DEF Spec, RoOnce

\* Until the service listens no file changes, unless a write() fails: the defaults
\* are not saved and each file is rewritten with what it holds.
THEOREM BootingKeepsFiles == Spec => BootKeepsFiles
  <1>1. IInv /\ [Next]_vars =>
          [~Listening /\ boots' = boots =>
             \A n \in PersistNames : disk'[n] = disk[n] \/ n \in short']_vars
    <2> SUFFICES ASSUME IInv, Next, ~Listening, boots' = boots, NEW n \in PersistNames
                 PROVE  disk'[n] = disk[n] \/ n \in short'
      OBVIOUS
    <2>1. CASE RenameTemp
      <3>1. spc = "rename" /\ job.then \in {"boot", "load"}
        BY <2>1 DEF RenameTemp, Listening
      <3>2. job.then = "load"
        BY <3>1 DEF IInv, Phase, Booting, Saving
      <3>3. job.value = disk[job.name] /\ temp.value \in {job.value, Torn}
        BY <3>1, <3>2 DEF IInv, Phase, Whole
      <3>4. temp.value = Torn => job.name \in short
        BY DEF IInv, Whole
      <3>5. short' = short /\ (disk' = disk \/ disk' = [disk EXCEPT ![job.name] = temp.value])
        BY <2>1 DEF RenameTemp
      <3> QED BY <3>3, <3>4, <3>5 DEF IInv, TypeOK
    <2>2. CASE PowerFailure
      BY <2>2 DEF PowerFailure, IInv, Shape
    <2>3. CASE UNCHANGED disk
      BY <2>3
    <2> QED BY <2>1, <2>2, <2>3
         DEF Next, Service, PropertySet, Serve, Client, SetRefused, SetMemory,
             SetNetChange, Mkstemp, WriteTemp, FsyncTemp, Changed, BootSet,
             LoadPersistent, LoadFile, StartService, Accept, Receive, GiveUp,
             CloseSocket, Connect, Send, Timeout, Die, WriteBack, files
  <1> QED BY <1>1, Invariant, PTL DEF Spec, BootKeepsFiles
=============================================================================
