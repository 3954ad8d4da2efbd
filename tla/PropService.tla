---------------------------- MODULE PropService ----------------------------
(***************************************************************************)
(* The property service (services/property) and its clients' side of the   *)
(* socket (__system_property_set of libs/property).                        *)
(*                                                                         *)
(* One process owns the property area.  It boots by setting the properties *)
(* of the kernel command line and the .prop files, then those of the files *)
(* under PERSISTENT_PROPERTY_DIR, and then serves one client at a time:    *)
(* accept, wait two seconds for the message, set the property, close.  The *)
(* client takes the close for an acknowledgement, and gives up after 250   *)
(* ms.  Power may fail at any step: the area is lost, the files are not.   *)
(*                                                                         *)
(* PropArea models how a value is stored in the area; here that is one     *)
(* step.  Names and values are model values.                               *)
(***************************************************************************)
EXTENDS Integers, Sequences, FiniteSets

CONSTANTS
    Calls,          \* calls of __system_property_set, each over its own socket
    RoNames,        \* "ro.*"
    NetNames,       \* "net.*", NetChange included
    NetChange,      \* "net.change"
    PersistNames,   \* "persist.*"
    UbootReload,    \* "sys.ubootenv.reload"
    CtlNames,       \* "ctl.*"
    IllegalNames,   \* names is_legal_property_name refuses
    Values,         \* what clients set; Zero and One among them
    Zero, One,      \* "0" and "1"
    Absent,         \* no such property, no such file
    Torn,           \* a file with part of a value
    BootSets,       \* the sequence of <<name, value>> set before the files
    Installed,      \* what the files hold at the first boot
    Capacity,       \* how many properties fit in the area
    Backlog,        \* listen(property_set_fd, 8)
    FilesFail,      \* whether calls on the files may fail, or a file be insecure
    MaxBoots        \* bound: boots

Names == RoNames \cup NetNames \cup PersistNames \cup {UbootReload}
Requests == (Names \cup CtlNames \cup IllegalNames) \X Values

\* Prefixes tell the kinds of names apart; a .prop file may name what is refused.
ASSUME ServiceAssumption ==
    /\ NetChange \in NetNames
    /\ RoNames \cap PersistNames = {} /\ NetNames \cap PersistNames = {}
    /\ UbootReload \notin RoNames \cup NetNames \cup PersistNames
    /\ {Zero, One} \subseteq Values /\ Zero # One
    /\ Absent \notin Values \cup Names /\ Torn \notin Values \cup {Absent}
    /\ BootSets \in Seq((Names \cup IllegalNames) \X Values)
    /\ Installed \in [PersistNames -> Values \cup {Absent}]
    /\ Capacity \in Nat /\ Backlog \in Nat /\ MaxBoots \in Nat
    /\ FilesFail \in BOOLEAN

VARIABLES
    mem,        \* mem[n]: the property area
    loaded,     \* persistent_properties_loaded
    disk,       \* disk[n]: the file of n
    older,      \* older[n]: what the file may still be after a power failure
    temp,       \* the temporary file being written
    spc,        \* where the service is
    bootleft,   \* what it has still to set before the files
    toread,     \* the files it has still to read
    job,        \* the property_set in progress
    serving,    \* the call whose socket it has accepted
    backlog,    \* calls connected and not accepted yet
    cpc,        \* cpc[c]: where call c is
    creq,       \* creq[c]: what it asks for
    boots,      \* boots so far
    \* History variables.
    handled,    \* calls whose message property_set_impl has dealt with
    short,      \* properties whose file a failed write() or fsync() may cut short
    behind,     \* properties whose last change could not be saved
    skipped     \* properties whose file this boot has not loaded

service == <<spc, bootleft, toread, job, serving>>
clients == <<backlog, cpc, creq>>
files   == <<disk, older, temp>>
history == <<handled, short, behind, skipped>>
vars    == <<mem, loaded, files, service, clients, boots, history>>

NoCall == Absent
NoRequest == <<Absent, Absent>>
NoJob == [name |-> Absent, value |-> Absent, then |-> "idle"]
Job(n, v, next) == [name |-> n, value |-> v, then |-> next]
NoTemp == [value |-> Absent, synced |-> TRUE]

Exists(n) == mem[n] # Absent
Full == Cardinality({n \in Names : Exists(n)}) >= Capacity

\* Mutant: sets are saved from the start of the boot.
InitLoaded ==
    /\ mem = [n \in Names |-> Absent]
    /\ loaded = TRUE
    /\ disk = Installed
    /\ older = Installed
    /\ temp = NoTemp
    /\ spc = "boot"
    /\ bootleft = BootSets
    /\ toread = {}
    /\ job = NoJob
    /\ serving = NoCall
    /\ backlog = <<>>
    /\ cpc = [c \in Calls |-> "idle"]
    /\ creq = [c \in Calls |-> NoRequest]
    /\ boots = 1
    /\ handled = {}
    /\ short = {}
    /\ behind = {}
    /\ skipped = {}

Init ==
    /\ mem = [n \in Names |-> Absent]
    /\ loaded = FALSE
    /\ disk = Installed
    /\ older = Installed
    /\ temp = NoTemp
    /\ spc = "boot"
    /\ bootleft = BootSets
    /\ toread = {}
    /\ job = NoJob
    /\ serving = NoCall
    /\ backlog = <<>>
    /\ cpc = [c \in Calls |-> "idle"]
    /\ creq = [c \in Calls |-> NoRequest]
    /\ boots = 1
    /\ handled = {}
    /\ short = {}
    /\ behind = {}
    /\ skipped = {}

-----------------------------------------------------------------------------
(* property_set_impl, entered with spc = "set".                            *)

Begin(n, v, next) == spc' = "set" /\ job' = Job(n, v, next)

\* A set is over: back to the boot, or to the client that asked for it.
Finish ==
    /\ spc' = job.then
    /\ job' = NoJob
    /\ handled' = IF serving = NoCall THEN handled ELSE handled \cup {serving}

\* Mutant: "ro." properties are like any other.
RefusedRw(n) == n \notin Names \/ (~Exists(n) /\ Full)

\* An illegal name, a "ro." property that exists, a full area: return -1.
Refused(n) ==
    \/ n \notin Names
    \/ Exists(n) /\ n \in RoNames
    \/ ~Exists(n) /\ Full

SetRefused ==
    /\ spc = "set"
    /\ Refused(job.name)
    /\ Finish
    /\ UNCHANGED <<mem, loaded, files, bootleft, toread, serving, clients, boots>>
    /\ UNCHANGED <<short, behind, skipped>>

\* The update or the add, and what comes after it for this kind of name.
SetMemory ==
    LET n == job.name
    IN  /\ spc = "set"
        /\ ~Refused(n)
        /\ mem' = [mem EXCEPT ![n] = job.value]
        /\ IF n = NetChange
             THEN Finish
             ELSE /\ spc' = CASE n \in NetNames -> "netchange"
                              [] n \in PersistNames /\ loaded -> "mkstemp"
                              [] OTHER -> "changed"
                  /\ UNCHANGED <<job, handled>>
        /\ skipped' = skipped \ {n}
        /\ UNCHANGED <<loaded, files, bootleft, toread, serving, clients, boots>>
        /\ UNCHANGED <<short, behind>>

\* init_property_set("net.change", name); its failure is only logged.
SetNetChange ==
    /\ spc = "netchange"
    /\ mem' = IF Refused(NetChange) THEN mem ELSE [mem EXCEPT ![NetChange] = job.name]
    /\ spc' = "changed"
    /\ UNCHANGED <<loaded, files, bootleft, toread, job, serving, clients, boots, history>>

\* write_persistent_property: a temporary file ...
Mkstemp ==
    /\ spc = "mkstemp"
    /\ \/ spc' = "write" /\ UNCHANGED behind
       \/ FilesFail /\ spc' = "changed" /\ behind' = behind \cup {job.name}
    /\ UNCHANGED <<mem, loaded, files, bootleft, toread, job, serving, clients, boots>>
    /\ UNCHANGED <<handled, short, skipped>>

\* ... its content, whatever write() returns ...
WriteTemp ==
    /\ spc = "write"
    /\ \/ /\ temp' = [value |-> job.value, synced |-> FALSE]
          /\ UNCHANGED short
       \/ /\ FilesFail
          /\ temp' = [value |-> Torn, synced |-> FALSE]
          /\ short' = short \cup {job.name}
    /\ spc' = "fsync"
    /\ UNCHANGED <<mem, loaded, disk, older, bootleft, toread, job, serving, clients, boots>>
    /\ UNCHANGED <<handled, behind, skipped>>

\* Mutant: no fsync before the rename.
NoFsync ==
    /\ spc = "fsync"
    /\ spc' = "rename"
    /\ UNCHANGED <<mem, loaded, files, bootleft, toread, job, serving, clients>>
    /\ UNCHANGED <<boots, history>>

\* ... on the disk before it gets its name, whatever fsync() returns ...
FsyncTemp ==
    /\ spc = "fsync"
    /\ \/ temp' = [temp EXCEPT !.synced = TRUE] /\ UNCHANGED short
       \/ FilesFail /\ short' = short \cup {job.name} /\ UNCHANGED temp
    /\ spc' = "rename"
    /\ UNCHANGED <<mem, loaded, disk, older, bootleft, toread, job, serving, clients>>
    /\ UNCHANGED <<boots, handled, behind, skipped>>

\* ... and the name, which replaces the old file in one step.  A power
\* failure before the directory is written back restores the old file; one
\* after a rename of an unsynced file leaves a file without its content.
RenameTemp ==
    LET n == job.name
    IN  /\ spc = "rename"
        /\ spc' = "changed"
        /\ temp' = NoTemp
        /\ \/ /\ disk' = [disk EXCEPT ![n] = temp.value]
              /\ older' = [older EXCEPT ![n] = IF temp.synced THEN disk[n] ELSE Torn]
              /\ behind' = IF temp.value = job.value THEN behind \ {n} ELSE behind \cup {n}
           \/ FilesFail /\ behind' = behind \cup {n} /\ UNCHANGED <<disk, older>>
        /\ UNCHANGED <<mem, loaded, bootleft, toread, job, serving, clients, boots>>
        /\ UNCHANGED <<handled, short, skipped>>

\* property_changed: a reload request is answered by setting it to "1".
Changed ==
    /\ spc = "changed"
    /\ IF job.name = UbootReload /\ job.value = Zero
         THEN Begin(UbootReload, One, job.then) /\ UNCHANGED handled
         ELSE Finish
    /\ UNCHANGED <<mem, loaded, files, bootleft, toread, serving, clients, boots>>
    /\ UNCHANGED <<short, behind, skipped>>

PropertySet ==
    \/ SetRefused \/ SetMemory \/ SetNetChange
    \/ Mkstemp \/ WriteTemp \/ FsyncTemp \/ RenameTemp
    \/ Changed

-----------------------------------------------------------------------------
(* Boot: main, load_system_props, load_persist_props.                      *)

BootSet ==
    /\ spc = "boot"
    /\ bootleft # <<>>
    /\ Begin(Head(bootleft)[1], Head(bootleft)[2], "boot")
    /\ bootleft' = Tail(bootleft)
    /\ UNCHANGED <<mem, loaded, files, toread, serving, clients, boots, history>>

\* Mutant: the flag is left clear while the files are read.
LoadPersistentLate ==
    /\ spc = "boot"
    /\ bootleft = <<>>
    /\ toread' = {n \in PersistNames : disk[n] # Absent}
    /\ spc' = "load"
    /\ UNCHANGED <<mem, loaded, files, bootleft, job, serving, clients, boots, history>>

\* load_persistent_properties: from here on a set is saved, whether or not the
\* directory can be opened.
LoadPersistent ==
    LET present == {n \in PersistNames : disk[n] # Absent}
    IN  /\ spc = "boot"
        /\ bootleft = <<>>
        /\ loaded' = TRUE
        /\ \/ toread' = present /\ UNCHANGED skipped
           \/ FilesFail /\ toread' = {} /\ skipped' = present
        /\ spc' = "load"
        /\ UNCHANGED <<mem, files, bootleft, job, serving, clients, boots>>
        /\ UNCHANGED <<handled, short, behind>>

\* readdir gives the files in any order.  One that cannot be opened, examined or
\* read, or that others may access, is passed over.
LoadFile(n) ==
    /\ spc = "load"
    /\ n \in toread
    /\ toread' = toread \ {n}
    /\ \/ Begin(n, disk[n], "load") /\ UNCHANGED skipped
       \/ FilesFail /\ skipped' = skipped \cup {n} /\ UNCHANGED <<spc, job>>
    /\ UNCHANGED <<mem, loaded, files, bootleft, serving, clients, boots>>
    /\ UNCHANGED <<handled, short, behind>>

\* start_property_service.
StartService ==
    /\ spc = "load"
    /\ toread = {}
    /\ spc' = "idle"
    /\ UNCHANGED <<mem, loaded, files, bootleft, toread, job, serving, clients, boots>>
    /\ UNCHANGED history

-----------------------------------------------------------------------------
(* handle_property_set_fd.                                                 *)

Accept ==
    /\ spc = "idle"
    /\ backlog # <<>>
    /\ serving' = Head(backlog)
    /\ backlog' = Tail(backlog)
    /\ spc' = "poll"
    /\ UNCHANGED <<mem, loaded, files, bootleft, toread, job, cpc, creq, boots>>
    /\ UNCHANGED history

\* The message is there.  "ctl." names and illegal ones are only closed on.
Receive ==
    LET n == creq[serving][1]
    IN  /\ spc = "poll"
        /\ cpc[serving] \in {"sent", "timedout"}
        /\ IF n \in Names
             THEN /\ Begin(n, creq[serving][2], "close")
                  /\ UNCHANGED handled
             ELSE /\ spc' = "close"
                  /\ handled' = handled \cup {serving}
                  /\ UNCHANGED job
        /\ UNCHANGED <<mem, loaded, files, bootleft, toread, serving, clients, boots>>
        /\ UNCHANGED <<short, behind, skipped>>

\* Mutant: poll without a timeout.
GiveUpNever ==
    /\ spc = "poll"
    /\ cpc[serving] = "dead"
    /\ spc' = "close"
    /\ UNCHANGED <<mem, loaded, files, bootleft, toread, job, serving, clients, boots>>
    /\ UNCHANGED history

\* Two seconds without a message, or the client died: close.
GiveUp ==
    /\ spc = "poll"
    /\ cpc[serving] \in {"connected", "dead"}
    /\ spc' = "close"
    /\ UNCHANGED <<mem, loaded, files, bootleft, toread, job, serving, clients, boots>>
    /\ UNCHANGED history

\* close(s): a client that polls sees POLLHUP, one that has yet to send fails.
CloseSocket ==
    /\ spc = "close"
    /\ cpc' = [cpc EXCEPT ![serving] = CASE @ = "sent" -> "acked"
                                         [] @ = "connected" -> "broken"
                                         [] OTHER -> @]
    /\ creq' = [creq EXCEPT ![serving] = NoRequest]
    /\ serving' = NoCall
    /\ spc' = "idle"
    /\ UNCHANGED <<mem, loaded, files, bootleft, toread, job, backlog, boots, history>>

Serve == Accept \/ Receive \/ GiveUp \/ CloseSocket

-----------------------------------------------------------------------------
(* A client: __system_property_set and send_prop_msg.                      *)

Listening == {spc, job.then} \cap {"boot", "load"} = {}

\* connect: refused before the service listens, queued afterwards.
Connect(c, req) ==
    /\ cpc[c] = "idle"
    /\ IF Listening
         THEN /\ Len(backlog) < Backlog
              /\ creq' = [creq EXCEPT ![c] = req]
              /\ cpc' = [cpc EXCEPT ![c] = "connected"]
              /\ backlog' = Append(backlog, c)
         ELSE cpc' = [cpc EXCEPT ![c] = "broken"] /\ UNCHANGED <<backlog, creq>>
    /\ UNCHANGED <<mem, loaded, files, service, boots, history>>

Send(c) ==
    /\ cpc[c] = "connected"
    /\ cpc' = [cpc EXCEPT ![c] = "sent"]
    /\ UNCHANGED <<mem, loaded, files, service, backlog, creq, boots, history>>

\* poll(250 ms) times out: the client returns success and closes its end.
\* The message it sent stays in the socket.
Timeout(c) ==
    /\ cpc[c] = "sent"
    /\ cpc' = [cpc EXCEPT ![c] = "timedout"]
    /\ UNCHANGED <<mem, loaded, files, service, backlog, creq, boots, history>>

\* The client is killed between connect and send.
Die(c) ==
    /\ cpc[c] = "connected"
    /\ cpc' = [cpc EXCEPT ![c] = "dead"]
    /\ UNCHANGED <<mem, loaded, files, service, backlog, creq, boots, history>>

Client(c) ==
    \/ \E req \in Requests : Connect(c, req)
    \/ Send(c) \/ Timeout(c) \/ Die(c)

-----------------------------------------------------------------------------
(* The device.                                                             *)

\* The kernel writes a directory back some time after the rename.
WriteBack(n) ==
    /\ older[n] # disk[n]
    /\ older' = [older EXCEPT ![n] = disk[n]]
    /\ UNCHANGED <<mem, loaded, disk, temp, service, clients, boots, history>>

\* Power fails and the device boots again.
PowerFailure ==
    /\ boots < MaxBoots
    /\ boots' = boots + 1
    /\ \E after \in [PersistNames -> Values \cup {Absent, Torn}] :
         /\ \A n \in PersistNames : after[n] \in {disk[n], older[n]}
         /\ disk' = after
         /\ older' = after
    /\ mem' = [n \in Names |-> Absent]
    /\ loaded' = FALSE
    /\ temp' = NoTemp
    /\ spc' = "boot"
    /\ bootleft' = BootSets
    /\ toread' = {}
    /\ job' = NoJob
    /\ serving' = NoCall
    /\ backlog' = <<>>
    /\ cpc' = [c \in Calls |-> IF cpc[c] \in {"connected", "sent"} THEN "dead" ELSE cpc[c]]
    /\ creq' = [c \in Calls |-> NoRequest]
    /\ behind' = {}
    /\ skipped' = {}
    /\ UNCHANGED <<handled, short>>

Service ==
    \/ PropertySet
    \/ BootSet \/ LoadPersistent \/ \E n \in toread : LoadFile(n)
    \/ StartService
    \/ Serve

Next ==
    \/ Service
    \/ \E c \in Calls : Client(c)
    \/ \E n \in PersistNames : WriteBack(n)
    \/ PowerFailure

Spec == Init /\ [][Next]_vars

\* The service is scheduled; its poll ends after two seconds.  Clients need not
\* go on, power need not fail.
FairSpec == Spec /\ WF_vars(Service)

-----------------------------------------------------------------------------
(* Properties.                                                             *)

TypeOK ==
    /\ mem \in [Names -> Values \cup NetNames \cup {Absent, Torn}]
    /\ loaded \in BOOLEAN
    /\ disk \in [PersistNames -> Values \cup {Absent, Torn}]
    /\ older \in [PersistNames -> Values \cup {Absent, Torn}]
    /\ temp \in [value : Values \cup {Absent, Torn}, synced : BOOLEAN]
    /\ spc \in {"boot", "load", "idle", "poll", "close", "set", "netchange",
                "mkstemp", "write", "fsync", "rename", "changed"}
    /\ toread \subseteq PersistNames
    /\ job.name \in Names \cup IllegalNames \cup {Absent}
    /\ job.then \in {"boot", "load", "close", "idle"}
    /\ serving \in Calls \cup {NoCall}
    /\ backlog \in Seq(Calls) /\ Len(backlog) <= Backlog
    /\ cpc \in [Calls -> {"idle", "connected", "sent", "acked", "timedout", "broken", "dead"}]
    /\ handled \subseteq Calls
    /\ short \subseteq PersistNames /\ behind \subseteq PersistNames
    /\ skipped \subseteq PersistNames

\* "ro.* properties may NEVER be modified once set" (property_set_impl), by no
\* client, no .prop file and no call that property_set_impl makes itself.
RoOnce ==
    [][\A n \in RoNames : Exists(n) /\ boots' = boots => mem'[n] = mem[n]]_vars

\* Whenever power fails, the file of a persistent property holds one of the
\* values the property had, whole: the write, fsync, rename sequence of
\* write_persistent_property.  Only a write() or an fsync() that failed, which the
\* code does not look at, lets a file be cut short.
PersistWhole == TypeOK /\ \A n \in PersistNames : disk[n] = Torn => n \in short

\* Between two requests memory and disk agree on each persistent property,
\* after a reboot too: what a client set is what the file holds, and what has
\* no file is a default of this boot.  Where they differ the code has met an
\* error it only logs: the last change could not be saved (behind), or this boot
\* passed the file over (skipped), and then the default is served until the
\* next set.  A reload request has been answered by then (property_changed, at
\* the end of property_set_impl).
Saved ==
    spc = "idle" =>
        /\ \A n \in PersistNames \ behind :
             Exists(n) =>
                 \/ mem[n] = disk[n]
                 \/ /\ disk[n] = Absent \/ n \in skipped
                    /\ \E i \in DOMAIN BootSets : BootSets[i] = <<n, mem[n]>>
        /\ mem[UbootReload] # Zero

\* Booting does not change what is on disk: the defaults are set before
\* persistent_properties_loaded, and each file is rewritten with what it holds.
BootKeepsFiles ==
    [][~Listening /\ boots' = boots =>
         \A n \in PersistNames : disk'[n] = disk[n] \/ n \in short']_vars

\* "bionic's property client code assumes that the property server will not
\* close the socket until *AFTER* the property is written to memory": a client
\* that saw the close has had its message dealt with.
AckMeansHandled == \A c \in Calls : cpc[c] = "acked" => c \in handled

\* A message that waits behind others is dealt with, unless power fails: no
\* client that connects and never sends holds the service up for ever.
RequestHandled ==
    \A c \in Calls, b \in 1..MaxBoots :
        (cpc[c] = "sent" /\ boots = b /\ \E i \in DOMAIN backlog : backlog[i] = c)
            ~> (c \in handled \/ boots > b)
=============================================================================
