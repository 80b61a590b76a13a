----------------------------- MODULE AgentBoot -----------------------------
(***************************************************************************)
(* The start of an agent process: the modules of its configuration file    *)
(* (agent/main.cc) are bootstrapped, initialised and registered one after  *)
(* the other (AgentManager::prepare), then the worker threads start.  A    *)
(* DTN module adds a storage module for each device below its data         *)
(* folders, while the loop over the modules runs.  The RPC server listens  *)
(* before the modules are initialised.  The process may end at any point   *)
(* and is started again with the same or another configuration; the        *)
(* documents of the site store stay.                                       *)
(***************************************************************************)
EXTENDS Naturals, SequencesExt

CONSTANTS
    Configs,        \* configuration files: sequences of module configurations
    Mounts,         \* the device mounted at each mount point, paths are sequences
    Unwritable,     \* folders in which no work folder can be made
    Mac,            \* get_first_mac_address()
    MaxStarts,      \* bound: starts of the process
    MaxCommands     \* bound: commands received in a behaviour

VARIABLES
    bootPc,     \* where AgentManager::prepare is
    at,         \* the module of the loop
    last,       \* the module at which the loop over the modules ends
    modules,    \* mstore
    toMap,      \* the storages that register_all_sdmaps has still to insert
    posted,     \* ids of the modules whose commands wait in the io_service
    dtnDocs,    \* documents of the collections dtn, storage and sdmap
    storageDocs,
    sdmapDocs,
    received,   \* number of commands received
    partial,    \* ids of the DTNs whose last registration by the timer was cut short
    starts      \* number of starts

bootVars == <<bootPc, at, last, modules, toMap, posted, dtnDocs, storageDocs, sdmapDocs, received,
              partial, starts>>

\* A module configuration: folders is data_folders.path or root-folders, work whether
\* the configuration names an iozone work folder, storages what init_storage_agents
\* has recorded.
Module(c) == [type |-> c.type, id |-> c.id, stage |-> 0, conf |-> c, device |-> "", active |-> TRUE,
              storages |-> <<>>]

-----------------------------------------------------------------------------
(* utils/mounts.cc *)

\* mnt_table_find_target, and the mounts below when scan is set
MountsAt(p, scan) ==
    IF p \notin DOMAIN Mounts THEN {}
    ELSE {p} \cup {q \in DOMAIN Mounts : scan /\ IsStrictPrefix(p, q)}

\* The mount point nearest above the path.
GetParentMount(p) ==
    CHOOSE q \in DOMAIN Mounts :
        /\ IsStrictPrefix(q, p)
        /\ \A r \in DOMAIN Mounts : IsStrictPrefix(r, p) => Len(r) <= Len(q)

Devices(p, scan) ==
    IF MountsAt(p, scan) = {} THEN {Mounts[GetParentMount(p)]}
    ELSE {Mounts[q] : q \in MountsAt(p, scan)}

\* storage_map_ of scan_data_folder
StorageMap(c) ==
    IF ~c.scan THEN <<>>
    ELSE [d \in UNION {Devices(p, TRUE) : p \in ToSet(c.folders)} |->
              {p \in ToSet(c.folders) : d \in Devices(p, TRUE)}]

-----------------------------------------------------------------------------
(* Bootstrap *)

HasModule(id) == \E i \in DOMAIN modules : modules[i].id = id

\* Ids are sequences of names.
StorageId(id, d) == Append(id, d)

\* The configuration that init_storage_agents hands to a storage module: the first
\* folder in which a work folder can be made has one, unless iozone is disabled.
StorageConf(c, id, d) ==
    [type |-> IF c.shared THEN "SharedStorage" ELSE "LocalStorage", id |-> StorageId(id, d),
     device |-> d, folders |-> SetToSeq(StorageMap(c)[d]), scan |-> FALSE, shared |-> FALSE,
     work |-> c.iozone /\ ~StorageMap(c)[d] \subseteq Unwritable,
     iozone |-> TRUE, valid |-> TRUE]

Down == bootPc' = "down" /\ modules' = <<>> /\ posted' = <<>> /\ toMap' = <<>>
        /\ UNCHANGED <<at, last>>

\* Main::Main: a module for each object of the configuration file.  The range-based
\* loop over mstore takes its end before the first module is bootstrapped.
Start(config) ==
    /\ bootPc = "down" /\ starts < MaxStarts
    /\ starts' = starts + 1
    /\ modules' = [i \in DOMAIN config |-> Module(config[i])]
    /\ bootPc' = "bootstrap" /\ at' = 1 /\ last' = Len(config)
    /\ UNCHANGED <<toMap, posted, dtnDocs, storageDocs, sdmapDocs, received, partial>>

\* The id a module has after its bootstrap.
LauncherId == <<"launcher-agent">>

NewId(m) ==
    CASE m.type = "Launcher" -> LauncherId
      [] m.type = "DTN" /\ m.id = <<>> -> Mac
      [] OTHER -> m.id

\* update_id() refuses an id that is taken.
UpdateIdThrows(m) == NewId(m) # m.id /\ HasModule(NewId(m))

\* What check_configuration of a DTN module refuses
DtnRefused(m) == m.type = "DTN" /\ ~m.conf.valid

\* A shared storage makes its work folder in the first data folder.
WorkFolderThrows(m) ==
    m.type = "SharedStorage" /\ (m.conf.folders = <<>> \/ m.conf.folders[1] \in Unwritable)

BootstrapThrows(m) == DtnRefused(m) \/ UpdateIdThrows(m) \/ WorkFolderThrows(m)

Bootstrap ==
    /\ bootPc = "bootstrap" /\ at <= last
    /\ LET m == modules[at]
           devices == IF m.type = "DTN" THEN DOMAIN StorageMap(m.conf) ELSE {}
           added == SetToSeq({StorageConf(m.conf, NewId(m), d) : d \in devices})
       IN  \/ BootstrapThrows(m) /\ Down
           \/ /\ ~BootstrapThrows(m)
              /\ modules' = [modules EXCEPT ![at].id = NewId(m), ![at].stage = 1,
                                            ![at].storages = [i \in DOMAIN added |-> added[i].id],
                                            ![at].conf.work = m.type = "SharedStorage" \/ @]
                             \o [i \in DOMAIN added |-> Module(added[i])]
              /\ at' = at + 1
              /\ UNCHANGED <<bootPc, last, toMap, posted>>
    /\ UNCHANGED <<dtnDocs, storageDocs, sdmapDocs, received, partial, starts>>

\* rpcserver.start(): from here on commands arrive.  The worker threads that carry
\* them out start in AgentManager::run.
RpcStart ==
    /\ bootPc = "bootstrap" /\ at > last
    /\ bootPc' = "init" /\ at' = 1 /\ last' = Len(modules)
    /\ UNCHANGED <<modules, toMap, posted, dtnDocs, storageDocs, sdmapDocs, received, partial, starts>>

-----------------------------------------------------------------------------
(* Initialisation and registration *)

\* A storage module without a work folder is switched off.  A shared storage that a
\* DTN module has added was never bootstrapped and has none.
SwitchedOff(m) == ~m.conf.work \/ (m.type = "SharedStorage" /\ m.stage = 0)

\* The first device of each root folder
FolderDevices(m) == {Mounts[IF p \in DOMAIN Mounts THEN p ELSE GetParentMount(p)] : p \in ToSet(m.conf.folders)}

InitThrows(m) ==
    /\ m.type \in {"LocalStorage", "SharedStorage"} /\ ~SwitchedOff(m)
    /\ m.conf.device = "" /\ Cardinality(FolderDevices(m)) # 1

AfterInit(m) ==
    CASE m.type \notin {"LocalStorage", "SharedStorage"} -> [m EXCEPT !.stage = 2]
      [] SwitchedOff(m) -> [m EXCEPT !.stage = 2, !.active = FALSE]
      [] OTHER -> [m EXCEPT !.stage = 2, !.device = IF m.conf.device # "" THEN m.conf.device
                                                    ELSE CHOOSE d \in FolderDevices(m) : TRUE]

\* Documents are a sequence, in the order of insertion.
DeleteOne(docs, id) == IF \E i \in DOMAIN docs : docs[i].id = id
                       THEN RemoveAt(docs, SelectInSeq(docs, LAMBDA d : d.id = id)) ELSE docs
DeleteMany(docs, id) == SelectSeq(docs, LAMBDA d : d.id # id)

StorageDoc(m) == [id |-> m.id, device |-> m.device]
\* The properties of the host that the document of a DTN lists are left out.
DtnDoc(m) == [id |-> m.id]

\* A shared storage registers itself at the end of do_init already.
InitModule ==
    /\ bootPc = "init" /\ at <= last
    /\ \/ InitThrows(modules[at]) /\ Down /\ UNCHANGED storageDocs
       \/ /\ ~InitThrows(modules[at])
          /\ modules' = [modules EXCEPT ![at] = AfterInit(@)]
          /\ storageDocs' = IF modules[at].type = "SharedStorage" /\ ~SwitchedOff(modules[at])
                            THEN Append(DeleteOne(storageDocs, modules[at].id), StorageDoc(AfterInit(modules[at])))
                            ELSE storageDocs
          /\ bootPc' = "register"
          /\ UNCHANGED <<at, last, toMap, posted>>
    /\ UNCHANGED <<dtnDocs, sdmapDocs, received, partial, starts>>

\* The first call of a registration deletes the document of the module.
Unregister ==
    /\ bootPc \in {"register", "tick"}
    /\ bootPc' = [register |-> "insert", tick |-> "tickInsert"][bootPc]
    /\ dtnDocs' = IF modules[at].type = "DTN" THEN DeleteOne(dtnDocs, modules[at].id) ELSE dtnDocs
    /\ storageDocs' = IF modules[at].type \in {"LocalStorage", "SharedStorage"}
                      THEN DeleteOne(storageDocs, modules[at].id) ELSE storageDocs
    /\ UNCHANGED <<at, last, modules, toMap, posted, sdmapDocs, received, partial, starts>>

Registered == [modules EXCEPT ![at].stage = 3]

\* The second inserts the new one.  A DTN module goes on with register_all_sdmaps,
\* the others are done.
Insert ==
    /\ bootPc \in {"insert", "tickInsert"}
    /\ \/ /\ modules[at].type = "DTN"
          /\ dtnDocs' = Append(dtnDocs, DtnDoc(modules[at]))
          /\ bootPc' = [insert |-> "mapDelete", tickInsert |-> "tickDelete"][bootPc]
          /\ UNCHANGED <<at, modules, storageDocs>>
       \/ /\ modules[at].type # "DTN"
          /\ storageDocs' = IF modules[at].type = "Launcher" THEN storageDocs
                            ELSE Append(storageDocs, StorageDoc(modules[at]))
          /\ modules' = Registered /\ at' = at + 1 /\ bootPc' = "init"
          /\ UNCHANGED dtnDocs
    /\ UNCHANGED <<last, toMap, posted, sdmapDocs, received, partial, starts>>

MapDeleteOne ==
    /\ bootPc \in {"mapDelete", "tickDelete"}
    /\ sdmapDocs' = DeleteOne(sdmapDocs, modules[at].id)
    /\ toMap' = modules[at].storages
    /\ bootPc' = [mapDelete |-> "mapInsert", tickDelete |-> "tickMap"][bootPc]
    /\ UNCHANGED <<at, last, modules, posted, dtnDocs, storageDocs, received, partial, starts>>

MapDelete ==
    /\ bootPc \in {"mapDelete", "tickDelete"}
    /\ sdmapDocs' = DeleteMany(sdmapDocs, modules[at].id)
    /\ toMap' = modules[at].storages
    /\ bootPc' = [mapDelete |-> "mapInsert", tickDelete |-> "tickMap"][bootPc]
    /\ UNCHANGED <<at, last, modules, posted, dtnDocs, storageDocs, received, partial, starts>>

MapInsert ==
    /\ bootPc \in {"mapInsert", "tickMap"}
    /\ \/ /\ toMap # <<>>
          /\ sdmapDocs' = Append(sdmapDocs, [id |-> modules[at].id, storage |-> Head(toMap)])
          /\ toMap' = Tail(toMap)
          /\ UNCHANGED <<bootPc, at, modules, partial>>
       \/ /\ toMap = <<>> /\ bootPc = "mapInsert"
          /\ modules' = Registered /\ at' = at + 1 /\ bootPc' = "init" /\ partial' = partial \ {modules[at].id}
          /\ UNCHANGED <<toMap, sdmapDocs>>
       \/ /\ toMap = <<>> /\ bootPc = "tickMap"
          /\ bootPc' = "run" /\ partial' = partial \ {modules[at].id}
          /\ UNCHANGED <<at, modules, toMap, sdmapDocs>>
    /\ UNCHANGED <<last, posted, dtnDocs, storageDocs, received, starts>>

\* An interface cannot be read or the store fails: the handler of the timer logs the
\* exception and returns, the start of the process is given up.
RegistrationThrows ==
    /\ \/ /\ bootPc \in {"register", "insert", "mapDelete", "mapInsert"}
          /\ Down /\ UNCHANGED partial
       \/ /\ bootPc \in {"tick", "tickInsert", "tickDelete", "tickMap"}
          /\ bootPc' = "run" /\ toMap' = <<>> /\ partial' = IF bootPc = "tick" THEN partial ELSE partial \cup {modules[at].id}
          /\ UNCHANGED <<at, last, modules, posted>>
    /\ UNCHANGED <<dtnDocs, storageDocs, sdmapDocs, received, starts>>

\* The last will is set, MQTT starts, and AgentManager::run starts the threads.
Run ==
    /\ bootPc = "init" /\ at > last
    /\ bootPc' = "run"
    /\ UNCHANGED <<at, last, modules, toMap, posted, dtnDocs, storageDocs, sdmapDocs, received, partial, starts>>

\* The timer of a DTN module, every two minutes.
StatusTick(i) ==
    /\ bootPc = "run" /\ modules[i].type = "DTN"
    /\ bootPc' = "tick" /\ at' = i
    /\ UNCHANGED <<last, modules, toMap, posted, dtnDocs, storageDocs, sdmapDocs, received, partial, starts>>

-----------------------------------------------------------------------------
(* Commands, and the end of the process *)

Listening == bootPc \notin {"down", "bootstrap"}
Working == bootPc \in {"run", "tick", "tickInsert", "tickDelete", "tickMap"}

\* rpc_msg_handler: a command for an unknown module is answered with an error at
\* once, another one is posted to the worker threads.
Command(id) ==
    /\ Listening /\ received < MaxCommands
    /\ received' = received + 1
    /\ posted' = IF HasModule(id) THEN Append(posted, id) ELSE posted
    /\ UNCHANGED <<bootPc, at, last, modules, toMap, dtnDocs, storageDocs, sdmapDocs, partial, starts>>

Serve ==
    /\ Working /\ posted # <<>>
    /\ posted' = Tail(posted)
    /\ UNCHANGED <<bootPc, at, last, modules, toMap, dtnDocs, storageDocs, sdmapDocs, received, partial, starts>>

ProcessEnds ==
    /\ bootPc # "down" /\ Down
    /\ UNCHANGED <<dtnDocs, storageDocs, sdmapDocs, received, partial, starts>>

BootInit ==
    /\ bootPc = "down" /\ at = 1 /\ last = 0 /\ modules = <<>> /\ toMap = <<>> /\ posted = <<>>
    /\ dtnDocs = <<>> /\ storageDocs = <<>> /\ sdmapDocs = <<>> /\ received = 0
    /\ partial = {} /\ starts = 0

BootNext ==
    \/ \E config \in Configs : Start(config)
    \/ Bootstrap \/ RpcStart \/ InitModule \/ Unregister \/ Insert \/ MapDelete \/ MapInsert
    \/ RegistrationThrows \/ Run
    \/ \E i \in DOMAIN modules : StatusTick(i) \/ Command(modules[i].id)
    \/ Command(<<"unknown">>) \/ Serve \/ ProcessEnds

-----------------------------------------------------------------------------
(* Properties *)

\* A process that is up, its configuration and the store agree, whatever configuration
\* an earlier process had and wherever it ended.  The store has one document for each
\* DTN and maps it to exactly the storages it has now (an exception in the timer leaves
\* a gap until the next registration).  Each data folder that a DTN scans belongs to a
\* storage the DTN advertises and that commands can be sent to.  The store has one
\* document for each storage module, without a device only if it is switched off.
StorageAgrees ==
    /\ bootPc = "run" =>
          \A i \in DOMAIN modules : modules[i].type = "DTN" =>
              /\ modules[i].id \notin partial =>
                    LET mine == SelectSeq(sdmapDocs, LAMBDA d : d.id = modules[i].id)
                    IN  /\ [j \in DOMAIN mine |-> mine[j].storage] = modules[i].storages
                        /\ Len(SelectSeq(dtnDocs, LAMBDA d : d.id = modules[i].id)) = 1
              /\ modules[i].conf.scan =>
                    \A p \in ToSet(modules[i].conf.folders) :
                        \E j \in DOMAIN modules :
                            /\ modules[j].id \in ToSet(modules[i].storages) /\ modules[j].stage = 3
                            /\ p \in ToSet(modules[j].conf.folders)
    /\ \A i \in DOMAIN modules :
          modules[i].type \in {"LocalStorage", "SharedStorage"} /\ modules[i].stage = 3 =>
              LET mine == SelectSeq(storageDocs, LAMBDA d : d.id = modules[i].id)
              IN  Len(mine) = 1 /\ (mine[1].device = "" <=> ~modules[i].active)
=============================================================================
