---------------------------- MODULE SiteCommands ----------------------------
(***************************************************************************)
(* The commands that the portal sends to a server, while agents register   *)
(* and leave.  A handler reads the resource graph several times, with RPC  *)
(* calls and store reads in between, and the graph is changed meanwhile by *)
(* the "resource" strand.  Most handlers run on a worker thread; three run *)
(* on the MQTT thread of the RPC server, which takes no other request      *)
(* until they return.  An exception of a handler ends the process.         *)
(***************************************************************************)
EXTENDS ResourceGraph, Sequences, FiniteSets, Functions

CONSTANTS
    CmdThreads,     \* worker threads
    MqttThread,     \* the thread of the RPC server
    CmdRequests,    \* [kind, arg] of the requests
    AgentModules,   \* sets of modules that register and leave together
    DtnRate,        \* rate of the data interface of each DTN
    StorageRate0, LinkRate, LeastRate,  \* 1000000, 4e10 and 1000 in the code
    MaxChanges, MaxCommands     \* bounds

\* The portal names nodes by the ids that the server gave it, of the kind that the
\* command is about
ASSUME CommandConstants ==
    /\ MqttThread \notin CmdThreads /\ AgentModules \subseteq SUBSET Modules
    /\ \A r \in CmdRequests :
        /\ r.kind \in {"list", "mkdir", "info"} => r.arg \in Dtns
        /\ r.kind = "expand" => r.arg \in Dtns \cup Storages
        /\ r.kind \in {"size", "best"} => r.arg \in Storages
        /\ r.kind \in {"probe", "query"} => r.arg \in Storages \X Nat
    /\ DtnRate \in [Dtns -> Nat] /\ {StorageRate0, LinkRate, LeastRate, MaxChanges, MaxCommands} \subseteq Nat

VARIABLES
    serverUp,       \* the server takes requests
    cmd,            \* the request of each thread and the locals of its handler
    replies,        \* answers given: [kind, arg, code, dtns, at the start, lost meanwhile]
    cause,          \* history: the handlers that threw
    changes, commands

siteVars == <<gvars, serverUp, cmd, replies, cause, changes, commands>>

CmdAllThreads == CmdThreads \cup {MqttThread}
DirectKinds == {"best", "probe", "query"}
NoCommand == [kind |-> "none", at |-> "idle"]
CmdRunning(t) == cmd[t].at # "idle"
KnownNodes == dtns \cup storages

SiteInit ==
    /\ GInit /\ serverUp = TRUE
    /\ cmd = [t \in CmdAllThreads |-> NoCommand]
    /\ replies = {} /\ cause = {}
    /\ changes = 0 /\ commands = 0

\* An agent registers, perhaps again, or leaves.  Modules that leave are lost to the
\* handlers under way, and to the pointers they hold.
SiteChanges ==
    /\ serverUp /\ changes < MaxChanges /\ changes' = changes + 1
    /\ \E ms \in AgentModules :
        \/ AddModules(ms) /\ UNCHANGED cmd
        \/ /\ ms \cap KnownNodes # {} /\ DelModules(ms)
           /\ cmd' = [t \in CmdAllThreads |-> IF cmd[t].at = "idle" THEN cmd[t]
                                        ELSE [cmd[t] EXCEPT !.lost = @ \cup ms, !.stale = @ \cup ms]]
    /\ UNCHANGED <<serverUp, replies, cause, commands>>

\* rpc_msg_handler: the thread of the RPC server hands a request to a worker, or runs
\* the handler itself
CmdArrives(t) ==
    /\ serverUp /\ cmd[MqttThread].at = "idle" /\ cmd[t].at = "idle"
    /\ commands < MaxCommands /\ commands' = commands + 1
    /\ \E r \in CmdRequests :
        /\ (r.kind \in DirectKinds) = (t = MqttThread)
        /\ cmd' = [cmd EXCEPT ![t] = [kind |-> r.kind, arg |-> r.arg, at |-> "begin", left |-> {}, got |-> {}, stale |-> {},
                                      absent |-> Modules \ KnownNodes, lost |-> {}, start |-> link]]
    /\ UNCHANGED <<gvars, serverUp, replies, cause, changes>>

-----------------------------------------------------------------------------
\* How a handler goes on
CmdReply(t, code, res) ==
    /\ replies' = replies \cup {[kind |-> cmd[t].kind, arg |-> cmd[t].arg, code |-> code, dtns |-> res,
                                 start |-> cmd[t].start, absent |-> cmd[t].absent, lost |-> cmd[t].lost]}
    /\ cmd' = [cmd EXCEPT ![t] = NoCommand]
    /\ UNCHANGED <<gvars, serverUp, cause, changes, commands>>

CmdGoTo(t, at, left) ==
    /\ cmd' = [cmd EXCEPT ![t].at = at, ![t].left = left]
    /\ UNCHANGED <<gvars, serverUp, replies, cause, changes, commands>>

\* An exception stops the worker threads once their handlers return; on the thread of
\* the RPC server nothing catches it
CmdThrow(t, node) ==
    /\ serverUp' = FALSE
    /\ cause' = cause \cup {[kind |-> cmd[t].kind,
                 why |-> IF node \in cmd[t].lost THEN "lost" ELSE IF node \in cmd[t].absent THEN "absent" ELSE "steady"]}
    /\ cmd' = [u \in CmdAllThreads |-> IF t \in {u, MqttThread} THEN NoCommand ELSE cmd[u]]
    /\ UNCHANGED <<gvars, replies, changes, commands>>

CmdAt(t, kinds, at) == CmdRunning(t) /\ cmd[t].kind \in kinds /\ cmd[t].at = at

\* get_storage_list, get_dtn_list, get_dtn_topology
Lists(t) ==
    /\ CmdAt(t, {"lists"}, "begin")
    /\ CmdReply(t, 0, ActiveDtns)

-----------------------------------------------------------------------------
\* A mutant of get_file_list and create_folder without the question
HasDtnUnasked(t) ==
    /\ CmdAt(t, {"list", "mkdir", "info"}, "begin")
    /\ CmdGoTo(t, "node", {})

\* get_file_list, create_folder and get_dtn_info ask whether the DTN is there.  The
\* first two answer "invalid dtn"; the third answers and goes on.
HasDtn(t) ==
    /\ CmdAt(t, {"list", "mkdir", "info"}, "begin")
    /\ IF cmd[t].arg \in dtns THEN CmdGoTo(t, "node", {})
       ELSE IF cmd[t].kind = "info"
       THEN /\ replies' = replies \cup {[kind |-> "info", arg |-> cmd[t].arg, code |-> 0, dtns |-> {},
                                        start |-> cmd[t].start, absent |-> cmd[t].absent, lost |-> cmd[t].lost]}
            /\ cmd' = [cmd EXCEPT ![t].at = "node"]
            /\ UNCHANGED <<gvars, serverUp, cause, changes, commands>>
       ELSE CmdReply(t, IF cmd[t].kind = "list" THEN 400 ELSE 2, {})

\* Then they fetch its node, get_file_list and create_folder after a query of the store
GetDtn(t) ==
    /\ CmdAt(t, {"list", "mkdir", "info"}, "node")
    /\ IF cmd[t].arg \in dtns THEN CmdGoTo(t, "call", {}) ELSE CmdThrow(t, cmd[t].arg)

\* expand_and_group and verify_checksum fetch the queue at once
GetQueue(t) ==
    /\ CmdAt(t, {"expand"}, "begin")
    /\ IF cmd[t].arg \in KnownNodes THEN CmdGoTo(t, "call", {}) ELSE CmdThrow(t, cmd[t].arg)

\* The agent answers, with an error or not, or the call times out; get_dtn_info without
\* a path makes no call
Called(t) ==
    /\ CmdAt(t, {"list", "mkdir", "info", "expand"}, "call")
    /\ \E code \in {0, 101} : CmdReply(t, code, {})

-----------------------------------------------------------------------------
\* get_total_size: the storage of every file, and the DTN it points to
SizeNext(t) ==
    /\ CmdAt(t, {"size"}, "begin")
    /\ LET s == cmd[t].arg
       IN  IF s \notin storages \/ pdtn[s] = NoNode THEN CmdThrow(t, s)
           ELSE \/ CmdGoTo(t, "call", {})
                \/ pdtn[s] = Dangling /\ CmdThrow(t, s)

\* an error ends the loop; the next file is of the same storage
SizeCalled(t) ==
    /\ CmdAt(t, {"size"}, "call")
    /\ \/ \E code \in {0, 101} : CmdReply(t, code, {})
       \/ CmdGoTo(t, "begin", {})

-----------------------------------------------------------------------------
\* publish_dtn_user_mapping: the active DTNs first, then their nodes one by one
PublishBegin(t) ==
    /\ CmdAt(t, {"publish"}, "begin")
    /\ CmdGoTo(t, "loop", ActiveDtns)

PublishOne(t) ==
    /\ CmdAt(t, {"publish"}, "loop")
    /\ \E d \in cmd[t].left :
        IF d \in dtns
        THEN /\ cmd' = [cmd EXCEPT ![t].left = @ \ {d}, ![t].got = @ \cup {d}]
             /\ UNCHANGED <<gvars, serverUp, replies, cause, changes, commands>>
        ELSE CmdThrow(t, d)

PublishEnd(t) ==
    /\ CmdAt(t, {"publish"}, "loop") /\ cmd[t].left = {}
    /\ CmdReply(t, 0, cmd[t].got)

-----------------------------------------------------------------------------
\* get_available_best_effort_dtn: the queue of the storage and a call, ...
BestBegin(t) ==
    /\ CmdAt(t, {"best"}, "begin")
    /\ IF cmd[t].arg \in KnownNodes THEN CmdGoTo(t, "storage", {}) ELSE CmdThrow(t, cmd[t].arg)

\* ... then pointers to the nodes of its DTNs ...
BestPointers(t) ==
    /\ CmdAt(t, {"best"}, "storage")
    /\ IF cmd[t].arg \notin storages THEN CmdThrow(t, cmd[t].arg)
       ELSE /\ cmd' = [cmd EXCEPT ![t].at = "loop", ![t].left = ConnectedDtns(cmd[t].arg), ![t].stale = {}]
            /\ UNCHANGED <<gvars, serverUp, replies, cause, changes, commands>>

\* ... which are read before and after a call to each: a pointer to an erased node
\* yields anything
BestOne(t) ==
    /\ CmdAt(t, {"best"}, "loop")
    /\ \E d \in cmd[t].left :
        \/ /\ cmd' = [cmd EXCEPT ![t].left = @ \ {d}, ![t].got = @ \cup {d}]
           /\ UNCHANGED <<gvars, serverUp, replies, cause, changes, commands>>
        \/ /\ d \in cmd[t].stale
           /\ CmdThrow(t, d) \/ CmdGoTo(t, "loop", cmd[t].left \ {d})

\* A mutant that stops at the first DTN
BestEndEarly(t) ==
    /\ CmdAt(t, {"best"}, "loop") /\ cmd[t].got # {}
    /\ CmdReply(t, 0, cmd[t].got)

BestEnd(t) ==
    /\ CmdAt(t, {"best"}, "loop") /\ cmd[t].left = {}
    /\ CmdReply(t, 0, cmd[t].got)

-----------------------------------------------------------------------------
\* The rate that the path of a DTN carries: the lesser of its two edges, and none when
\* it is below LeastRate.  No job is entered into the graph (create_job is called by
\* admission() alone, which nothing calls), so the whole capacity is free.
PathRate(d) ==
    LET least == IF LinkRate < DtnRate[d] THEN LinkRate ELSE DtnRate[d]
    IN  IF least < LeastRate THEN 0 ELSE least

TotalRate(ds) == SumFunction([d \in ds |-> PathRate(d)])

\* A mutant of probe_path_rate that counts the slow paths too
ProbeAll(s, rate) ==
    IF StorageRate0 < rate THEN 4
    ELSE IF StorageRate0 = rate \/ SumFunctionOnSet(DtnRate, ConnectedDtns(s)) <= rate THEN 3
    ELSE 1

\* probe_path_rate: 4 when the storage can never carry the rate, 3 when it or its
\* paths cannot now, 1 when they can
ProbePathRate(s, rate) ==
    IF StorageRate0 < rate THEN 4
    ELSE IF StorageRate0 = rate \/ TotalRate(ConnectedDtns(s)) <= rate THEN 3
    ELSE 1

\* query_path_dtns: the paths in the order of the edges share the rate
Provision(order, rate) ==
    LET after[i \in 0..Len(order)] ==
            IF i = 0 THEN [sum |-> 0, done |-> FALSE, dtns |-> <<>>]
            ELSE LET acc == after[i - 1]
                     most == PathRate(order[i])
                     left == rate - acc.sum
                     share == IF most > left THEN left ELSE most
                 IN  IF acc.done \/ most = 0 THEN acc
                     ELSE [sum |-> acc.sum + share, done |-> most > left, dtns |-> Append(acc.dtns, <<order[i], share>>)]
    IN  after[Len(order)].dtns

\* probe_rate and query_path_dtns; a DTN that registered twice has two edges to the
\* gateway, which probe_path_rate refuses by an exception
Rates(t) ==
    /\ CmdAt(t, {"probe", "query"}, "begin")
    /\ LET s == cmd[t].arg[1]
           rate == cmd[t].arg[2]
           code == ProbePathRate(s, rate)
       IN  IF s \notin storages \/ (StorageRate0 > rate /\ \E d \in ConnectedDtns(s) : gateway[d] # 1) THEN CmdThrow(t, s)
           ELSE IF cmd[t].kind = "probe" THEN CmdReply(t, code, {})
           ELSE IF code # 1 THEN CmdReply(t, 0, <<>>)
           ELSE \E order \in Bijection(1..Cardinality(ConnectedDtns(s)), ConnectedDtns(s)) : CmdReply(t, 0, Provision(order, rate))

SiteNext ==
    \/ SiteChanges
    \/ \E t \in CmdAllThreads :
        \/ CmdArrives(t) \/ Lists(t)
        \/ HasDtn(t) \/ GetDtn(t) \/ GetQueue(t) \/ Called(t)
        \/ SizeNext(t) \/ SizeCalled(t)
        \/ PublishBegin(t) \/ PublishOne(t) \/ PublishEnd(t)
        \/ BestBegin(t) \/ BestPointers(t) \/ BestOne(t) \/ BestEnd(t)
        \/ Rates(t)

SiteSpec == SiteInit /\ [][SiteNext]_siteVars

-----------------------------------------------------------------------------
\* A command ends the server only for want of a node of the graph.  get_file_list,
\* create_folder and publish_dtn_user_mapping ask first, so for them the node must
\* have left while the handler ran; the others also fail for a node that was never
\* there.  A registered node suffices, but for a storage whose DTN is missing
\* (get_total_size) and for one whose DTN registered twice (the rates).
EndsForWantOfNode ==
    \A c \in cause :
        /\ c.kind \in {"list", "mkdir", "publish"} => c.why = "lost"
        /\ c.why = "steady" => c.kind \in {"size", "probe", "query"}

\* Whatever registers and leaves meanwhile, the answers of publish_dtn_user_mapping and
\* get_available_best_effort_dtn take in every DTN that was there (linked to the storage
\* asked for) all the time the handler ran.
SteadyDtnsServed ==
    \A r \in replies :
        /\ r.kind = "publish" => Dtns \ (r.absent \cup r.lost) \subseteq r.dtns
        /\ r.kind = "best" => \A p \in r.start : p[1] = r.arg => p[2] \in r.lost \cup r.dtns \/ r.arg \in r.lost

\* query_path_dtns provides the rate it was asked for exactly, or nothing: what
\* probe_path_rate counts as available is what the loop over the DTNs hands out.
ProvidesAskedRate ==
    \A r \in replies : r.kind = "query" /\ r.dtns # <<>> =>
        /\ SumFunction([i \in DOMAIN r.dtns |-> r.dtns[i][2]]) = r.arg[2]
        /\ \A i \in DOMAIN r.dtns : r.dtns[i][2] <= PathRate(r.dtns[i][1])
=============================================================================
