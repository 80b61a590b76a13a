---------------------------- MODULE HostCommands ----------------------------
(***************************************************************************)
(* Commands of a DTN agent that change the host: static routes and ARP     *)
(* entries, the pong thread and the pings to it, directories.  Commands    *)
(* run on the worker threads of the agent, concurrently.                   *)
(***************************************************************************)
EXTENDS Integers

CONSTANTS
    HostThreads,    \* worker threads of the agent
    RouteKeys,      \* destinations of routes and addresses of neighbors
    BadKey,         \* a key that the resolver or the kernel does not accept
    MaxFds,         \* the limit of open files
    MaxHostCmds,    \* bound: commands
    MkdirUsers,          \* users of dtn_mkdir
    NoUser,         \* the empty user
    Dirs,           \* directories of dtn_mkdir whose parent exists
    Orphan          \* a directory whose parent does not

VARIABLES
    hostUp,         \* whether the agent runs
    table,          \* entries of the kernel: <<kind, key>>
    fds,            \* sockets that are open
    ignore,         \* ignore_route_cmds_ and ignore_arp_cmds_
    pong,           \* pong_thread_, its io_service and its echo_server
    conn,           \* the connection of a ping, per thread
    dirOwner,          \* dirOwner of each directory that exists
    hpc,            \* what each thread does
    hostReply,      \* the last reply of each thread
    hostCmds        \* commands so far

pongVars == <<pong, conn>>
hostVars == <<hostUp, table, fds, ignore, pong, conn, dirOwner, hpc, hostReply, hostCmds>>

Free(t) == hostUp /\ hpc[t].at = "idle" /\ hostCmds < MaxHostCmds
IdleThread == [at |-> "idle"]
Returns(t, cmd, code) ==
    /\ hpc' = [hpc EXCEPT ![t] = IdleThread]
    /\ hostReply' = [hostReply EXCEPT ![t] = [cmd |-> cmd, code |-> code]]
Goes(t, r) == hpc' = [hpc EXCEPT ![t] = r] /\ UNCHANGED hostReply
Counted == hostCmds' = hostCmds + 1

-----------------------------------------------------------------------------
(* Routes and neighbors *)

\* socket(), the conversion of the address, and ioctl().  No path closes the socket.
\* The kernel refuses the deletion of what is not there.  utils::add_arp and delete_arp:
\* a neighbor is replaced.
ArpResult(op, key) ==
    IF \/ fds = MaxFds \/ key = BadKey
       \/ op = "delete" /\ <<"arp", key>> \notin table
    THEN "error" ELSE "ok"

\* utils::add_route and delete_route: a second route to a destination is refused.
RouteResult(op, key) ==
    IF \/ fds = MaxFds \/ key = BadKey
       \/ (op = "add") = (<<"route", key>> \in table)
    THEN "error" ELSE "ok"

Kernel(op, kind, key) == IF kind = "route" THEN RouteResult(op, key) ELSE ArpResult(op, key)

\* handle_add_route_command, handle_delete_route_command, handle_add_neighbor_command,
\* handle_delete_neighbor_command
TableCommand(t, op, kind, key) ==
    /\ Free(t) /\ Counted
    /\ IF kind \in ignore
       THEN UNCHANGED <<table, fds>> /\ Returns(t, <<op, kind, key>>, "ignored")
       ELSE /\ fds' = IF fds < MaxFds THEN fds + 1 ELSE fds
            /\ table' = IF Kernel(op, kind, key) = "error" THEN table
                        ELSE IF op = "add" THEN table \cup {<<kind, key>>} ELSE table \ {<<kind, key>>}
            /\ Returns(t, <<op, kind, key>>, Kernel(op, kind, key))
    /\ UNCHANGED <<hostUp, ignore, pongVars, dirOwner>>

-----------------------------------------------------------------------------
(* The pong thread *)

\* The process ends: an exception leaves the pong thread, or a std::thread is assigned
\* while it is joinable.
Terminates == hostUp' = FALSE /\ UNCHANGED <<table, fds, ignore, pong, conn, dirOwner, hpc, hostReply>>

\* handle_start_pong_command: the test and the assignment are two steps.
StartPong(t) ==
    /\ Free(t) /\ Counted
    /\ IF pong.joinable THEN Returns(t, <<"start_pong">>, "error") ELSE Goes(t, [at |-> "assign"])
    /\ UNCHANGED <<hostUp, table, fds, ignore, pongVars, dirOwner>>

AssignPong(t) ==
    /\ hostUp /\ hpc[t].at = "assign" /\ UNCHANGED hostCmds
    /\ \/ pong.joinable /\ Terminates
       \/ /\ ~pong.joinable
          /\ pong' = [pong EXCEPT !.joinable = TRUE, !.thread = "starting"]
          /\ Returns(t, <<"start_pong">>, "ok")
          /\ UNCHANGED <<hostUp, table, fds, ignore, conn, dirOwner>>

\* The thread: the constructor of echo_server listens or throws; run() returns at once
\* when the io_service was ever stopped; at its end the listener is closed, and what is
\* still in its queue is reset.
PongListen ==
    /\ hostUp /\ pong.thread = "starting" /\ UNCHANGED hostCmds
    /\ \/ Terminates
       \/ /\ pong' = [pong EXCEPT !.listening = TRUE, !.thread = IF pong.stopped THEN "ending" ELSE "serving"]
          /\ UNCHANGED <<hostUp, table, fds, ignore, conn, dirOwner, hpc, hostReply>>

PongEnd ==
    /\ hostUp
    /\ pong.thread = "ending" \/ (pong.thread = "serving" /\ pong.stopped)
    /\ pong' = [pong EXCEPT !.thread = "ended", !.listening = FALSE]
    /\ conn' = [t \in HostThreads |-> IF conn[t] = "queued" THEN "reset" ELSE conn[t]]
    /\ UNCHANGED <<hostUp, table, fds, ignore, dirOwner, hpc, hostReply, hostCmds>>

\* echo_server::do_accept and the read and write handlers of echo_session
PongAccept(t) ==
    /\ hostUp /\ pong.thread = "serving" /\ conn[t] = "queued"
    /\ conn' = [conn EXCEPT ![t] = "session"]
    /\ UNCHANGED <<hostUp, table, fds, ignore, pong, dirOwner, hpc, hostReply, hostCmds>>

PongEcho(t) ==
    /\ hostUp /\ pong.thread = "serving" /\ conn[t] = "session" /\ hpc[t].at = "read"
    /\ conn' = [conn EXCEPT ![t] = "echoed"]
    /\ UNCHANGED <<hostUp, table, fds, ignore, pong, dirOwner, hpc, hostReply, hostCmds>>

\* handle_stop_pong_command: test and stop(), then join().
StopPong(t) ==
    /\ Free(t) /\ Counted
    /\ IF pong.joinable
       THEN pong' = [pong EXCEPT !.stopped = TRUE] /\ Goes(t, [at |-> "join"])
       ELSE UNCHANGED pong /\ Returns(t, <<"stop_pong">>, "error")
    /\ UNCHANGED <<hostUp, table, fds, ignore, conn, dirOwner>>

\* A second join() of the same thread throws, or is undefined and ends the process.
JoinPongEarly(t) ==
    /\ hostUp /\ hpc[t].at = "join" /\ UNCHANGED hostCmds
    /\ pong' = [pong EXCEPT !.joinable = FALSE]
    /\ Returns(t, <<"stop_pong">>, "ok")
    /\ UNCHANGED <<hostUp, table, fds, ignore, conn, dirOwner>>

JoinPong(t) ==
    /\ hostUp /\ hpc[t].at = "join" /\ UNCHANGED hostCmds
    /\ \/ /\ pong.joinable /\ pong.thread = "ended"
          /\ pong' = [pong EXCEPT !.joinable = FALSE, !.thread = "none"]
          /\ Returns(t, <<"stop_pong">>, "ok")
          /\ UNCHANGED <<hostUp, table, fds, ignore, conn, dirOwner>>
       \/ /\ ~pong.joinable
          /\ \/ Terminates
             \/ /\ Returns(t, <<"stop_pong">>, "error")
                /\ UNCHANGED <<hostUp, table, fds, ignore, pongVars, dirOwner>>

-----------------------------------------------------------------------------
(* handle_send_ping_command, with a target that runs this program *)

PingConnect(t) ==
    /\ Free(t) /\ Counted
    /\ \/ /\ fds < MaxFds /\ pong.listening
          /\ fds' = fds + 1 /\ conn' = [conn EXCEPT ![t] = "queued"] /\ Goes(t, [at |-> "write"])
       \/ \* no socket; refused, or no answer for 50 ms: the socket is closed
          Returns(t, <<"send_ping">>, "error") /\ UNCHANGED <<fds, conn>>
       \/ \* select() fails: it is not
          fds < MaxFds /\ fds' = fds + 1 /\ Returns(t, <<"send_ping">>, "error") /\ UNCHANGED conn
    /\ UNCHANGED <<hostUp, table, ignore, pong, dirOwner>>

PingWrite(t) ==
    /\ hostUp /\ hpc[t].at = "write"
    /\ Goes(t, [at |-> "read"])
    /\ UNCHANGED <<hostUp, table, fds, ignore, pongVars, dirOwner, hostCmds>>

\* read() waits for the echo or for the end of the connection.
PingRead(t) ==
    /\ hostUp /\ hpc[t].at = "read" /\ conn[t] \in {"echoed", "reset"}
    /\ fds' = fds - 1 /\ conn' = [conn EXCEPT ![t] = "none"]
    /\ Returns(t, <<"send_ping">>, IF conn[t] = "echoed" THEN "ok" ELSE "error")
    /\ UNCHANGED <<hostUp, table, ignore, pong, dirOwner, hostCmds>>

-----------------------------------------------------------------------------
(* handle_mkdir *)

\* A user that is not known is refused.  mkdir(): the response of an error other than
\* EEXIST is dropped and the command goes on, with the code of the error.
Mkdir(t, d, u) ==
    /\ Free(t) /\ Counted
    /\ \E fails \in IF d \in DOMAIN dirOwner THEN {FALSE} ELSE {TRUE} \cup {d \notin Dirs} :
          LET code == IF fails THEN "error" ELSE "ok" IN
          /\ dirOwner' = IF fails \/ d \in DOMAIN dirOwner THEN dirOwner
                         ELSE [x \in DOMAIN dirOwner \cup {d} |-> IF x = d THEN NoUser ELSE dirOwner[x]]
          /\ IF u = NoUser THEN Returns(t, <<"mkdir", d, u>>, code)
             ELSE Goes(t, [at |-> "chown", dir |-> d, user |-> u, code |-> code])
    /\ UNCHANGED <<hostUp, table, fds, ignore, pongVars>>

MkdirUnknown(t) ==
    /\ Free(t) /\ Counted
    /\ Returns(t, <<"mkdir">>, "error")
    /\ UNCHANGED <<hostUp, table, fds, ignore, pongVars, dirOwner>>

Chown(t) ==
    /\ hostUp /\ hpc[t].at = "chown"
    /\ LET d == hpc[t].dir
           u == hpc[t].user
       IN  IF d \in DOMAIN dirOwner
           THEN dirOwner' = [dirOwner EXCEPT ![d] = u] /\ Returns(t, <<"mkdir", d, u>>, hpc[t].code)
           ELSE UNCHANGED dirOwner /\ Returns(t, <<"mkdir", d, u>>, "error")
    /\ UNCHANGED <<hostUp, table, fds, ignore, pongVars, hostCmds>>

-----------------------------------------------------------------------------
HostInit ==
    /\ hostUp = TRUE /\ table = {} /\ fds = 0 /\ ignore \in SUBSET {"route", "arp"}
    /\ pong = [joinable |-> FALSE, thread |-> "none", listening |-> FALSE, stopped |-> FALSE]
    /\ conn = [t \in HostThreads |-> "none"]
    /\ dirOwner = <<>> /\ hostCmds = 0
    /\ hpc = [t \in HostThreads |-> IdleThread]
    /\ hostReply = [t \in HostThreads |-> [cmd |-> <<"none">>, code |-> "ok"]]

HostNext ==
    \/ PongListen \/ PongEnd
    \/ \E t \in HostThreads :
          \/ StartPong(t) \/ AssignPong(t) \/ StopPong(t) \/ JoinPong(t)
          \/ PongAccept(t) \/ PongEcho(t)
          \/ PingConnect(t) \/ PingWrite(t) \/ PingRead(t)
          \/ MkdirUnknown(t) \/ Chown(t)
          \/ \E d \in Dirs \cup {Orphan}, u \in MkdirUsers \cup {NoUser} : Mkdir(t, d, u)
          \/ \E op \in {"add", "delete"}, kind \in {"route", "arp"}, key \in RouteKeys \cup {BadKey} :
                TableCommand(t, op, kind, key)

HostSpec == HostInit /\ [][HostNext]_hostVars

-----------------------------------------------------------------------------
(* Properties *)

\* After "OK" of an add the entry is in the kernel's table, after "OK" of a delete it
\* is gone, and an error has changed nothing.
TableReplyTrue(t) ==
    \A op \in {"add", "delete"}, e \in {"route", "arp"} \X (RouteKeys \cup {BadKey}) :
        /\ hostCmds' # hostCmds /\ hpc'[t] = hpc[t]
        /\ hostReply'[t].cmd = <<op, e[1], e[2]>> /\ hostReply'[t] # hostReply[t]
        => IF hostReply'[t].code = "ok" THEN (e \in table') = (op = "add") ELSE table' = table

\* After "OK" of dtn_stop_pong nothing listens and no pong thread runs.
StopReplyTrue(t) ==
    hpc[t].at = "join" /\ hpc'[t].at = "idle" /\ hostReply'[t].code = "ok"
        => ~pong'.listening /\ pong'.thread = "none"

\* After "OK" of dtn_mkdir for a user the directory exists and belongs to that user.
MkdirReplyTrue(t) ==
    \A d \in Dirs \cup {Orphan}, u \in MkdirUsers :
        /\ hpc[t].at = "chown" /\ hpc'[t].at = "idle"
        /\ hostReply'[t] = [cmd |-> <<"mkdir", d, u>>, code |-> "ok"]
        => d \in DOMAIN dirOwner' /\ dirOwner'[d] = u

\* A reply tells what happened on the host, whatever commands overlap: those that
\* change the kernel's tables, also when the sockets they never close have run out,
\* dtn_stop_pong, and dtn_mkdir for a user.
RepliesTrue ==
    [][\A t \in HostThreads : TableReplyTrue(t) /\ StopReplyTrue(t) /\ MkdirReplyTrue(t)]_hostVars
=============================================================================
