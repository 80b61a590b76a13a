---------------------------- MODULE Supervisor ----------------------------
(***************************************************************************)
(* Child processes of the DTN agent (utils/process.cc): the data transfer  *)
(* program that supervise_process() keeps running, and the commands that   *)
(* run_process() and run_ping() start with popen().                        *)
(*                                                                         *)
(* Both wait for children of the same process.  supervise_process() waits  *)
(* for any child, so it may collect a child of popen() before pclose()     *)
(* does.  The reader thread of a program that has ended polls descriptors  *)
(* that are closed by then and that a later pipe may reuse.                *)
(***************************************************************************)
EXTENDS Naturals, FiniteSets

CONSTANTS
    PingCallers,    \* threads that run commands with popen()
    Slots       \* descriptor numbers for pipes

VARIABLES
    sup,         \* where supervise_process() is
    status,      \* the status that its last successful waitpid() stored
    prog,        \* the data transfer program
    helper,      \* a process that the program has left behind
    supervising, \* g_supervise_process
    process,     \* the agent process: up, stopping or down
    owner,       \* who has a pipe open at each descriptor
    stale,       \* descriptors that readers of ended programs still poll
    call         \* the command of each caller

supVars == <<sup, status, prog, helper, supervising, process, owner, stale, call>>

NoPing == [pc |-> "idle", by |-> "none", proc |-> "none", good |-> FALSE, text |-> "none",
           code |-> "none"]

\* The children of the agent.  What the program leaves behind becomes one when
\* the program ends (PR_SET_CHILD_SUBREAPER).
ProgIsChild == prog # "none"
HelperIsChild == helper # "none" /\ prog \notin {"running", "stopped"}
NoChild ==
    /\ ~ProgIsChild /\ ~HelperIsChild
    /\ \A t \in PingCallers : call[t].proc = "none"

Up == process \in {"up", "stopping"}
FreeSlots == {s \in Slots : owner[s] = "free"}

-----------------------------------------------------------------------------
(* supervise_process *)

\* pipe(), fork() and execve(); the reader thread starts.  A program that cannot
\* be executed ends at once with exit code 1.
SupStart(s) ==
    /\ Up /\ sup = "start"
    /\ s \in FreeSlots
    /\ owner' = [owner EXCEPT ![s] = "sup"]
    /\ prog' = "running" /\ status' = "exited" /\ sup' = "wait"
    /\ UNCHANGED <<helper, supervising, process, stale, call>>

\* pipe() or fork() fails: exit(1), or an exception that no one catches.
SupStartFails ==
    /\ Up /\ sup = "start"
    /\ process' = "down" /\ sup' = "ended"
    /\ UNCHANGED <<status, prog, helper, supervising, owner, stale, call>>

\* waitpid(-1, &status, WUNTRACED) returns a child.
SupReapProg ==
    /\ Up /\ sup = "wait" /\ prog \in {"exited", "signaled"}
    /\ status' = prog /\ prog' = "none"
    /\ UNCHANGED <<sup, helper, supervising, process, owner, stale, call>>

SupReapHelper ==
    /\ Up /\ sup = "wait" /\ HelperIsChild /\ helper = "exited"
    /\ status' = "exited" /\ helper' = "none"
    /\ UNCHANGED <<sup, prog, supervising, process, owner, stale, call>>

SupReapCommand(t) ==
    /\ Up /\ sup = "wait" /\ call[t].proc = "zombie"
    /\ status' = "exited"
    /\ call' = [call EXCEPT ![t].proc = "none"]
    /\ UNCHANGED <<sup, prog, helper, supervising, process, owner, stale>>

\* It returns a stopped program, once for each stop.
SupSeesStop ==
    /\ Up /\ sup = "wait" /\ prog = "stopped" /\ status # "stopped"
    /\ status' = "stopped"
    /\ UNCHANGED <<sup, prog, helper, supervising, process, owner, stale, call>>

\* It fails because no child is left; the loop ends.
SupNoChild ==
    /\ Up /\ sup = "wait" /\ NoChild
    /\ sup' = "close"
    /\ UNCHANGED <<status, prog, helper, supervising, process, owner, stale, call>>

\* The pipes are closed and the last status decides: restart, or return.  The
\* reader goes on polling the closed descriptors.
SupDecide ==
    /\ Up /\ sup = "close"
    /\ sup' = IF status = "signaled" \/ (status = "exited" /\ supervising) THEN "sleep" ELSE "ended"
    /\ stale' = stale \cup {s \in Slots : owner[s] = "sup"}
    /\ owner' = [s \in Slots |-> IF owner[s] = "sup" THEN "free" ELSE owner[s]]
    /\ UNCHANGED <<status, prog, helper, supervising, process, call>>

\* sleep(restart_interval), then supervise_process() calls itself.
SupAgain ==
    /\ Up /\ sup = "sleep"
    /\ sup' = "start"
    /\ UNCHANGED <<status, prog, helper, supervising, process, owner, stale, call>>

-----------------------------------------------------------------------------
(* The program and the processes it leaves behind *)

ProgEnds(how) ==
    /\ prog \in {"running", "stopped"}
    /\ prog' = how
    /\ UNCHANGED <<sup, status, helper, supervising, process, owner, stale, call>>

ProgStops ==
    /\ prog = "running" /\ prog' = "stopped"
    /\ UNCHANGED <<sup, status, helper, supervising, process, owner, stale, call>>

ProgContinues ==
    /\ prog = "stopped" /\ prog' = "running"
    /\ UNCHANGED <<sup, status, helper, supervising, process, owner, stale, call>>

ProgForks ==
    /\ prog = "running" /\ helper = "none" /\ helper' = "running"
    /\ UNCHANGED <<sup, status, prog, supervising, process, owner, stale, call>>

\* The helper's parent collects it, or the agent later.
HelperEnds ==
    /\ helper = "running"
    /\ helper' = IF prog \in {"running", "stopped"} THEN "none" ELSE "exited"
    /\ UNCHANGED <<sup, status, prog, supervising, process, owner, stale, call>>

-----------------------------------------------------------------------------
(* run_process and run_ping *)

\* popen(): a pipe and a child, or an error.
CallBegin(t, f) ==
    /\ Up /\ call[t].pc = "idle"
    /\ \/ \E s \in FreeSlots :
             /\ owner' = [owner EXCEPT ![s] = t]
             /\ call' = [call EXCEPT ![t] = [NoPing EXCEPT !.pc = "read", !.by = f, !.proc = "running"]]
       \/ /\ call' = [call EXCEPT ![t].code = "failed"]
          /\ UNCHANGED owner
    /\ UNCHANGED <<sup, status, prog, helper, supervising, process, stale>>

\* The command prints its result and ends: good when every packet was answered.
CommandEnds(t, g) ==
    /\ call[t].proc = "running"
    /\ call' = [call EXCEPT ![t].proc = "zombie", ![t].good = g, ![t].text = "printed"]
    /\ UNCHANGED <<sup, status, prog, helper, supervising, process, owner, stale>>

\* A reader left over from an earlier program takes the output: its descriptor
\* now belongs to this command.
StaleRead(t) ==
    /\ Up /\ call[t].pc = "read" /\ call[t].text = "printed"
    /\ \E s \in stale : owner[s] = t
    /\ call' = [call EXCEPT ![t].text = "taken"]
    /\ UNCHANGED <<sup, status, prog, helper, supervising, process, owner, stale>>

\* fgets() until the end of the file.
CallRead(t) ==
    /\ Up /\ call[t].pc = "read" /\ call[t].proc # "running"
    /\ call' = [call EXCEPT ![t].pc = "close", ![t].text = IF @ = "printed" THEN "read" ELSE @]
    /\ UNCHANGED <<sup, status, prog, helper, supervising, process, owner, stale>>

\* What run_process() and run_ping() answer.  When the child is gone, pclose()
\* fails; run_ping() then looks for the packet loss in the text it has read.
ResultTrusting(c) ==
    CASE c.proc = "zombie" -> IF c.good THEN "ok" ELSE "failed"
      [] c.by = "run_process" -> "failed"
      [] OTHER -> "ok"

Result(c) ==
    CASE c.proc = "zombie" -> IF c.good THEN "ok" ELSE "failed"
      [] c.by = "run_process" -> "failed"
      [] OTHER -> IF c.text = "read" /\ c.good THEN "ok" ELSE "failed"

\* pclose()
CallCloseWaiting(t) ==
    /\ Up /\ call[t].pc = "close" /\ call[t].proc = "zombie"
    /\ call' = [call EXCEPT ![t] = [NoPing EXCEPT !.by = call[t].by, !.good = call[t].good, !.code = Result(call[t])]]
    /\ owner' = [s \in Slots |-> IF owner[s] = t THEN "free" ELSE owner[s]]
    /\ UNCHANGED <<sup, status, prog, helper, supervising, process, stale>>

CallClose(t) ==
    /\ Up /\ call[t].pc = "close"
    /\ call' = [call EXCEPT ![t] = [NoPing EXCEPT !.by = call[t].by, !.good = call[t].good, !.code = Result(call[t])]]
    /\ owner' = [s \in Slots |-> IF owner[s] = t THEN "free" ELSE owner[s]]
    /\ UNCHANGED <<sup, status, prog, helper, supervising, process, stale>>

-----------------------------------------------------------------------------
(* The end of the agent *)

\* Main::run after the event loop: stop_process_supervision(), then SIGTERM to the
\* process group.
ProcessStop ==
    /\ process = "up"
    /\ process' = "stopping" /\ supervising' = FALSE
    /\ prog' = IF prog \in {"running", "stopped"} THEN "signaled" ELSE prog
    /\ helper' = IF helper = "running" THEN "exited" ELSE helper
    /\ call' = [t \in PingCallers |-> IF call[t].proc = "running"
                                  THEN [call[t] EXCEPT !.proc = "zombie"] ELSE call[t]]
    /\ UNCHANGED <<sup, status, owner, stale>>

\* The process exits.  A program started meanwhile is sent SIGTERM
\* (PR_SET_PDEATHSIG); what it has left behind is not.
AgentExits ==
    /\ process = "stopping"
    /\ process' = "down" /\ sup' = "ended"
    /\ prog' = "none"
    /\ call' = [t \in PingCallers |-> NoPing]
    /\ UNCHANGED <<status, helper, supervising, owner, stale>>

SupInit ==
    /\ sup = "start" /\ status = "exited" /\ prog = "none" /\ helper = "none"
    /\ supervising = TRUE /\ process = "up"
    /\ owner = [s \in Slots |-> "free"] /\ stale = {}
    /\ call = [t \in PingCallers |-> NoPing]

SupNext ==
    \/ \E s \in Slots : SupStart(s)
    \/ SupStartFails \/ SupReapProg \/ SupReapHelper \/ SupSeesStop \/ SupNoChild
    \/ SupDecide \/ SupAgain
    \/ \E how \in {"exited", "signaled"} : ProgEnds(how)
    \/ ProgStops \/ ProgContinues \/ ProgForks \/ HelperEnds
    \/ \E t \in PingCallers :
          \/ \E f \in {"run_process", "run_ping"} : CallBegin(t, f)
          \/ \E g \in BOOLEAN : CommandEnds(t, g)
          \/ SupReapCommand(t) \/ StaleRead(t) \/ CallRead(t) \/ CallClose(t)
    \/ ProcessStop \/ AgentExits

\* The supervising thread and the callers run; commands end (ping has a deadline);
\* so do processes whose program has ended.  A thread blocked in waitpid() gets to
\* see that no child is left although commands come and go.
SupFairness ==
    /\ WF_supVars(\E s \in Slots : SupStart(s)) /\ WF_supVars(SupReapProg)
    /\ WF_supVars(SupReapHelper) /\ WF_supVars(SupDecide) /\ WF_supVars(SupAgain)
    /\ SF_supVars(SupNoChild)
    /\ WF_supVars(HelperEnds /\ prog \notin {"running", "stopped"})
    /\ WF_supVars(AgentExits)
    /\ \A t \in PingCallers :
          /\ WF_supVars(\E g \in BOOLEAN : CommandEnds(t, g))
          /\ WF_supVars(CallRead(t) \/ CallClose(t))

-----------------------------------------------------------------------------
(* Properties *)

\* A ping is reported as answered only if it was, whoever collected its process
\* and whoever read its output.
PingTruth ==
    \A t \in PingCallers : call[t].code = "ok" => call[t].good

\* Nobody waits for a child that somebody else has collected: supervise_process()
\* relaunches a program that exited or crashed, unless the supervision or the agent is
\* stopped, and every command started with popen() returns to its caller.
ChildrenCollected ==
    /\ prog \in {"exited", "signaled"} ~> (prog = "running" \/ ~supervising \/ ~Up)
    /\ \A t \in PingCallers : call[t].pc # "idle" ~> (call[t].pc = "idle" \/ ~Up)
=============================================================================
