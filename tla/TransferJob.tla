---------------------------- MODULE TransferJob ----------------------------
(***************************************************************************)
(* The life of one transfer job in the BigData Express server              *)
(* (src/server/scheduler.cc).  A raw job is split into sjobs, one per      *)
(* source storage; an sjob document embeds its blocks and its flows.       *)
(* Three kinds of code write these documents, on the worker threads of one *)
(* asio io_service and without any lock:                                   *)
(*                                                                         *)
(*   schedule()    timer; brings a network path up and launches the first  *)
(*                 block of an sjob;                                       *)
(*   poll_rate()   timer; asks the launching agent about the running tasks *)
(*                 and fails the unknown and the inactive ones;            *)
(*   mld_status()  one handler per status message of the mdtm client; it   *)
(*                 verifies the checksum, launches the next block, or ends *)
(*                 the job.                                                *)
(*                                                                         *)
(* Each works on a snapshot of the document read when it starts and writes *)
(* single fields later; a step below is the code between two points where  *)
(* another thread's write matters.  The mdtm client, the launching agent   *)
(* and the MQTT broker are the environment.                                *)
(***************************************************************************)
EXTENDS Integers, Sequences, FiniteSets

CONSTANTS SJobs,           \* the sjobs of the raw job
          NBlocks,         \* number of blocks of each sjob
          ChecksumBlocks,  \* blocks whose file list carries a checksum entry
          RetryLimit,      \* checksum errors before the last try: 2 in the code
          Handlers,        \* worker threads that may run mld_status
          NoSJob,          \* "no sjob": the record of an idle thread
          Overlap,         \* FALSE: a task's next event waits for the
                           \* server's work on that task to end
          MaxDup,          \* how many status messages the broker redelivers
          MaxFail,         \* how many tasks poll_rate() fails
          MaxLeave,        \* how many times the launching agent deregisters
          MaxRestart       \* how many times the server process restarts

Blocks == 1..NBlocks

ASSUME Constants ==
  /\ NBlocks \in Nat \ {0}
  /\ ChecksumBlocks \subseteq Blocks
  /\ RetryLimit \in Nat
  /\ NoSJob \notin SJobs
  /\ {"schedule", "poll", "nobody"} \cap Handlers = {}
  /\ Overlap \in BOOLEAN
  /\ MaxDup \in Nat
  /\ MaxFail \in Nat
  /\ MaxLeave \in Nat
  /\ MaxRestart \in Nat

Threads == {"schedule", "poll"} \cup Handlers

VARIABLES
  rawjob,     \* rawjob.state
  sjob,       \* sjob.state
  block,      \* sjob.blocks[].state
  flow,       \* the state of the entry of sjob.flows
  fblock,     \* ... and its block
  retry,      \* sjob.transfer_retry
  path,       \* the network path of the sjob, as the server requested it
  pc,         \* the code each worker thread runs next
  my,         \* what it remembers: its local variables
  todo,       \* what is left of the snapshots schedule() and poll_rate() loop over
  up,         \* the server process runs
  launcher,   \* a launching agent is registered
  calls,      \* launch requests on their way to the launching agent
  mdtm,       \* blocks the mdtm client is transferring, per task
  delivered,  \* blocks whose content is at the destination
  status,     \* status messages queued for the server, per task
  dups,       \* redeliveries so far
  fails,      \* tasks poll_rate() failed so far
  leaves,     \* deregistrations of the launching agent so far
  restarts    \* restarts so far

store == <<rawjob, sjob, block, flow, fblock, retry>>
budget == <<dups, fails, leaves, restarts>>
world == <<launcher, calls, mdtm, delivered, status>>
vars == <<store, path, pc, my, todo, up, world, budget>>

RawJobState == {"waiting", "transferring", "finished", "error"}
\* sdn_setup stands for wan_setup too, and sdn_teardown for wan_teardown: which
\* network is at work makes no difference here.
SJobState ==
  {"bootstrap", "dtn_matching", "sdn_setup", "path_verification", "launching",
   "transferring", "checksum_verification", "sdn_teardown", "finished", "error"}
BlockState == {"waiting", "transferring", "finished"}
FlowState == {"none", "scheduling", "setting", "transferring", "waiting",
              "waiting_to_be_teared", "error"}

\* The program counters of the three kinds of code, and of the failure code
\* they share.
SchedulePC == {"next", "match", "network", "verify_path", "launch", "launching",
               "launched", "launched_flow", "launched_raw"}
PollPC == {"poll", "unknown", "unknown_drop", "stalled"}
StatusPC == {"one", "one_sjob", "two", "three", "verify_checksum", "mark",
             "release", "finish", "sum", "finish_raw", "relaunch", "relaunching",
             "relaunched", "relaunched_flow", "relaunched_raw"}
FailPC == {"teardown", "fail_sjob", "fail_raw"}
PC == {"idle"} \cup SchedulePC \cup PollPC \cup StatusPC \cup FailPC

Local ==
  [sj    : SJobs \cup {NoSJob},
   blk   : 0..NBlocks,  \* flow["block"] in the snapshot
   next  : 0..NBlocks,  \* the first waiting block of the snapshot, but blk
   rest  : BOOLEAN,     \* all blocks of the snapshot, but blk, are finished
   tries : Nat]         \* transfer_retry in the snapshot

Note(s, b, n) == [sj |-> s, blk |-> b, next |-> n, rest |-> FALSE, tries |-> 0]
Nothing == Note(NoSJob, 0, 0)

\* An sjob of such a snapshot, with the block schedule() will launch, or the
\* block of the flow poll_rate() asks about.
Job == [sj : SJobs, blk : Blocks]
Call == [sj : SJobs, blk : Blocks, by : Threads \cup {"nobody"}]
Abandoned(c) == [sj |-> c.sj, blk |-> c.blk, by |-> "nobody"]

Init ==
  /\ rawjob = "waiting"
  /\ sjob = [s \in SJobs |-> "bootstrap"]
  /\ block = [s \in SJobs |-> [b \in Blocks |-> "waiting"]]
  /\ flow = [s \in SJobs |-> "none"]
  /\ fblock = [s \in SJobs |-> 0]
  /\ retry = [s \in SJobs |-> 0]
  /\ path = [s \in SJobs |-> "none"]
  /\ pc = [t \in Threads |-> "idle"]
  /\ my = [t \in Threads |-> Nothing]
  /\ todo = [t \in {"schedule", "poll"} |-> {}]
  /\ up = TRUE
  /\ launcher = TRUE
  /\ calls = {}
  /\ mdtm = [s \in SJobs |-> {}]
  /\ delivered = [s \in SJobs |-> {}]
  /\ status = [s \in SJobs |-> <<>>]
  /\ dups = 0
  /\ fails = 0
  /\ leaves = 0
  /\ restarts = 0

-----------------------------------------------------------------------------
(* Shared pieces                                                           *)

At(t, label) == up /\ pc[t] = label
Goto(t, label) == pc' = [pc EXCEPT ![t] = label] /\ UNCHANGED my
Enter(t, label, local) ==
  pc' = [pc EXCEPT ![t] = label] /\ my' = [my EXCEPT ![t] = local]

\* n is the first block in state "waiting" of a block list, leaving out one
\* block, or 0 if there is none.
FirstWaiting(n, blocks, but) ==
  LET W == {b \in Blocks \ {but} : blocks[b] = "waiting"}
  IN  IF W = {} THEN n = 0 ELSE n \in W /\ \A c \in W : n <= c

\* The thread is done with its sjob: a handler ends, the two timers go on
\* with their loop, or end when nothing is left in it.
Return(t) ==
  Enter(t, IF t \in Handlers \/ todo'[t] = {} THEN "idle"
           ELSE IF t = "schedule" THEN "next" ELSE "poll", Nothing)

\* teardown_sdn_path and teardown_wan_path: the sjob is put into a teardown
\* state and whatever the flow's ids name is released.
TearDown(s) ==
  /\ sjob' = [sjob EXCEPT ![s] = "sdn_teardown"]
  /\ path' = [path EXCEPT ![s] = IF @ = "held" THEN "released" ELSE @]

\* An uncaught exception, a crash or a kill: every thread is gone, the
\* documents stay.
Down ==
  /\ up' = FALSE
  /\ pc' = [t \in Threads |-> "idle"]
  /\ my' = [t \in Threads |-> Nothing]
  /\ todo' = [t \in {"schedule", "poll"} |-> {}]
  /\ calls' = {Abandoned(c) : c \in calls}

-----------------------------------------------------------------------------
(* schedule()                                                              *)

\* Mutant: without the limit of one flow per sjob (749).
ReadyUnlimited(j) ==
  /\ sjob[j.sj] \in {"bootstrap", "transferring"}
  /\ FirstWaiting(j.blk, block[j.sj], 0)

\* The sjobs of the snapshot that reach the body of the loop, each with its
\* first waiting block.
Ready(j) ==
  /\ sjob[j.sj] \in {"bootstrap", "transferring"}
  /\ flow[j.sj] = "none"
  /\ FirstWaiting(j.blk, block[j.sj], 0)

ScheduleBegin ==
  /\ At("schedule", "idle")
  /\ \E j \in Job : Ready(j)
  /\ todo' = [todo EXCEPT !["schedule"] = {j \in Job : Ready(j)}]
  /\ Goto("schedule", "next")
  /\ UNCHANGED <<store, path, up, world, budget>>

ScheduleNext ==
  /\ At("schedule", "next")
  /\ \E j \in todo["schedule"] :
       /\ todo' = [todo EXCEPT !["schedule"] = @ \ {j}]
       /\ sjob' = [sjob EXCEPT ![j.sj] = "dtn_matching"]
       /\ Enter("schedule", "match", Note(j.sj, 0, j.blk))
  /\ UNCHANGED <<rawjob, block, flow, fblock, retry, path, up, world, budget>>

\* find_best_effort_dtn_pair: no pair (clean up without DTNs: no teardown), a
\* public pair (no path to set up) or a private one.
ScheduleMatch ==
  /\ At("schedule", "match")
  /\ \E l \in {"fail_sjob", "verify_path", "network"} : Goto("schedule", l)
  /\ UNCHANGED <<store, path, todo, up, world, budget>>

\* network_handling: on success the path is held; on an error any part of it
\* may be, and its ids go to schedule_clean_up all the same.  When no WAN path
\* is configured the function returns before it changes the state.
ScheduleNetwork ==
  LET s == my["schedule"].sj
  IN  /\ At("schedule", "network")
      /\ \/ /\ path' = [path EXCEPT ![s] = "held"]
            /\ sjob' = [sjob EXCEPT ![s] = "sdn_setup"]
            /\ \E l \in {"verify_path", "teardown"} : Goto("schedule", l)
         \/ /\ UNCHANGED path
            /\ sjob' = [sjob EXCEPT ![s] = "sdn_setup"] \/ UNCHANGED sjob
            /\ Goto("schedule", "teardown")
      /\ UNCHANGED <<rawjob, block, flow, fblock, retry, todo, up, world, budget>>

ScheduleVerify ==
  LET s == my["schedule"].sj
  IN  /\ At("schedule", "verify_path")
      /\ sjob' = [sjob EXCEPT ![s] = "path_verification"]
      /\ \E l \in {"launch", "teardown"} : Goto("schedule", l)
      /\ UNCHANGED <<rawjob, block, flow, fblock, retry, path, todo, up, world, budget>>

\* insert_flow, then the launch call.
InsertFlow(s) ==
  /\ flow' = [flow EXCEPT ![s] = "scheduling"]
  /\ fblock' = [fblock EXCEPT ![s] = my["schedule"].next]
  /\ sjob' = [sjob EXCEPT ![s] = "launching"]
  /\ UNCHANGED <<rawjob, block, retry, path, launcher, mdtm, delivered, status, budget>>

ScheduleLaunch ==
  LET s == my["schedule"].sj
  IN  /\ At("schedule", "launch")
      /\ launcher
      /\ InsertFlow(s)
      /\ calls' = calls \cup {[sj |-> s, blk |-> my["schedule"].next, by |-> "schedule"]}
      /\ Goto("schedule", "launching")
      /\ UNCHANGED <<todo, up>>

\* rm.launcher() throws when no launcher is registered; nothing catches it.
ScheduleNoLauncher ==
  /\ At("schedule", "launch")
  /\ ~launcher
  /\ InsertFlow(my["schedule"].sj)
  /\ Down

\* The writes after a successful launch call.
ScheduleLaunchedBlock ==
  LET s == my["schedule"].sj
  IN  /\ At("schedule", "launched")
      /\ block' = [block EXCEPT ![s][my["schedule"].next] = "transferring"]
      /\ Goto("schedule", "launched_flow")
      /\ UNCHANGED <<rawjob, sjob, flow, fblock, retry, path, todo, up, world, budget>>

ScheduleLaunchedFlow ==
  LET s == my["schedule"].sj
  IN  /\ At("schedule", "launched_flow")
      /\ flow' = [flow EXCEPT ![s] = "setting"]
      /\ Goto("schedule", "launched_raw")
      /\ UNCHANGED <<rawjob, sjob, block, fblock, retry, path, todo, up, world, budget>>

ScheduleLaunchedRaw ==
  /\ At("schedule", "launched_raw")
  /\ rawjob' = "transferring"
  /\ UNCHANGED <<sjob, block, flow, fblock, retry, path, todo, up, world, budget>>
  /\ Return("schedule")

Schedule ==
  \/ ScheduleBegin \/ ScheduleNext
  \/ ScheduleMatch \/ ScheduleNetwork \/ ScheduleVerify \/ ScheduleLaunch
  \/ ScheduleNoLauncher
  \/ ScheduleLaunchedBlock \/ ScheduleLaunchedFlow \/ ScheduleLaunchedRaw

-----------------------------------------------------------------------------
(* The common end of every failure: teardown, then sjob, then rawjob       *)

FailTearDown(t) ==
  /\ At(t, "teardown")
  /\ TearDown(my[t].sj)
  /\ Goto(t, "fail_sjob")
  /\ UNCHANGED <<rawjob, block, flow, fblock, retry, todo, up, world, budget>>

FailSJob(t) ==
  /\ At(t, "fail_sjob")
  /\ sjob' = [sjob EXCEPT ![my[t].sj] = "error"]
  /\ Goto(t, "fail_raw")
  /\ UNCHANGED <<rawjob, block, flow, fblock, retry, path, todo, up, world, budget>>

FailRaw(t) ==
  /\ At(t, "fail_raw")
  /\ rawjob' = "error"
  /\ UNCHANGED <<sjob, block, flow, fblock, retry, path, todo, up, world, budget>>
  /\ Return(t)

Fail(t) == FailTearDown(t) \/ FailSJob(t) \/ FailRaw(t)

-----------------------------------------------------------------------------
(* poll_rate()                                                             *)

\* The server is at work on the task of s.
Busy(s) == \E t \in Threads : my[t].sj = s

\* The environment may make something new happen to the task of s.
MayHappen(s) == Overlap \/ ~Busy(s)

\* Mutant: flows that were launched but have not reported yet are left out.
SampledRunning(j) == flow[j.sj] = "transferring" /\ fblock[j.sj] = j.blk

\* The flows of the snapshot that are sampled.
Sampled(j) ==
  flow[j.sj] \in {"setting", "transferring"} /\ fblock[j.sj] = j.blk

PollBegin ==
  /\ At("poll", "idle")
  /\ rawjob = "transferring"
  /\ launcher
  /\ \E j \in Job : Sampled(j)
  /\ todo' = [todo EXCEPT !["poll"] = {j \in Job : Sampled(j)}]
  /\ Goto("poll", "poll")
  /\ UNCHANGED <<store, path, up, world, budget>>

\* The mld_rate call about one task of the snapshot.  It times out, says
\* nothing new or reports progress: no state changes.
PollNoNews(j) ==
  /\ todo' = [todo EXCEPT !["poll"] = @ \ {j}]
  /\ Return("poll")
  /\ UNCHANGED fails

\* The loop ends with a task that the mdtm client does not know.
PollUnknownTask(j) ==
  /\ mdtm[j.sj] = {}
  /\ fails < MaxFail /\ MayHappen(j.sj)
  /\ todo' = [todo EXCEPT !["poll"] = {}]
  /\ Enter("poll", "unknown", Note(j.sj, j.blk, 0))
  /\ fails' = fails + 1

\* The task made no progress for inactive_timeout_ms.
PollInactive(j) ==
  /\ fails < MaxFail /\ MayHappen(j.sj)
  /\ todo' = [todo EXCEPT !["poll"] = @ \ {j}]
  /\ Enter("poll", "stalled", Note(j.sj, j.blk, 0))
  /\ fails' = fails + 1

PollRate ==
  /\ At("poll", "poll")
  /\ launcher
  /\ \E j \in todo["poll"] : PollNoNews(j) \/ PollUnknownTask(j) \/ PollInactive(j)
  /\ UNCHANGED <<store, path, up, world, dups, leaves, restarts>>

\* rm.launcher() throws inside the loop when the launcher left meanwhile.
PollNoLauncher ==
  /\ At("poll", "poll")
  /\ ~launcher
  /\ Down
  /\ UNCHANGED <<store, path, launcher, mdtm, delivered, status, budget>>

PollDrop(s) ==
  /\ flow' = [flow EXCEPT ![s] = "error"]
  /\ block' = [block EXCEPT ![s][my["poll"].blk] = "waiting"]

\* An unknown task: teardown first, then the flow and the block.
PollUnknown ==
  /\ At("poll", "unknown")
  /\ TearDown(my["poll"].sj)
  /\ Goto("poll", "unknown_drop")
  /\ UNCHANGED <<rawjob, block, flow, fblock, retry, todo, up, world, budget>>

PollUnknownDrop ==
  /\ At("poll", "unknown_drop")
  /\ PollDrop(my["poll"].sj)
  /\ Goto("poll", "fail_sjob")
  /\ UNCHANGED <<rawjob, sjob, fblock, retry, path, todo, up, world, budget>>

\* Mutant: no teardown (1795).
PollStalledNoTearDown ==
  /\ At("poll", "stalled")
  /\ PollDrop(my["poll"].sj)
  /\ Goto("poll", "fail_sjob")
  /\ UNCHANGED <<rawjob, sjob, fblock, retry, path, todo, up, world, budget>>

\* An inactive task: the flow and the block first, then teardown.
PollStalled ==
  /\ At("poll", "stalled")
  /\ PollDrop(my["poll"].sj)
  /\ Goto("poll", "teardown")
  /\ UNCHANGED <<rawjob, sjob, fblock, retry, path, todo, up, world, budget>>

Poll ==
  \/ PollBegin \/ PollRate
  \/ PollNoLauncher \/ PollUnknown \/ PollUnknownDrop \/ PollStalled

-----------------------------------------------------------------------------
(* mld_status()                                                            *)

\* What the handler takes from the sjob document of the task.
Snapshot(s, n) ==
  [sj |-> s, blk |-> fblock[s], next |-> n,
   rest |-> \A c \in Blocks \ {fblock[s]} : block[s][c] = "finished",
   tries |-> retry[s]]

\* Mutant: everything but "running" means done.
BranchNoError(state) == IF state = 1 THEN "one" ELSE "three"

Branch(state) ==
  CASE state = 1 -> "one" [] state = 2 -> "two" [] state = 3 -> "three"

\* The message is dispatched to a worker thread, which reads the sjob document
\* of the task.  Main::on_msg posts the handlers in the order of the messages;
\* from then on they run concurrently.  When the connection breaks before the
\* clr_retain of on_msg reached the broker, the message comes once more.
StatusBegin(h, s) ==
  /\ At(h, "idle")
  /\ status[s] # <<>>
  /\ MayHappen(s)
  /\ \/ status' = [status EXCEPT ![s] = Tail(@)] /\ UNCHANGED dups
     \/ dups < MaxDup /\ dups' = dups + 1 /\ UNCHANGED status
  /\ \E n \in 0..NBlocks :
       /\ FirstWaiting(n, block[s], fblock[s])
       /\ Enter(h, Branch(Head(status[s])), Snapshot(s, n))
  /\ UNCHANGED <<store, path, todo, up, launcher, calls, mdtm, delivered,
                 fails, leaves, restarts>>

\* State 1: the transfer runs.
StatusRunningFlow(h) ==
  /\ At(h, "one")
  /\ flow' = [flow EXCEPT ![my[h].sj] = "transferring"]
  /\ Goto(h, "one_sjob")
  /\ UNCHANGED <<rawjob, sjob, block, fblock, retry, path, todo, up, world, budget>>

StatusRunningSJob(h) ==
  /\ At(h, "one_sjob")
  /\ sjob' = [sjob EXCEPT ![my[h].sj] = "transferring"]
  /\ UNCHANGED <<rawjob, block, flow, fblock, retry, path, todo, up, world, budget>>
  /\ Return(h)

\* State 2: the transfer failed; the job fails.
StatusError(h) ==
  LET s == my[h].sj
  IN  /\ At(h, "two")
      /\ flow' = [flow EXCEPT ![s] = "error"]
      /\ block' = [block EXCEPT ![s][my[h].blk] = "waiting"]
      /\ Goto(h, "teardown")
      /\ UNCHANGED <<rawjob, sjob, fblock, retry, path, todo, up, world, budget>>

\* Mutant: the block is marked without looking at its checksum.
StatusDoneUnverified(h) ==
  /\ At(h, "three")
  /\ flow' = [flow EXCEPT ![my[h].sj] = "waiting"]
  /\ Goto(h, "mark")
  /\ UNCHANGED <<rawjob, sjob, block, fblock, retry, path, todo, up, world, budget>>

\* State 3: the transfer of the block is done.  Blocks with a checksum are
\* verified first.
StatusDone(h) ==
  LET s == my[h].sj
  IN  /\ At(h, "three")
      /\ flow' = [flow EXCEPT ![s] = "waiting"]
      /\ sjob' = IF my[h].blk \in ChecksumBlocks
                 THEN [sjob EXCEPT ![s] = "checksum_verification"] ELSE sjob
      /\ Goto(h, IF my[h].blk \in ChecksumBlocks THEN "verify_checksum" ELSE "mark")
      /\ UNCHANGED <<rawjob, block, fblock, retry, path, todo, up, world, budget>>

\* The destination site says yes only about content that is there.
ChecksumOk(h) ==
  /\ At(h, "verify_checksum")
  /\ my[h].blk \in delivered[my[h].sj]
  /\ Goto(h, "mark")
  /\ UNCHANGED <<store, path, todo, up, world, budget>>

\* Mutant: one more try than the limit says.
ChecksumFailedLate(h) ==
  /\ At(h, "verify_checksum")
  /\ retry' = [retry EXCEPT ![my[h].sj] = @ + 1]
  /\ Enter(h, IF my[h].tries > RetryLimit THEN "teardown" ELSE "relaunch",
              [my[h] EXCEPT !.next = my[h].blk])
  /\ UNCHANGED <<rawjob, sjob, block, flow, fblock, path, todo, up, world, budget>>

\* A mismatch, or no answer: count it, and give up when the count in the
\* snapshot has reached the limit.
ChecksumFailed(h) ==
  /\ At(h, "verify_checksum")
  /\ retry' = [retry EXCEPT ![my[h].sj] = @ + 1]
  /\ Enter(h, IF my[h].tries >= RetryLimit THEN "teardown" ELSE "relaunch",
              [my[h] EXCEPT !.next = my[h].blk])
  /\ UNCHANGED <<rawjob, sjob, block, flow, fblock, path, todo, up, world, budget>>

MarkFinished(h) ==
  LET s == my[h].sj
  IN  /\ At(h, "mark")
      /\ block' = [block EXCEPT ![s][my[h].blk] = "finished"]
      /\ Goto(h, IF my[h].next # 0 THEN "relaunch" ELSE "release")
      /\ UNCHANGED <<rawjob, sjob, flow, fblock, retry, path, todo, up, world, budget>>

\* all_assigned: no block of the snapshot is left to launch.
Release(h) ==
  LET s == my[h].sj
  IN  /\ At(h, "release")
      /\ flow' = [flow EXCEPT ![s] = "waiting_to_be_teared"]
      /\ TearDown(s)
      /\ IF my[h].rest THEN Goto(h, "finish") ELSE Return(h)
      /\ UNCHANGED <<rawjob, block, fblock, retry, todo, up, world, budget>>

FinishSJob(h) ==
  /\ At(h, "finish")
  /\ sjob' = [sjob EXCEPT ![my[h].sj] = "finished"]
  /\ Goto(h, "sum")
  /\ UNCHANGED <<rawjob, block, flow, fblock, retry, path, todo, up, world, budget>>

\* get_sjobs_from_rawjob_id, and the decision taken from it.
SumUp(h) ==
  /\ At(h, "sum")
  /\ UNCHANGED <<store, path, todo, up, world, budget>>
  /\ IF \A s \in SJobs : sjob[s] = "finished" THEN Goto(h, "finish_raw") ELSE Return(h)

FinishRaw(h) ==
  /\ At(h, "finish_raw")
  /\ rawjob' = "finished"
  /\ UNCHANGED <<sjob, block, flow, fblock, retry, path, todo, up, world, budget>>
  /\ Return(h)

\* Launch my[h].next: the block found, or the same one again after a checksum
\* error.
Relaunch(h) ==
  LET s == my[h].sj
  IN  /\ At(h, "relaunch")
      /\ launcher
      /\ sjob' = [sjob EXCEPT ![s] = "launching"]
      /\ calls' = calls \cup {[sj |-> s, blk |-> my[h].next, by |-> h]}
      /\ Goto(h, "relaunching")
      /\ UNCHANGED <<rawjob, block, flow, fblock, retry, path, todo, up, launcher,
                     mdtm, delivered, status, budget>>

\* Mutant: no teardown (2893).
RelaunchNoLauncherNoTearDown(h) ==
  /\ At(h, "relaunch")
  /\ ~launcher
  /\ Goto(h, "fail_sjob")
  /\ UNCHANGED <<store, path, todo, up, world, budget>>

\* Without a launcher the job fails.
RelaunchNoLauncher(h) ==
  /\ At(h, "relaunch")
  /\ ~launcher
  /\ Goto(h, "teardown")
  /\ UNCHANGED <<store, path, todo, up, world, budget>>

\* The writes after the launch call, whatever it returned.
RelaunchedBlock(h) ==
  /\ At(h, "relaunched")
  /\ block' = [block EXCEPT ![my[h].sj][my[h].next] = "transferring"]
  /\ Goto(h, "relaunched_flow")
  /\ UNCHANGED <<rawjob, sjob, flow, fblock, retry, path, todo, up, world, budget>>

RelaunchedFlow(h) ==
  /\ At(h, "relaunched_flow")
  /\ flow' = [flow EXCEPT ![my[h].sj] = "setting"]
  /\ fblock' = [fblock EXCEPT ![my[h].sj] = my[h].next]
  /\ Goto(h, "relaunched_raw")
  /\ UNCHANGED <<rawjob, sjob, block, retry, path, todo, up, world, budget>>

RelaunchedRaw(h) ==
  /\ At(h, "relaunched_raw")
  /\ rawjob' = "transferring"
  /\ UNCHANGED <<sjob, block, flow, fblock, retry, path, todo, up, world, budget>>
  /\ Return(h)

Status(h) ==
  \/ \E s \in SJobs : StatusBegin(h, s)
  \/ StatusRunningFlow(h) \/ StatusRunningSJob(h)
  \/ StatusError(h)
  \/ StatusDone(h) \/ ChecksumOk(h) \/ ChecksumFailed(h) \/ MarkFinished(h)
  \/ Release(h) \/ FinishSJob(h) \/ SumUp(h) \/ FinishRaw(h)
  \/ Relaunch(h) \/ RelaunchNoLauncher(h)
  \/ RelaunchedBlock(h) \/ RelaunchedFlow(h) \/ RelaunchedRaw(h)

-----------------------------------------------------------------------------
(* The launch call and the environment                                     *)

\* What a caller does with the outcome of its launch call: schedule() cleans
\* up after an error, mld_status() does not look at it.
Answered(t, ok) ==
  IF t = "schedule" THEN IF ok THEN "launched" ELSE "teardown" ELSE "relaunched"

\* rpc.call gives up after 20 seconds; the request is lost or still pending.
CallTimeout ==
  \E c \in calls :
    /\ c.by # "nobody"
    /\ Goto(c.by, Answered(c.by, FALSE))
    /\ \/ calls' = calls \ {c}
       \/ calls' = (calls \ {c}) \cup {Abandoned(c)}
    /\ UNCHANGED <<store, path, todo, up, launcher, mdtm, delivered, status, budget>>

\* The launching agent takes a request: the mdtm client starts, and reports it,
\* or the agent answers with an error.
LauncherServe ==
  \E c \in calls, ok \in BOOLEAN :
    /\ launcher
    /\ calls' = calls \ {c}
    /\ IF c.by = "nobody" THEN UNCHANGED <<pc, my>> ELSE Goto(c.by, Answered(c.by, ok))
    /\ IF ok
       THEN /\ mdtm' = [mdtm EXCEPT ![c.sj] = @ \cup {c.blk}]
            /\ status' = [status EXCEPT ![c.sj] = Append(@, 1)]
       ELSE UNCHANGED <<mdtm, status>>
    /\ UNCHANGED <<store, path, todo, up, launcher, delivered, budget>>

\* The mdtm client ends a transfer, with success or with an error.  A checksum
\* error shows in the content only.
MdtmDone(s) ==
  \E b \in mdtm[s], intact \in BOOLEAN :
    /\ MayHappen(s)
    /\ intact \/ b \in ChecksumBlocks
    /\ mdtm' = [mdtm EXCEPT ![s] = @ \ {b}]
    /\ status' = [status EXCEPT ![s] = Append(@, 3)]
    /\ delivered' = [delivered EXCEPT ![s] = IF intact THEN @ \cup {b} ELSE @]
    /\ UNCHANGED <<store, path, pc, my, todo, up, launcher, calls, budget>>

MdtmError(s) ==
  \E b \in mdtm[s] :
    /\ MayHappen(s)
    /\ mdtm' = [mdtm EXCEPT ![s] = @ \ {b}]
    /\ status' = [status EXCEPT ![s] = Append(@, 2)]
    /\ UNCHANGED <<store, path, pc, my, todo, up, launcher, calls, delivered, budget>>

\* The mdtm client restarts and forgets its tasks.
MdtmRestart ==
  /\ \E s \in SJobs : mdtm[s] # {}
  /\ \A s \in SJobs : mdtm[s] # {} => MayHappen(s)
  /\ mdtm' = [s \in SJobs |-> {}]
  /\ UNCHANGED <<store, path, pc, my, todo, up, launcher, calls, delivered, status, budget>>

\* The launching agent deregisters, and registers again.
LauncherLeave ==
  /\ launcher
  /\ leaves < MaxLeave
  /\ launcher' = FALSE
  /\ leaves' = leaves + 1
  /\ UNCHANGED <<store, path, pc, my, todo, up, calls, mdtm, delivered, status,
                 dups, fails, restarts>>

LauncherReturn ==
  /\ ~launcher
  /\ launcher' = TRUE
  /\ UNCHANGED <<store, path, pc, my, todo, up, calls, mdtm, delivered, status, budget>>

Crash ==
  /\ up
  /\ restarts < MaxRestart
  /\ Down
  /\ UNCHANGED <<store, path, launcher, mdtm, delivered, status, budget>>

\* A new process on the same documents.  Of the statuses published meanwhile the
\* broker has retained the newest.
Restart ==
  /\ ~up
  /\ restarts < MaxRestart
  /\ up' = TRUE
  /\ restarts' = restarts + 1
  /\ status' = [s \in SJobs |-> IF status[s] = <<>> THEN <<>>
                                ELSE <<status[s][Len(status[s])]>>]
  /\ UNCHANGED <<store, path, pc, my, todo, launcher, calls, mdtm, delivered, dups,
                 fails, leaves>>

Environment ==
  \/ CallTimeout \/ LauncherServe \/ MdtmRestart
  \/ LauncherLeave \/ LauncherReturn
  \/ \E s \in SJobs : MdtmDone(s) \/ MdtmError(s)
  \/ Crash \/ Restart

Next ==
  \/ Schedule \/ Poll
  \/ \E h \in Handlers : Status(h)
  \/ \E t \in Threads : Fail(t)
  \/ Environment

Spec == Init /\ [][Next]_vars

-----------------------------------------------------------------------------
(* Properties                                                              *)

\* Every variable has its type: the states are those of typedefs.h, and a
\* thread's record holds what its handler has in its local variables.
TypeOK ==
  /\ rawjob \in RawJobState
  /\ sjob \in [SJobs -> SJobState]
  /\ block \in [SJobs -> [Blocks -> BlockState]]
  /\ flow \in [SJobs -> FlowState]
  /\ fblock \in [SJobs -> 0..NBlocks]
  /\ retry \in [SJobs -> Nat]
  /\ path \in [SJobs -> {"none", "held", "released"}]
  /\ pc \in [Threads -> PC]
  /\ my \in [Threads -> Local]
  /\ todo \in [{"schedule", "poll"} -> SUBSET Job]
  /\ up \in BOOLEAN
  /\ launcher \in BOOLEAN
  /\ calls \in SUBSET Call
  /\ mdtm \in [SJobs -> SUBSET Blocks]
  /\ delivered \in [SJobs -> SUBSET Blocks]
  /\ status \in [SJobs -> Seq(1..3)]
  /\ dups \in Nat /\ fails \in Nat /\ leaves \in Nat /\ restarts \in Nat

\* An sjob that ended, in success or in error, has no network path left behind:
\* on every way to the two final states, of any thread, the teardown requests
\* come first (scheduler.cc:660, 1706, 1795, 2601, 2734, 2817, 2893), and
\* schedule() never brings a path up for an sjob that another thread can end.
EndedHoldsNoPath ==
  \A s \in SJobs : sjob[s] \in {"finished", "error"} => path[s] # "held"

\* A raw job reported finished has the content of every checksummed block at
\* the destination, however messages are duplicated, handlers overlap or the
\* server is restarted: a block is marked finished (scheduler.cc:2760) only
\* behind the verification of that very block, and the "finished" flag comes
\* from a snapshot of such marks.
FinishedIsVerified ==
  rawjob = "finished" => \A s \in SJobs : ChecksumBlocks \subseteq delivered[s]

\* As long as the broker delivers each status once, a raw job reported
\* finished has every block at the destination, checksummed or not.  A status
\* names its task only; the handler takes the block from flow["block"]
\* (scheduler.cc:2521), which another handler writes after its launch call.
FinishedIsDelivered ==
  rawjob = "finished" => \A s \in SJobs : delivered[s] = Blocks

\* A path is brought up for an sjob once: schedule() starts matching DTNs
\* (scheduler.cc:781) only for an sjob that has never had one, although it
\* looks at sjobs in the transferring state too.
FirstMatch ==
  \A s \in SJobs :
    sjob'[s] = "dtn_matching" /\ sjob[s] # "dtn_matching" => path[s] = "none"

MatchedOnce == [][FirstMatch]_vars

\* Checksum errors are counted up to the limit and once more (three times in
\* the code), the last one ending the job, as long as each status is delivered
\* once: the handler compares the count of its snapshot (scheduler.cc:2729),
\* and increments the one in the store.
RetryBound == dups = 0 => \A s \in SJobs : retry[s] <= RetryLimit + 1

\* What goes on for ever: the worker threads run, poll_rate is called every
\* 5 seconds and the inactivity clock runs out for a task that stays silent, a
\* launch call is answered or times out, a launching agent comes back, and the
\* mdtm client ends what it started.
Fairness ==
  /\ WF_vars(Schedule) /\ WF_vars(Poll)
  /\ \A h \in Handlers : WF_vars(Status(h))
  /\ \A t \in Threads : WF_vars(Fail(t))
  /\ SF_vars(PollRate /\ fails' # fails)
  /\ WF_vars(CallTimeout \/ LauncherServe) /\ WF_vars(LauncherReturn)
  /\ WF_vars(\E s \in SJobs : MdtmDone(s) \/ MdtmError(s))

FairSpec == Spec /\ Fairness

\* The job ends: from some point on the raw job stays finished or failed.  This
\* is what the poll loop and its inactivity timeout (scheduler.cc:1788) are for.
JobSettles == <>[](rawjob \in {"finished", "error"})

=============================================================================
