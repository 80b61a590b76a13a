------------------------ MODULE TransferJobInvariant ------------------------
(***************************************************************************)
(* The inductive invariant of TransferJob, and that every step keeps its   *)
(* first parts, for every number of sjobs, blocks and worker threads, every*)
(* interleaving of them, any number of redeliveries and any number of      *)
(* server restarts: types and program counters, the content behind the     *)
(* marks of blocks and the final states and, as long as the broker delivers*)
(* each status once, the one transfer of an sjob that can be under way.    *)
(***************************************************************************)
EXTENDS TransferJob, TLAPS

-----------------------------------------------------------------------------
(* The inductive invariant                                                 *)

\* The program counters at which a thread has no sjob.
FreePC == {"idle", "next", "poll"}

\* schedule() before insert_flow.
BeforeFlowPC == {"match", "network", "verify_path", "launch"}

\* schedule() after it.
AfterFlowPC == {"launching", "launched", "launched_flow", "launched_raw"}

\* A thread runs the code of its own handler, on an sjob; the block it is about
\* to launch is one.
Own(t) ==
  /\ t = "schedule" => pc[t] \in {"idle"} \cup SchedulePC \cup FailPC
  /\ t = "poll" => pc[t] \in {"idle"} \cup PollPC \cup FailPC
  /\ t \in Handlers => pc[t] \in {"idle"} \cup StatusPC \cup FailPC
  /\ pc[t] \in FreePC => my[t] = Nothing
  /\ pc[t] \notin FreePC => my[t].sj \in SJobs
  /\ pc[t] \in BeforeFlowPC \cup {"launching", "launched", "relaunch", "relaunching",
                                 "relaunched", "relaunched_flow"}
       => my[t].next \in Blocks
  /\ pc[t] \in StatusPC => my[t].blk \in Blocks

PcOK == \A t \in Threads : Own(t)

\* Before its flow is inserted an sjob is known to schedule() only.
Untouched(s) ==
  /\ status[s] = <<>> /\ mdtm[s] = {}
  /\ \A c \in calls : c.sj # s
  /\ \A t \in Threads \ {"schedule"} : my[t].sj # s
  /\ \A j \in todo["poll"] : j.sj # s

NoFlowOK == \A s \in SJobs : flow[s] = "none" => Untouched(s)

FlowOK ==
  /\ \A s \in SJobs : flow[s] # "none" => fblock[s] \in Blocks
  /\ pc["schedule"] \in BeforeFlowPC => flow[my["schedule"].sj] = "none"
  /\ pc["schedule"] \in AfterFlowPC => flow[my["schedule"].sj] # "none"

\* What is left in schedule()'s snapshot is still untouched, and listed once.
TodoOK ==
  /\ \A j \in todo["schedule"] :
       /\ flow[j.sj] = "none"
       /\ path[j.sj] = "none"
       /\ my["schedule"].sj # j.sj
  /\ \A j, k \in todo["schedule"] : j.sj = k.sj => j = k

\* A pending call belongs to one thread, which waits for it.
CallOK ==
  /\ \A c \in calls : c.by # "nobody" => pc[c.by] \in {"launching", "relaunching"}
  /\ \A c, d \in calls : c.by = d.by /\ c.by # "nobody" => c = d

\* Where a path can be held: never behind the teardown a thread has done, nor
\* before schedule() asks for it.
NewHoldsNoPath ==
  /\ \A s \in SJobs : flow[s] = "none" /\ sjob[s] \in {"bootstrap", "transferring"}
                        => path[s] = "none"
  /\ pc["schedule"] \in {"match", "network"} => path[my["schedule"].sj] = "none"

TornDown ==
  \A t \in Threads : pc[t] \in {"fail_sjob", "unknown_drop", "finish"}
                        => path[my[t].sj] # "held"

PathOK == NewHoldsNoPath /\ TornDown /\ EndedHoldsNoPath

IInv == TypeOK /\ PcOK /\ NoFlowOK /\ FlowOK /\ TodoOK /\ CallOK /\ PathOK

\* The content of the blocks B behind every mark and every flag a thread holds.
\* Blocks with a checksum are verified; for all blocks see DeliveryInv.
Complete(B, s) == B \subseteq delivered[s]

MarksOK(B) ==
  \A s \in SJobs, b \in B : block[s][b] = "finished" => b \in delivered[s]

FlagOK(B, t) ==
  /\ pc[t] \in {"mark", "release", "finish"} /\ my[t].blk \in B
       => my[t].blk \in delivered[my[t].sj]
  /\ my[t].rest => \A b \in B \ {my[t].blk} : b \in delivered[my[t].sj]
  /\ pc[t] = "finish" => my[t].rest
  /\ pc[t] = "finish_raw" => \A s \in SJobs : Complete(B, s)

EndsOK(B) ==
  /\ \A s \in SJobs : sjob[s] = "finished" => Complete(B, s)
  /\ rawjob = "finished" => \A s \in SJobs : Complete(B, s)

MarksBehind(B) == MarksOK(B) /\ (\A t \in Threads : FlagOK(B, t)) /\ EndsOK(B)

VInv == MarksBehind(ChecksumBlocks)

\* Where the one transfer of an sjob is: its launch call, the mdtm client, its
\* "done" status, or the handler of that status until it launches again.
Called(s) == \E c \in calls : c.sj = s
HasDone(q) == \E i \in DOMAIN q : q[i] = 3
Reported(s) == HasDone(status[s])
Doing(h, s) == my[h].sj = s /\ pc[h] \in {"three", "verify_checksum", "mark", "relaunch"}
Handled(s) == \E h \in Handlers : Doing(h, s)

OneDone(q) == \A i, k \in DOMAIN q : q[i] = 3 /\ q[k] = 3 => i = k
OneTransfer(s) ==
  /\ \A c, d \in calls : c.sj = s /\ d.sj = s => c = d
  /\ \A a, b \in mdtm[s] : a = b
  /\ OneDone(status[s])
  /\ \A g, h \in Handlers : Doing(g, s) /\ Doing(h, s) => g = h
  /\ Called(s) => mdtm[s] = {} /\ ~Reported(s) /\ ~Handled(s)
  /\ mdtm[s] # {} => ~Reported(s) /\ ~Handled(s)
  /\ Reported(s) => ~Handled(s)

\* While there is one, the limit of retries is not exceeded, and its handler knows
\* the count.
Live(s) == flow[s] = "none" \/ Called(s) \/ mdtm[s] # {} \/ Reported(s) \/ Handled(s)

Verifying(h, s) == my[h].sj = s /\ pc[h] \in {"three", "verify_checksum"}
RetriesOK(s) ==
  /\ retry[s] <= RetryLimit + 1
  /\ Live(s) => retry[s] <= RetryLimit
  /\ \A h \in Handlers : Verifying(h, s) => my[h].tries = retry[s]

\* The blocks that a "done" status of s is or will be taken for: the block of the
\* flow, now and after the writes that handlers behind their launch call have ahead.
Relaunches(h, s) == my[h].sj = s /\ pc[h] \in {"relaunching", "relaunched", "relaunched_flow"}
TakenFor(s) == {fblock[s]} \cup {my[h].next : h \in {g \in Handlers : Relaunches(g, s)}}

\* To take a block for done is right when it is at the destination, and harmless
\* when its checksum is verified.
Good(s, b) == b \in delivered[s] \/ b \in ChecksumBlocks

\* So a transfer of block x makes every name right, and a "done" status finds them so.
Heading(s, x) == \A b \in TakenFor(s) : b = x \/ Good(s, b)
TakenOK(s) ==
  /\ \A c \in calls : c.sj = s => Heading(s, c.blk)
  /\ \A b \in mdtm[s] : Heading(s, b)
  /\ Reported(s) \/ Handled(s) => \A b \in TakenFor(s) : Good(s, b)
  /\ \A h \in Handlers : Doing(h, s) => Good(s, my[h].blk)

TransferOK(s) == OneTransfer(s) /\ RetriesOK(s) /\ TakenOK(s)

\* As long as each status is delivered once.
DeliveryInv == dups = 0 => (\A s \in SJobs : TransferOK(s)) /\ MarksBehind(Blocks)

\* The strengthening that the proofs use: IInv is about who may hold a network path,
\* VInv and DeliveryInv about verified and delivered content on its way into the
\* documents (schedule, poll_rate, mld_status).
StrongInv == IInv /\ VInv /\ DeliveryInv

-----------------------------------------------------------------------------
(* Facts about the records and the helpers                               *)

\* The timers and the handlers are threads, and are told apart.
LEMMA ThreadFacts ==
  /\ {"schedule", "poll"} \subseteq Threads /\ Handlers \subseteq Threads
  /\ "schedule" \notin Handlers /\ "poll" \notin Handlers /\ "nobody" \notin Threads
BY Constants, Zenon DEF Threads

\* The names of the states, as facts.
LEMMA Names ==
  /\ "waiting" \in RawJobState /\ "transferring" \in RawJobState
  /\ "finished" \in RawJobState /\ "error" \in RawJobState
  /\ "bootstrap" \in SJobState /\ "dtn_matching" \in SJobState
  /\ "sdn_setup" \in SJobState /\ "path_verification" \in SJobState
  /\ "launching" \in SJobState /\ "transferring" \in SJobState
  /\ "checksum_verification" \in SJobState /\ "sdn_teardown" \in SJobState
  /\ "finished" \in SJobState /\ "error" \in SJobState
  /\ "waiting" \in BlockState /\ "transferring" \in BlockState
  /\ "finished" \in BlockState
  /\ "none" \in FlowState /\ "scheduling" \in FlowState
  /\ "setting" \in FlowState /\ "transferring" \in FlowState
  /\ "waiting" \in FlowState /\ "waiting_to_be_teared" \in FlowState
  /\ "error" \in FlowState
  /\ "idle" \in PC /\ "next" \in PC /\ "match" \in PC /\ "network" \in PC
  /\ "verify_path" \in PC /\ "launch" \in PC /\ "launching" \in PC
  /\ "launched" \in PC /\ "launched_flow" \in PC /\ "launched_raw" \in PC
  /\ "poll" \in PC /\ "unknown" \in PC /\ "unknown_drop" \in PC
  /\ "stalled" \in PC /\ "one" \in PC /\ "one_sjob" \in PC /\ "two" \in PC
  /\ "three" \in PC /\ "verify_checksum" \in PC /\ "mark" \in PC
  /\ "release" \in PC /\ "finish" \in PC /\ "sum" \in PC
  /\ "finish_raw" \in PC /\ "relaunch" \in PC /\ "relaunching" \in PC
  /\ "relaunched" \in PC /\ "relaunched_flow" \in PC
  /\ "relaunched_raw" \in PC /\ "teardown" \in PC /\ "fail_sjob" \in PC
  /\ "fail_raw" \in PC
BY Zenon DEF RawJobState, SJobState, BlockState, FlowState, PC,
       SchedulePC, PollPC, StatusPC, FailPC

\* What a thread's record holds.
LEMMA NoteFields ==
  \A s, b, n : /\ Note(s, b, n).sj = s /\ Note(s, b, n).blk = b
                /\ Note(s, b, n).next = n /\ Note(s, b, n).rest = FALSE
BY Zenon DEF Note

\* The record of an idle thread names no sjob.
LEMMA NothingFields == Nothing.sj \notin SJobs /\ Nothing.rest = FALSE
BY Constants, Zenon DEF Nothing, Note

\* A note is a thread's record.
LEMMA NoteType == \A s \in SJobs, b, n \in 0..NBlocks : Note(s, b, n) \in Local
BY Zenon DEF Note, Local

\* So is the record of an idle thread.
LEMMA NothingType == Nothing \in Local
BY Constants DEF Nothing, Note, Local

\* ... and a record with another next block.
LEMMA NextType == \A l \in Local, n \in 0..NBlocks : [l EXCEPT !.next = n] \in Local
BY Zenon DEF Local

\* What an entry of a snapshot holds.
LEMMA JobFields == \A j \in Job : j.sj \in SJobs /\ j.blk \in Blocks
BY Zenon DEF Job

\* Two entries of a snapshot with the same fields are the same.
LEMMA JobEqual == \A j, k \in Job : j.sj = k.sj /\ j.blk = k.blk => j = k
BY DEF Job

\* The same, with the block among the block numbers and 0.
LEMMA JobType == \A j \in Job : j.sj \in SJobs /\ j.blk \in 0..NBlocks /\ 0 \in 0..NBlocks
BY Constants DEF Job, Blocks

\* What a launch request holds.
LEMMA CallFields ==
  \A c \in Call : c.sj \in SJobs /\ c.blk \in Blocks /\ c.by \in Threads \cup {"nobody"}
BY Zenon DEF Call

\* A status message leads to one of the three branches.
LEMMA BranchType ==
  \A q \in Seq(1..3) : q # <<>> => Branch(Head(q)) \in {"one", "two", "three"}
<1>1. \A q \in Seq(1..3) : q # <<>> => Head(q) \in 1..3
  OBVIOUS
<1> QED
  BY <1>1 DEF Branch

\* What mld_status() takes from the sjob document.
LEMMA SnapshotFields ==
  \A s, n : /\ Snapshot(s, n).sj = s /\ Snapshot(s, n).blk = fblock[s]
            /\ Snapshot(s, n).rest
                 => \A c \in Blocks \ {fblock[s]} : block[s][c] = "finished"
BY Zenon DEF Snapshot

\* The first waiting block is determined by the block list.
LEMMA FirstUnique ==
  ASSUME NEW l, NEW but, NEW m \in Blocks, NEW n \in Blocks,
         FirstWaiting(m, l, but), FirstWaiting(n, l, but)
  PROVE  m = n
BY Constants DEF FirstWaiting, Blocks

\* What is left of the server's memory when the process ends.
LEMMA DownType ==
  TypeOK /\ Down => /\ up' \in BOOLEAN
                    /\ pc' \in [Threads -> PC]
                    /\ my' \in [Threads -> Local]
                    /\ todo' \in [{"schedule", "poll"} -> SUBSET Job]
                    /\ calls' \in SUBSET Call
<1> SUFFICES ASSUME TypeOK, Down PROVE
               /\ up' \in BOOLEAN
               /\ pc' \in [Threads -> PC]
               /\ my' \in [Threads -> Local]
               /\ todo' \in [{"schedule", "poll"} -> SUBSET Job]
               /\ calls' \in SUBSET Call
  BY Zenon
<1>1. \A c \in Call : Abandoned(c) \in Call
  BY Zenon DEF Call, Abandoned
<1>2. calls' \in SUBSET Call
  BY <1>1 DEF Down, TypeOK
<1> QED
  BY <1>2, NothingType, Zenon DEF Down, PC

\* No thread and no snapshot survives; the requests on their way do.
LEMMA DownFacts ==
  ASSUME TypeOK, Down
  PROVE  /\ \A t \in Threads : pc'[t] = "idle" /\ my'[t] = Nothing
         /\ todo'["schedule"] = {} /\ todo'["poll"] = {}
         /\ \A c \in calls' : c.by = "nobody" /\ \E d \in calls : c.sj = d.sj
BY DEF Down, Abandoned, TypeOK

\* An sjob that nothing names is named by nothing after the process ended.
LEMMA DownUntouched ==
  ASSUME TypeOK, Down, NEW r \in SJobs, Untouched(r), UNCHANGED <<status, mdtm>>
  PROVE  Untouched(r)'
<1>1. \A c \in calls' : c.sj # r
  BY DownFacts, Zenon DEF Untouched
<1>2. \A t \in Threads : my'[t].sj # r
  BY DownFacts, NothingFields, Zenon
<1> QED
  BY <1>1, <1>2, DownFacts, Zenon DEF Untouched

\* A thread at work has an sjob; if it is not schedule(), the sjob has its flow.
LEMMA Working ==
  ASSUME IInv, NEW t \in Threads, pc[t] \notin FreePC
  PROVE  my[t].sj \in SJobs /\ (t # "schedule" => flow[my[t].sj] # "none")
BY DEF IInv, PcOK, Own, NoFlowOK, Untouched

-----------------------------------------------------------------------------
(* The steps keep the inductive invariant, conjunct by conjunct            *)

\* Every step of the code keeps the types: the steps of schedule.
LEMMA TypeSchedule == TypeOK /\ PcOK /\ Schedule => TypeOK'
<1> SUFFICES ASSUME TypeOK /\ PcOK, Schedule PROVE TypeOK'
  BY Zenon
<1> USE DEF TypeOK, At, Goto, store, world, budget
<1>1. CASE ScheduleBegin
  BY <1>1, Names, ThreadFacts, NothingType, Zenon DEF ScheduleBegin
<1>2. CASE ScheduleNext
  <2>1. PICK j \in todo["schedule"] :
          /\ todo' = [todo EXCEPT !["schedule"] = @ \ {j}]
          /\ sjob' = [sjob EXCEPT ![j.sj] = "dtn_matching"]
          /\ Enter("schedule", "match", Note(j.sj, 0, j.blk))
    BY Names, <1>2, Zenon DEF ScheduleNext
  <2>2. Note(j.sj, 0, j.blk) \in Local
    BY NoteType, JobType, ThreadFacts, Zenon
  <2> QED
    BY Names, <1>2, <2>1, <2>2, ThreadFacts, Zenon DEF ScheduleNext, Enter
<1>3. CASE ScheduleMatch
  BY <1>3, Names, ThreadFacts, NothingType DEF ScheduleMatch
<1>4. CASE ScheduleNetwork
  <2>1. PICK l \in {"verify_path", "teardown"} : Goto("schedule", l)
    BY Names, <1>4, Zenon DEF ScheduleNetwork
  <2>2. pc' \in [Threads -> PC] /\ my' = my
    BY Names, <2>1, ThreadFacts, Zenon
  <2>3. path' \in [SJobs -> {"none", "held", "released"}]
    BY <1>4, Zenon DEF ScheduleNetwork
  <2>4. sjob' = [sjob EXCEPT ![my["schedule"].sj] = "sdn_setup"] \/ sjob' = sjob
    BY <1>4, Zenon DEF ScheduleNetwork
  <2>5. sjob' \in [SJobs -> SJobState]
    BY <2>4, Names, ZenonT(30)
  <2> QED
    BY Names, <1>4, <2>2, <2>3, <2>5, Zenon DEF ScheduleNetwork
<1>5. CASE ScheduleVerify
  <2>1. PICK l \in {"launch", "teardown"} : Goto("schedule", l)
    BY Names, <1>5, Zenon DEF ScheduleVerify
  <2>2. pc' \in [Threads -> PC] /\ my' = my
    BY Names, <2>1, ThreadFacts, Zenon
  <2>3. path' \in [SJobs -> {"none", "held", "released"}] /\ sjob' \in [SJobs -> SJobState]
    BY Names, <1>5, Zenon DEF ScheduleVerify
  <2> QED
    BY Names, <1>5, <2>2, <2>3, Zenon DEF ScheduleVerify
<1>6. CASE ScheduleLaunch
  <2>1. my["schedule"].sj \in SJobs /\ my["schedule"].next \in Blocks
    BY Names, <1>6, ThreadFacts, Zenon
       DEF ScheduleLaunch, PcOK, Own, FreePC, BeforeFlowPC
  <2>2. calls' \in SUBSET Call
    BY Names, <1>6, <2>1, ThreadFacts, SMTT(30) DEF ScheduleLaunch, Call
  <2> QED
    BY Names, <1>6, <2>1, <2>2, ThreadFacts, Constants
       DEF ScheduleLaunch, InsertFlow, Blocks
<1>7. CASE ScheduleNoLauncher
  <2>1. my["schedule"].sj \in SJobs /\ my["schedule"].next \in Blocks
    BY Names, <1>7, ThreadFacts, Zenon
       DEF ScheduleNoLauncher, PcOK, Own, FreePC, BeforeFlowPC
  <2>2. Down
    BY Names, <1>7, Zenon DEF ScheduleNoLauncher
  <2> QED
    BY Names, <1>7, <2>1, <2>2, DownType, Constants, SMTT(30)
       DEF ScheduleNoLauncher, InsertFlow, Blocks
<1>8. CASE ScheduleLaunchedBlock
  BY <1>8, Names, ThreadFacts, NothingType, Zenon DEF ScheduleLaunchedBlock
<1>9. CASE ScheduleLaunchedFlow
  BY <1>9, Names, ThreadFacts, NothingType, Zenon DEF ScheduleLaunchedFlow
<1>10. CASE ScheduleLaunchedRaw
  BY <1>10, Names, ThreadFacts, NothingType, Zenon
     DEF ScheduleLaunchedRaw, Return, Enter
<1> QED
  BY <1>1, <1>2, <1>3, <1>4, <1>5, <1>6, <1>7, <1>8, <1>9, <1>10, Zenon
     DEF Schedule

\* Every step of the code keeps the types: the steps of poll_rate.
LEMMA TypePoll == TypeOK /\ PcOK /\ Poll => TypeOK'
<1> SUFFICES ASSUME TypeOK /\ PcOK, Poll PROVE TypeOK'
  BY Zenon
<1> USE DEF TypeOK, At, Goto, store, world, budget
<1>1. CASE PollBegin
  BY <1>1, Names, ThreadFacts, NothingType, Zenon DEF PollBegin
<1>2. CASE PollRate
  <2>1. PICK j \in todo["poll"] : PollNoNews(j) \/ PollUnknownTask(j) \/ PollInactive(j)
    BY Names, <1>2, Zenon DEF PollRate
  <2>2. j \in Job /\ Note(j.sj, j.blk, 0) \in Local
    BY NoteType, JobType, Zenon
  <2>3. CASE PollNoNews(j)
    BY Names, <1>2, <2>2, <2>3, ThreadFacts, NothingType, Zenon DEF PollRate, PollNoNews, Return, Enter
  <2>4. CASE PollUnknownTask(j)
    BY Names, <1>2, <2>2, <2>4, ThreadFacts, SMTT(30) DEF PollRate, PollUnknownTask, Enter
  <2>5. CASE PollInactive(j)
    BY Names, <1>2, <2>2, <2>5, ThreadFacts DEF PollRate, PollInactive, Enter
  <2> QED
    BY Names, <2>1, <2>3, <2>4, <2>5, Zenon
<1>3. CASE PollNoLauncher
  BY Names, <1>3, DownType, Zenon DEF PollNoLauncher
<1>4. CASE PollUnknown
  BY <1>4, Names, ThreadFacts, NothingType, Zenon DEF PollUnknown, TearDown
<1>5. CASE PollUnknownDrop
  BY <1>5, Names, ThreadFacts, NothingType, Zenon DEF PollUnknownDrop, PollDrop
<1>6. CASE PollStalled
  BY <1>6, Names, ThreadFacts, NothingType, Zenon DEF PollStalled, PollDrop
<1> QED
  BY <1>1, <1>2, <1>3, <1>4, <1>5, <1>6, Zenon DEF Poll

\* Every step of the code keeps the types: the steps of mld_status.
LEMMA TypeStatus == TypeOK /\ PcOK /\ (\E h \in Handlers : Status(h)) => TypeOK'
<1> SUFFICES ASSUME TypeOK /\ PcOK, (\E h \in Handlers : Status(h)) PROVE TypeOK'
  BY Zenon
<1> USE DEF TypeOK, At, Goto, store, world, budget
<1>1. ASSUME NEW h \in Handlers, NEW s \in SJobs, StatusBegin(h, s) PROVE TypeOK'
  <2>1. PICK n \in 0..NBlocks : Enter(h, Branch(Head(status[s])), Snapshot(s, n))
    BY Names, <1>1, Zenon DEF StatusBegin
  <2>2. status[s] \in Seq(1..3) /\ status[s] # <<>>
    BY Names, <1>1, Zenon DEF StatusBegin
  <2>3. Head(status[s]) \in 1..3 /\ Tail(status[s]) \in Seq(1..3)
    BY Names, <2>2
  <2>4. Branch(Head(status[s])) \in PC
    BY Names, <2>3 DEF Branch
  <2>5. Snapshot(s, n) \in Local
    BY Zenon DEF Local, Snapshot
  <2>6. pc' \in [Threads -> PC] /\ my' \in [Threads -> Local]
    BY Names, <2>1, <2>4, <2>5, Zenon DEF Enter
  <2>7. status' \in [SJobs -> Seq(1..3)] /\ dups' \in Nat
    <3>1. CASE status' = [status EXCEPT ![s] = Tail(@)] /\ UNCHANGED dups
      BY Names, <2>3, <3>1, Zenon
    <3>2. CASE dups' = dups + 1 /\ UNCHANGED status
      BY Names, <3>2
    <3> QED
      BY Names, <1>1, <3>1, <3>2, Zenon DEF StatusBegin
  <2> QED
    BY Names, <1>1, <2>6, <2>7, Zenon DEF StatusBegin
<1>2. ASSUME NEW h \in Handlers, StatusRunningFlow(h) PROVE TypeOK'
  BY <1>2, Names, ThreadFacts, NothingType, Zenon DEF StatusRunningFlow
<1>3. ASSUME NEW h \in Handlers, StatusRunningSJob(h) PROVE TypeOK'
  BY <1>3, Names, ThreadFacts, NothingType, Zenon
     DEF StatusRunningSJob, Return, Enter
<1>4. ASSUME NEW h \in Handlers, StatusError(h) PROVE TypeOK'
  BY <1>4, Names, ThreadFacts, NothingType, Zenon DEF StatusError
<1>5. ASSUME NEW h \in Handlers, StatusDone(h) PROVE TypeOK'
  BY <1>5, Names, ThreadFacts, NothingType, Zenon DEF StatusDone
<1>6. ASSUME NEW h \in Handlers, ChecksumOk(h) PROVE TypeOK'
  BY <1>6, Names, ThreadFacts, NothingType, Zenon DEF ChecksumOk
<1>7. ASSUME NEW h \in Handlers, ChecksumFailed(h) PROVE TypeOK'
  <2>1. [my[h] EXCEPT !.next = my[h].blk] \in Local
    <3>1. my[h] \in Local /\ my[h].blk \in 0..NBlocks
      BY ThreadFacts, Zenon DEF Local
    <3> QED
      BY Names, <3>1, NextType, Zenon
  <2>2. my[h].sj \in SJobs
    BY Names, <1>7, ThreadFacts, Zenon DEF ChecksumFailed, PcOK, Own, FreePC
  <2>3. retry' \in [SJobs -> Nat]
    BY Names, <1>7, <2>2, SMTT(30) DEF ChecksumFailed
  <2> QED
    BY Names, <1>7, <2>1, <2>3, ThreadFacts, Zenon DEF ChecksumFailed, Enter
<1>8. ASSUME NEW h \in Handlers, MarkFinished(h) PROVE TypeOK'
  BY <1>8, Names, ThreadFacts, NothingType, Zenon DEF MarkFinished
<1>9. ASSUME NEW h \in Handlers, Release(h) PROVE TypeOK'
  <2>1. pc' \in [Threads -> PC] /\ my' \in [Threads -> Local]
    <3>1. CASE my[h].rest
      BY Names, <1>9, <3>1, Zenon DEF Release
    <3>2. CASE ~my[h].rest
      BY Names, <1>9, <3>2, NothingType, Zenon DEF Release, Return, Enter
    <3> QED
      BY Names, <3>1, <3>2, Zenon
  <2> QED
    BY Names, <1>9, <2>1, Zenon DEF Release, TearDown
<1>10. ASSUME NEW h \in Handlers, FinishSJob(h) PROVE TypeOK'
  BY <1>10, Names, ThreadFacts, NothingType, Zenon DEF FinishSJob
<1>11. ASSUME NEW h \in Handlers, SumUp(h) PROVE TypeOK'
  <2>1. pc' \in [Threads -> PC] /\ my' \in [Threads -> Local]
    <3>1. CASE \A s \in SJobs : sjob[s] = "finished"
      BY Names, <1>11, <3>1, Zenon DEF SumUp
    <3>2. CASE ~ \A s \in SJobs : sjob[s] = "finished"
      BY Names, <1>11, <3>2, NothingType, Zenon DEF SumUp, Return, Enter
    <3> QED
      BY Names, <3>1, <3>2, Zenon
  <2> QED
    BY Names, <1>11, <2>1, Zenon DEF SumUp
<1>12. ASSUME NEW h \in Handlers, FinishRaw(h) PROVE TypeOK'
  BY <1>12, Names, ThreadFacts, NothingType, Zenon DEF FinishRaw, Return, Enter
<1>13. ASSUME NEW h \in Handlers, Relaunch(h) PROVE TypeOK'
  <2>1. my[h].sj \in SJobs /\ my[h].next \in Blocks
    BY Names, <1>13, ThreadFacts, ZenonT(30) DEF Relaunch, PcOK, Own, FreePC
  <2>2. calls' \in SUBSET Call
    BY Names, <1>13, <2>1, ThreadFacts, SMTT(30) DEF Relaunch, Call
  <2> QED
    BY Names, <1>13, <2>2, ThreadFacts, Zenon DEF Relaunch
<1>14. ASSUME NEW h \in Handlers, RelaunchNoLauncher(h) PROVE TypeOK'
  BY <1>14, Names, ThreadFacts, NothingType, Zenon DEF RelaunchNoLauncher
<1>15. ASSUME NEW h \in Handlers, RelaunchedBlock(h) PROVE TypeOK'
  BY <1>15, Names, ThreadFacts, NothingType, Zenon DEF RelaunchedBlock
<1>16. ASSUME NEW h \in Handlers, RelaunchedFlow(h) PROVE TypeOK'
  <2>1. my[h].next \in 0..NBlocks
    BY ThreadFacts, Zenon DEF Local
  <2> QED
    BY Names, <1>16, <2>1, ThreadFacts, Zenon DEF RelaunchedFlow
<1>17. ASSUME NEW h \in Handlers, RelaunchedRaw(h) PROVE TypeOK'
  BY <1>17, Names, ThreadFacts, NothingType, Zenon DEF RelaunchedRaw, Return, Enter
<1> QED
  BY <1>1, <1>2, <1>3, <1>4, <1>5, <1>6, <1>7, <1>8, <1>9, <1>10, <1>11,
     <1>12, <1>13, <1>14, <1>15, <1>16, <1>17, ZenonT(30) DEF Status

\* Every step of the code keeps the types: failures, the launching agent and
\* restarts.
LEMMA TypeRest == TypeOK /\ PcOK /\ ((\E t \in Threads : Fail(t)) \/ Environment \/ UNCHANGED vars) => TypeOK'
<1> SUFFICES ASSUME TypeOK /\ PcOK, ((\E t \in Threads : Fail(t)) \/ Environment \/ UNCHANGED vars) PROVE TypeOK'
  BY Zenon
<1> USE DEF TypeOK, At, Goto, store, world, budget
<1>1. ASSUME NEW t \in Threads, FailTearDown(t) PROVE TypeOK'
  BY <1>1, Names, ThreadFacts, NothingType, Zenon DEF FailTearDown, TearDown
<1>2. ASSUME NEW t \in Threads, FailSJob(t) PROVE TypeOK'
  BY <1>2, Names, ThreadFacts, NothingType, Zenon DEF FailSJob
<1>3. ASSUME NEW t \in Threads, FailRaw(t) PROVE TypeOK'
  BY <1>3, Names, ThreadFacts, NothingType, Zenon DEF FailRaw, Return, Enter
<1>4. CASE CallTimeout
  <2>1. PICK c \in calls :
          /\ c.by # "nobody"
          /\ Goto(c.by, Answered(c.by, FALSE))
          /\ \/ calls' = calls \ {c}
             \/ calls' = (calls \ {c}) \cup {Abandoned(c)}
    BY Names, <1>4, Zenon DEF CallTimeout
  <2>2. c \in Call /\ Abandoned(c) \in Call
    BY Zenon DEF Call, Abandoned
  <2>3. calls' \in SUBSET Call
    BY Names, <2>1, <2>2, Zenon
  <2>4. pc' \in [Threads -> PC]
    BY Names, <2>1, <2>2, Zenon DEF Call, Answered
  <2> QED
    BY Names, <1>4, <2>1, <2>3, <2>4, ZenonT(30) DEF CallTimeout
<1>5. CASE LauncherServe
  <2>1. PICK c \in calls, ok \in BOOLEAN :
          /\ calls' = calls \ {c}
          /\ IF c.by = "nobody" THEN UNCHANGED <<pc, my>> ELSE Goto(c.by, Answered(c.by, ok))
          /\ IF ok
             THEN /\ mdtm' = [mdtm EXCEPT ![c.sj] = @ \cup {c.blk}]
                  /\ status' = [status EXCEPT ![c.sj] = Append(@, 1)]
             ELSE UNCHANGED <<mdtm, status>>
    BY Names, <1>5, Zenon DEF LauncherServe
  <2>2. c.sj \in SJobs /\ c.blk \in Blocks /\ c.by \in Threads \cup {"nobody"}
    BY Zenon DEF Call
  <2>3. pc' \in [Threads -> PC] /\ my' = my
    BY Names, <2>1, <2>2, Zenon DEF Answered
  <2>4. Append(status[c.sj], 1) \in Seq(1..3)
    BY Names, <2>2
  <2>5. mdtm' \in [SJobs -> SUBSET Blocks] /\ status' \in [SJobs -> Seq(1..3)]
    <3>1. CASE ok
      <4>1. /\ mdtm' = [mdtm EXCEPT ![c.sj] = @ \cup {c.blk}]
            /\ status' = [status EXCEPT ![c.sj] = Append(@, 1)]
        BY Names, <2>1, <3>1, Zenon
      <4> QED
        BY Names, <2>2, <2>4, <4>1, Zenon
    <3>2. CASE ~ok
      BY Names, <2>1, <3>2, Zenon
    <3> QED
      BY Names, <3>1, <3>2, Zenon
  <2> QED
    BY Names, <1>5, <2>1, <2>3, <2>5, Zenon DEF LauncherServe
<1>6. ASSUME NEW s \in SJobs, MdtmDone(s) PROVE TypeOK'
  BY <1>6, Names, ThreadFacts, NothingType DEF MdtmDone
<1>7. ASSUME NEW s \in SJobs, MdtmError(s) PROVE TypeOK'
  BY <1>7, Names, ThreadFacts, NothingType, SMTT(30) DEF MdtmError
<1>8. CASE MdtmRestart
  BY <1>8, Names, ThreadFacts, NothingType, Zenon DEF MdtmRestart
<1>9. CASE LauncherLeave
  <2>1. leaves' \in Nat
    BY Names, <1>9, SMTT(30) DEF LauncherLeave
  <2> QED
    BY Names, <1>9, <2>1, Zenon DEF LauncherLeave
<1>10. CASE LauncherReturn
  BY <1>10, Names, ThreadFacts, NothingType, ZenonT(30) DEF LauncherReturn
<1>11. CASE Crash
  BY Names, <1>11, DownType, Zenon DEF Crash
<1>12. CASE Restart
  <2>1. ASSUME NEW s \in SJobs, status[s] # <<>> PROVE <<status[s][Len(status[s])]>> \in Seq(1..3)
    <3>1. status[s] \in Seq(1..3) /\ Len(status[s]) \in 1..Len(status[s])
      BY Names, <2>1
    <3> QED
      BY Names, <3>1
  <2>2. status' \in [SJobs -> Seq(1..3)]
    BY Names, <1>12, <2>1, Zenon DEF Restart
  <2>3. restarts' \in Nat
    BY Names, <1>12 DEF Restart
  <2> QED
    BY Names, <1>12, <2>2, <2>3, Zenon DEF Restart
<1>13. CASE UNCHANGED vars
  BY <1>13, Zenon DEF vars
<1> QED
  BY <1>1, <1>2, <1>3, <1>4, <1>5, <1>6, <1>7, <1>8, <1>9, <1>10, <1>11,
     <1>12, <1>13, ZenonT(30) DEF Fail, Environment

\* Every step of the code keeps the types.
LEMMA TypeStep == TypeOK /\ PcOK /\ [Next]_vars => TypeOK'
BY TypeSchedule, TypePoll, TypeStatus, TypeRest, Zenon DEF Next

\* A thread stays in the code of its own handler: the steps of schedule.
LEMMA PcSchedule == IInv /\ Schedule => PcOK'
<1> SUFFICES ASSUME IInv, Schedule PROVE PcOK'
  BY Zenon
<1>t. /\ pc \in [Threads -> PC]
      /\ my \in [Threads -> Local]
      /\ todo \in [{"schedule", "poll"} -> SUBSET Job]
      /\ calls \in SUBSET Call
      /\ status \in [SJobs -> Seq(1..3)]
      /\ fblock \in [SJobs -> 0..NBlocks]
  BY Zenon DEF IInv, TypeOK
<1>i. PcOK /\ NoFlowOK /\ FlowOK /\ CallOK
  BY Zenon DEF IInv
<1> USE <1>t, <1>i DEF At, Goto, store, world, budget, PcOK, Own, SchedulePC,
                       PollPC, StatusPC, FailPC, FreePC, BeforeFlowPC
<1>1. CASE ScheduleBegin
  BY <1>1, ThreadFacts, ZenonT(30) DEF ScheduleBegin
<1>2. CASE ScheduleNext
  <2>1. PICK j \in todo["schedule"] : Enter("schedule", "match", Note(j.sj, 0, j.blk))
    BY <1>2, Zenon DEF ScheduleNext
  <2>2. /\ my' = [my EXCEPT !["schedule"] = Note(j.sj, 0, j.blk)]
        /\ Note(j.sj, 0, j.blk).sj \in SJobs /\ Note(j.sj, 0, j.blk).next \in Blocks
    BY <2>1, NoteFields, JobFields, SMTT(30) DEF Enter
  <2> QED
    BY <2>1, <2>2, ThreadFacts, ZenonT(30) DEF Enter
<1>3. CASE ScheduleMatch
  <2>1. PICK l \in {"fail_sjob", "verify_path", "network"} : Goto("schedule", l)
    BY <1>3, Zenon DEF ScheduleMatch
  <2>2. pc["schedule"] = "match"
    BY <1>3, Zenon DEF ScheduleMatch
  <2> QED
    BY <2>1, <2>2, ThreadFacts
<1>4. CASE ScheduleNetwork
  BY <1>4, ThreadFacts, SMTT(30) DEF ScheduleNetwork
<1>5. CASE ScheduleVerify
  BY <1>5, ThreadFacts, SMTT(30) DEF ScheduleVerify
<1>6. CASE ScheduleLaunch
  BY <1>6, ThreadFacts, ZenonT(40) DEF ScheduleLaunch, InsertFlow
<1>7. CASE ScheduleNoLauncher
  BY <1>7, ThreadFacts, Zenon DEF ScheduleNoLauncher, InsertFlow, Down
<1>8. CASE ScheduleLaunchedBlock
  BY <1>8, ThreadFacts, ZenonT(40) DEF ScheduleLaunchedBlock
<1>9. CASE ScheduleLaunchedFlow
  BY <1>9, ThreadFacts, ZenonT(40) DEF ScheduleLaunchedFlow
<1>10. CASE ScheduleLaunchedRaw
  BY <1>10, ThreadFacts, ZenonT(40) DEF ScheduleLaunchedRaw, Return, Enter
<1> QED
  BY <1>1, <1>2, <1>3, <1>4, <1>5, <1>6, <1>7, <1>8, <1>9, <1>10, Zenon
     DEF Schedule

\* A thread stays in the code of its own handler: the steps of poll_rate.
LEMMA PcPoll == IInv /\ Poll => PcOK'
<1> SUFFICES ASSUME IInv, Poll PROVE PcOK'
  BY Zenon
<1>t. /\ pc \in [Threads -> PC]
      /\ my \in [Threads -> Local]
      /\ todo \in [{"schedule", "poll"} -> SUBSET Job]
      /\ calls \in SUBSET Call
      /\ status \in [SJobs -> Seq(1..3)]
      /\ fblock \in [SJobs -> 0..NBlocks]
  BY Zenon DEF IInv, TypeOK
<1>i. PcOK /\ NoFlowOK /\ FlowOK /\ CallOK
  BY Zenon DEF IInv
<1> USE <1>t, <1>i DEF At, Goto, store, world, budget, PcOK, Own, SchedulePC,
                       PollPC, StatusPC, FailPC, FreePC, BeforeFlowPC
<1>1. CASE PollBegin
  BY <1>1, ThreadFacts DEF PollBegin
<1>2. CASE PollRate
  <2>1. PICK j \in todo["poll"] : PollNoNews(j) \/ PollUnknownTask(j) \/ PollInactive(j)
    BY <1>2, Zenon DEF PollRate
  <2>2. Note(j.sj, j.blk, 0).sj \in SJobs
    BY NoteFields, JobFields, SMTT(30)
  <2>3. CASE PollNoNews(j)
    BY <2>3, ThreadFacts, ZenonT(40) DEF PollNoNews, Return, Enter
  <2>4. CASE PollUnknownTask(j)
    BY <2>2, <2>4, ThreadFacts, ZenonT(40) DEF PollUnknownTask, Enter
  <2>5. CASE PollInactive(j)
    BY <2>2, <2>5, ThreadFacts, Zenon DEF PollInactive, Enter
  <2> QED
    BY <2>1, <2>3, <2>4, <2>5, Zenon
<1>3. CASE PollNoLauncher
  BY <1>3, ThreadFacts, ZenonT(30) DEF PollNoLauncher, Down
<1>4. CASE PollUnknown
  BY <1>4, ThreadFacts, ZenonT(30) DEF PollUnknown, TearDown
<1>5. CASE PollUnknownDrop
  BY <1>5, ThreadFacts, ZenonT(30) DEF PollUnknownDrop, PollDrop
<1>6. CASE PollStalled
  BY <1>6, ThreadFacts, ZenonT(40) DEF PollStalled, PollDrop
<1> QED
  BY <1>1, <1>2, <1>3, <1>4, <1>5, <1>6, Zenon DEF Poll

\* A thread stays in the code of its own handler: the steps of mld_status.
LEMMA PcStatus == IInv /\ (\E h \in Handlers : Status(h)) => PcOK'
<1> SUFFICES ASSUME IInv, (\E h \in Handlers : Status(h)) PROVE PcOK'
  BY Zenon
<1>t. /\ pc \in [Threads -> PC]
      /\ my \in [Threads -> Local]
      /\ todo \in [{"schedule", "poll"} -> SUBSET Job]
      /\ calls \in SUBSET Call
      /\ status \in [SJobs -> Seq(1..3)]
      /\ fblock \in [SJobs -> 0..NBlocks]
  BY Zenon DEF IInv, TypeOK
<1>i. PcOK /\ NoFlowOK /\ FlowOK /\ CallOK
  BY ZenonT(30) DEF IInv
<1> USE <1>t, <1>i DEF At, Goto, store, world, budget, PcOK, Own, SchedulePC,
                       PollPC, StatusPC, FailPC, FreePC, BeforeFlowPC
<1>1. ASSUME NEW h \in Handlers, NEW s \in SJobs, StatusBegin(h, s) PROVE PcOK'
  <2>1. fblock[s] \in Blocks
    BY <1>1, ZenonT(30) DEF StatusBegin, NoFlowOK, Untouched, FlowOK
  <2>2. PICK n \in 0..NBlocks : Enter(h, Branch(Head(status[s])), Snapshot(s, n))
    BY <1>1, Zenon DEF StatusBegin
  <2>3. Branch(Head(status[s])) \in {"one", "two", "three"}
    BY <1>1, BranchType, Zenon DEF StatusBegin
  <2>5. pc'[h] \in {"one", "two", "three"} /\ my'[h].sj = s /\ my'[h].blk = fblock[s]
    BY <2>2, <2>3, SnapshotFields, ThreadFacts, Zenon DEF Enter
  <2>6. \A t \in Threads \ {h} : pc'[t] = pc[t] /\ my'[t] = my[t]
    BY <2>2, Zenon DEF Enter
  <2> SUFFICES ASSUME NEW t \in Threads PROVE Own(t)'
    BY Zenon
  <2>7. CASE t = h
    BY <2>1, <2>5, <2>7, ThreadFacts, ZenonT(30)
  <2>8. CASE t # h
    BY <2>6, <2>8, ZenonT(30)
  <2> QED
    BY <2>7, <2>8, ZenonT(30)
<1>2. ASSUME NEW h \in Handlers, StatusRunningFlow(h) PROVE PcOK'
  BY <1>2, ThreadFacts, ZenonT(30) DEF StatusRunningFlow
<1>3. ASSUME NEW h \in Handlers, StatusRunningSJob(h) PROVE PcOK'
  BY <1>3, ThreadFacts, ZenonT(30) DEF StatusRunningSJob, Return, Enter
<1>4. ASSUME NEW h \in Handlers, StatusError(h) PROVE PcOK'
  BY <1>4, ThreadFacts, ZenonT(30) DEF StatusError
<1>5. ASSUME NEW h \in Handlers, StatusDone(h) PROVE PcOK'
  BY <1>5, ThreadFacts, ZenonT(40) DEF StatusDone
<1>6. ASSUME NEW h \in Handlers, ChecksumOk(h) PROVE PcOK'
  BY <1>6, ThreadFacts DEF ChecksumOk
<1>7. ASSUME NEW h \in Handlers, ChecksumFailed(h) PROVE PcOK'
  BY <1>7, ThreadFacts, SMTT(30) DEF ChecksumFailed, Enter
<1>8. ASSUME NEW h \in Handlers, MarkFinished(h) PROVE PcOK'
  <2>1. my[h].next # 0 => my[h].next \in Blocks
    BY ThreadFacts, Constants, SMTT(30) DEF Local, Blocks
  <2> QED
    BY <1>8, <2>1, ThreadFacts DEF MarkFinished
<1>9. ASSUME NEW h \in Handlers, Release(h) PROVE PcOK'
  BY <1>9, ThreadFacts, SMTT(30) DEF Release, Return, Enter, TearDown
<1>10. ASSUME NEW h \in Handlers, FinishSJob(h) PROVE PcOK'
  BY <1>10, ThreadFacts, ZenonT(30) DEF FinishSJob
<1>11. ASSUME NEW h \in Handlers, SumUp(h) PROVE PcOK'
  BY <1>11, ThreadFacts, SMTT(30) DEF SumUp, Return, Enter
<1>12. ASSUME NEW h \in Handlers, FinishRaw(h) PROVE PcOK'
  BY <1>12, ThreadFacts, ZenonT(30) DEF FinishRaw, Return, Enter
<1>13. ASSUME NEW h \in Handlers, Relaunch(h) PROVE PcOK'
  BY <1>13, ThreadFacts, ZenonT(30) DEF Relaunch
<1>14. ASSUME NEW h \in Handlers, RelaunchNoLauncher(h) PROVE PcOK'
  BY <1>14, ThreadFacts, ZenonT(30) DEF RelaunchNoLauncher
<1>15. ASSUME NEW h \in Handlers, RelaunchedBlock(h) PROVE PcOK'
  BY <1>15, ThreadFacts, ZenonT(30) DEF RelaunchedBlock
<1>16. ASSUME NEW h \in Handlers, RelaunchedFlow(h) PROVE PcOK'
  BY <1>16, ThreadFacts, ZenonT(30) DEF RelaunchedFlow
<1>17. ASSUME NEW h \in Handlers, RelaunchedRaw(h) PROVE PcOK'
  BY <1>17, ThreadFacts, ZenonT(40) DEF RelaunchedRaw, Return, Enter
<1> QED
  BY <1>1, <1>2, <1>3, <1>4, <1>5, <1>6, <1>7, <1>8, <1>9, <1>10, <1>11,
     <1>12, <1>13, <1>14, <1>15, <1>16, <1>17, ZenonT(30) DEF Status

\* A thread stays in the code of its own handler: failures, the launching agent
\* and restarts.
LEMMA PcRest == IInv /\ ((\E t \in Threads : Fail(t)) \/ Environment \/ UNCHANGED vars) => PcOK'
<1> SUFFICES ASSUME IInv, ((\E t \in Threads : Fail(t)) \/ Environment \/ UNCHANGED vars) PROVE PcOK'
  BY Zenon
<1>t. /\ pc \in [Threads -> PC]
      /\ my \in [Threads -> Local]
      /\ todo \in [{"schedule", "poll"} -> SUBSET Job]
      /\ calls \in SUBSET Call
      /\ status \in [SJobs -> Seq(1..3)]
      /\ fblock \in [SJobs -> 0..NBlocks]
  BY Zenon DEF IInv, TypeOK
<1>i. PcOK /\ NoFlowOK /\ FlowOK /\ CallOK
  BY ZenonT(30) DEF IInv
<1> USE <1>t, <1>i DEF At, Goto, store, world, budget, PcOK, Own, SchedulePC,
                       PollPC, StatusPC, FailPC, FreePC, BeforeFlowPC
<1>1. ASSUME NEW t \in Threads, FailTearDown(t) PROVE PcOK'
  BY <1>1, ThreadFacts, ZenonT(30) DEF FailTearDown, TearDown
<1>2. ASSUME NEW t \in Threads, FailSJob(t) PROVE PcOK'
  BY <1>2, ThreadFacts, ZenonT(30) DEF FailSJob
<1>3. ASSUME NEW t \in Threads, FailRaw(t) PROVE PcOK'
  BY <1>3, ThreadFacts, ZenonT(40) DEF FailRaw, Return, Enter
<1>4. CASE CallTimeout
  <2>1. PICK c \in calls : c.by # "nobody" /\ Goto(c.by, Answered(c.by, FALSE))
    BY <1>4, Zenon DEF CallTimeout
  <2>2. c.by \in Threads /\ pc[c.by] \in {"launching", "relaunching"}
    BY <2>1, CallFields, Zenon DEF CallOK
  <2>3. pc' = [pc EXCEPT ![c.by] = Answered(c.by, FALSE)] /\ my' = my
    BY <2>1, Zenon
  <2>4. CASE c.by = "schedule"
    BY <2>2, <2>3, <2>4, ThreadFacts, ZenonT(40) DEF Answered
  <2>5. CASE c.by # "schedule"
    <3>1. c.by \in Handlers
      BY <2>2, <2>5, Zenon DEF Threads
    <3> QED
      BY <2>2, <2>3, <3>1, ThreadFacts DEF Answered
  <2> QED
    BY <2>4, <2>5, Zenon
<1>5. CASE LauncherServe
  <2>1. PICK c \in calls, ok \in BOOLEAN :
          IF c.by = "nobody" THEN UNCHANGED <<pc, my>> ELSE Goto(c.by, Answered(c.by, ok))
    BY <1>5, Zenon DEF LauncherServe
  <2>2. CASE c.by = "nobody"
    BY <2>1, <2>2, ZenonT(30)
  <2>3. CASE c.by # "nobody"
    <3>1. c.by \in Threads /\ pc[c.by] \in {"launching", "relaunching"}
      BY <2>3, CallFields, Zenon DEF CallOK
    <3>2. PICK l : /\ pc' = [pc EXCEPT ![c.by] = l] /\ UNCHANGED my
                   /\ l \in IF c.by = "schedule" THEN {"launched", "teardown"} ELSE {"relaunched"}
      BY <2>1, <2>3, Zenon DEF Answered
    <3>3. Own(c.by)'
      <4>1. pc'[c.by] = l /\ my' = my
        BY <3>1, <3>2, Zenon
      <4>2. CASE c.by = "schedule"
        BY <3>1, <3>2, <4>1, <4>2, ThreadFacts, Zenon
      <4>3. CASE c.by # "schedule"
        <5>1. c.by \in Handlers /\ pc'[c.by] = "relaunched"
          BY <3>1, <3>2, <4>1, <4>3, Zenon DEF Threads
        <5> QED
          BY <3>1, <4>1, <5>1, ThreadFacts, Zenon
      <4> QED
        BY <4>2, <4>3, ZenonT(30)
    <3>4. ASSUME NEW t \in Threads, t # c.by PROVE Own(t)'
      <4>1. pc'[t] = pc[t] /\ my'[t] = my[t]
        BY <3>1, <3>2, <3>4, Zenon
      <4> QED
        BY <4>1, Zenon
    <3> QED
      BY <3>3, <3>4, ZenonT(40)
  <2> QED
    BY <2>2, <2>3, Zenon
<1>6. ASSUME NEW s \in SJobs, MdtmDone(s) PROVE PcOK'
  BY <1>6, ThreadFacts, ZenonT(30) DEF MdtmDone
<1>7. ASSUME NEW s \in SJobs, MdtmError(s) PROVE PcOK'
  BY <1>7, ThreadFacts, ZenonT(30) DEF MdtmError
<1>8. CASE MdtmRestart
  BY <1>8, ThreadFacts, ZenonT(30) DEF MdtmRestart
<1>9. CASE LauncherLeave
  BY <1>9, ThreadFacts, ZenonT(30) DEF LauncherLeave
<1>10. CASE LauncherReturn
  BY <1>10, ThreadFacts, ZenonT(30) DEF LauncherReturn
<1>11. CASE Crash
  BY <1>11, ThreadFacts, Zenon DEF Crash, Down
<1>12. CASE Restart
  BY <1>12, ThreadFacts, Zenon DEF Restart
<1>13. CASE UNCHANGED vars
  BY <1>13, Zenon DEF vars
<1> QED
  BY <1>1, <1>2, <1>3, <1>4, <1>5, <1>6, <1>7, <1>8, <1>9, <1>10, <1>11,
     <1>12, <1>13, ZenonT(30) DEF Fail, Environment

\* A thread stays in the code of its own handler.
LEMMA PcStep == IInv /\ [Next]_vars => PcOK'
BY PcSchedule, PcPoll, PcStatus, PcRest, Zenon DEF Next

\* insert_flow is never undone: a flow once there stays.
LEMMA FlowStays == IInv /\ [Next]_vars => \A r \in SJobs : flow'[r] = "none" => flow[r] = "none"
<1> SUFFICES ASSUME IInv, [Next]_vars PROVE \A r \in SJobs : flow'[r] = "none" => flow[r] = "none"
  BY Zenon
<1>t. /\ flow \in [SJobs -> FlowState]
  BY ZenonT(30) DEF IInv, TypeOK
<1> USE <1>t DEF At, Goto, store, world, budget
<1>1. CASE ScheduleBegin \/ ScheduleNext \/ ScheduleMatch \/ ScheduleNetwork
  BY <1>1, ThreadFacts, Zenon
     DEF ScheduleBegin, ScheduleNext, ScheduleMatch, ScheduleNetwork, Enter
<1>2. CASE ScheduleVerify \/ ScheduleLaunch \/ ScheduleNoLauncher \/ ScheduleLaunchedBlock
  BY <1>2, ThreadFacts, Zenon
     DEF ScheduleVerify, ScheduleLaunch, ScheduleNoLauncher,
         ScheduleLaunchedBlock, InsertFlow, Down
<1>3. CASE ScheduleLaunchedFlow \/ ScheduleLaunchedRaw \/ PollBegin \/ PollRate
  BY <1>3, ThreadFacts, ZenonT(30)
     DEF ScheduleLaunchedFlow, ScheduleLaunchedRaw, PollBegin, PollRate,
         Return, Enter, PollNoNews, PollUnknownTask, PollInactive
<1>4. CASE PollNoLauncher \/ PollUnknown \/ PollUnknownDrop \/ PollStalled
  BY <1>4, ThreadFacts, ZenonT(30)
     DEF PollNoLauncher, PollUnknown, PollUnknownDrop, PollStalled, Down,
         TearDown, PollDrop
<1>5. ASSUME NEW h \in Handlers, NEW s \in SJobs,
         StatusBegin(h, s)
  PROVE  \A r \in SJobs : flow'[r] = "none" => flow[r] = "none"
  BY <1>5, ThreadFacts, Zenon DEF StatusBegin, Enter
<1>6. ASSUME NEW h \in Handlers,
         StatusRunningFlow(h) \/ StatusRunningSJob(h) \/ StatusError(h) \/
         StatusDone(h)
  PROVE  \A r \in SJobs : flow'[r] = "none" => flow[r] = "none"
  BY <1>6, ThreadFacts, Zenon
     DEF StatusRunningFlow, StatusRunningSJob, StatusError, StatusDone,
         Return, Enter
<1>7. ASSUME NEW h \in Handlers,
         ChecksumOk(h) \/ ChecksumFailed(h) \/ MarkFinished(h) \/
         Release(h)
  PROVE  \A r \in SJobs : flow'[r] = "none" => flow[r] = "none"
  BY <1>7, ThreadFacts, Zenon
     DEF ChecksumOk, ChecksumFailed, MarkFinished, Release, Enter, Return,
         TearDown
<1>8. ASSUME NEW h \in Handlers,
         FinishSJob(h) \/ SumUp(h) \/ FinishRaw(h) \/ Relaunch(h)
  PROVE  \A r \in SJobs : flow'[r] = "none" => flow[r] = "none"
  BY <1>8, ThreadFacts, Zenon
     DEF FinishSJob, SumUp, FinishRaw, Relaunch, Return, Enter
<1>9. ASSUME NEW h \in Handlers,
         RelaunchNoLauncher(h) \/ RelaunchedBlock(h) \/
         RelaunchedFlow(h) \/ RelaunchedRaw(h)
  PROVE  \A r \in SJobs : flow'[r] = "none" => flow[r] = "none"
  BY <1>9, ThreadFacts, Zenon
     DEF RelaunchNoLauncher, RelaunchedBlock, RelaunchedFlow, RelaunchedRaw,
         Return, Enter
<1>10. ASSUME NEW t \in Threads,
         FailTearDown(t) \/ FailSJob(t) \/ FailRaw(t)
  PROVE  \A r \in SJobs : flow'[r] = "none" => flow[r] = "none"
  BY <1>10, ThreadFacts, Zenon
     DEF FailTearDown, FailSJob, FailRaw, TearDown, Return, Enter
<1>11. CASE CallTimeout \/ LauncherServe \/ MdtmRestart \/ LauncherLeave
  BY <1>11, ThreadFacts, Zenon
     DEF CallTimeout, LauncherServe, MdtmRestart, LauncherLeave, Answered
<1>12. ASSUME NEW s \in SJobs,
         MdtmDone(s) \/ MdtmError(s)
  PROVE  \A r \in SJobs : flow'[r] = "none" => flow[r] = "none"
  BY <1>12, ThreadFacts, Zenon DEF MdtmDone, MdtmError
<1>13. CASE LauncherReturn \/ Crash \/ Restart
  BY <1>13, ThreadFacts, Zenon DEF LauncherReturn, Crash, Restart, Down
<1>14. CASE UNCHANGED vars
  BY <1>14, Zenon DEF vars
<1>15. QED
  BY <1>1, <1>2, <1>3, <1>4, <1>5, <1>6, <1>7, <1>8, <1>9, <1>10, <1>11,
     <1>12, <1>13, <1>14, ZenonT(30)
  DEF Next, Schedule, Poll, Status, Fail, Environment

\* Nothing but insert_flow makes an sjob known to the other threads.
LEMMA UntouchedStep ==
  ASSUME NEW r PROVE
  IInv /\ r \in SJobs /\ flow[r] = "none" /\ flow'[r] = "none" /\ [Next]_vars => Untouched(r)'
<1> SUFFICES ASSUME IInv /\ r \in SJobs /\ flow[r] = "none" /\ flow'[r] = "none", [Next]_vars PROVE Untouched(r)'
  BY Zenon
<1>t. /\ flow \in [SJobs -> FlowState]
      /\ my \in [Threads -> Local]
      /\ todo \in [{"schedule", "poll"} -> SUBSET Job]
      /\ calls \in SUBSET Call
      /\ mdtm \in [SJobs -> SUBSET Blocks]
      /\ status \in [SJobs -> Seq(1..3)]
  BY Zenon DEF IInv, TypeOK
<1>i. TypeOK
  BY Zenon DEF IInv
<1>0. r \in SJobs /\ Untouched(r)
  BY Zenon DEF IInv, NoFlowOK
<1> USE <1>t, <1>i DEF At, Goto, store, world, budget, Untouched
<1>1. CASE ScheduleBegin \/ ScheduleNext \/ ScheduleMatch \/ ScheduleNetwork
  BY <1>1, ThreadFacts, <1>0, Zenon
     DEF ScheduleBegin, ScheduleNext, ScheduleMatch, ScheduleNetwork, Enter
<1>2. CASE ScheduleVerify \/ ScheduleLaunch \/ ScheduleLaunchedBlock \/
           ScheduleLaunchedFlow
  BY <1>2, ThreadFacts, <1>0
     DEF ScheduleVerify, ScheduleLaunch, ScheduleLaunchedBlock,
         ScheduleLaunchedFlow, InsertFlow
<1>3. CASE ScheduleNoLauncher
  <2>1. Down /\ UNCHANGED <<status, mdtm>>
    BY <1>3, Zenon DEF ScheduleNoLauncher, InsertFlow
  <2> QED
    BY <1>0, <2>1, DownUntouched, Zenon
<1>4. CASE ScheduleLaunchedRaw \/ PollUnknown \/ PollUnknownDrop \/ PollStalled
  BY <1>4, ThreadFacts, <1>0, Zenon
     DEF ScheduleLaunchedRaw, PollUnknown, PollUnknownDrop, PollStalled,
         Return, Enter, TearDown, PollDrop
<1>5. CASE PollBegin
  BY <1>5, ThreadFacts, <1>0, Zenon DEF PollBegin, Sampled, Job
<1>6. CASE PollRate
  <2>1. PICK j \in todo["poll"] : PollNoNews(j) \/ PollUnknownTask(j) \/ PollInactive(j)
    BY <1>6, Zenon DEF PollRate
  <2>2. /\ todo'["poll"] \subseteq todo["poll"]
        /\ my'["poll"].sj \in {j.sj, Nothing.sj}
        /\ \A t \in Threads \ {"poll"} : my'[t] = my[t]
    <3>1. CASE PollNoNews(j)
      BY <3>1, ThreadFacts, Zenon DEF PollNoNews, Return, Enter
    <3>2. CASE PollUnknownTask(j)
      BY <3>2, NoteFields, ThreadFacts DEF PollUnknownTask, Enter
    <3>3. CASE PollInactive(j)
      BY <3>3, NoteFields, ThreadFacts DEF PollInactive, Enter
    <3> QED
      BY <2>1, <3>1, <3>2, <3>3, Zenon
  <2>3. UNCHANGED <<status, mdtm, calls>>
    BY <1>6, Zenon DEF PollRate
  <2>4. \A t \in Threads \ {"schedule"} : my'[t].sj # r
    BY <1>0, <2>2, NothingFields, Zenon
  <2> QED
    BY <1>0, <2>2, <2>3, <2>4, Zenon
<1>7. CASE PollNoLauncher
  <2>1. Down /\ UNCHANGED <<status, mdtm>>
    BY <1>7, Zenon DEF PollNoLauncher
  <2> QED
    BY <1>0, <2>1, DownUntouched, Zenon
<1>8. ASSUME NEW h \in Handlers, NEW s \in SJobs, StatusBegin(h, s) PROVE Untouched(r)'
  <2>1. s # r
    BY <1>0, <1>8, Zenon DEF StatusBegin
  <2>2. my'[h].sj = s /\ \A t \in Threads \ {h} : my'[t] = my[t]
    BY <1>8, SnapshotFields, ThreadFacts, SMTT(30) DEF StatusBegin, Enter
  <2>3. status'[r] = status[r] /\ UNCHANGED <<mdtm, calls, todo>>
    BY <1>8, <2>1, Zenon DEF StatusBegin
  <2> QED
    BY <1>0, <2>1, <2>2, <2>3, Zenon
<1>9. ASSUME NEW h \in Handlers,
         StatusRunningFlow(h) \/ StatusError(h) \/ StatusDone(h) \/
         ChecksumOk(h)
  PROVE  Untouched(r)'
  BY <1>9, ThreadFacts, <1>0, Zenon
     DEF StatusRunningFlow, StatusError, StatusDone, ChecksumOk
<1>10. ASSUME NEW h \in Handlers,
         StatusRunningSJob(h) \/ FinishRaw(h) \/ RelaunchedRaw(h)
  PROVE  Untouched(r)'
  BY <1>10, ThreadFacts, <1>0, NothingFields, Zenon
     DEF StatusRunningSJob, FinishRaw, RelaunchedRaw, Return, Enter
<1>11. ASSUME NEW h \in Handlers, ChecksumFailed(h) PROVE Untouched(r)'
  <2>1. \A t \in Threads : my'[t].sj = my[t].sj
    BY <1>11, ThreadFacts, Zenon DEF ChecksumFailed, Enter, Local
  <2> QED
    BY <1>0, <1>11, <2>1, Zenon DEF ChecksumFailed
<1>12. ASSUME NEW h \in Handlers,
         MarkFinished(h) \/ FinishSJob(h) \/ Relaunch(h) \/
         RelaunchNoLauncher(h)
  PROVE  Untouched(r)'
  BY <1>12, ThreadFacts, <1>0
     DEF MarkFinished, FinishSJob, Relaunch, RelaunchNoLauncher
<1>13. ASSUME NEW h \in Handlers, Release(h) PROVE Untouched(r)'
  <2>1. \A t \in Threads : my'[t].sj \in {my[t].sj, Nothing.sj}
    BY <1>13, ThreadFacts, Zenon DEF Release, Return, Enter
  <2>2. UNCHANGED <<status, mdtm, calls, todo>>
    BY <1>13, Zenon DEF Release
  <2> QED
    BY <1>0, <2>1, <2>2, NothingFields, Zenon
<1>14. ASSUME NEW h \in Handlers, SumUp(h) PROVE Untouched(r)'
  <2>1. \A t \in Threads : my'[t].sj \in {my[t].sj, Nothing.sj}
    BY <1>14, ThreadFacts, Zenon DEF SumUp, Return, Enter
  <2>2. UNCHANGED <<status, mdtm, calls, todo>>
    BY <1>14, Zenon DEF SumUp
  <2> QED
    BY <1>0, <2>1, <2>2, NothingFields, Zenon
<1>15. ASSUME NEW h \in Handlers,
         RelaunchedBlock(h) \/ RelaunchedFlow(h)
  PROVE  Untouched(r)'
  BY <1>15, ThreadFacts, <1>0, Zenon DEF RelaunchedBlock, RelaunchedFlow
<1>16. ASSUME NEW t \in Threads, FailTearDown(t) \/ FailSJob(t) PROVE Untouched(r)'
  BY <1>16, ThreadFacts, <1>0, Zenon DEF FailTearDown, FailSJob, TearDown
<1>17. ASSUME NEW t \in Threads, FailRaw(t) PROVE Untouched(r)'
  BY <1>17, ThreadFacts, <1>0, NothingFields, Zenon DEF FailRaw, Return, Enter
<1>18. CASE CallTimeout
  <2>1. PICK c \in calls : \/ calls' = calls \ {c}
                           \/ calls' = (calls \ {c}) \cup {Abandoned(c)}
    BY <1>18, Zenon DEF CallTimeout
  <2>2. UNCHANGED <<status, mdtm, my, todo>>
    BY <1>18, Zenon DEF CallTimeout
  <2>3. Abandoned(c).sj # r
    BY <1>0, Zenon DEF Abandoned
  <2> QED
    BY <1>0, <2>1, <2>2, <2>3, Zenon
<1>19. CASE LauncherServe \/ MdtmRestart \/ LauncherLeave \/ LauncherReturn
  BY <1>19, ThreadFacts, <1>0, ZenonT(30)
     DEF LauncherServe, MdtmRestart, LauncherLeave, LauncherReturn, Answered
<1>20. ASSUME NEW s \in SJobs, MdtmDone(s) \/ MdtmError(s) PROVE Untouched(r)'
  BY <1>20, ThreadFacts, <1>0, Zenon DEF MdtmDone, MdtmError
<1>21. CASE Crash
  <2>1. Down /\ UNCHANGED <<status, mdtm>>
    BY <1>21, Zenon DEF Crash
  <2> QED
    BY <1>0, <2>1, DownUntouched, Zenon
<1>22. CASE Restart
  BY <1>22, ThreadFacts, <1>0, Zenon DEF Restart
<1>23. CASE UNCHANGED vars
  BY <1>23, <1>0, Zenon DEF vars
<1>24. QED
  BY <1>1, <1>2, <1>3, <1>4, <1>5, <1>6, <1>7, <1>8, <1>9, <1>10, <1>11,
     <1>12, <1>13, <1>14, <1>15, <1>16, <1>17, <1>18, <1>19, <1>20, <1>21,
     <1>22, <1>23, ZenonT(30)
  DEF Next, Schedule, Poll, Status, Fail, Environment

\* An sjob without a flow stays unknown to all threads but schedule().
LEMMA NoFlowStep == IInv /\ [Next]_vars => NoFlowOK'
<1> SUFFICES ASSUME IInv, [Next]_vars, NEW r \in SJobs, flow'[r] = "none"
             PROVE  Untouched(r)'
  BY Zenon DEF NoFlowOK
<1>1. flow[r] = "none"
  BY FlowStays, Zenon
<1> QED
  BY <1>1, UntouchedStep, Zenon

\* A flow names a block, and is there from insert_flow on.
LEMMA FlowStep == IInv /\ [Next]_vars => FlowOK'
<1> SUFFICES ASSUME IInv, [Next]_vars PROVE FlowOK'
  BY Zenon
<1>t. /\ flow \in [SJobs -> FlowState]
      /\ fblock \in [SJobs -> 0..NBlocks]
      /\ pc \in [Threads -> PC]
      /\ my \in [Threads -> Local]
      /\ todo \in [{"schedule", "poll"} -> SUBSET Job]
      /\ calls \in SUBSET Call
  BY Zenon DEF IInv, TypeOK
<1>i. FlowOK /\ PcOK /\ NoFlowOK /\ TodoOK /\ CallOK
  BY Zenon DEF IInv
<1> USE <1>t, <1>i DEF At, Goto, store, world, budget, FlowOK, BeforeFlowPC,
                       AfterFlowPC, SchedulePC, FailPC, FreePC
<1>1. CASE ScheduleBegin \/ ScheduleMatch \/ ScheduleNetwork \/ ScheduleVerify
  BY <1>1, ThreadFacts, Zenon
     DEF ScheduleBegin, ScheduleMatch, ScheduleNetwork, ScheduleVerify
<1>2. CASE ScheduleNext
  <2>1. PICK j \in todo["schedule"] : Enter("schedule", "match", Note(j.sj, 0, j.blk))
    BY <1>2, Zenon DEF ScheduleNext
  <2>2. my'["schedule"].sj = j.sj /\ flow[j.sj] = "none" /\ UNCHANGED <<flow, fblock>>
    BY <1>2, <2>1, NoteFields, ThreadFacts DEF Enter, TodoOK, ScheduleNext
  <2>3. pc'["schedule"] = "match"
    BY <2>1, ThreadFacts, Zenon DEF Enter
  <2> QED
    BY <2>2, <2>3, Zenon
<1>3. CASE ScheduleLaunch
  <2>1. my["schedule"].sj \in SJobs /\ my["schedule"].next \in Blocks
    BY <1>3, ThreadFacts, Zenon DEF ScheduleLaunch, PcOK, Own
  <2>2. \/ pc'["schedule"] = "idle"
        \/ pc'["schedule"] = "launching" /\ my'["schedule"] = my["schedule"]
    BY <1>3, ThreadFacts, Zenon DEF ScheduleLaunch
  <2>3. fblock' = [fblock EXCEPT ![my["schedule"].sj] = my["schedule"].next]
    BY <1>3, Zenon DEF ScheduleLaunch, InsertFlow
  <2>4. flow' = [flow EXCEPT ![my["schedule"].sj] = "scheduling"]
    BY <1>3, Zenon DEF ScheduleLaunch, InsertFlow
  <2> QED
    BY <2>1, <2>2, <2>3, <2>4, Zenon
<1>4. CASE ScheduleNoLauncher
  <2>1. my["schedule"].sj \in SJobs /\ my["schedule"].next \in Blocks
    BY <1>4, ThreadFacts, Zenon DEF ScheduleNoLauncher, PcOK, Own
  <2>2. \/ pc'["schedule"] = "idle"
        \/ pc'["schedule"] = "launching" /\ my'["schedule"] = my["schedule"]
    BY <1>4, ThreadFacts, Zenon DEF ScheduleNoLauncher, Down
  <2>3. fblock' = [fblock EXCEPT ![my["schedule"].sj] = my["schedule"].next]
    BY <1>4, Zenon DEF ScheduleNoLauncher, InsertFlow
  <2>4. flow' = [flow EXCEPT ![my["schedule"].sj] = "scheduling"]
    BY <1>4, Zenon DEF ScheduleNoLauncher, InsertFlow
  <2> QED
    BY <2>1, <2>2, <2>3, <2>4, Zenon
<1>5. CASE ScheduleLaunchedBlock \/ ScheduleLaunchedRaw \/ PollBegin \/ PollRate
  BY <1>5, ThreadFacts, ZenonT(30)
     DEF ScheduleLaunchedBlock, ScheduleLaunchedRaw, PollBegin, PollRate,
         Return, Enter, PollNoNews, PollUnknownTask, PollInactive
<1>6. CASE ScheduleLaunchedFlow
  <2>1. my["schedule"].sj \in SJobs /\ flow[my["schedule"].sj] # "none"
    BY <1>6, ThreadFacts, Zenon DEF ScheduleLaunchedFlow, PcOK, Own, FlowOK
  <2>2. /\ flow' = [flow EXCEPT ![my["schedule"].sj] = "setting"]
        /\ pc'["schedule"] = "launched_raw" /\ UNCHANGED <<my, fblock>>
    BY <1>6, ThreadFacts, Zenon DEF ScheduleLaunchedFlow
  <2> QED
    BY <2>1, <2>2, Zenon
<1>7. CASE PollNoLauncher \/ PollUnknown \/ CallTimeout \/ MdtmRestart
  BY <1>7, ThreadFacts, ZenonT(30)
     DEF PollNoLauncher, PollUnknown, CallTimeout, MdtmRestart, Down,
         TearDown, Answered
<1>8. CASE PollUnknownDrop \/ PollStalled
  BY <1>8, ThreadFacts, Working DEF PollUnknownDrop, PollStalled, PollDrop
<1>9. ASSUME NEW h \in Handlers, NEW s \in SJobs, StatusBegin(h, s) PROVE FlowOK'
  BY <1>9, ThreadFacts, Zenon DEF StatusBegin, Enter
<1>10. ASSUME NEW h \in Handlers,
         StatusRunningFlow(h) \/ StatusError(h) \/ StatusDone(h)
  PROVE  FlowOK'
  BY <1>10, ThreadFacts, Working
     DEF StatusRunningFlow, StatusError, StatusDone
<1>11. ASSUME NEW h \in Handlers,
         StatusRunningSJob(h) \/ ChecksumOk(h) \/ ChecksumFailed(h) \/
         MarkFinished(h)
  PROVE  FlowOK'
  BY <1>11, ThreadFacts, Zenon
     DEF StatusRunningSJob, ChecksumOk, ChecksumFailed, MarkFinished, Return,
         Enter
<1>12. ASSUME NEW h \in Handlers, Release(h) PROVE FlowOK'
  <2>1. flow[my[h].sj] # "none" /\ my[h].sj \in SJobs
    BY <1>12, Working, ThreadFacts, Zenon DEF Release
  <2>2. pc'["schedule"] = pc["schedule"] /\ my'["schedule"] = my["schedule"]
    BY <1>12, ThreadFacts, Zenon DEF Release, Return, Enter
  <2> QED
    BY <1>12, <2>1, <2>2 DEF Release
<1>13. ASSUME NEW h \in Handlers,
         FinishSJob(h) \/ SumUp(h) \/ FinishRaw(h) \/ Relaunch(h)
  PROVE  FlowOK'
  BY <1>13, ThreadFacts, ZenonT(30)
     DEF FinishSJob, SumUp, FinishRaw, Relaunch, Return, Enter
<1>14. ASSUME NEW h \in Handlers,
         RelaunchNoLauncher(h) \/ RelaunchedBlock(h) \/ RelaunchedRaw(h)
  PROVE  FlowOK'
  BY <1>14, ThreadFacts, Zenon
     DEF RelaunchNoLauncher, RelaunchedBlock, RelaunchedRaw, Return, Enter
<1>15. ASSUME NEW h \in Handlers, RelaunchedFlow(h) PROVE FlowOK'
  <2>1. flow[my[h].sj] # "none" /\ my[h].sj \in SJobs /\ my[h].next \in Blocks
    BY <1>15, Working, ThreadFacts, Zenon DEF RelaunchedFlow, PcOK, Own
  <2>2. pc'["schedule"] = pc["schedule"] /\ my'["schedule"] = my["schedule"]
    BY <1>15, ThreadFacts, Zenon DEF RelaunchedFlow
  <2> QED
    BY <1>15, <2>1, <2>2 DEF RelaunchedFlow
<1>16. ASSUME NEW t \in Threads,
         FailTearDown(t) \/ FailSJob(t) \/ FailRaw(t)
  PROVE  FlowOK'
  BY <1>16, ThreadFacts, ZenonT(30)
     DEF FailTearDown, FailSJob, FailRaw, TearDown, Return, Enter
<1>17. CASE LauncherServe
  <2>1. PICK c \in calls, ok \in BOOLEAN :
          IF c.by = "nobody" THEN UNCHANGED <<pc, my>> ELSE Goto(c.by, Answered(c.by, ok))
    BY <1>17, Zenon DEF LauncherServe
  <2>2. UNCHANGED <<flow, fblock, my>>
    BY <1>17, Zenon DEF LauncherServe
  <2>3. CASE c.by = "schedule"
    <3>1. pc["schedule"] = "launching"
      BY <2>3, ThreadFacts, Zenon DEF CallOK, PcOK, Own
    <3>2. pc'["schedule"] \in {"launched", "teardown"}
      BY <2>1, <2>3, ThreadFacts, Zenon DEF Answered
    <3> QED
      BY <2>2, <3>1, <3>2, Zenon
  <2>4. CASE c.by # "schedule"
    <3>1. pc'["schedule"] = pc["schedule"]
      BY <2>1, <2>4, ThreadFacts, Zenon
    <3> QED
      BY <2>2, <3>1, Zenon
  <2> QED
    BY <2>3, <2>4, Zenon
<1>18. ASSUME NEW s \in SJobs, MdtmDone(s) \/ MdtmError(s) PROVE FlowOK'
  BY <1>18, ThreadFacts, Zenon DEF MdtmDone, MdtmError
<1>19. CASE LauncherLeave \/ LauncherReturn \/ Crash \/ Restart
  BY <1>19, ThreadFacts, Zenon
     DEF LauncherLeave, LauncherReturn, Crash, Restart, Down
<1>20. CASE UNCHANGED vars
  BY <1>20, Zenon DEF vars
<1>21. QED
  BY <1>1, <1>2, <1>3, <1>4, <1>5, <1>6, <1>7, <1>8, <1>9, <1>10, <1>11,
     <1>12, <1>13, <1>14, <1>15, <1>16, <1>17, <1>18, <1>19, <1>20, ZenonT(30)
  DEF Next, Schedule, Poll, Status, Fail, Environment

-----------------------------------------------------------------------------
(* Marks, flags and final states                                           *)

\* A step of one thread that leaves marks and contents alone.
LEMMA FlagFrame ==
  ASSUME NEW B, MarksBehind(B), NEW x \in Threads, FlagOK(B, x)',
         \A t \in Threads \ {x} : pc'[t] = pc[t] /\ my'[t] = my[t],
         UNCHANGED <<block, delivered>>, EndsOK(B)'
  PROVE  MarksBehind(B)'
<1>1. \A t \in Threads \ {x} : FlagOK(B, t)'
  BY Zenon DEF MarksBehind, FlagOK, Complete
<1> QED
  BY <1>1, Zenon DEF MarksBehind, MarksOK

\* A thread that has noted nothing makes no claim about its flag.
LEMMA BlankFlag ==
  ASSUME NEW B, NEW x, my'[x] = Nothing, pc'[x] \in FreePC
  PROVE  FlagOK(B, x)'
BY NothingFields, Zenon DEF FlagOK, FreePC

\* Marks, flags and final states stay behind the contents, if a block without a
\* checksum is there when mld_status is told that it was transferred: the steps
\* of schedule.
LEMMA MarksSchedule ==
  ASSUME NEW B \in SUBSET Blocks, IInv, MarksBehind(B), Schedule,
         \A h \in Handlers : pc[h] = "three" /\ my[h].blk \in B \ ChecksumBlocks
                                => my[h].blk \in delivered[my[h].sj]
  PROVE  MarksBehind(B)'
<1>t. /\ sjob \in [SJobs -> SJobState]
      /\ block \in [SJobs -> [Blocks -> BlockState]]
      /\ pc \in [Threads -> PC]
      /\ my \in [Threads -> Local]
      /\ delivered \in [SJobs -> SUBSET Blocks]
      /\ status \in [SJobs -> Seq(1..3)]
  BY Zenon DEF IInv, TypeOK
<1>i. TypeOK /\ PcOK
  BY Zenon DEF IInv
<1> USE <1>t, <1>i DEF At, Goto, store, world, budget, MarksBehind
<1>1. CASE ScheduleBegin
  BY <1>1, ThreadFacts, Zenon
     DEF ScheduleBegin, Complete, MarksOK, FlagOK, EndsOK
<1>2. CASE ScheduleNext
  <2>1. FlagOK(B, "schedule")'
    <3>1. pc'["schedule"] = "match" /\ my'["schedule"].rest = FALSE
      BY <1>2, ThreadFacts, NoteFields DEF ScheduleNext, Enter
    <3> QED
      BY <3>1, Zenon DEF FlagOK
  <2>2. \A t \in Threads \ {"schedule"} : pc'[t] = pc[t] /\ my'[t] = my[t]
    BY <1>2, Zenon DEF ScheduleNext, Enter
  <2>3. UNCHANGED <<block, delivered>> /\ EndsOK(B)'
    BY <1>2, Zenon DEF ScheduleNext, Enter, EndsOK, Complete
  <2> QED
    BY <2>1, <2>2, <2>3, FlagFrame, ThreadFacts, Zenon
<1>3. CASE ScheduleMatch
  BY <1>3, ThreadFacts, ZenonT(30)
     DEF ScheduleMatch, Complete, MarksOK, FlagOK, EndsOK
<1>4. CASE ScheduleNetwork
  <2>1. FlagOK(B, "schedule")'
    <3>1. pc'["schedule"] \in {"verify_path", "teardown"} /\ UNCHANGED <<my, delivered>>
      BY <1>4, ThreadFacts, Zenon DEF ScheduleNetwork
    <3> QED
      BY <3>1, ThreadFacts, Zenon DEF FlagOK
  <2>2. \A t \in Threads \ {"schedule"} : pc'[t] = pc[t] /\ my'[t] = my[t]
    BY <1>4, Zenon DEF ScheduleNetwork
  <2>3. UNCHANGED <<block, delivered>> /\ EndsOK(B)'
    BY <1>4, Zenon DEF ScheduleNetwork, EndsOK, Complete
  <2> QED
    BY <2>1, <2>2, <2>3, FlagFrame, ThreadFacts, Zenon
<1>5. CASE ScheduleVerify
  BY <1>5, ThreadFacts, ZenonT(30)
     DEF ScheduleVerify, Complete, MarksOK, FlagOK,
         EndsOK
<1>6. CASE ScheduleLaunch
  BY <1>6, ThreadFacts, Zenon
     DEF ScheduleLaunch, InsertFlow, Complete, MarksOK,
         FlagOK, EndsOK
<1>7. CASE ScheduleNoLauncher
  <2>1. Down /\ UNCHANGED <<block, delivered, rawjob>>
    BY <1>7, Zenon DEF ScheduleNoLauncher, InsertFlow
  <2>2. \A t \in Threads : FlagOK(B, t)'
    BY <2>1, DownFacts, BlankFlag, Zenon DEF FreePC
  <2>3. EndsOK(B)'
    BY <1>7, <2>1, Zenon DEF ScheduleNoLauncher, InsertFlow, EndsOK, Complete
  <2> QED
    BY <2>1, <2>2, <2>3, Zenon DEF MarksOK
<1>8. CASE ScheduleLaunchedBlock
  BY <1>8, ThreadFacts, ZenonT(40)
     DEF ScheduleLaunchedBlock, Complete, MarksOK,
         FlagOK, EndsOK
<1>9. CASE ScheduleLaunchedFlow
  BY <1>9, ThreadFacts, Zenon
     DEF ScheduleLaunchedFlow, Complete, MarksOK, FlagOK,
         EndsOK
<1>10. CASE ScheduleLaunchedRaw
  <2>1. FlagOK(B, "schedule")'
    <3>1. my'["schedule"] = Nothing /\ pc'["schedule"] \in FreePC
      BY <1>10, ThreadFacts, Zenon DEF ScheduleLaunchedRaw, Return, Enter, FreePC
    <3> QED
      BY <3>1, BlankFlag, Zenon
  <2>2. \A t \in Threads \ {"schedule"} : pc'[t] = pc[t] /\ my'[t] = my[t]
    BY <1>10, Zenon DEF ScheduleLaunchedRaw, Return, Enter
  <2>3. UNCHANGED <<block, delivered>> /\ EndsOK(B)'
    BY <1>10, Zenon DEF ScheduleLaunchedRaw, Return, Enter, EndsOK, Complete
  <2> QED
    BY <2>1, <2>2, <2>3, FlagFrame, ThreadFacts, Zenon
<1> QED
  BY <1>1, <1>2, <1>3, <1>4, <1>5, <1>6, <1>7, <1>8, <1>9, <1>10, Zenon
     DEF Schedule

\* Marks, flags and final states stay behind the contents, if a block without a
\* checksum is there when mld_status is told that it was transferred: the steps
\* of poll_rate.
LEMMA MarksPoll ==
  ASSUME NEW B \in SUBSET Blocks, IInv, MarksBehind(B), Poll,
         \A h \in Handlers : pc[h] = "three" /\ my[h].blk \in B \ ChecksumBlocks
                                => my[h].blk \in delivered[my[h].sj]
  PROVE  MarksBehind(B)'
<1>t. /\ sjob \in [SJobs -> SJobState]
      /\ block \in [SJobs -> [Blocks -> BlockState]]
      /\ pc \in [Threads -> PC]
      /\ my \in [Threads -> Local]
      /\ delivered \in [SJobs -> SUBSET Blocks]
      /\ status \in [SJobs -> Seq(1..3)]
  BY Zenon DEF IInv, TypeOK
<1>i. TypeOK /\ PcOK
  BY Zenon DEF IInv
<1> USE <1>t, <1>i DEF At, Goto, store, world, budget, MarksBehind
<1>1. CASE PollBegin
  BY <1>1, ThreadFacts, Zenon
     DEF PollBegin, Complete, MarksOK, FlagOK, EndsOK
<1>2. CASE PollRate
  <2>1. FlagOK(B, "poll")'
    <3>1. PICK j \in todo["poll"] : PollNoNews(j) \/ PollUnknownTask(j) \/ PollInactive(j)
      BY <1>2, Zenon DEF PollRate
    <3>2. pc'["poll"] \in {"idle", "poll", "unknown", "stalled"} /\ my'["poll"].rest = FALSE
      <4>1. CASE PollNoNews(j)
        BY <4>1, ThreadFacts, NothingFields, ZenonT(40) DEF PollNoNews, Return, Enter
      <4>2. CASE PollUnknownTask(j)
        BY <4>2, ThreadFacts, NoteFields DEF PollUnknownTask, Enter
      <4>3. CASE PollInactive(j)
        BY <4>3, ThreadFacts, NoteFields, ZenonT(30) DEF PollInactive, Enter
      <4> QED
        BY <3>1, <4>1, <4>2, <4>3, Zenon
    <3> QED
      BY <3>2, Zenon DEF FlagOK
  <2>2. \A t \in Threads \ {"poll"} : pc'[t] = pc[t] /\ my'[t] = my[t]
    BY <1>2, Zenon DEF PollRate, PollNoNews, PollUnknownTask, PollInactive, Return, Enter
  <2>3. UNCHANGED <<block, delivered>> /\ EndsOK(B)'
    BY <1>2, Zenon DEF PollRate, PollNoNews, PollUnknownTask, PollInactive, Return, Enter, EndsOK, Complete
  <2> QED
    BY <2>1, <2>2, <2>3, FlagFrame, ThreadFacts, Zenon
<1>3. CASE PollNoLauncher
  <2>1. Down /\ UNCHANGED <<block, delivered, sjob, rawjob>>
    BY <1>3, Zenon DEF PollNoLauncher
  <2>2. \A t \in Threads : FlagOK(B, t)'
    BY <2>1, DownFacts, BlankFlag, Zenon DEF FreePC
  <2>3. EndsOK(B)'
    BY <2>1, Zenon DEF EndsOK, Complete
  <2> QED
    BY <2>1, <2>2, <2>3, Zenon DEF MarksOK
<1>4. CASE PollUnknown
  BY <1>4, ThreadFacts, Zenon
     DEF PollUnknown, TearDown, Complete, MarksOK,
         FlagOK, EndsOK
<1>5. CASE PollUnknownDrop
  BY <1>5, ThreadFacts, Zenon
     DEF PollUnknownDrop, PollDrop, Complete, MarksOK,
         FlagOK, EndsOK
<1>6. CASE PollStalled
  BY <1>6, ThreadFacts, ZenonT(40)
     DEF PollStalled, PollDrop, Complete, MarksOK,
         FlagOK, EndsOK
<1> QED
  BY <1>1, <1>2, <1>3, <1>4, <1>5, <1>6, Zenon DEF Poll

\* Marks, flags and final states stay behind the contents, if a block without a
\* checksum is there when mld_status is told that it was transferred: the steps
\* of mld_status.
LEMMA MarksStatus ==
  ASSUME NEW B \in SUBSET Blocks, IInv, MarksBehind(B), (\E h \in Handlers : Status(h)),
         \A h \in Handlers : pc[h] = "three" /\ my[h].blk \in B \ ChecksumBlocks
                                => my[h].blk \in delivered[my[h].sj]
  PROVE  MarksBehind(B)'
<1>t. /\ sjob \in [SJobs -> SJobState]
      /\ block \in [SJobs -> [Blocks -> BlockState]]
      /\ pc \in [Threads -> PC]
      /\ my \in [Threads -> Local]
      /\ delivered \in [SJobs -> SUBSET Blocks]
      /\ status \in [SJobs -> Seq(1..3)]
  BY Zenon DEF IInv, TypeOK
<1>i. TypeOK /\ PcOK
  BY Zenon DEF IInv
<1> USE <1>t, <1>i DEF At, Goto, store, world, budget, MarksBehind
<1>1. ASSUME NEW h \in Handlers, NEW s \in SJobs, StatusBegin(h, s) PROVE MarksBehind(B)'
  <2>1. FlagOK(B, h)'
    <3>1. PICK n \in 0..NBlocks : Enter(h, Branch(Head(status[s])), Snapshot(s, n))
      BY <1>1, Zenon DEF StatusBegin
    <3>2. pc'[h] \in {"one", "two", "three"}
      BY <1>1, <3>1, ThreadFacts, BranchType, Zenon DEF StatusBegin, Enter
    <3>3. my'[h] = Snapshot(s, n) /\ UNCHANGED delivered
      BY <1>1, <3>1, ThreadFacts, Zenon DEF StatusBegin, Enter
    <3>4. Snapshot(s, n).rest => \A b \in B \ {fblock[s]} : b \in delivered[s]
      BY SnapshotFields, Constants, Zenon DEF MarksOK
    <3>5. Snapshot(s, n).blk = fblock[s] /\ Snapshot(s, n).sj = s
      BY SnapshotFields, Zenon
    <3> QED
      BY <3>2, <3>3, <3>4, <3>5, Zenon DEF FlagOK
  <2>2. \A t \in Threads \ {h} : pc'[t] = pc[t] /\ my'[t] = my[t]
    BY <1>1, Zenon DEF StatusBegin, Enter
  <2>3. UNCHANGED <<block, delivered>> /\ EndsOK(B)'
    BY <1>1, Zenon DEF StatusBegin, Enter, EndsOK, Complete
  <2> QED
    BY <2>1, <2>2, <2>3, FlagFrame, ThreadFacts, Zenon
<1>2. ASSUME NEW h \in Handlers, StatusRunningFlow(h) PROVE MarksBehind(B)'
  BY <1>2, ThreadFacts, Zenon
     DEF StatusRunningFlow, Complete, MarksOK, FlagOK,
         EndsOK
<1>3. ASSUME NEW h \in Handlers, StatusRunningSJob(h) PROVE MarksBehind(B)'
  <2>1. FlagOK(B, h)'
    <3>1. my'[h] = Nothing /\ pc'[h] \in FreePC
      BY <1>3, ThreadFacts, Zenon DEF StatusRunningSJob, Return, Enter, FreePC
    <3> QED
      BY <3>1, BlankFlag, Zenon
  <2>2. \A t \in Threads \ {h} : pc'[t] = pc[t] /\ my'[t] = my[t]
    BY <1>3, Zenon DEF StatusRunningSJob, Return, Enter
  <2>3. UNCHANGED <<block, delivered>> /\ EndsOK(B)'
    BY <1>3, Zenon DEF StatusRunningSJob, Return, Enter, EndsOK, Complete
  <2> QED
    BY <2>1, <2>2, <2>3, FlagFrame, ThreadFacts, Zenon
<1>4. ASSUME NEW h \in Handlers, StatusError(h) PROVE MarksBehind(B)'
  BY <1>4, ThreadFacts, Zenon
     DEF StatusError, Complete, MarksOK, FlagOK, EndsOK
<1>5. ASSUME NEW h \in Handlers, StatusDone(h) PROVE MarksBehind(B)'
  BY <1>5, ThreadFacts, Zenon
     DEF StatusDone, Complete, MarksOK, FlagOK, EndsOK
<1>6. ASSUME NEW h \in Handlers, ChecksumOk(h) PROVE MarksBehind(B)'
  BY <1>6, ThreadFacts, Zenon
     DEF ChecksumOk, Complete, MarksOK, FlagOK, EndsOK
<1>7. ASSUME NEW h \in Handlers, ChecksumFailed(h) PROVE MarksBehind(B)'
  BY <1>7, ThreadFacts, SMTT(30)
     DEF ChecksumFailed, Enter, Complete, MarksOK,
         FlagOK, EndsOK
<1>8. ASSUME NEW h \in Handlers, MarkFinished(h) PROVE MarksBehind(B)'
  BY <1>8, ThreadFacts, ZenonT(30)
     DEF MarkFinished, Complete, MarksOK, FlagOK, EndsOK
<1>9. ASSUME NEW h \in Handlers, Release(h) PROVE MarksBehind(B)'
  <2>1. FlagOK(B, h)'
    <3>1. CASE my[h].rest
      <4>1. pc[h] = "release" /\ pc'[h] = "finish" /\ UNCHANGED <<my, delivered>>
        BY <1>9, <3>1, ThreadFacts, Zenon DEF Release
      <4> QED
        BY <3>1, <4>1, ThreadFacts, Zenon DEF FlagOK
    <3>2. CASE ~my[h].rest
      <4>1. my'[h] = Nothing /\ pc'[h] \in FreePC
        BY <1>9, <3>2, ThreadFacts, Zenon DEF Release, Return, Enter, FreePC
      <4> QED
        BY <4>1, BlankFlag, Zenon
    <3> QED
      BY <3>1, <3>2, Zenon
  <2>2. \A t \in Threads \ {h} : pc'[t] = pc[t] /\ my'[t] = my[t]
    BY <1>9, Zenon DEF Release, Return, Enter
  <2>3. UNCHANGED <<block, delivered>> /\ EndsOK(B)'
    BY <1>9, Zenon DEF Release, Return, Enter, TearDown, EndsOK, Complete
  <2> QED
    BY <2>1, <2>2, <2>3, FlagFrame, ThreadFacts, Zenon
<1>10. ASSUME NEW h \in Handlers, FinishSJob(h) PROVE MarksBehind(B)'
  BY <1>10, ThreadFacts, Zenon
     DEF FinishSJob, Complete, MarksOK, FlagOK, EndsOK
<1>11. ASSUME NEW h \in Handlers, SumUp(h) PROVE MarksBehind(B)'
  <2>1. FlagOK(B, h)'
    <3>1. CASE \A s \in SJobs : sjob[s] = "finished"
      <4>1. pc'[h] = "finish_raw" /\ UNCHANGED <<my, delivered>>
        BY <1>11, <3>1, ThreadFacts, Zenon DEF SumUp
      <4> QED
        BY <3>1, <4>1, ThreadFacts, Zenon DEF FlagOK, EndsOK, Complete
    <3>2. CASE ~ \A s \in SJobs : sjob[s] = "finished"
      <4>1. my'[h] = Nothing /\ pc'[h] \in FreePC
        BY <1>11, <3>2, ThreadFacts, Zenon DEF SumUp, Return, Enter, FreePC
      <4> QED
        BY <4>1, BlankFlag, Zenon
    <3> QED
      BY <3>1, <3>2, Zenon
  <2>2. \A t \in Threads \ {h} : pc'[t] = pc[t] /\ my'[t] = my[t]
    BY <1>11, Zenon DEF SumUp, Return, Enter
  <2>3. UNCHANGED <<block, delivered>> /\ EndsOK(B)'
    BY <1>11, ZenonT(30) DEF SumUp, Return, Enter, EndsOK, Complete
  <2> QED
    BY <2>1, <2>2, <2>3, FlagFrame, ThreadFacts, Zenon
<1>12. ASSUME NEW h \in Handlers, FinishRaw(h) PROVE MarksBehind(B)'
  <2>1. FlagOK(B, h)'
    <3>1. my'[h] = Nothing /\ pc'[h] \in FreePC
      BY <1>12, ThreadFacts, Zenon DEF FinishRaw, Return, Enter, FreePC
    <3> QED
      BY <3>1, BlankFlag, Zenon
  <2>2. \A t \in Threads \ {h} : pc'[t] = pc[t] /\ my'[t] = my[t]
    BY <1>12, Zenon DEF FinishRaw, Return, Enter
  <2>3. UNCHANGED <<block, delivered>> /\ EndsOK(B)'
    BY <1>12, ThreadFacts, ZenonT(30) DEF FinishRaw, Return, Enter, FlagOK, EndsOK, Complete
  <2> QED
    BY <2>1, <2>2, <2>3, FlagFrame, ThreadFacts, Zenon
<1>13. ASSUME NEW h \in Handlers, Relaunch(h) PROVE MarksBehind(B)'
  BY <1>13, ThreadFacts, Zenon
     DEF Relaunch, Complete, MarksOK, FlagOK, EndsOK
<1>14. ASSUME NEW h \in Handlers, RelaunchNoLauncher(h) PROVE MarksBehind(B)'
  BY <1>14, ThreadFacts, Zenon
     DEF RelaunchNoLauncher, Complete, MarksOK, FlagOK,
         EndsOK
<1>15. ASSUME NEW h \in Handlers, RelaunchedBlock(h) PROVE MarksBehind(B)'
  <2>1. \A s \in SJobs, b \in Blocks : block'[s][b] = "finished" => block[s][b] = "finished"
    BY <1>15, Zenon DEF RelaunchedBlock
  <2>2. UNCHANGED <<rawjob, sjob, delivered, my>>
    BY <1>15, Zenon DEF RelaunchedBlock
  <2>3. MarksOK(B)'
    BY <2>1, <2>2, Constants, ZenonT(30) DEF MarksOK
  <2>4. \A t \in Threads : FlagOK(B, t)'
    BY <1>15, <2>2, ThreadFacts, ZenonT(30) DEF RelaunchedBlock, FlagOK, Complete
  <2> QED
    BY <2>2, <2>3, <2>4, ZenonT(30) DEF EndsOK, Complete
<1>16. ASSUME NEW h \in Handlers, RelaunchedFlow(h) PROVE MarksBehind(B)'
  BY <1>16, ThreadFacts, ZenonT(30)
     DEF RelaunchedFlow, Complete, MarksOK, FlagOK,
         EndsOK
<1>17. ASSUME NEW h \in Handlers, RelaunchedRaw(h) PROVE MarksBehind(B)'
  <2>1. FlagOK(B, h)'
    <3>1. my'[h] = Nothing /\ pc'[h] \in FreePC
      BY <1>17, ThreadFacts, Zenon DEF RelaunchedRaw, Return, Enter, FreePC
    <3> QED
      BY <3>1, BlankFlag, Zenon
  <2>2. \A t \in Threads \ {h} : pc'[t] = pc[t] /\ my'[t] = my[t]
    BY <1>17, Zenon DEF RelaunchedRaw, Return, Enter
  <2>3. UNCHANGED <<block, delivered>> /\ EndsOK(B)'
    BY <1>17, Zenon DEF RelaunchedRaw, Return, Enter, EndsOK, Complete
  <2> QED
    BY <2>1, <2>2, <2>3, FlagFrame, ThreadFacts, Zenon
<1> QED
  BY <1>1, <1>2, <1>3, <1>4, <1>5, <1>6, <1>7, <1>8, <1>9, <1>10, <1>11,
     <1>12, <1>13, <1>14, <1>15, <1>16, <1>17, ZenonT(30) DEF Status

\* Marks, flags and final states stay behind the contents, if a block without a
\* checksum is there when mld_status is told that it was transferred: failures,
\* the launching agent and restarts.
LEMMA MarksRest ==
  ASSUME NEW B \in SUBSET Blocks, IInv, MarksBehind(B), ((\E t \in Threads : Fail(t)) \/ Environment \/ UNCHANGED vars),
         \A h \in Handlers : pc[h] = "three" /\ my[h].blk \in B \ ChecksumBlocks
                                => my[h].blk \in delivered[my[h].sj]
  PROVE  MarksBehind(B)'
<1>t. /\ sjob \in [SJobs -> SJobState]
      /\ block \in [SJobs -> [Blocks -> BlockState]]
      /\ pc \in [Threads -> PC]
      /\ my \in [Threads -> Local]
      /\ delivered \in [SJobs -> SUBSET Blocks]
      /\ status \in [SJobs -> Seq(1..3)]
  BY Zenon DEF IInv, TypeOK
<1>i. TypeOK /\ PcOK
  BY Zenon DEF IInv
<1> USE <1>t, <1>i DEF At, Goto, store, world, budget, MarksBehind
<1>1. ASSUME NEW t \in Threads, FailTearDown(t) \/ FailSJob(t) PROVE MarksBehind(B)'
  BY <1>1, ThreadFacts, ZenonT(90)
     DEF FailTearDown, FailSJob, TearDown, Complete,
         MarksOK, FlagOK, EndsOK
<1>2. ASSUME NEW t \in Threads, FailRaw(t) PROVE MarksBehind(B)'
  <2>1. FlagOK(B, t)'
    <3>1. my'[t] = Nothing /\ pc'[t] \in FreePC
      BY <1>2, ThreadFacts, Zenon DEF FailRaw, Return, Enter, FreePC
    <3> QED
      BY <3>1, BlankFlag, Zenon
  <2>2. \A u \in Threads \ {t} : pc'[u] = pc[u] /\ my'[u] = my[u]
    BY <1>2, Zenon DEF FailRaw, Return, Enter
  <2>3. UNCHANGED <<block, delivered>> /\ EndsOK(B)'
    BY <1>2, Zenon DEF FailRaw, Return, Enter, EndsOK, Complete
  <2> QED
    BY <2>1, <2>2, <2>3, FlagFrame, ThreadFacts, Zenon
<1>3. CASE CallTimeout
  BY <1>3, ThreadFacts
     DEF CallTimeout, Answered, Complete, MarksOK,
         FlagOK, EndsOK
<1>4. CASE LauncherServe
  <2>1. PICK c \in calls, ok \in BOOLEAN :
          IF c.by = "nobody" THEN UNCHANGED <<pc, my>> ELSE Goto(c.by, Answered(c.by, ok))
    BY <1>4, Zenon DEF LauncherServe
  <2>2. \A t \in Threads : pc'[t] = pc[t] \/ pc'[t] \in {"launched", "teardown", "relaunched"}
    BY <2>1, Zenon DEF Answered
  <2>3. UNCHANGED <<rawjob, sjob, block, delivered, my>>
    BY <1>4, Zenon DEF LauncherServe
  <2>4. \A t \in Threads : FlagOK(B, t)'
    BY <2>2, <2>3, Zenon DEF FlagOK, Complete
  <2> QED
    BY <2>3, <2>4, Zenon DEF MarksOK, EndsOK, Complete
<1>5. ASSUME NEW s \in SJobs, MdtmDone(s) PROVE MarksBehind(B)'
  BY <1>5, ThreadFacts
     DEF MdtmDone, Complete, MarksOK, FlagOK, EndsOK
<1>6. ASSUME NEW s \in SJobs, MdtmError(s) PROVE MarksBehind(B)'
  BY <1>6, ThreadFacts, Zenon
     DEF MdtmError, Complete, MarksOK, FlagOK, EndsOK
<1>7. CASE MdtmRestart \/ LauncherLeave \/ LauncherReturn \/ Restart
  BY <1>7, ThreadFacts, Zenon
     DEF MdtmRestart, LauncherLeave, LauncherReturn, Restart, Complete, MarksOK, FlagOK, EndsOK
<1>8. CASE Crash
  <2>1. Down /\ UNCHANGED <<block, delivered, sjob, rawjob>>
    BY <1>8, Zenon DEF Crash
  <2>2. \A t \in Threads : FlagOK(B, t)'
    BY <2>1, DownFacts, BlankFlag, Zenon DEF FreePC
  <2>3. EndsOK(B)'
    BY <2>1, Zenon DEF EndsOK, Complete
  <2> QED
    BY <2>1, <2>2, <2>3, Zenon DEF MarksOK
<1>9. CASE UNCHANGED vars
  BY <1>9, Zenon DEF vars, Complete, MarksOK, FlagOK, EndsOK
<1> QED
  BY <1>1, <1>2, <1>3, <1>4, <1>5, <1>6, <1>7, <1>8, <1>9, Zenon DEF
     Fail, Environment

\* Marks, flags and final states stay behind the contents, if a block without a
\* checksum is there when mld_status is told that it was transferred.
LEMMA MarksStep ==
  ASSUME NEW B \in SUBSET Blocks, IInv, MarksBehind(B), [Next]_vars,
         \A h \in Handlers : pc[h] = "three" /\ my[h].blk \in B \ ChecksumBlocks
                                => my[h].blk \in delivered[my[h].sj]
  PROVE  MarksBehind(B)'
BY MarksSchedule, MarksPoll, MarksStatus, MarksRest, Zenon DEF Next

-----------------------------------------------------------------------------
(* The one transfer of an sjob                                             *)

\* A status that is not "done" adds no "done".
LEMMA AppendOther ==
  ASSUME NEW q \in Seq(1..3), NEW x \in 1..2
  PROVE  /\ HasDone(Append(q, x)) => HasDone(q)
         /\ OneDone(q) => OneDone(Append(q, x))
BY DEF HasDone, OneDone

\* The first "done" is the only one.
LEMMA AppendDone ==
  ASSUME NEW q \in Seq(1..3), ~HasDone(q)
  PROVE  OneDone(Append(q, 3))
BY DEF HasDone, OneDone

\* The queue without the message taken from it.
LEMMA TailDone ==
  ASSUME NEW q \in Seq(1..3), q # <<>>, OneDone(q)
  PROVE  /\ OneDone(Tail(q))
         /\ HasDone(Tail(q)) => HasDone(q)
         /\ Head(q) = 3 => HasDone(q) /\ ~HasDone(Tail(q))
<1>1. Len(q) \in Nat \ {0} /\ Tail(q) \in Seq(1..3) /\ Len(Tail(q)) = Len(q) - 1
  OBVIOUS
<1>2. \A i \in DOMAIN Tail(q) : i + 1 \in DOMAIN q /\ Tail(q)[i] = q[i + 1] /\ i + 1 # 1
  BY <1>1
<1>3. Head(q) = q[1] /\ 1 \in DOMAIN q
  BY <1>1
<1>4. DOMAIN Tail(q) \subseteq Nat
  BY <1>1
<1>5. OneDone(Tail(q))
  BY <1>2, <1>4 DEF OneDone
<1>6. HasDone(Tail(q)) => HasDone(q)
  BY <1>2, Zenon DEF HasDone
<1>7. Head(q) = 3 => HasDone(q) /\ ~HasDone(Tail(q))
  BY <1>2, <1>3, Zenon DEF HasDone, OneDone
<1> QED
  BY <1>5, <1>6, <1>7, Zenon

\* The newest message alone, as the broker retains it.
LEMMA NewestDone ==
  ASSUME NEW q \in Seq(1..3), q # <<>>
  PROVE  OneDone(<<q[Len(q)]>>) /\ (HasDone(<<q[Len(q)]>>) => HasDone(q))
<1>1. Len(q) \in DOMAIN q
  OBVIOUS
<1> QED
  BY <1>1 DEF OneDone, HasDone

\* No transfer of r begins or moves on.
Fewer(r) ==
  /\ \A c \in calls' : c.sj = r => \E d \in calls : d.sj = r /\ d.blk = c.blk
  /\ \A c, d \in calls' : c.sj = r /\ d.sj = r => c = d
  /\ mdtm'[r] \subseteq mdtm[r]
  /\ OneDone(status'[r]) /\ (HasDone(status'[r]) => HasDone(status[r]))
  /\ \A h \in Handlers : Doing(h, r)' => Doing(h, r) /\ my'[h].blk = my[h].blk

\* A thread takes up no transfer of r.
Quiet(h, r) ==
  /\ Doing(h, r)' => Doing(h, r) /\ my'[h].blk = my[h].blk
  /\ Relaunches(h, r)' => Relaunches(h, r) /\ my'[h].next = my[h].next
  /\ Verifying(h, r)' => Verifying(h, r) /\ my'[h].tries = my[h].tries

\* Then there is still one at most,
LEMMA OneFrame ==
  ASSUME NEW r \in SJobs, OneTransfer(r), Fewer(r)
  PROVE  OneTransfer(r)'
<1>1. /\ Called(r)' => Called(r)
      /\ mdtm'[r] # {} => mdtm[r] # {}
      /\ Reported(r)' => Reported(r)
      /\ Handled(r)' => Handled(r)
  BY Zenon DEF Fewer, Called, Reported, Handled
<1>2. \A g, h \in Handlers : Doing(g, r)' /\ Doing(h, r)' => g = h
  BY Zenon DEF Fewer, OneTransfer
<1>3. \A a, b \in mdtm'[r] : a = b
  BY Zenon DEF Fewer, OneTransfer
<1> QED
  BY <1>1, <1>2, <1>3, Zenon DEF OneTransfer, Fewer

\* ... the retries are as they were,
LEMMA RetriesFrame ==
  ASSUME NEW r \in SJobs, RetriesOK(r), Fewer(r), retry'[r] = retry[r],
         flow'[r] = "none" => flow[r] = "none",
         \A h \in Handlers : Quiet(h, r)
  PROVE  RetriesOK(r)'
<1>1. Live(r)' => Live(r)
  BY Zenon DEF Live, Fewer, Called, Reported, Handled
<1>2. \A h \in Handlers : Verifying(h, r)' => my'[h].tries = retry'[r]
  BY Zenon DEF Quiet, RetriesOK
<1> QED
  BY <1>1, <1>2, Zenon DEF RetriesOK

\* ... and a "done" is taken for blocks it was taken for.
LEMMA TakenFrame ==
  ASSUME NEW r \in SJobs, TakenOK(r), Fewer(r), TakenFor(r)' \subseteq TakenFor(r),
         delivered[r] \subseteq delivered'[r]
  PROVE  TakenOK(r)'
<1>1. \A b : Good(r, b) => Good(r, b)'
  BY Zenon DEF Good
<1>2. \A x : Heading(r, x) => Heading(r, x)'
  BY <1>1, Zenon DEF Heading
<1>3. \A c \in calls' : c.sj = r => Heading(r, c.blk)'
  BY <1>2, Zenon DEF Fewer, TakenOK
<1>4. \A b \in mdtm'[r] : Heading(r, b)'
  BY <1>2, Zenon DEF Fewer, TakenOK
<1>5. Reported(r)' \/ Handled(r)' => \A b \in TakenFor(r)' : Good(r, b)'
  BY <1>1, Zenon DEF Fewer, TakenOK, Reported, Handled
<1>6. \A h \in Handlers : Doing(h, r)' => Good(r, my[h].blk)'
  <2> SUFFICES ASSUME NEW h \in Handlers, Doing(h, r)' PROVE Good(r, my[h].blk)'
    BY Zenon
  <2>1. Good(r, my[h].blk) /\ my'[h].blk = my[h].blk
    BY Zenon DEF Fewer, TakenOK
  <2> QED
    BY <2>1, Zenon DEF Good
<1> QED
  BY <1>3, <1>4, <1>5, <1>6, Zenon DEF TakenOK

\* The names do not change when the block of the flow does not.
LEMMA TakenSame ==
  ASSUME NEW r \in SJobs, fblock'[r] = fblock[r], \A h \in Handlers : Quiet(h, r)
  PROVE  TakenFor(r)' \subseteq TakenFor(r)
BY ZenonT(30) DEF TakenFor, Quiet

\* A step of the environment.
LEMMA TransferFrame ==
  ASSUME NEW r \in SJobs, TransferOK(r), Fewer(r), \A h \in Handlers : Quiet(h, r),
         fblock'[r] = fblock[r], retry'[r] = retry[r],
         flow'[r] = "none" => flow[r] = "none",
         delivered[r] \subseteq delivered'[r]
  PROVE  TransferOK(r)'
BY OneFrame, RetriesFrame, TakenFrame, TakenSame, Zenon DEF TransferOK

\* A step of the server between two points where it meets the environment.
LEMMA QuietStep ==
  ASSUME NEW r \in SJobs, TransferOK(r),
         UNCHANGED <<fblock, retry, calls, mdtm, delivered, status>>,
         flow'[r] = "none" => flow[r] = "none",
         \A h \in Handlers : Quiet(h, r)
  PROVE  TransferOK(r)'
<1>1. Fewer(r)
  BY Zenon DEF Fewer, Quiet, TransferOK, OneTransfer
<1> QED
  BY <1>1, TransferFrame, Zenon

\* What the other threads do not do.
LEMMA OthersQuiet ==
  ASSUME NEW r, NEW t, t \in Handlers => Quiet(t, r),
         \A h \in Handlers \ {t} : pc'[h] = pc[h] /\ my'[h] = my[h]
  PROVE  \A h \in Handlers : Quiet(h, r)
BY Zenon DEF Quiet, Doing, Relaunches, Verifying

\* A handler that returned takes up nothing.
LEMMA BlankQuiet ==
  ASSUME NEW r \in SJobs, NEW h, my'[h] = Nothing
  PROVE  Quiet(h, r) /\ ~Doing(h, r)'
BY NothingFields, Zenon DEF Quiet, Doing, Relaunches, Verifying

\* Nor does one that ends the job or has nothing to launch.
Ending == {"idle", "one", "one_sjob", "two", "release", "finish", "sum", "finish_raw",
           "relaunched_raw", "teardown", "fail_sjob", "fail_raw"}

LEMMA EndQuiet ==
  ASSUME NEW r \in SJobs, NEW h, pc'[h] \in Ending
  PROVE  Quiet(h, r) /\ ~Doing(h, r)' /\ ~Verifying(h, r)'
BY Zenon DEF Ending, Quiet, Doing, Relaunches, Verifying

\* The process ends: requests stay, nobody handles anything.
LEMMA DownTransfer ==
  ASSUME TypeOK, NEW r \in SJobs, TransferOK(r), Down,
         UNCHANGED <<mdtm, delivered, status, retry>>, fblock'[r] = fblock[r],
         flow'[r] = "none" => flow[r] = "none"
  PROVE  TransferOK(r)'
<1>1. \A h \in Handlers : Quiet(h, r)
  BY DownFacts, BlankQuiet, ThreadFacts, Zenon
<1>2. \A c \in calls' : \E d \in calls : c = Abandoned(d) /\ c.sj = d.sj /\ c.blk = d.blk
  BY SMTT(30) DEF Down, Abandoned
<1>s. \A c, d \in calls : c.sj = r /\ d.sj = r => c = d
  BY Zenon DEF TransferOK, OneTransfer
<1>3. \A c, d \in calls' : c.sj = r /\ d.sj = r => c = d
  <2> SUFFICES ASSUME NEW c \in calls', NEW d \in calls', c.sj = r, d.sj = r
               PROVE  c = d
    OBVIOUS
  <2>1. PICK b \in calls : c = Abandoned(b) /\ c.sj = b.sj
    BY <1>2, Zenon
  <2>2. PICK e \in calls : d = Abandoned(e) /\ d.sj = e.sj
    BY <1>2, ZenonT(40)
  <2> QED
    BY <1>s, <2>1, <2>2, Zenon
<1>4. Fewer(r)
  BY <1>1, <1>2, <1>3, SMTT(30) DEF Fewer, Quiet, TransferOK, OneTransfer
<1> QED
  BY <1>1, <1>4, TransferFrame, Zenon

\* schedule() launches the first block of an sjob that nothing is known of.
LEMMA FirstLaunch ==
  ASSUME IInv, NEW r \in SJobs, TransferOK(r), ScheduleLaunch
  PROVE  TransferOK(r)'
<1> DEFINE s == my["schedule"].sj
           c == [sj |-> s, blk |-> my["schedule"].next, by |-> "schedule"]
<1>1. s \in SJobs /\ flow[s] = "none" /\ Untouched(s)
  BY ThreadFacts, Zenon DEF ScheduleLaunch, At, IInv, PcOK, Own, FreePC, NoFlowOK, FlowOK, BeforeFlowPC
<1>2. /\ UNCHANGED <<retry, mdtm, delivered, status, my>>
      /\ \A h \in Handlers : pc'[h] = pc[h]
      /\ calls' = calls \cup {c}
  BY ThreadFacts DEF ScheduleLaunch, InsertFlow, Goto
<1>3. c.sj = s /\ c.blk = my["schedule"].next
  BY Zenon
<1>4. \A h \in Handlers : Quiet(h, r)
  BY <1>2, Zenon DEF Quiet, Doing, Relaunches, Verifying
<1>t. flow \in [SJobs -> FlowState] /\ fblock \in [SJobs -> 0..NBlocks]
  BY Zenon DEF IInv, TypeOK
<1>5. CASE r # s
  <2>1. fblock'[r] = fblock[r] /\ flow'[r] = flow[r]
    BY <1>t, <1>5, Zenon DEF ScheduleLaunch, InsertFlow
  <2>2. Fewer(r)
    BY <1>2, <1>3, <1>4, <1>5, ZenonT(30) DEF Fewer, Quiet, TransferOK, OneTransfer
  <2> QED
    BY <1>2, <1>4, <2>1, <2>2, TransferFrame, Zenon
<1>6. CASE r = s
  <2>1. fblock'[r] = my["schedule"].next
    BY <1>1, <1>t, <1>6, Zenon DEF ScheduleLaunch, InsertFlow
  <2>2. /\ \A d \in calls' : d.sj = r => d = c
        /\ mdtm'[r] = {} /\ status'[r] = <<>>
    BY <1>1, <1>2, <1>3, <1>6, Zenon DEF Untouched
  <2>3. \A h \in Handlers : my'[h].sj # r
    BY <1>1, <1>2, <1>6, ThreadFacts, Zenon DEF Untouched
  <2>4. ~HasDone(<<>>) /\ OneDone(<<>>)
    BY DEF HasDone, OneDone
  <2>5. OneTransfer(r)'
    BY <2>2, <2>3, <2>4, Zenon DEF OneTransfer, Handled, Doing, Reported
  <2>6. RetriesOK(r)'
    BY <1>1, <1>2, <1>6, <2>3, Zenon DEF TransferOK, RetriesOK, Live, Verifying
  <2>7. TakenFor(r)' = {c.blk}
    BY <1>3, <2>1, <2>3, Zenon DEF TakenFor, Relaunches
  <2>8. \A d \in calls' : d.sj = r => Heading(r, d.blk)'
    BY <2>2, <2>7, Zenon DEF Heading
  <2>9. TakenOK(r)'
    BY <2>2, <2>3, <2>4, <2>8, Zenon DEF TakenOK, Doing, Handled, Reported
  <2> QED
    BY <2>5, <2>6, <2>9, Zenon DEF TransferOK
<1> QED
  BY <1>5, <1>6, Zenon

\* ... or the server ends for want of a launcher after insert_flow.
LEMMA NoFirstLaunch ==
  ASSUME IInv, NEW r \in SJobs, TransferOK(r), ScheduleNoLauncher
  PROVE  TransferOK(r)'
<1> DEFINE s == my["schedule"].sj
<1>1. s \in SJobs /\ flow[s] = "none" /\ Untouched(s)
  BY ThreadFacts, Zenon DEF ScheduleNoLauncher, At, IInv, PcOK, Own, FreePC, NoFlowOK, FlowOK, BeforeFlowPC
<1>2. Down /\ UNCHANGED <<retry, mdtm, delivered, status>> /\ TypeOK
  BY Zenon DEF ScheduleNoLauncher, InsertFlow, IInv
<1>t. flow \in [SJobs -> FlowState] /\ fblock \in [SJobs -> 0..NBlocks]
  BY Zenon DEF IInv, TypeOK
<1>3. CASE r # s
  <2>1. fblock'[r] = fblock[r] /\ flow'[r] = flow[r]
    BY <1>t, <1>3, ZenonT(30) DEF ScheduleNoLauncher, InsertFlow
  <2> QED
    BY <1>2, <2>1, DownTransfer, Zenon
<1>4. CASE r = s
  <2>1. \A d \in calls' : d.sj # r
    BY <1>1, <1>2, <1>4, DownFacts, ZenonT(40) DEF Untouched
  <2>2. mdtm'[r] = {} /\ status'[r] = <<>>
    BY <1>1, <1>2, <1>4, Zenon DEF Untouched
  <2>3. \A h \in Handlers : my'[h].sj # r
    BY <1>2, DownFacts, ThreadFacts, NothingFields, Zenon
  <2>4. ~HasDone(<<>>) /\ OneDone(<<>>)
    BY DEF HasDone, OneDone
  <2>5. OneTransfer(r)'
    BY <2>1, <2>2, <2>3, <2>4, Zenon DEF OneTransfer, Handled, Doing, Reported
  <2>6. RetriesOK(r)'
    BY <1>1, <1>2, <1>4, <2>3, Zenon DEF TransferOK, RetriesOK, Live, Verifying
  <2>7. TakenOK(r)'
    BY <2>1, <2>2, <2>3, <2>4, Zenon DEF TakenOK, Doing, Handled, Reported
  <2> QED
    BY <2>5, <2>6, <2>7, Zenon DEF TransferOK
<1> QED
  BY <1>3, <1>4, Zenon

\* mld_status takes a message: a "done" passes from the queue to its handler.
LEMMA TakeStatus ==
  ASSUME IInv, NEW r \in SJobs, TransferOK(r), dups = 0, dups' = 0,
         NEW h \in Handlers, NEW s \in SJobs, StatusBegin(h, s)
  PROVE  TransferOK(r)'
<1>t. /\ status \in [SJobs -> Seq(1..3)] /\ status[s] # <<>> /\ dups \in Nat
      /\ pc \in [Threads -> PC] /\ my \in [Threads -> Local] /\ h \in Threads
  BY ThreadFacts, Zenon DEF IInv, TypeOK, StatusBegin
<1>1. status' = [status EXCEPT ![s] = Tail(@)]
  <2>1. dups' # dups + 1
    OBVIOUS
  <2> QED
    BY <2>1, Zenon DEF StatusBegin
<1>2. UNCHANGED <<fblock, flow, retry, calls, mdtm, delivered>>
  BY Zenon DEF StatusBegin, store
<1>3. PICK n \in 0..NBlocks : Enter(h, Branch(Head(status[s])), Snapshot(s, n))
  BY Zenon DEF StatusBegin
<1>4. \A g \in Handlers \ {h} : pc'[g] = pc[g] /\ my'[g] = my[g]
  BY <1>3 DEF Enter
<1>5. /\ pc'[h] = Branch(Head(status[s])) /\ pc[h] = "idle"
      /\ my'[h].sj = s /\ my'[h].blk = fblock[s] /\ my'[h].tries = retry[s]
  BY <1>t, <1>3, Zenon DEF Enter, Snapshot, StatusBegin, At
<1>6. Head(status[s]) \in 1..3
  BY <1>t
<1>7. CASE r # s
  <2>1. Quiet(h, r)
    BY <1>5, <1>7, Zenon DEF Quiet, Doing, Relaunches, Verifying
  <2>2. \A g \in Handlers : Quiet(g, r)
    BY <1>4, <2>1, OthersQuiet, Zenon
  <2>3. status'[r] = status[r]
    BY <1>t, <1>1, <1>7, Zenon
  <2>4. Fewer(r)
    BY <1>2, <2>2, <2>3, Zenon DEF Fewer, Quiet, TransferOK, OneTransfer
  <2> QED
    BY <1>2, <2>2, <2>4, TransferFrame, Zenon
<1>8. CASE r = s
  <2>1. /\ status'[r] = Tail(status[r])
        /\ OneDone(status'[r])
        /\ HasDone(status'[r]) => HasDone(status[r])
        /\ Head(status[r]) = 3 => HasDone(status[r]) /\ ~HasDone(status'[r])
    BY <1>t, <1>1, <1>8, TailDone, ZenonT(30) DEF TransferOK, OneTransfer
  <2>2. CASE Head(status[r]) # 3
    <3>1. Quiet(h, r)
      <4>1. pc'[h] \in Ending
        BY <1>5, <1>6, <1>8, <2>2 DEF Branch, Ending
      <4> QED
        BY <4>1, EndQuiet, Zenon
    <3>2. \A g \in Handlers : Quiet(g, r)
      BY <1>4, <3>1, OthersQuiet, Zenon
    <3>3. Fewer(r)
      BY <1>2, <2>1, <3>2, Zenon DEF Fewer, Quiet, TransferOK, OneTransfer
    <3> QED
      BY <1>2, <3>2, <3>3, TransferFrame, Zenon
  <2>3. CASE Head(status[r]) = 3
    <3>1. pc'[h] = "three"
      BY <1>5, <1>8, <2>3 DEF Branch
    <3>2. ~Called(r) /\ mdtm[r] = {} /\ ~Handled(r) /\ Reported(r)
      BY <2>1, <2>3, Zenon DEF TransferOK, OneTransfer, Reported
    <3>3. ~Called(r)' /\ mdtm'[r] = {} /\ ~Reported(r)'
      BY <1>2, <2>1, <2>3, <3>2, Zenon DEF Called, Reported
    <3>4. \A g \in Handlers : Doing(g, r)' \/ Verifying(g, r)' => g = h
      BY <1>4, <3>2, Zenon DEF Handled, Doing, Verifying
    <3>5. OneTransfer(r)'
      BY <2>1, <3>3, <3>4, Zenon DEF OneTransfer, Called
    <3>6. RetriesOK(r)'
      BY <1>2, <1>5, <1>8, <3>2, <3>4, Zenon DEF TransferOK, RetriesOK, Live
    <3>7. TakenFor(r)' \subseteq TakenFor(r)
      BY <1>2, <1>4, <3>1, Zenon DEF TakenFor, Relaunches
    <3>8. \A b \in TakenFor(r) : Good(r, b)
      BY <3>2, Zenon DEF TransferOK, TakenOK
    <3>9. \A b : Good(r, b) => Good(r, b)'
      BY <1>2, Zenon DEF Good
    <3>10. \A g \in Handlers : Doing(g, r)' => Good(r, my[g].blk)'
      BY <1>5, <1>8, <3>4, <3>8, <1>2, Zenon DEF TakenFor, Good
    <3>11. TakenOK(r)'
      BY <3>3, <3>7, <3>8, <3>9, <3>10, Zenon DEF TakenOK, Called
    <3> QED
      BY <3>5, <3>6, <3>11, Zenon DEF TransferOK
  <2> QED
    BY <2>2, <2>3, Zenon
<1> QED
  BY <1>7, <1>8, Zenon

\* A checksum error: the count goes up, and the handler goes on while it was below
\* the limit.
LEMMA CountError ==
  ASSUME IInv, NEW r \in SJobs, TransferOK(r), NEW h \in Handlers, ChecksumFailed(h)
  PROVE  TransferOK(r)'
<1> DEFINE s == my[h].sj
<1>t. /\ retry \in [SJobs -> Nat] /\ RetryLimit \in Nat
      /\ pc \in [Threads -> PC] /\ my \in [Threads -> Local] /\ h \in Threads
  BY ThreadFacts, Constants, Zenon DEF IInv, TypeOK
<1>1. s \in SJobs /\ flow[s] # "none"
  BY Working, ThreadFacts, Zenon DEF ChecksumFailed, At, FreePC
<1>2. UNCHANGED <<fblock, flow, calls, mdtm, delivered, status>>
  BY Zenon DEF ChecksumFailed, world
<1>3. \A g \in Handlers \ {h} : pc'[g] = pc[g] /\ my'[g] = my[g]
  BY DEF ChecksumFailed, Enter
<1>4. /\ pc[h] = "verify_checksum"
      /\ pc'[h] = IF my[h].tries >= RetryLimit THEN "teardown" ELSE "relaunch"
      /\ my'[h].sj = s /\ my'[h].blk = my[h].blk
  <2>1. my'[h] = [my[h] EXCEPT !.next = my[h].blk] /\ my[h] \in Local
    BY <1>t, Zenon DEF ChecksumFailed, Enter
  <2>2. my'[h].sj = s /\ my'[h].blk = my[h].blk
    BY <2>1, Zenon DEF Local
  <2> QED
    BY <1>t, <2>2, Zenon DEF ChecksumFailed, Enter, At
<1>5. /\ retry'[s] = retry[s] + 1
      /\ r # s => retry'[r] = retry[r]
  BY <1>t, <1>1, Zenon DEF ChecksumFailed
<1>6. Quiet(h, r)
  BY <1>4, Zenon DEF Quiet, Doing, Relaunches, Verifying
<1>7. \A g \in Handlers : Quiet(g, r)
  BY <1>3, <1>6, OthersQuiet, Zenon
<1>8. Fewer(r)
  BY <1>2, <1>7, Zenon DEF Fewer, Quiet, TransferOK, OneTransfer
<1>9. CASE r # s
  BY <1>2, <1>5, <1>7, <1>8, <1>9, TransferFrame, Zenon
<1>10. CASE r = s
  <2>1. OneTransfer(r)' /\ TakenOK(r)'
    BY <1>2, <1>7, <1>8, OneFrame, TakenFrame, TakenSame, Zenon DEF TransferOK
  <2>2. Doing(h, r) /\ Verifying(h, r)
    BY <1>4, <1>10, Zenon DEF Doing, Verifying
  <2>3. my[h].tries = retry[r] /\ retry[r] <= RetryLimit
    BY <2>2, Zenon DEF TransferOK, RetriesOK, Live, Handled
  <2>4. \A g \in Handlers : Doing(g, r) => g = h
    BY <2>2, Zenon DEF TransferOK, OneTransfer
  <2>5. \A g \in Handlers : ~Verifying(g, r)'
    BY <1>3, <1>4, <2>4, Zenon DEF Verifying, Doing
  <2>6. retry[r] \in Nat /\ retry'[r] = retry[r] + 1
    BY <1>t, <1>5, <1>10, Zenon
  <2>7. CASE my[h].tries >= RetryLimit
    <3>1. ~Handled(r)'
      BY <1>3, <1>4, <2>4, <2>7, Zenon DEF Handled, Doing
    <3>2. ~Called(r) /\ mdtm[r] = {} /\ ~Reported(r)
      BY <2>2, Zenon DEF TransferOK, OneTransfer, Handled
    <3>3. ~Live(r)'
      BY <1>1, <1>2, <1>10, <3>1, <3>2, Zenon DEF Live, Called, Reported
    <3>4. retry'[r] <= RetryLimit + 1
      BY <1>t, <2>3, <2>6, SMTT(30)
    <3> QED
      BY <2>1, <2>5, <3>3, <3>4, Zenon DEF TransferOK, RetriesOK
  <2>8. CASE ~(my[h].tries >= RetryLimit)
    <3>1. retry'[r] <= RetryLimit /\ retry'[r] <= RetryLimit + 1
      BY <1>t, <2>3, <2>6, <2>8
    <3> QED
      BY <2>1, <2>5, <3>1, Zenon DEF TransferOK, RetriesOK
  <2> QED
    BY <2>7, <2>8, Zenon
<1> QED
  BY <1>9, <1>10, Zenon

\* mld_status launches the next block, or the same one again: what a "done" was
\* taken for so far is at the destination.
LEMMA NextLaunch ==
  ASSUME IInv, NEW r \in SJobs, TransferOK(r), NEW h \in Handlers, Relaunch(h)
  PROVE  TransferOK(r)'
<1> DEFINE s == my[h].sj
           c == [sj |-> s, blk |-> my[h].next, by |-> h]
<1>t. pc \in [Threads -> PC] /\ h \in Threads
  BY ThreadFacts, Zenon DEF IInv, TypeOK
<1>1. s \in SJobs /\ flow[s] # "none"
  BY Working, ThreadFacts, Zenon DEF Relaunch, At, FreePC
<1>2. /\ UNCHANGED <<fblock, flow, retry, mdtm, delivered, status, my>>
      /\ calls' = calls \cup {c}
  BY Zenon DEF Relaunch, Goto
<1>3. /\ \A g \in Handlers \ {h} : pc'[g] = pc[g]
      /\ pc[h] = "relaunch" /\ pc'[h] = "relaunching"
  BY <1>t DEF Relaunch, At, Goto
<1>4. c.sj = s /\ c.blk = my[h].next
  BY Zenon
<1>5. CASE r # s
  <2>1. Quiet(h, r)
    BY <1>2, <1>5, Zenon DEF Quiet, Doing, Relaunches, Verifying
  <2>2. \A g \in Handlers : Quiet(g, r)
    BY <1>2, <1>3, <2>1, OthersQuiet, Zenon
  <2>3. Fewer(r)
    BY <1>2, <1>4, <1>5, <2>2, ZenonT(30) DEF Fewer, Quiet, TransferOK, OneTransfer
  <2> QED
    BY <1>2, <2>2, <2>3, TransferFrame, Zenon
<1>6. CASE r = s
  <2>1. Doing(h, r) /\ Handled(r)
    BY <1>3, <1>6, Zenon DEF Doing, Handled
  <2>2. ~Called(r) /\ mdtm[r] = {} /\ ~Reported(r)
    BY <2>1, Zenon DEF TransferOK, OneTransfer
  <2>3. \A g \in Handlers : Doing(g, r) => g = h
    BY <2>1, ZenonT(30) DEF TransferOK, OneTransfer
  <2>4. \A g \in Handlers : ~Doing(g, r)' /\ ~Verifying(g, r)'
    BY <1>2, <1>3, <2>3, Zenon DEF Doing, Verifying
  <2>5. /\ \A d \in calls' : d.sj = r => d = c
        /\ mdtm'[r] = {} /\ ~Reported(r)' /\ ~Handled(r)'
    BY <1>2, <2>2, <2>4, Zenon DEF Called, Reported, Handled
  <2>6. OneTransfer(r)'
    BY <1>2, <2>4, <2>5, Zenon DEF OneTransfer, TransferOK
  <2>7. RetriesOK(r)'
    BY <1>2, <2>1, <2>4, Zenon DEF TransferOK, RetriesOK, Live
  <2>8. \A b \in TakenFor(r)' : b = my[h].next \/ b \in TakenFor(r)
    BY <1>2, <1>3, ZenonT(30) DEF TakenFor, Relaunches
  <2>9. \A b \in TakenFor(r) : Good(r, b)
    BY <2>1, Zenon DEF TransferOK, TakenOK
  <2>10. \A b : Good(r, b) => Good(r, b)'
    BY <1>2, Zenon DEF Good
  <2>11. \A d \in calls' : d.sj = r => Heading(r, d.blk)'
    BY <1>4, <2>5, <2>8, <2>9, <2>10, Zenon DEF Heading
  <2>12. TakenOK(r)'
    BY <2>4, <2>5, <2>11, Zenon DEF TakenOK
  <2> QED
    BY <2>6, <2>7, <2>12, Zenon DEF TransferOK
<1> QED
  BY <1>5, <1>6, Zenon

\* ... and writes it into the flow.
LEMMA NextFlow ==
  ASSUME IInv, NEW r \in SJobs, TransferOK(r), NEW h \in Handlers, RelaunchedFlow(h)
  PROVE  TransferOK(r)'
<1> DEFINE s == my[h].sj
<1>t. /\ pc \in [Threads -> PC] /\ h \in Threads
      /\ fblock \in [SJobs -> 0..NBlocks] /\ flow \in [SJobs -> FlowState]
  BY ThreadFacts, Zenon DEF IInv, TypeOK
<1>1. s \in SJobs
  BY Working, ThreadFacts, Zenon DEF RelaunchedFlow, At, FreePC
<1>2. UNCHANGED <<retry, calls, mdtm, delivered, status, my>>
  BY Zenon DEF RelaunchedFlow, Goto, world
<1>3. /\ \A g \in Handlers \ {h} : pc'[g] = pc[g]
      /\ pc[h] = "relaunched_flow" /\ pc'[h] = "relaunched_raw"
  BY <1>t DEF RelaunchedFlow, At, Goto
<1>4. \A g \in Handlers : Quiet(g, r)
  <2>1. pc'[h] \in Ending
    BY <1>3 DEF Ending
  <2>2. Quiet(h, r)
    BY <2>1, EndQuiet, Zenon
  <2> QED
    BY <1>2, <1>3, <2>2, OthersQuiet, Zenon
<1>5. Fewer(r)
  BY <1>2, <1>4, Zenon DEF Fewer, Quiet, TransferOK, OneTransfer
<1>6. flow'[r] = "none" => flow[r] = "none"
  BY <1>t, Zenon DEF RelaunchedFlow
<1>7. \A g \in Handlers : Relaunches(g, r)' => Relaunches(g, r) /\ my'[g].next = my[g].next
  BY <1>4, Zenon DEF Quiet
<1>8. fblock'[r] \in TakenFor(r)
  <2>1. CASE r = s
    BY <1>1, <1>t, <1>3, <2>1, Zenon DEF RelaunchedFlow, TakenFor, Relaunches
  <2>2. CASE r # s
    BY <1>t, <2>2, Zenon DEF RelaunchedFlow, TakenFor
  <2> QED
    BY <2>1, <2>2, Zenon
<1>9. TakenFor(r)' \subseteq TakenFor(r)
  BY <1>7, <1>8, Zenon DEF TakenFor
<1> QED
  BY <1>2, <1>4, <1>5, <1>6, <1>9, OneFrame, RetriesFrame, TakenFrame, Zenon DEF TransferOK

\* The caller that a launch call belongs to goes on; a handler keeps the name of its
\* block.
LEMMA CallerQuiet ==
  ASSUME IInv, NEW r \in SJobs, NEW c \in calls, c.by # "nobody", NEW ok \in BOOLEAN,
         Goto(c.by, Answered(c.by, ok))
  PROVE  \A h \in Handlers : Quiet(h, r)
<1>t. pc \in [Threads -> PC] /\ c \in Call
  BY Zenon DEF IInv, TypeOK
<1>1. c.by \in Threads /\ pc[c.by] \in {"launching", "relaunching"}
  BY <1>t, CallFields, Zenon DEF IInv, CallOK
<1>2. c.by \in Handlers => pc[c.by] = "relaunching"
  BY <1>1, Zenon DEF IInv, PcOK, Own, StatusPC, FailPC
<1>3. c.by \in Handlers => pc'[c.by] = "relaunched" /\ my' = my
  BY <1>t, <1>1, ThreadFacts, Zenon DEF Goto, Answered
<1>4. c.by \in Handlers => Quiet(c.by, r)
  BY <1>2, <1>3, Zenon DEF Quiet, Doing, Relaunches, Verifying
<1>5. \A h \in Handlers \ {c.by} : pc'[h] = pc[h] /\ my'[h] = my[h]
  BY DEF Goto
<1> QED
  BY <1>4, <1>5, OthersQuiet, Zenon

\* A launch call that times out is lost, or served later.
LEMMA CallLost ==
  ASSUME IInv, NEW r \in SJobs, TransferOK(r), CallTimeout
  PROVE  TransferOK(r)'
<1>1. PICK c \in calls :
        /\ c.by # "nobody" /\ Goto(c.by, Answered(c.by, FALSE))
        /\ calls' = calls \ {c} \/ calls' = (calls \ {c}) \cup {Abandoned(c)}
        /\ UNCHANGED <<store, mdtm, delivered, status>>
  BY Zenon DEF CallTimeout
<1>2. \A h \in Handlers : Quiet(h, r)
  BY <1>1, CallerQuiet, Zenon
<1>3. Abandoned(c).sj = c.sj /\ Abandoned(c).blk = c.blk
  BY Zenon DEF Abandoned
<1>4. \A d \in calls' : d.sj = r => \E e \in calls : e.sj = r /\ e.blk = d.blk
  BY <1>1, <1>3, Zenon
<1>5. \A d, e \in calls' : d.sj = r /\ e.sj = r => d = e
  BY <1>1, <1>3, Zenon DEF TransferOK, OneTransfer
<1>6. UNCHANGED <<fblock, flow, retry, mdtm, delivered, status>>
  BY <1>1, Zenon DEF store
<1>7. Fewer(r)
  BY <1>2, <1>4, <1>5, <1>6, Zenon DEF Fewer, Quiet, TransferOK, OneTransfer
<1> QED
  BY <1>2, <1>6, <1>7, TransferFrame, Zenon

\* The launching agent serves a request: the transfer passes from the call to mdtm.
LEMMA CallServed ==
  ASSUME IInv, NEW r \in SJobs, TransferOK(r), LauncherServe
  PROVE  TransferOK(r)'
<1>t. /\ mdtm \in [SJobs -> SUBSET Blocks] /\ status \in [SJobs -> Seq(1..3)]
      /\ calls \subseteq Call
  BY Zenon DEF IInv, TypeOK
<1>1. PICK c \in calls, ok \in BOOLEAN :
        /\ calls' = calls \ {c}
        /\ IF c.by = "nobody" THEN UNCHANGED <<pc, my>> ELSE Goto(c.by, Answered(c.by, ok))
        /\ IF ok
           THEN /\ mdtm' = [mdtm EXCEPT ![c.sj] = @ \cup {c.blk}]
                /\ status' = [status EXCEPT ![c.sj] = Append(@, 1)]
           ELSE UNCHANGED <<mdtm, status>>
        /\ UNCHANGED <<store, delivered>>
  BY Zenon DEF LauncherServe
<1>2. \A h \in Handlers : Quiet(h, r)
  <2>1. CASE c.by = "nobody"
    BY <1>1, <2>1, Zenon DEF Quiet, Doing, Relaunches, Verifying
  <2>2. CASE c.by # "nobody"
    BY <1>1, <2>2, CallerQuiet, Zenon
  <2> QED
    BY <2>1, <2>2, Zenon
<1>3. UNCHANGED <<fblock, flow, retry, delivered>>
  BY <1>1, Zenon DEF store
<1>4. /\ \A d \in calls' : d.sj = r => d \in calls
      /\ \A d, e \in calls' : d.sj = r /\ e.sj = r => d = e
  BY <1>1, Zenon DEF TransferOK, OneTransfer
<1>5. c.sj \in SJobs
  BY <1>t, CallFields, Zenon
<1>6. CASE ~ok \/ c.sj # r
  <2>1. mdtm'[r] = mdtm[r] /\ status'[r] = status[r]
    BY <1>t, <1>1, <1>5, <1>6, Zenon
  <2>2. Fewer(r)
    BY <1>2, <1>4, <2>1, Zenon DEF Fewer, Quiet, TransferOK, OneTransfer
  <2> QED
    BY <1>2, <1>3, <2>2, TransferFrame, Zenon
<1>7. CASE ok /\ c.sj = r
  <2>1. Called(r)
    BY <1>7, Zenon DEF Called
  <2>2. mdtm[r] = {} /\ ~Reported(r) /\ ~Handled(r)
    BY <2>1, Zenon DEF TransferOK, OneTransfer
  <2>3. mdtm'[r] = {c.blk} /\ status'[r] = Append(status[r], 1)
    BY <1>t, <1>1, <1>7, <2>2, SMTT(30)
  <2>4. ~Called(r)'
    BY <1>1, <1>7, Zenon DEF Called, TransferOK, OneTransfer
  <2>5. ~Handled(r)' /\ \A h \in Handlers : ~Doing(h, r)'
    BY <1>2, <2>2, Zenon DEF Quiet, Handled
  <2>6. status[r] \in Seq(1..3) /\ 1 \in 1..2
    BY <1>t
  <2>d. OneDone(status[r])
    BY Zenon DEF TransferOK, OneTransfer
  <2>7. ~Reported(r)' /\ OneDone(status'[r])
    BY <2>2, <2>3, <2>6, <2>d, AppendOther, ZenonT(40) DEF Reported
  <2>8. OneTransfer(r)'
    BY <2>3, <2>4, <2>5, <2>7, Zenon DEF OneTransfer, Called
  <2>9. RetriesOK(r)'
    BY <1>2, <1>3, <2>1, Zenon DEF TransferOK, RetriesOK, Live, Quiet
  <2>10. TakenFor(r)' \subseteq TakenFor(r)
    BY <1>2, <1>3, TakenSame, Zenon
  <2>11. Heading(r, c.blk)
    BY <1>7, Zenon DEF TransferOK, TakenOK
  <2>12. \A b \in mdtm'[r] : Heading(r, b)'
    BY <1>3, <2>3, <2>10, <2>11, Zenon DEF Heading, Good
  <2>13. TakenOK(r)'
    BY <2>4, <2>5, <2>7, <2>12, Zenon DEF TakenOK, Called
  <2> QED
    BY <2>8, <2>9, <2>13, Zenon DEF TransferOK
<1> QED
  BY <1>6, <1>7, Zenon

\* The mdtm client ends a transfer: the content is there, or has a checksum that
\* will tell.
LEMMA TransferEnds ==
  ASSUME IInv, NEW r \in SJobs, TransferOK(r), NEW s \in SJobs, MdtmDone(s)
  PROVE  TransferOK(r)'
<1>t. /\ mdtm \in [SJobs -> SUBSET Blocks] /\ status \in [SJobs -> Seq(1..3)]
      /\ delivered \in [SJobs -> SUBSET Blocks]
  BY Zenon DEF IInv, TypeOK
<1>1. PICK b \in mdtm[s], intact \in BOOLEAN :
        /\ intact \/ b \in ChecksumBlocks
        /\ mdtm' = [mdtm EXCEPT ![s] = @ \ {b}]
        /\ status' = [status EXCEPT ![s] = Append(@, 3)]
        /\ delivered' = [delivered EXCEPT ![s] = IF intact THEN @ \cup {b} ELSE @]
        /\ UNCHANGED <<store, pc, my, calls>>
  BY Zenon DEF MdtmDone
<1>2. UNCHANGED <<fblock, flow, retry, pc, my, calls>>
  BY <1>1, Zenon DEF store
<1>3. \A h \in Handlers : Quiet(h, r)
  BY <1>2, Zenon DEF Quiet, Doing, Relaunches, Verifying
<1>4. delivered[r] \subseteq delivered'[r]
  BY <1>t, <1>1, Zenon
<1>5. CASE r # s
  <2>1. mdtm'[r] = mdtm[r] /\ status'[r] = status[r]
    BY <1>t, <1>1, <1>5, Zenon
  <2>2. Fewer(r)
    BY <1>2, <1>3, <2>1, Zenon DEF Fewer, Quiet, TransferOK, OneTransfer
  <2> QED
    BY <1>2, <1>3, <1>4, <2>2, TransferFrame, Zenon
<1>6. CASE r = s
  <2>1. ~Called(r) /\ ~Reported(r) /\ ~Handled(r)
    BY <1>6, Zenon DEF TransferOK, OneTransfer
  <2>2. mdtm'[r] = {} /\ status'[r] = Append(status[r], 3)
    BY <1>t, <1>1, <1>6, Zenon DEF TransferOK, OneTransfer
  <2>3. ~Called(r)' /\ ~Handled(r)' /\ \A h \in Handlers : ~Doing(h, r)'
    BY <1>2, <2>1, Zenon DEF Called, Handled, Doing
  <2>4. OneDone(status'[r])
    BY <1>t, <2>1, <2>2, AppendDone, Zenon DEF Reported
  <2>5. OneTransfer(r)'
    BY <2>2, <2>3, <2>4, Zenon DEF OneTransfer, Called
  <2>6. RetriesOK(r)'
    BY <1>2, <1>3, <1>6, Zenon DEF TransferOK, RetriesOK, Live, Quiet
  <2>7. TakenFor(r)' \subseteq TakenFor(r)
    BY <1>2, <1>3, TakenSame, Zenon
  <2>8. Good(r, b)'
    BY <1>t, <1>1, <1>6, Zenon DEF Good
  <2>9. \A x \in TakenFor(r) : Good(r, x)'
    BY <1>4, <1>6, <2>8, Zenon DEF TransferOK, TakenOK, Heading, Good
  <2>10. TakenOK(r)'
    BY <2>2, <2>3, <2>7, <2>9, Zenon DEF TakenOK, Called
  <2> QED
    BY <2>5, <2>6, <2>10, Zenon DEF TransferOK
<1> QED
  BY <1>5, <1>6, Zenon

\* ... or fails, or forgets it.
LEMMA TransferFails ==
  ASSUME IInv, NEW r \in SJobs, TransferOK(r),
         MdtmRestart \/ \E s \in SJobs : MdtmError(s)
  PROVE  TransferOK(r)'
<1>t. mdtm \in [SJobs -> SUBSET Blocks] /\ status \in [SJobs -> Seq(1..3)] /\ 2 \in 1..2
  BY SMTT(30) DEF IInv, TypeOK
<1>1. UNCHANGED <<fblock, flow, retry, pc, my, calls, delivered>>
  BY Zenon DEF MdtmRestart, MdtmError, store
<1>2. \A h \in Handlers : Quiet(h, r)
  BY <1>1, Zenon DEF Quiet, Doing, Relaunches, Verifying
<1>3. mdtm'[r] \subseteq mdtm[r]
  BY <1>t, Zenon DEF MdtmRestart, MdtmError
<1>4. status'[r] = status[r] \/ status'[r] = Append(status[r], 2)
  BY <1>t, Zenon DEF MdtmRestart, MdtmError
<1>5. OneDone(status'[r]) /\ (HasDone(status'[r]) => HasDone(status[r]))
  BY <1>t, <1>4, AppendOther, ZenonT(30) DEF TransferOK, OneTransfer
<1>6. Fewer(r)
  BY <1>1, <1>2, <1>3, <1>5, Zenon DEF Fewer, Quiet, TransferOK, OneTransfer
<1> QED
  BY <1>1, <1>2, <1>6, TransferFrame, Zenon

\* A new process finds the newest status of each task.
LEMMA StartAgain ==
  ASSUME IInv, NEW r \in SJobs, TransferOK(r), Restart
  PROVE  TransferOK(r)'
<1>t. status \in [SJobs -> Seq(1..3)]
  BY Zenon DEF IInv, TypeOK
<1>1. UNCHANGED <<fblock, flow, retry, pc, my, calls, mdtm, delivered>>
  BY Zenon DEF Restart, store
<1>2. \A h \in Handlers : Quiet(h, r)
  BY <1>1, Zenon DEF Quiet, Doing, Relaunches, Verifying
<1>3. status'[r] = IF status[r] = <<>> THEN <<>> ELSE <<status[r][Len(status[r])]>>
  BY Zenon DEF Restart
<1>4. OneDone(status'[r]) /\ (HasDone(status'[r]) => HasDone(status[r]))
  BY <1>t, <1>3, NewestDone, Zenon DEF TransferOK, OneTransfer
<1>5. Fewer(r)
  BY <1>1, <1>2, <1>4, Zenon DEF Fewer, Quiet, TransferOK, OneTransfer
<1> QED
  BY <1>1, <1>2, <1>5, TransferFrame, Zenon

\* The timers and the failure code launch nothing but a first block.
LEMMA TimerQuiet ==
  ASSUME IInv, NEW r \in SJobs, TransferOK(r), flow'[r] = "none" => flow[r] = "none",
         \/ ScheduleBegin \/ ScheduleNext \/ ScheduleMatch \/ ScheduleNetwork \/ ScheduleVerify
         \/ ScheduleLaunchedBlock \/ ScheduleLaunchedFlow \/ ScheduleLaunchedRaw
         \/ PollBegin \/ PollRate \/ PollUnknown \/ PollUnknownDrop \/ PollStalled
         \/ LauncherLeave \/ LauncherReturn \/ \E t \in Threads : Fail(t)
  PROVE  TransferOK(r)'
<1>t. pc \in [Threads -> PC] /\ my \in [Threads -> Local]
  BY Zenon DEF IInv, TypeOK
<1> USE DEF store, world, Goto, Return, Enter
<1>1. CASE ScheduleBegin \/ ScheduleNext \/ ScheduleMatch \/ ScheduleNetwork \/ ScheduleVerify
  <2>1. UNCHANGED <<fblock, retry, calls, mdtm, delivered, status>>
    BY <1>1, Zenon DEF ScheduleBegin, ScheduleNext, ScheduleMatch, ScheduleNetwork, ScheduleVerify
  <2>2. \A h \in Handlers : pc'[h] = pc[h] /\ my'[h] = my[h]
    BY <1>1, <1>t, ThreadFacts, Zenon
       DEF ScheduleBegin, ScheduleNext, ScheduleMatch, ScheduleNetwork, ScheduleVerify
  <2>3. \A h \in Handlers : Quiet(h, r)
    BY <2>2, Zenon DEF Quiet, Doing, Relaunches, Verifying
  <2> QED
    BY <2>1, <2>3, QuietStep, Zenon
<1>2. CASE ScheduleLaunchedBlock \/ ScheduleLaunchedFlow \/ ScheduleLaunchedRaw \/ PollBegin
  <2>1. UNCHANGED <<fblock, retry, calls, mdtm, delivered, status>>
    BY <1>2, Zenon DEF ScheduleLaunchedBlock, ScheduleLaunchedFlow, ScheduleLaunchedRaw, PollBegin
  <2>2. \A h \in Handlers : pc'[h] = pc[h] /\ my'[h] = my[h]
    BY <1>2, <1>t, ThreadFacts, ZenonT(30)
       DEF ScheduleLaunchedBlock, ScheduleLaunchedFlow, ScheduleLaunchedRaw, PollBegin
  <2>3. \A h \in Handlers : Quiet(h, r)
    BY <2>2, Zenon DEF Quiet, Doing, Relaunches, Verifying
  <2> QED
    BY <2>1, <2>3, QuietStep, Zenon
<1>3. CASE PollRate \/ PollUnknown \/ PollUnknownDrop \/ PollStalled \/ LauncherLeave \/ LauncherReturn
  <2>1. UNCHANGED <<fblock, retry, calls, mdtm, delivered, status>>
    BY <1>3, Zenon DEF PollRate, PollUnknown, PollUnknownDrop, PollStalled, LauncherLeave, LauncherReturn
  <2>2. \A h \in Handlers : pc'[h] = pc[h] /\ my'[h] = my[h]
    BY <1>3, <1>t, ThreadFacts, ZenonT(30)
       DEF PollRate, PollNoNews, PollUnknownTask, PollInactive, PollUnknown, PollUnknownDrop,
           PollStalled, LauncherLeave, LauncherReturn
  <2>3. \A h \in Handlers : Quiet(h, r)
    BY <2>2, Zenon DEF Quiet, Doing, Relaunches, Verifying
  <2> QED
    BY <2>1, <2>3, QuietStep, Zenon
<1>4. ASSUME NEW t \in Threads, FailTearDown(t) \/ FailSJob(t) \/ FailRaw(t) PROVE TransferOK(r)'
  <2>1. UNCHANGED <<fblock, retry, calls, mdtm, delivered, status>>
    BY <1>4, Zenon DEF FailTearDown, FailSJob, FailRaw
  <2>2. \A h \in Handlers \ {t} : pc'[h] = pc[h] /\ my'[h] = my[h]
    BY <1>4, <1>t, ThreadFacts, Zenon DEF FailTearDown, FailSJob, FailRaw
  <2>3. t \in Handlers => pc'[t] \in {"idle", "fail_sjob", "fail_raw"}
    BY <1>4, <1>t, ZenonT(30) DEF FailTearDown, FailSJob, FailRaw
  <2>4. t \in Handlers => Quiet(t, r)
    <3>1. t \in Handlers => pc'[t] \in Ending
      BY <2>3 DEF Ending
    <3> QED
      BY <3>1, EndQuiet, Zenon
  <2>5. \A h \in Handlers : Quiet(h, r)
    BY <2>2, <2>4, OthersQuiet, Zenon
  <2> QED
    BY <2>1, <2>5, QuietStep, Zenon
<1> QED
  BY <1>1, <1>2, <1>3, <1>4, Zenon DEF Fail

\* A handler that launches nothing.
LEMMA HandlerQuiet ==
  ASSUME IInv, NEW r \in SJobs, TransferOK(r), flow'[r] = "none" => flow[r] = "none",
         NEW h \in Handlers,
         \/ StatusRunningFlow(h) \/ StatusRunningSJob(h) \/ StatusError(h) \/ StatusDone(h)
         \/ ChecksumOk(h) \/ MarkFinished(h) \/ Release(h) \/ FinishSJob(h) \/ SumUp(h)
         \/ FinishRaw(h) \/ RelaunchNoLauncher(h) \/ RelaunchedBlock(h) \/ RelaunchedRaw(h)
  PROVE  TransferOK(r)'
<1>t. pc \in [Threads -> PC] /\ my \in [Threads -> Local] /\ h \in Threads
  BY ThreadFacts, Zenon DEF IInv, TypeOK
<1> USE DEF store, world, At, Goto, Return, Enter
<1>1. CASE StatusRunningFlow(h) \/ StatusRunningSJob(h) \/ StatusError(h) \/ Release(h)
  <2>1. UNCHANGED <<fblock, retry, calls, mdtm, delivered, status>>
    BY <1>1, Zenon DEF StatusRunningFlow, StatusRunningSJob, StatusError, Release
  <2>2. \A g \in Handlers \ {h} : pc'[g] = pc[g] /\ my'[g] = my[g]
    BY <1>1, <1>t, ThreadFacts, Zenon DEF StatusRunningFlow, StatusRunningSJob, StatusError, Release
  <2>3. pc'[h] \in {"idle", "one_sjob", "teardown", "finish"}
    BY <1>1, <1>t, ZenonT(30) DEF StatusRunningFlow, StatusRunningSJob, StatusError, Release
  <2>e. pc'[h] \in Ending
    BY <2>3, Zenon DEF Ending
  <2>q. Quiet(h, r)
    BY <2>e, EndQuiet, Zenon
  <2>4. \A g \in Handlers : Quiet(g, r)
    BY <2>2, <2>q, OthersQuiet, Zenon
  <2> QED
    BY <2>1, <2>4, QuietStep, Zenon
<1>2. CASE FinishSJob(h) \/ SumUp(h) \/ FinishRaw(h) \/ RelaunchNoLauncher(h) \/ RelaunchedRaw(h)
  <2>1. UNCHANGED <<fblock, retry, calls, mdtm, delivered, status>>
    BY <1>2, Zenon DEF FinishSJob, SumUp, FinishRaw, RelaunchNoLauncher, RelaunchedRaw
  <2>2. \A g \in Handlers \ {h} : pc'[g] = pc[g] /\ my'[g] = my[g]
    BY <1>2, <1>t, ThreadFacts, ZenonT(30) DEF FinishSJob, SumUp, FinishRaw, RelaunchNoLauncher, RelaunchedRaw
  <2>3. pc'[h] \in {"idle", "sum", "finish_raw", "teardown"}
    BY <1>2, <1>t, ZenonT(30) DEF FinishSJob, SumUp, FinishRaw, RelaunchNoLauncher, RelaunchedRaw
  <2>e. pc'[h] \in Ending
    BY <2>3, SMTT(30) DEF Ending
  <2>q. Quiet(h, r)
    BY <2>e, EndQuiet, Zenon
  <2>4. \A g \in Handlers : Quiet(g, r)
    BY <2>2, <2>q, OthersQuiet, Zenon
  <2> QED
    BY <2>1, <2>4, QuietStep, Zenon
<1>3. CASE StatusDone(h) \/ ChecksumOk(h) \/ MarkFinished(h) \/ RelaunchedBlock(h)
  <2>1. UNCHANGED <<fblock, retry, calls, mdtm, delivered, status, my>>
    BY <1>3, Zenon DEF StatusDone, ChecksumOk, MarkFinished, RelaunchedBlock
  <2>2. \A g \in Handlers \ {h} : pc'[g] = pc[g]
    BY <1>3, <1>t, ThreadFacts, Zenon DEF StatusDone, ChecksumOk, MarkFinished, RelaunchedBlock
  <2>3. \/ pc[h] = "three" /\ pc'[h] \in {"verify_checksum", "mark"}
        \/ pc[h] = "verify_checksum" /\ pc'[h] = "mark"
        \/ pc[h] = "mark" /\ pc'[h] \in {"relaunch", "release"}
        \/ pc[h] = "relaunched" /\ pc'[h] = "relaunched_flow"
    BY <1>3, <1>t, Zenon DEF StatusDone, ChecksumOk, MarkFinished, RelaunchedBlock
  <2>4. Quiet(h, r)
    BY <2>1, <2>3, Zenon DEF Quiet, Doing, Relaunches, Verifying
  <2>5. \A g \in Handlers : Quiet(g, r)
    BY <2>1, <2>2, <2>4, OthersQuiet, Zenon
  <2> QED
    BY <2>1, <2>5, QuietStep, Zenon
<1> QED
  BY <1>1, <1>2, <1>3, Zenon

\* Every step keeps the one transfer of an sjob, as long as each status is delivered
\* once.
LEMMA TransferStep ==
  ASSUME IInv, NEW r \in SJobs, TransferOK(r), [Next]_vars, dups = 0, dups' = 0
  PROVE  TransferOK(r)'
<1>1. flow'[r] = "none" => flow[r] = "none"
  BY FlowStays, Zenon
<1>2. CASE Schedule \/ Poll
  <2>1. CASE PollNoLauncher
    BY <1>1, <2>1, DownTransfer, Zenon DEF PollNoLauncher, IInv, store
  <2> QED
    BY <1>1, <1>2, <2>1, TimerQuiet, FirstLaunch, NoFirstLaunch, ZenonT(30) DEF Schedule, Poll
<1>3. ASSUME NEW h \in Handlers, Status(h) PROVE TransferOK(r)'
  BY <1>1, <1>3, HandlerQuiet, TakeStatus, CountError, NextLaunch, NextFlow, ZenonT(30) DEF Status
<1>4. CASE \E t \in Threads : Fail(t)
  BY <1>1, <1>4, TimerQuiet, Zenon
<1>5. CASE Environment
  <2>1. CASE Crash
    BY <1>1, <2>1, DownTransfer, ZenonT(30) DEF Crash, IInv, store
  <2> QED
    BY <1>1, <1>5, <2>1, TimerQuiet, CallLost, CallServed, TransferEnds, TransferFails, StartAgain,
       ZenonT(30)
    DEF Environment
<1>6. CASE UNCHANGED vars
  <2>1. \A h \in Handlers : Quiet(h, r)
    BY <1>6, Zenon DEF vars, Quiet, Doing, Relaunches, Verifying
  <2> QED
    BY <1>1, <1>6, <2>1, QuietStep, Zenon DEF vars, store, world
<1> QED
  BY <1>2, <1>3, <1>4, <1>5, <1>6, Zenon DEF Next
=============================================================================
