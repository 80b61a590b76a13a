------------------------- MODULE TransferJob_proofs -------------------------
(***************************************************************************)
(* Proofs about TransferJob, for every number of sjobs, blocks and worker  *)
(* threads, every interleaving of them, any number of redeliveries and any *)
(* number of server restarts.                                              *)
(***************************************************************************)
EXTENDS TransferJobInvariant

\* The rest of schedule()'s snapshot stays valid while schedule() works on it:
\* the steps of schedule.
LEMMA TodoSchedule == IInv /\ Schedule => TodoOK'
<1> SUFFICES ASSUME IInv, Schedule PROVE TodoOK'
  BY Zenon
<1>t. /\ flow \in [SJobs -> FlowState]
      /\ path \in [SJobs -> {"none", "held", "released"}]
      /\ pc \in [Threads -> PC]
      /\ my \in [Threads -> Local]
      /\ todo \in [{"schedule", "poll"} -> SUBSET Job]
  BY Zenon DEF IInv, TypeOK
<1>i. TodoOK /\ PcOK /\ NoFlowOK /\ PathOK
  BY Zenon DEF IInv
<1> USE <1>t, <1>i DEF At, Goto, store, world, budget, TodoOK
<1>1. CASE ScheduleBegin
  <2>1. \A j \in todo'["schedule"] : j \in Job /\ Ready(j)
    BY <1>1, Zenon DEF ScheduleBegin
  <2>2. \A j \in todo'["schedule"] : flow[j.sj] = "none" /\ path[j.sj] = "none"
    BY <2>1, JobFields, Zenon DEF Ready, PathOK, NewHoldsNoPath
  <2>3. my["schedule"] = Nothing
    BY <1>1, ThreadFacts, Zenon DEF ScheduleBegin, PcOK, Own, FreePC
  <2>4. \A j, k \in todo'["schedule"] : j.sj = k.sj => j.blk = k.blk
    BY <2>1, FirstUnique, JobFields, Zenon DEF Ready
  <2>5. \A j, k \in todo'["schedule"] : j.sj = k.sj => j = k
    BY <2>1, <2>4, JobEqual
  <2> QED
    BY <1>1, <2>2, <2>3, <2>5, <2>1, NothingFields, JobFields, Zenon DEF ScheduleBegin
<1>2. CASE ScheduleNext
  <2>1. PICK j \in todo["schedule"] :
          /\ todo' = [todo EXCEPT !["schedule"] = @ \ {j}]
          /\ Enter("schedule", "match", Note(j.sj, 0, j.blk))
    BY <1>2, Zenon DEF ScheduleNext
  <2>2. my'["schedule"].sj = j.sj /\ todo'["schedule"] = todo["schedule"] \ {j}
    BY <2>1, NoteFields, ThreadFacts DEF Enter
  <2>3. UNCHANGED <<flow, path>>
    BY <1>2, Zenon DEF ScheduleNext
  <2> QED
    BY <2>2, <2>3, Zenon
<1>3. CASE ScheduleMatch
  BY <1>3, ThreadFacts, Zenon DEF ScheduleMatch
<1>4. CASE ScheduleNetwork
  <2>1. \A s \in SJobs \ {my["schedule"].sj} : path'[s] = path[s]
    BY <1>4, Zenon DEF ScheduleNetwork
  <2>2. UNCHANGED <<flow, todo, my>>
    BY <1>4, Zenon DEF ScheduleNetwork
  <2> QED
    BY <2>1, <2>2, JobFields, Zenon
<1>5. CASE ScheduleVerify
  BY <1>5, ThreadFacts, Zenon DEF ScheduleVerify
<1>6. CASE ScheduleLaunch
  BY <1>6, ThreadFacts DEF ScheduleLaunch, InsertFlow
<1>7. CASE ScheduleNoLauncher
  BY <1>7, ThreadFacts, Zenon DEF ScheduleNoLauncher, InsertFlow, Down
<1>8. CASE ScheduleLaunchedBlock
  BY <1>8, ThreadFacts, Zenon DEF ScheduleLaunchedBlock
<1>9. CASE ScheduleLaunchedFlow
  BY <1>9, ThreadFacts DEF ScheduleLaunchedFlow
<1>10. CASE ScheduleLaunchedRaw
  <2>1. my'["schedule"] = Nothing
    BY <1>10, ThreadFacts, Zenon DEF ScheduleLaunchedRaw, Return, Enter
  <2>2. UNCHANGED <<flow, path, todo>>
    BY <1>10, Zenon DEF ScheduleLaunchedRaw
  <2> QED
    BY <2>1, <2>2, NothingFields, JobFields, Zenon
<1> QED
  BY <1>1, <1>2, <1>3, <1>4, <1>5, <1>6, <1>7, <1>8, <1>9, <1>10, Zenon
     DEF Schedule

\* The rest of schedule()'s snapshot stays valid while schedule() works on it:
\* the steps of poll_rate.
LEMMA TodoPoll == IInv /\ Poll => TodoOK'
<1> SUFFICES ASSUME IInv, Poll PROVE TodoOK'
  BY Zenon
<1>t. /\ flow \in [SJobs -> FlowState]
      /\ path \in [SJobs -> {"none", "held", "released"}]
      /\ pc \in [Threads -> PC]
      /\ my \in [Threads -> Local]
      /\ todo \in [{"schedule", "poll"} -> SUBSET Job]
  BY Zenon DEF IInv, TypeOK
<1>i. TodoOK /\ PcOK /\ NoFlowOK /\ PathOK
  BY Zenon DEF IInv
<1> USE <1>t, <1>i DEF At, Goto, store, world, budget, TodoOK
<1>1. CASE PollBegin
  BY <1>1, ThreadFacts, Zenon DEF PollBegin
<1>2. CASE PollRate
  BY <1>2, ThreadFacts, ZenonT(40)
     DEF PollRate, Return, Enter, PollNoNews, PollUnknownTask, PollInactive
<1>3. CASE PollNoLauncher
  BY <1>3, ThreadFacts, Zenon DEF PollNoLauncher, Down
<1>4. CASE PollUnknown
  BY <1>4, ThreadFacts DEF PollUnknown, TearDown
<1>5. CASE PollUnknownDrop
  <2>1. flow[my["poll"].sj] # "none"
    BY <1>5, Working, ThreadFacts, Zenon DEF PollUnknownDrop, FreePC
  <2>2. UNCHANGED <<path, todo>> /\ my'["schedule"] = my["schedule"]
    BY <1>5, ThreadFacts, Zenon DEF PollUnknownDrop
  <2>3. \A s \in SJobs \ {my["poll"].sj} : flow'[s] = flow[s]
    BY <1>5, Zenon DEF PollUnknownDrop, PollDrop
  <2> QED
    BY <2>1, <2>2, <2>3, JobFields, ZenonT(30)
<1>6. CASE PollStalled
  <2>1. flow[my["poll"].sj] # "none"
    BY <1>6, Working, ThreadFacts, Zenon DEF PollStalled, FreePC
  <2>2. UNCHANGED <<path, todo>> /\ my'["schedule"] = my["schedule"]
    BY <1>6, ThreadFacts, Zenon DEF PollStalled
  <2>3. \A s \in SJobs \ {my["poll"].sj} : flow'[s] = flow[s]
    BY <1>6, Zenon DEF PollStalled, PollDrop
  <2> QED
    BY <2>1, <2>2, <2>3, JobFields, Zenon
<1> QED
  BY <1>1, <1>2, <1>3, <1>4, <1>5, <1>6, Zenon DEF Poll

\* The rest of schedule()'s snapshot stays valid while schedule() works on it:
\* the steps of mld_status.
LEMMA TodoStatus == IInv /\ (\E h \in Handlers : Status(h)) => TodoOK'
<1> SUFFICES ASSUME IInv, (\E h \in Handlers : Status(h)) PROVE TodoOK'
  BY Zenon
<1>t. /\ flow \in [SJobs -> FlowState]
      /\ path \in [SJobs -> {"none", "held", "released"}]
      /\ pc \in [Threads -> PC]
      /\ my \in [Threads -> Local]
      /\ todo \in [{"schedule", "poll"} -> SUBSET Job]
  BY Zenon DEF IInv, TypeOK
<1>i. TodoOK /\ PcOK /\ NoFlowOK /\ PathOK
  BY Zenon DEF IInv
<1> USE <1>t, <1>i DEF At, Goto, store, world, budget, TodoOK
<1>1. ASSUME NEW h \in Handlers, NEW s \in SJobs, StatusBegin(h, s) PROVE TodoOK'
  BY <1>1, ThreadFacts, Zenon DEF StatusBegin, Enter
<1>2. ASSUME NEW h \in Handlers, StatusRunningFlow(h) PROVE TodoOK'
  <2>1. flow[my[h].sj] # "none"
    BY <1>2, Working, ThreadFacts, Zenon DEF StatusRunningFlow, FreePC
  <2>2. UNCHANGED <<path, todo>> /\ my'["schedule"] = my["schedule"]
    BY <1>2, ThreadFacts, Zenon DEF StatusRunningFlow
  <2>3. \A s \in SJobs \ {my[h].sj} : flow'[s] = flow[s]
    BY <1>2, Zenon DEF StatusRunningFlow
  <2> QED
    BY <2>1, <2>2, <2>3, JobFields, ZenonT(30)
<1>3. ASSUME NEW h \in Handlers,
         StatusRunningSJob(h) \/ ChecksumOk(h) \/ ChecksumFailed(h) \/
         MarkFinished(h)
  PROVE  TodoOK'
  BY <1>3, ThreadFacts, ZenonT(30)
     DEF StatusRunningSJob, ChecksumOk, ChecksumFailed, MarkFinished, Return,
         Enter
<1>4. ASSUME NEW h \in Handlers, StatusError(h) PROVE TodoOK'
  <2>1. flow[my[h].sj] # "none"
    BY <1>4, Working, ThreadFacts, Zenon DEF StatusError, FreePC
  <2>2. UNCHANGED <<path, todo>> /\ my'["schedule"] = my["schedule"]
    BY <1>4, ThreadFacts, Zenon DEF StatusError
  <2>3. \A s \in SJobs \ {my[h].sj} : flow'[s] = flow[s]
    BY <1>4, Zenon DEF StatusError
  <2> QED
    BY <2>1, <2>2, <2>3, JobFields, Zenon
<1>5. ASSUME NEW h \in Handlers, StatusDone(h) PROVE TodoOK'
  <2>1. flow[my[h].sj] # "none"
    BY <1>5, Working, ThreadFacts, Zenon DEF StatusDone, FreePC
  <2>2. UNCHANGED <<path, todo>> /\ my'["schedule"] = my["schedule"]
    BY <1>5, ThreadFacts, Zenon DEF StatusDone
  <2>3. \A s \in SJobs \ {my[h].sj} : flow'[s] = flow[s]
    BY <1>5, Zenon DEF StatusDone
  <2> QED
    BY <2>1, <2>2, <2>3, JobFields, Zenon
<1>6. ASSUME NEW h \in Handlers, Release(h) PROVE TodoOK'
  <2>1. flow[my[h].sj] # "none"
    BY <1>6, Working, ThreadFacts, Zenon DEF Release, FreePC
  <2>2. UNCHANGED <<todo>> /\ my'["schedule"] = my["schedule"]
    BY <1>6, ThreadFacts, ZenonT(30) DEF Release, Return, Enter
  <2>3. \A s \in SJobs \ {my[h].sj} : flow'[s] = flow[s] /\ path'[s] = path[s]
    BY <1>6, ZenonT(30) DEF Release, TearDown
  <2> QED
    BY <2>1, <2>2, <2>3, JobFields, ZenonT(40)
<1>7. ASSUME NEW h \in Handlers,
         FinishSJob(h) \/ SumUp(h) \/ FinishRaw(h) \/ Relaunch(h)
  PROVE  TodoOK'
  BY <1>7, ThreadFacts, ZenonT(30)
     DEF FinishSJob, SumUp, FinishRaw, Relaunch, Return, Enter
<1>8. ASSUME NEW h \in Handlers,
         RelaunchNoLauncher(h) \/ RelaunchedBlock(h) \/ RelaunchedRaw(h)
  PROVE  TodoOK'
  BY <1>8, ThreadFacts, ZenonT(30)
     DEF RelaunchNoLauncher, RelaunchedBlock, RelaunchedRaw, Return, Enter
<1>9. ASSUME NEW h \in Handlers, RelaunchedFlow(h) PROVE TodoOK'
  <2>1. flow[my[h].sj] # "none"
    BY <1>9, Working, ThreadFacts, Zenon DEF RelaunchedFlow, FreePC
  <2>2. UNCHANGED <<path, todo>> /\ my'["schedule"] = my["schedule"]
    BY <1>9, ThreadFacts, Zenon DEF RelaunchedFlow
  <2>3. \A s \in SJobs \ {my[h].sj} : flow'[s] = flow[s]
    BY <1>9, Zenon DEF RelaunchedFlow
  <2> QED
    BY <2>1, <2>2, <2>3, JobFields, Zenon
<1> QED
  BY <1>1, <1>2, <1>3, <1>4, <1>5, <1>6, <1>7, <1>8, <1>9, Zenon DEF
     Status

\* The rest of schedule()'s snapshot stays valid while schedule() works on it:
\* failures, the launching agent and restarts.
LEMMA TodoRest == IInv /\ ((\E t \in Threads : Fail(t)) \/ Environment \/ UNCHANGED vars) => TodoOK'
<1> SUFFICES ASSUME IInv, ((\E t \in Threads : Fail(t)) \/ Environment \/ UNCHANGED vars) PROVE TodoOK'
  BY Zenon
<1>t. /\ flow \in [SJobs -> FlowState]
      /\ path \in [SJobs -> {"none", "held", "released"}]
      /\ pc \in [Threads -> PC]
      /\ my \in [Threads -> Local]
      /\ todo \in [{"schedule", "poll"} -> SUBSET Job]
  BY Zenon DEF IInv, TypeOK
<1>i. TodoOK /\ PcOK /\ NoFlowOK /\ PathOK
  BY Zenon DEF IInv
<1> USE <1>t, <1>i DEF At, Goto, store, world, budget, TodoOK
<1>1. ASSUME NEW t \in Threads, FailTearDown(t) PROVE TodoOK'
  BY <1>1, ThreadFacts DEF FailTearDown, TearDown
<1>2. ASSUME NEW t \in Threads, FailSJob(t) PROVE TodoOK'
  BY <1>2, ThreadFacts, Zenon DEF FailSJob
<1>3. ASSUME NEW t \in Threads, FailRaw(t) PROVE TodoOK'
  <2>1. my'["schedule"] \in {my["schedule"], Nothing}
    BY <1>3, ThreadFacts, Zenon DEF FailRaw, Return, Enter
  <2>2. UNCHANGED <<flow, path, todo>>
    BY <1>3, Zenon DEF FailRaw
  <2> QED
    BY <2>1, <2>2, NothingFields, JobFields, Zenon
<1>4. CASE CallTimeout
  BY <1>4, ThreadFacts, Zenon DEF CallTimeout, Answered
<1>5. CASE LauncherServe
  BY <1>5, ThreadFacts, ZenonT(30) DEF LauncherServe, Answered
<1>6. ASSUME NEW s \in SJobs, MdtmDone(s) \/ MdtmError(s) PROVE TodoOK'
  BY <1>6, ThreadFacts, Zenon DEF MdtmDone, MdtmError
<1>7. CASE MdtmRestart \/ LauncherLeave \/ LauncherReturn \/ Crash
  BY <1>7, ThreadFacts, Zenon
     DEF MdtmRestart, LauncherLeave, LauncherReturn, Crash, Down
<1>8. CASE Restart
  BY <1>8, ThreadFacts, Zenon DEF Restart
<1>9. CASE UNCHANGED vars
  BY <1>9, Zenon DEF vars
<1> QED
  BY <1>1, <1>2, <1>3, <1>4, <1>5, <1>6, <1>7, <1>8, <1>9, Zenon DEF
     Fail, Environment

\* The rest of schedule()'s snapshot stays valid while schedule() works on it.
LEMMA TodoStep == IInv /\ [Next]_vars => TodoOK'
BY TodoSchedule, TodoPoll, TodoStatus, TodoRest, Zenon DEF Next

\* A launch call is waited for by the one thread that made it: the steps of
\* schedule.
LEMMA CallSchedule == IInv /\ Schedule => CallOK'
<1> SUFFICES ASSUME IInv, Schedule PROVE CallOK'
  BY Zenon
<1>t. /\ pc \in [Threads -> PC]
      /\ calls \in SUBSET Call
  BY Zenon DEF IInv, TypeOK
<1>i. TypeOK /\ CallOK
  BY Zenon DEF IInv
<1> USE <1>t, <1>i DEF At, Goto, store, world, budget, CallOK
<1>1. CASE ScheduleBegin
  BY <1>1, ThreadFacts DEF ScheduleBegin
<1>2. CASE ScheduleNext
  BY <1>2, ThreadFacts DEF ScheduleNext, Enter
<1>3. CASE ScheduleMatch
  BY <1>3, ThreadFacts DEF ScheduleMatch
<1>4. CASE ScheduleNetwork
  <2>1. \A c \in calls : c.by # "schedule"
    BY <1>4, ThreadFacts, Zenon DEF ScheduleNetwork
  <2>2. \A t \in Threads \ {"schedule"} : pc'[t] = pc[t]
    BY <1>4, Zenon DEF ScheduleNetwork
  <2>3. UNCHANGED calls
    BY <1>4, Zenon DEF ScheduleNetwork
  <2> QED
    BY <2>1, <2>2, <2>3, CallFields, Zenon
<1>5. CASE ScheduleVerify
  BY <1>5, ThreadFacts DEF ScheduleVerify
<1>6. CASE ScheduleLaunch
  <2>1. \A c \in calls : c.by # "schedule"
    BY <1>6, ThreadFacts, Zenon DEF ScheduleLaunch
  <2> DEFINE d == [sj |-> my["schedule"].sj, blk |-> my["schedule"].next, by |-> "schedule"]
  <2>2. calls' = calls \cup {d} /\ d.by = "schedule"
    BY <1>6, Zenon DEF ScheduleLaunch
  <2>3. pc' = [pc EXCEPT !["schedule"] = "launching"]
    BY <1>6, Zenon DEF ScheduleLaunch
  <2> QED
    BY <2>1, <2>2, <2>3, CallFields, ThreadFacts, Zenon
<1>7. CASE ScheduleNoLauncher
  <2>1. Down
    BY <1>7, Zenon DEF ScheduleNoLauncher
  <2> QED
    BY <2>1, DownFacts, Zenon
<1>8. CASE ScheduleLaunchedBlock
  BY <1>8, ThreadFacts DEF ScheduleLaunchedBlock
<1>9. CASE ScheduleLaunchedFlow
  BY <1>9, ThreadFacts DEF ScheduleLaunchedFlow
<1>10. CASE ScheduleLaunchedRaw
  BY <1>10, ThreadFacts DEF ScheduleLaunchedRaw, Return, Enter
<1> QED
  BY <1>1, <1>2, <1>3, <1>4, <1>5, <1>6, <1>7, <1>8, <1>9, <1>10, ZenonT(30)
     DEF Schedule

\* A launch call is waited for by the one thread that made it: the steps of
\* poll_rate.
LEMMA CallPoll == IInv /\ Poll => CallOK'
<1> SUFFICES ASSUME IInv, Poll PROVE CallOK'
  BY Zenon
<1>t. /\ pc \in [Threads -> PC]
      /\ calls \in SUBSET Call
  BY Zenon DEF IInv, TypeOK
<1>i. TypeOK /\ CallOK
  BY Zenon DEF IInv
<1> USE <1>t, <1>i DEF At, Goto, store, world, budget, CallOK
<1>1. CASE PollBegin
  BY <1>1, ThreadFacts DEF PollBegin
<1>2. CASE PollRate
  <2>1. \A c \in calls : c.by # "poll"
    BY <1>2, ThreadFacts, Zenon DEF PollRate
  <2>2. \A t \in Threads \ {"poll"} : pc'[t] = pc[t]
    BY <1>2, Zenon DEF PollRate, PollNoNews, PollUnknownTask, PollInactive, Return, Enter
  <2>3. UNCHANGED calls
    BY <1>2, Zenon DEF PollRate
  <2> QED
    BY <2>1, <2>2, <2>3, CallFields, Zenon
<1>3. CASE PollNoLauncher
  <2>1. Down
    BY <1>3, Zenon DEF PollNoLauncher
  <2> QED
    BY <2>1, DownFacts, Zenon
<1>4. CASE PollUnknown
  BY <1>4, ThreadFacts DEF PollUnknown, TearDown
<1>5. CASE PollUnknownDrop
  BY <1>5, ThreadFacts DEF PollUnknownDrop, PollDrop
<1>6. CASE PollStalled
  BY <1>6, ThreadFacts, SMTT(30) DEF PollStalled, PollDrop
<1> QED
  BY <1>1, <1>2, <1>3, <1>4, <1>5, <1>6, Zenon DEF Poll

\* A launch call is waited for by the one thread that made it: the steps of
\* mld_status.
LEMMA CallStatus == IInv /\ (\E h \in Handlers : Status(h)) => CallOK'
<1> SUFFICES ASSUME IInv, (\E h \in Handlers : Status(h)) PROVE CallOK'
  BY Zenon
<1>t. /\ pc \in [Threads -> PC]
      /\ calls \in SUBSET Call
  BY Zenon DEF IInv, TypeOK
<1>i. TypeOK /\ CallOK
  BY Zenon DEF IInv
<1> USE <1>t, <1>i DEF At, Goto, store, world, budget, CallOK
<1>1. ASSUME NEW h \in Handlers, NEW s \in SJobs, StatusBegin(h, s) PROVE CallOK'
  BY <1>1, ThreadFacts DEF StatusBegin, Enter
<1>2. ASSUME NEW h \in Handlers, StatusRunningFlow(h) PROVE CallOK'
  BY <1>2, ThreadFacts, SMTT(30) DEF StatusRunningFlow
<1>3. ASSUME NEW h \in Handlers, StatusRunningSJob(h) PROVE CallOK'
  BY <1>3, ThreadFacts DEF StatusRunningSJob, Return, Enter
<1>4. ASSUME NEW h \in Handlers, StatusError(h) PROVE CallOK'
  BY <1>4, ThreadFacts DEF StatusError
<1>5. ASSUME NEW h \in Handlers, StatusDone(h) PROVE CallOK'
  BY <1>5, ThreadFacts DEF StatusDone
<1>6. ASSUME NEW h \in Handlers, ChecksumOk(h) PROVE CallOK'
  BY <1>6, ThreadFacts DEF ChecksumOk
<1>7. ASSUME NEW h \in Handlers, ChecksumFailed(h) PROVE CallOK'
  BY <1>7, ThreadFacts, SMTT(30) DEF ChecksumFailed, Enter
<1>8. ASSUME NEW h \in Handlers, MarkFinished(h) PROVE CallOK'
  BY <1>8, ThreadFacts DEF MarkFinished
<1>9. ASSUME NEW h \in Handlers, Release(h) PROVE CallOK'
  <2>1. \A c \in calls : c.by # h
    BY <1>9, ThreadFacts, Zenon DEF Release
  <2>2. \A t \in Threads \ {h} : pc'[t] = pc[t]
    BY <1>9, Zenon DEF Release, Return, Enter
  <2>3. UNCHANGED calls
    BY <1>9, Zenon DEF Release
  <2> QED
    BY <2>1, <2>2, <2>3, CallFields, Zenon
<1>10. ASSUME NEW h \in Handlers, FinishSJob(h) PROVE CallOK'
  BY <1>10, ThreadFacts, SMTT(30) DEF FinishSJob
<1>11. ASSUME NEW h \in Handlers, SumUp(h) PROVE CallOK'
  <2>1. \A c \in calls : c.by # h
    BY <1>11, ThreadFacts, Zenon DEF SumUp
  <2>2. \A t \in Threads \ {h} : pc'[t] = pc[t]
    BY <1>11, Zenon DEF SumUp, Return, Enter
  <2>3. UNCHANGED calls
    BY <1>11, Zenon DEF SumUp
  <2> QED
    BY <2>1, <2>2, <2>3, CallFields, Zenon
<1>12. ASSUME NEW h \in Handlers, FinishRaw(h) PROVE CallOK'
  BY <1>12, ThreadFacts DEF FinishRaw, Return, Enter
<1>13. ASSUME NEW h \in Handlers, Relaunch(h) PROVE CallOK'
  <2>1. \A c \in calls : c.by # h
    BY <1>13, ThreadFacts, Zenon DEF Relaunch
  <2> DEFINE d == [sj |-> my[h].sj, blk |-> my[h].next, by |-> h]
  <2>2. calls' = calls \cup {d} /\ d.by = h
    BY <1>13, Zenon DEF Relaunch
  <2>3. pc' = [pc EXCEPT ![h] = "relaunching"]
    BY <1>13, Zenon DEF Relaunch
  <2> QED
    BY <2>1, <2>2, <2>3, CallFields, ThreadFacts, Zenon
<1>14. ASSUME NEW h \in Handlers, RelaunchNoLauncher(h) PROVE CallOK'
  BY <1>14, ThreadFacts DEF RelaunchNoLauncher
<1>15. ASSUME NEW h \in Handlers, RelaunchedBlock(h) PROVE CallOK'
  BY <1>15, ThreadFacts DEF RelaunchedBlock
<1>16. ASSUME NEW h \in Handlers, RelaunchedFlow(h) PROVE CallOK'
  BY <1>16, ThreadFacts, SMTT(30) DEF RelaunchedFlow
<1>17. ASSUME NEW h \in Handlers, RelaunchedRaw(h) PROVE CallOK'
  BY <1>17, ThreadFacts DEF RelaunchedRaw, Return, Enter
<1> QED
  BY <1>1, <1>2, <1>3, <1>4, <1>5, <1>6, <1>7, <1>8, <1>9, <1>10, <1>11,
     <1>12, <1>13, <1>14, <1>15, <1>16, <1>17, ZenonT(30) DEF Status

\* A launch call is waited for by the one thread that made it: failures, the
\* launching agent and restarts.
LEMMA CallRest == IInv /\ ((\E t \in Threads : Fail(t)) \/ Environment \/ UNCHANGED vars) => CallOK'
<1> SUFFICES ASSUME IInv, ((\E t \in Threads : Fail(t)) \/ Environment \/ UNCHANGED vars) PROVE CallOK'
  BY Zenon
<1>t. /\ pc \in [Threads -> PC]
      /\ calls \in SUBSET Call
  BY Zenon DEF IInv, TypeOK
<1>i. TypeOK /\ CallOK
  BY Zenon DEF IInv
<1> USE <1>t, <1>i DEF At, Goto, store, world, budget, CallOK
<1>1. ASSUME NEW t \in Threads, FailTearDown(t) PROVE CallOK'
  BY <1>1, ThreadFacts DEF FailTearDown, TearDown
<1>2. ASSUME NEW t \in Threads, FailSJob(t) PROVE CallOK'
  BY <1>2, ThreadFacts, SMTT(30) DEF FailSJob
<1>3. ASSUME NEW t \in Threads, FailRaw(t) PROVE CallOK'
  BY <1>3, ThreadFacts DEF FailRaw, Return, Enter
<1>4. CASE CallTimeout
  <2>1. PICK c \in calls :
          /\ c.by # "nobody"
          /\ Goto(c.by, Answered(c.by, FALSE))
          /\ \/ calls' = calls \ {c}
             \/ calls' = (calls \ {c}) \cup {Abandoned(c)}
    BY <1>4, Zenon DEF CallTimeout
  <2>2. \A d \in calls' : d \in calls \ {c} \/ d.by = "nobody"
    BY <2>1 DEF Abandoned
  <2>3. \A d \in calls \ {c} : d.by # c.by
    BY <2>1, Zenon
  <2>4. \A t \in Threads \ {c.by} : pc'[t] = pc[t]
    BY <2>1, Zenon
  <2> QED
    BY <2>2, <2>3, <2>4, CallFields, Zenon
<1>5. CASE LauncherServe
  <2>1. PICK c \in calls, ok \in BOOLEAN :
          /\ calls' = calls \ {c}
          /\ IF c.by = "nobody" THEN UNCHANGED <<pc, my>> ELSE Goto(c.by, Answered(c.by, ok))
    BY <1>5, Zenon DEF LauncherServe
  <2>2. \A d \in calls \ {c} : d.by # "nobody" => d.by # c.by
    BY Zenon
  <2>3. \A t \in Threads \ {c.by} : pc'[t] = pc[t]
    BY <2>1, Zenon
  <2> QED
    BY <2>1, <2>2, <2>3, CallFields, Zenon
<1>6. ASSUME NEW s \in SJobs, MdtmDone(s) \/ MdtmError(s) PROVE CallOK'
  BY <1>6, ThreadFacts, ZenonT(30) DEF MdtmDone, MdtmError
<1>7. CASE MdtmRestart
  BY <1>7, ThreadFacts, Zenon DEF MdtmRestart
<1>8. CASE LauncherLeave \/ LauncherReturn \/ Restart
  BY <1>8, ThreadFacts, Zenon DEF LauncherLeave, LauncherReturn, Restart
<1>9. CASE Crash
  <2>1. Down
    BY <1>9, Zenon DEF Crash
  <2> QED
    BY <2>1, DownFacts, Zenon
<1>10. CASE UNCHANGED vars
  BY <1>10, Zenon DEF vars
<1> QED
  BY <1>1, <1>2, <1>3, <1>4, <1>5, <1>6, <1>7, <1>8, <1>9, <1>10, ZenonT(40)
     DEF Fail, Environment

\* A launch call is waited for by the one thread that made it.
LEMMA CallStep == IInv /\ [Next]_vars => CallOK'
BY CallSchedule, CallPoll, CallStatus, CallRest, Zenon DEF Next

\* A path is held only where the code still has its teardown ahead: the steps
\* of schedule.
LEMMA PathSchedule == IInv /\ Schedule => PathOK'
<1> SUFFICES ASSUME IInv, Schedule PROVE PathOK'
  BY Zenon
<1>t. /\ sjob \in [SJobs -> SJobState]
      /\ flow \in [SJobs -> FlowState]
      /\ path \in [SJobs -> {"none", "held", "released"}]
      /\ pc \in [Threads -> PC]
      /\ my \in [Threads -> Local]
      /\ todo \in [{"schedule", "poll"} -> SUBSET Job]
      /\ status \in [SJobs -> Seq(1..3)]
  BY Zenon DEF IInv, TypeOK
<1>i. PathOK /\ PcOK /\ NoFlowOK /\ FlowOK /\ TodoOK
  BY Zenon DEF IInv
<1> USE <1>t, <1>i DEF At, Goto, store, world, budget, PathOK,
                       NewHoldsNoPath, TornDown, EndedHoldsNoPath
<1>1. CASE ScheduleBegin
  BY <1>1, ThreadFacts, Zenon DEF ScheduleBegin
<1>2. CASE ScheduleNext
  <2>1. PICK j \in todo["schedule"] :
          /\ sjob' = [sjob EXCEPT ![j.sj] = "dtn_matching"]
          /\ Enter("schedule", "match", Note(j.sj, 0, j.blk))
    BY <1>2, Zenon DEF ScheduleNext
  <2>2. my'["schedule"].sj = j.sj /\ path[j.sj] = "none" /\ UNCHANGED <<flow, path>>
    BY <1>2, <2>1, NoteFields, ThreadFacts DEF Enter, TodoOK, ScheduleNext
  <2>3. pc'["schedule"] = "match"
    BY <2>1, ThreadFacts, Zenon DEF Enter
  <2>4. \A t \in Threads \ {"schedule"} : pc'[t] = pc[t] /\ my'[t] = my[t]
    BY <2>1, Zenon DEF Enter
  <2>5. NewHoldsNoPath'
    BY <2>1, <2>2, <2>3, JobFields, Zenon
  <2>6. TornDown'
    BY <2>2, <2>3, <2>4, Zenon
  <2>7. EndedHoldsNoPath'
    BY <2>1, <2>2, JobFields, Zenon
  <2> QED
    BY <2>5, <2>6, <2>7, Zenon
<1>3. CASE ScheduleMatch
  BY <1>3, ThreadFacts, ZenonT(30) DEF ScheduleMatch
<1>4. CASE ScheduleNetwork
  <2> DEFINE s == my["schedule"].sj
  <2>1. s \in SJobs /\ flow[s] = "none"
    BY <1>4, ThreadFacts, Zenon
       DEF ScheduleNetwork, PcOK, Own, FreePC, FlowOK, BeforeFlowPC
  <2>2. \A t \in Threads \ {"schedule"} : my[t].sj # s
    BY <2>1, Zenon DEF NoFlowOK, Untouched
  <2>3. /\ sjob' = [sjob EXCEPT ![s] = "sdn_setup"] \/ UNCHANGED <<sjob, path>>
        /\ UNCHANGED <<flow, my>>
    BY <1>4, Zenon DEF ScheduleNetwork
  <2>4. \A r \in SJobs \ {s} : path'[r] = path[r]
    BY <1>4, Zenon DEF ScheduleNetwork
  <2>5. pc'["schedule"] \in {"verify_path", "teardown"}
    BY <1>4, ThreadFacts, Zenon DEF ScheduleNetwork
  <2>6. \A t \in Threads \ {"schedule"} : pc'[t] = pc[t]
    BY <1>4, Zenon DEF ScheduleNetwork
  <2>7. \A t \in Threads : pc[t] \in {"fail_sjob", "unknown_drop", "finish"} => my[t].sj \in SJobs
    BY Zenon DEF PcOK, Own, FreePC
  <2>11. NewHoldsNoPath'
    BY <2>1, <2>2, <2>3, <2>4, <2>5, <2>6, <2>7, ZenonT(30)
  <2>12. TornDown'
    BY <2>1, <2>2, <2>3, <2>4, <2>5, <2>6, <2>7, ZenonT(30)
  <2>13. EndedHoldsNoPath'
    BY <2>1, <2>2, <2>3, <2>4, <2>5, <2>6, <2>7
  <2> QED
    BY <2>11, <2>12, <2>13, Zenon
<1>5. CASE ScheduleVerify
  BY <1>5, ThreadFacts, ZenonT(30) DEF ScheduleVerify
<1>6. CASE ScheduleLaunch
  BY <1>6, ThreadFacts, Zenon DEF ScheduleLaunch, InsertFlow
<1>7. CASE ScheduleNoLauncher
  BY <1>7, ThreadFacts, Zenon DEF ScheduleNoLauncher, InsertFlow, Down
<1>8. CASE ScheduleLaunchedBlock
  BY <1>8, ThreadFacts, Zenon DEF ScheduleLaunchedBlock
<1>9. CASE ScheduleLaunchedFlow \/ ScheduleLaunchedRaw
  BY <1>9, ThreadFacts DEF ScheduleLaunchedFlow, ScheduleLaunchedRaw, Return, Enter
<1> QED
  BY <1>1, <1>2, <1>3, <1>4, <1>5, <1>6, <1>7, <1>8, <1>9, ZenonT(30) DEF
     Schedule

\* A path is held only where the code still has its teardown ahead: the steps
\* of poll_rate.
LEMMA PathPoll == IInv /\ Poll => PathOK'
<1> SUFFICES ASSUME IInv, Poll PROVE PathOK'
  BY Zenon
<1>t. /\ sjob \in [SJobs -> SJobState]
      /\ flow \in [SJobs -> FlowState]
      /\ path \in [SJobs -> {"none", "held", "released"}]
      /\ pc \in [Threads -> PC]
      /\ my \in [Threads -> Local]
      /\ todo \in [{"schedule", "poll"} -> SUBSET Job]
      /\ status \in [SJobs -> Seq(1..3)]
  BY Zenon DEF IInv, TypeOK
<1>i. PathOK /\ PcOK /\ NoFlowOK /\ FlowOK /\ TodoOK
  BY Zenon DEF IInv
<1> USE <1>t, <1>i DEF At, Goto, store, world, budget, PathOK,
                       NewHoldsNoPath, TornDown, EndedHoldsNoPath
<1>1. CASE PollBegin \/ PollNoLauncher
  BY <1>1, ThreadFacts DEF PollBegin, PollNoLauncher, Return, Enter, Down
<1>2. CASE PollRate
  <2>1. UNCHANGED <<sjob, flow, path>>
    BY <1>2, Zenon DEF PollRate
  <2>2. pc'["poll"] \in {"idle", "poll", "unknown", "stalled"}
    BY <1>2, ThreadFacts, ZenonT(40)
       DEF PollRate, PollNoNews, PollUnknownTask, PollInactive, Return, Enter
  <2>3. \A t \in Threads \ {"poll"} : pc'[t] = pc[t] /\ my'[t] = my[t]
    BY <1>2, ZenonT(30) DEF PollRate, PollNoNews, PollUnknownTask, PollInactive, Return, Enter
  <2> QED
    BY <2>1, <2>2, <2>3, ThreadFacts, ZenonT(30)
<1>3. CASE PollUnknown
  <2>1. my["poll"].sj \in SJobs
    BY <1>3, Working, ThreadFacts, Zenon DEF PollUnknown, FreePC
  <2>2. /\ sjob' = [sjob EXCEPT ![my["poll"].sj] = "sdn_teardown"]
        /\ path'[my["poll"].sj] # "held"
        /\ UNCHANGED <<flow, my>>
    BY <1>3, <2>1, Zenon DEF PollUnknown, TearDown
  <2>3. \A s \in SJobs : path[s] # "held" => path'[s] = path[s]
    BY <1>3, Zenon DEF PollUnknown, TearDown
  <2>4. pc'["poll"] \in {"unknown_drop", "fail_sjob"} /\ \A t \in Threads \ {"poll"} : pc'[t] = pc[t]
    BY <1>3, ThreadFacts, Zenon DEF PollUnknown
  <2>5. \A t \in Threads : pc[t] \in {"match", "network", "fail_sjob", "unknown_drop", "finish"}
                          => my[t].sj \in SJobs
    BY Zenon DEF PcOK, Own, FreePC
  <2>11. NewHoldsNoPath'
    BY <2>1, <2>2, <2>3, <2>4, <2>5, ThreadFacts, ZenonT(30)
  <2>12. TornDown'
    <3> SUFFICES ASSUME NEW x \in Threads, pc'[x] \in {"fail_sjob", "unknown_drop", "finish"}
                 PROVE  path'[my'[x].sj] # "held"
      BY Zenon
    <3>1. CASE x = "poll"
      BY <2>2, <3>1, Zenon
    <3>2. CASE x # "poll"
      BY <2>2, <2>3, <2>4, <2>5, <3>2, ZenonT(30)
    <3> QED
      BY <3>1, <3>2, Zenon
  <2>13. EndedHoldsNoPath'
    BY <2>1, <2>2, <2>3, <2>4, <2>5, ThreadFacts, Zenon
  <2> QED
    BY <2>11, <2>12, <2>13, Zenon
<1>4. CASE PollUnknownDrop \/ PollStalled
  BY <1>4, ThreadFacts DEF PollUnknownDrop, PollStalled, PollDrop
<1> QED
  BY <1>1, <1>2, <1>3, <1>4, ZenonT(40) DEF Poll

\* A path is held only where the code still has its teardown ahead: the steps
\* of mld_status.
LEMMA PathStatus == IInv /\ (\E h \in Handlers : Status(h)) => PathOK'
<1> SUFFICES ASSUME IInv, (\E h \in Handlers : Status(h)) PROVE PathOK'
  BY Zenon
<1>t. /\ sjob \in [SJobs -> SJobState]
      /\ flow \in [SJobs -> FlowState]
      /\ path \in [SJobs -> {"none", "held", "released"}]
      /\ pc \in [Threads -> PC]
      /\ my \in [Threads -> Local]
      /\ todo \in [{"schedule", "poll"} -> SUBSET Job]
      /\ status \in [SJobs -> Seq(1..3)]
  BY Zenon DEF IInv, TypeOK
<1>i. PathOK /\ PcOK /\ NoFlowOK /\ FlowOK /\ TodoOK
  BY Zenon DEF IInv
<1> USE <1>t, <1>i DEF At, Goto, store, world, budget, PathOK,
                       NewHoldsNoPath, TornDown, EndedHoldsNoPath
<1>1. ASSUME NEW h \in Handlers, NEW s \in SJobs, StatusBegin(h, s) PROVE PathOK'
  <2>1. UNCHANGED <<sjob, flow, path>>
    BY <1>1, Zenon DEF StatusBegin
  <2>2. \A t \in Threads \ {h} : pc'[t] = pc[t] /\ my'[t] = my[t]
    BY <1>1, Zenon DEF StatusBegin, Enter
  <2>3. pc'[h] \in {"one", "two", "three"}
    BY <1>1, ThreadFacts, BranchType DEF StatusBegin, Enter
  <2> QED
    BY <2>1, <2>2, <2>3, ThreadFacts
<1>2. ASSUME NEW h \in Handlers, StatusRunningFlow(h) PROVE PathOK'
  BY <1>2, ThreadFacts, Zenon DEF StatusRunningFlow
<1>3. ASSUME NEW h \in Handlers, StatusRunningSJob(h) PROVE PathOK'
  <2>1. my[h].sj \in SJobs /\ flow[my[h].sj] # "none"
    BY <1>3, Working, ThreadFacts, Zenon DEF StatusRunningSJob, FreePC
  <2>2. sjob' = [sjob EXCEPT ![my[h].sj] = "transferring"] /\ UNCHANGED <<flow, path>>
    BY <1>3, Zenon DEF StatusRunningSJob
  <2>3. pc'[h] = "idle"
    BY <1>3, ThreadFacts, Zenon DEF StatusRunningSJob, Return, Enter
  <2>4. \A t \in Threads \ {h} : pc'[t] = pc[t] /\ my'[t] = my[t]
    BY <1>3, Zenon DEF StatusRunningSJob, Return, Enter
  <2> QED
    BY <2>1, <2>2, <2>3, <2>4, ThreadFacts, ZenonT(30)
<1>4. ASSUME NEW h \in Handlers, StatusError(h) PROVE PathOK'
  BY <1>4, ThreadFacts, Zenon DEF StatusError
<1>5. ASSUME NEW h \in Handlers, StatusDone(h) PROVE PathOK'
  BY <1>5, ThreadFacts, Zenon DEF StatusDone
<1>6. ASSUME NEW h \in Handlers, ChecksumOk(h) PROVE PathOK'
  BY <1>6, ThreadFacts, Zenon DEF ChecksumOk
<1>7. ASSUME NEW h \in Handlers, ChecksumFailed(h) PROVE PathOK'
  BY <1>7, ThreadFacts, Zenon DEF ChecksumFailed, Enter
<1>8. ASSUME NEW h \in Handlers, MarkFinished(h) PROVE PathOK'
  BY <1>8, ThreadFacts, Zenon DEF MarkFinished
<1>9. ASSUME NEW h \in Handlers, Release(h) PROVE PathOK'
  <2>1. my[h].sj \in SJobs /\ flow[my[h].sj] # "none"
    BY <1>9, Working, ThreadFacts, Zenon DEF Release, FreePC
  <2>2. /\ sjob' = [sjob EXCEPT ![my[h].sj] = "sdn_teardown"]
        /\ path'[my[h].sj] # "held"
    BY <1>9, <2>1, Zenon DEF Release, TearDown
  <2>3. \A s \in SJobs : path[s] # "held" => path'[s] = path[s]
    BY <1>9, Zenon DEF Release, TearDown
  <2>4. \A t \in Threads \ {h} : pc'[t] = pc[t] /\ my'[t] = my[t]
    BY <1>9, Zenon DEF Release, Return, Enter
  <2>5. pc'[h] = "idle" \/ (pc'[h] = "finish" /\ my'[h] = my[h])
    BY <1>9, ThreadFacts, Zenon DEF Release, Return, Enter
  <2>6. \A t \in Threads : pc[t] \in {"match", "network", "fail_sjob", "unknown_drop", "finish"}
                          => my[t].sj \in SJobs
    BY Zenon DEF PcOK, Own, FreePC
  <2>7. flow' = [flow EXCEPT ![my[h].sj] = "waiting_to_be_teared"]
    BY <1>9, Zenon DEF Release
  <2>11. NewHoldsNoPath'
    BY <2>1, <2>2, <2>3, <2>4, <2>5, <2>6, <2>7, ThreadFacts, SMTT(30)
  <2>12. TornDown'
    <3> SUFFICES ASSUME NEW x \in Threads, pc'[x] \in {"fail_sjob", "unknown_drop", "finish"}
                 PROVE  path'[my'[x].sj] # "held"
      BY Zenon
    <3>1. CASE x = h
      BY <2>2, <2>5, <3>1, Zenon
    <3>2. CASE x # h
      BY <2>3, <2>4, <2>6, <3>2
    <3> QED
      BY <3>1, <3>2, Zenon
  <2>13. EndedHoldsNoPath'
    BY <2>1, <2>2, <2>3, <2>4, <2>5, <2>6, <2>7, ThreadFacts, ZenonT(40)
  <2> QED
    BY <2>11, <2>12, <2>13, Zenon
<1>10. ASSUME NEW h \in Handlers,
         FinishSJob(h) \/ FinishRaw(h) \/ Relaunch(h) \/
         RelaunchNoLauncher(h)
  PROVE  PathOK'
  BY <1>10, ThreadFacts
     DEF FinishSJob, FinishRaw, Relaunch, RelaunchNoLauncher, Return, Enter
<1>11. ASSUME NEW h \in Handlers, SumUp(h) PROVE PathOK'
  <2>1. UNCHANGED <<sjob, flow, path>>
    BY <1>11, Zenon DEF SumUp
  <2>2. pc'[h] \in {"idle", "finish_raw"}
    BY <1>11, ThreadFacts, Zenon DEF SumUp, Return, Enter
  <2>3. \A t \in Threads \ {h} : pc'[t] = pc[t] /\ my'[t] = my[t]
    BY <1>11, Zenon DEF SumUp, Return, Enter
  <2> QED
    BY <2>1, <2>2, <2>3, ThreadFacts, ZenonT(30)
<1>12. ASSUME NEW h \in Handlers,
         RelaunchedBlock(h) \/ RelaunchedFlow(h) \/ RelaunchedRaw(h)
  PROVE  PathOK'
  BY <1>12, ThreadFacts
     DEF RelaunchedBlock, RelaunchedFlow, RelaunchedRaw, Return, Enter
<1> QED
  BY <1>1, <1>2, <1>3, <1>4, <1>5, <1>6, <1>7, <1>8, <1>9, <1>10, <1>11,
     <1>12, Zenon DEF Status

\* A path is held only where the code still has its teardown ahead: failures,
\* the launching agent and restarts.
LEMMA PathRest == IInv /\ ((\E t \in Threads : Fail(t)) \/ Environment \/ UNCHANGED vars) => PathOK'
<1> SUFFICES ASSUME IInv, ((\E t \in Threads : Fail(t)) \/ Environment \/ UNCHANGED vars) PROVE PathOK'
  BY Zenon
<1>t. /\ sjob \in [SJobs -> SJobState]
      /\ flow \in [SJobs -> FlowState]
      /\ path \in [SJobs -> {"none", "held", "released"}]
      /\ pc \in [Threads -> PC]
      /\ my \in [Threads -> Local]
      /\ todo \in [{"schedule", "poll"} -> SUBSET Job]
      /\ status \in [SJobs -> Seq(1..3)]
  BY Zenon DEF IInv, TypeOK
<1>i. PathOK /\ PcOK /\ NoFlowOK /\ FlowOK /\ TodoOK
  BY Zenon DEF IInv
<1> USE <1>t, <1>i DEF At, Goto, store, world, budget, PathOK,
                       NewHoldsNoPath, TornDown, EndedHoldsNoPath
<1>1. CASE CallTimeout \/ LauncherServe
  BY <1>1, ThreadFacts DEF CallTimeout, LauncherServe, Answered
<1>2. ASSUME NEW t \in Threads, FailTearDown(t) PROVE PathOK'
  <2>1. my[t].sj \in SJobs
    BY <1>2, Working, ThreadFacts, Zenon DEF FailTearDown, FreePC
  <2>2. /\ sjob' = [sjob EXCEPT ![my[t].sj] = "sdn_teardown"]
        /\ path'[my[t].sj] # "held"
        /\ UNCHANGED <<flow, my>>
    BY <1>2, <2>1, Zenon DEF FailTearDown, TearDown
  <2>3. \A s \in SJobs : path[s] # "held" => path'[s] = path[s]
    BY <1>2, Zenon DEF FailTearDown, TearDown
  <2>4. pc'[t] \in {"unknown_drop", "fail_sjob"} /\ \A u \in Threads \ {t} : pc'[u] = pc[u]
    BY <1>2, ThreadFacts, Zenon DEF FailTearDown
  <2>5. \A u \in Threads : pc[u] \in {"match", "network", "fail_sjob", "unknown_drop", "finish"}
                          => my[u].sj \in SJobs
    BY Zenon DEF PcOK, Own, FreePC
  <2>11. NewHoldsNoPath'
    BY <2>1, <2>2, <2>3, <2>4, <2>5, ThreadFacts, ZenonT(30)
  <2>12. TornDown'
    <3> SUFFICES ASSUME NEW x \in Threads, pc'[x] \in {"fail_sjob", "unknown_drop", "finish"}
                 PROVE  path'[my'[x].sj] # "held"
      BY Zenon
    <3>1. CASE x = t
      BY <2>2, <3>1, Zenon
    <3>2. CASE x # t
      BY <2>2, <2>3, <2>4, <2>5, <3>2, ZenonT(30)
    <3> QED
      BY <3>1, <3>2, Zenon
  <2>13. EndedHoldsNoPath'
    BY <2>1, <2>2, <2>3, <2>4, <2>5, ThreadFacts, Zenon
  <2> QED
    BY <2>11, <2>12, <2>13, Zenon
<1>3. ASSUME NEW t \in Threads, FailSJob(t) \/ FailRaw(t) PROVE PathOK'
  BY <1>3, ThreadFacts DEF FailSJob, FailRaw, Return, Enter
<1>4. ASSUME NEW s \in SJobs, MdtmDone(s) \/ MdtmError(s) PROVE PathOK'
  BY <1>4, ThreadFacts, Zenon DEF MdtmDone, MdtmError
<1>5. CASE MdtmRestart \/ LauncherLeave \/ LauncherReturn \/ Crash
  BY <1>5, ThreadFacts, Zenon
     DEF MdtmRestart, LauncherLeave, LauncherReturn, Crash, Down
<1>6. CASE Restart
  BY <1>6, ThreadFacts, Zenon DEF Restart
<1>7. CASE UNCHANGED vars
  BY <1>7, Zenon DEF vars
<1> QED
  BY <1>1, <1>2, <1>3, <1>4, <1>5, <1>6, <1>7, Zenon DEF Fail,
     Environment

\* A path is held only where the code still has its teardown ahead.
LEMMA PathStep == IInv /\ [Next]_vars => PathOK'
BY PathSchedule, PathPoll, PathStatus, PathRest, Zenon DEF Next

\* schedule() turns to an sjob only before its path.
LEMMA MatchStep == IInv /\ [Next]_vars => FirstMatch
<1> SUFFICES ASSUME IInv, [Next]_vars PROVE FirstMatch
  BY Zenon
<1>t. /\ sjob \in [SJobs -> SJobState]
      /\ todo \in [{"schedule", "poll"} -> SUBSET Job]
  BY Zenon DEF IInv, TypeOK
<1>i. TodoOK
  BY Zenon DEF IInv
<1> USE <1>t, <1>i DEF At, Goto, store, world, budget, FirstMatch
<1>1. CASE ScheduleBegin \/ ScheduleMatch \/ ScheduleNetwork \/ ScheduleVerify
  BY <1>1, Zenon DEF ScheduleBegin, ScheduleMatch, ScheduleNetwork, ScheduleVerify
<1>2. CASE ScheduleNext
  <2>1. PICK j \in todo["schedule"] : sjob' = [sjob EXCEPT ![j.sj] = "dtn_matching"]
    BY <1>2, Zenon DEF ScheduleNext
  <2>2. path[j.sj] = "none"
    BY <2>1, Zenon DEF TodoOK
  <2>3. \A s \in SJobs : s # j.sj => sjob'[s] = sjob[s]
    BY <2>1, Zenon
  <2> QED
    BY <2>2, <2>3, Zenon
<1>3. CASE ScheduleLaunch \/ ScheduleNoLauncher \/
           ScheduleLaunchedBlock \/ ScheduleLaunchedFlow
  BY <1>3, Zenon
     DEF ScheduleLaunch, ScheduleNoLauncher, ScheduleLaunchedBlock,
         ScheduleLaunchedFlow, InsertFlow, Down
<1>4. CASE ScheduleLaunchedRaw \/ PollBegin \/ PollRate \/ PollNoLauncher
  BY <1>4, Zenon
     DEF ScheduleLaunchedRaw, PollBegin, PollRate, PollNoLauncher, Return,
         Enter, PollNoNews, PollUnknownTask, PollInactive, Down
<1>5. CASE PollUnknown \/ PollUnknownDrop \/ PollStalled \/ CallTimeout
  BY <1>5, Zenon
     DEF PollUnknown, PollUnknownDrop, PollStalled, CallTimeout, TearDown,
         PollDrop, Answered
<1>6. ASSUME NEW h \in Handlers, NEW s \in SJobs, StatusBegin(h, s) PROVE FirstMatch
  BY <1>6, Zenon DEF StatusBegin, Enter
<1>7. ASSUME NEW h \in Handlers,
         StatusRunningFlow(h) \/ StatusRunningSJob(h) \/ StatusError(h) \/
         StatusDone(h)
  PROVE  FirstMatch
  BY <1>7, Zenon
     DEF StatusRunningFlow, StatusRunningSJob, StatusError, StatusDone,
         Return, Enter
<1>8. ASSUME NEW h \in Handlers,
         ChecksumOk(h) \/ ChecksumFailed(h) \/ MarkFinished(h) \/
         Release(h)
  PROVE  FirstMatch
  BY <1>8, Zenon
     DEF ChecksumOk, ChecksumFailed, MarkFinished, Release, Enter, Return,
         TearDown
<1>9. ASSUME NEW h \in Handlers,
         FinishSJob(h) \/ SumUp(h) \/ FinishRaw(h) \/ Relaunch(h)
  PROVE  FirstMatch
  BY <1>9, Zenon DEF FinishSJob, SumUp, FinishRaw, Relaunch, Return, Enter
<1>10. ASSUME NEW h \in Handlers,
         RelaunchNoLauncher(h) \/ RelaunchedBlock(h) \/
         RelaunchedFlow(h) \/ RelaunchedRaw(h)
  PROVE  FirstMatch
  BY <1>10, Zenon
     DEF RelaunchNoLauncher, RelaunchedBlock, RelaunchedFlow, RelaunchedRaw,
         Return, Enter
<1>11. ASSUME NEW t \in Threads,
         FailTearDown(t) \/ FailSJob(t) \/ FailRaw(t)
  PROVE  FirstMatch
  BY <1>11, Zenon DEF FailTearDown, FailSJob, FailRaw, TearDown, Return, Enter
<1>12. CASE LauncherServe \/ MdtmRestart \/ LauncherLeave \/ LauncherReturn
  BY <1>12, Zenon
     DEF LauncherServe, MdtmRestart, LauncherLeave, LauncherReturn, Answered
<1>13. ASSUME NEW s \in SJobs, MdtmDone(s) \/ MdtmError(s) PROVE FirstMatch
  BY <1>13, Zenon DEF MdtmDone, MdtmError
<1>14. CASE Crash \/ Restart
  BY <1>14, Zenon DEF Crash, Restart, Down
<1>15. CASE UNCHANGED vars
  BY <1>15, Zenon DEF vars
<1>16. QED
  BY <1>1, <1>2, <1>3, <1>4, <1>5, <1>6, <1>7, <1>8, <1>9, <1>10, <1>11,
     <1>12, <1>13, <1>14, <1>15, ZenonT(30)
  DEF Next, Schedule, Poll, Status, Fail, Environment

\* Redeliveries are counted and never taken back.
LEMMA DupsGrow == TypeOK /\ [Next]_vars => (dups' = 0 => dups = 0)
<1> SUFFICES ASSUME TypeOK, [Next]_vars, dups' = 0 PROVE dups = 0
  BY Zenon
<1> USE DEF budget
<1>1. CASE Schedule
  BY <1>1, Zenon DEF Schedule, ScheduleBegin, ScheduleNext, ScheduleMatch, ScheduleNetwork,
     ScheduleVerify, ScheduleLaunch, ScheduleNoLauncher, ScheduleLaunchedBlock,
     ScheduleLaunchedFlow, ScheduleLaunchedRaw, InsertFlow
<1>2. CASE Poll
  BY <1>2, Zenon DEF Poll, PollBegin, PollRate, PollNoLauncher, PollUnknown, PollUnknownDrop, PollStalled
<1>3. ASSUME NEW h \in Handlers, Status(h) PROVE dups = 0
  <2>1. ASSUME NEW s \in SJobs, StatusBegin(h, s) PROVE dups = 0
    BY <2>1 DEF StatusBegin, TypeOK
  <2> QED
    BY <1>3, <2>1, Zenon DEF Status, StatusRunningFlow, StatusRunningSJob, StatusError, StatusDone,
       ChecksumOk, ChecksumFailed, MarkFinished, Release, FinishSJob, SumUp, FinishRaw,
       Relaunch, RelaunchNoLauncher, RelaunchedBlock, RelaunchedFlow, RelaunchedRaw
<1>4. ASSUME NEW t \in Threads, Fail(t) PROVE dups = 0
  BY <1>4, Zenon DEF Fail, FailTearDown, FailSJob, FailRaw
<1>5. CASE Environment
  BY <1>5, Zenon DEF Environment, CallTimeout, LauncherServe, MdtmRestart, LauncherLeave,
     LauncherReturn, MdtmDone, MdtmError, Crash, Restart
<1>6. CASE UNCHANGED vars
  BY <1>6, Zenon DEF vars
<1> QED
  BY <1>1, <1>2, <1>3, <1>4, <1>5, <1>6, Zenon DEF Next

\* Verified content stays behind the marks of checksummed blocks.
LEMMA VerifiedStep == IInv /\ VInv /\ [Next]_vars => VInv'
BY MarksStep, Constants, Zenon DEF VInv

\* Delivered content stays behind the marks of all blocks: a block without a
\* checksum is there when its "done" is handled.
LEMMA DeliveryStep == IInv /\ DeliveryInv /\ [Next]_vars => DeliveryInv'
<1> SUFFICES ASSUME IInv, DeliveryInv, [Next]_vars, dups' = 0
             PROVE  (\A s \in SJobs : TransferOK(s)') /\ MarksBehind(Blocks)'
  BY Zenon DEF DeliveryInv
<1>1. dups = 0
  BY DupsGrow, Zenon DEF IInv
<1>2. (\A s \in SJobs : TransferOK(s)) /\ MarksBehind(Blocks)
  BY <1>1, Zenon DEF DeliveryInv
<1>3. \A s \in SJobs : TransferOK(s)'
  BY <1>1, <1>2, TransferStep, Zenon
<1>4. ASSUME NEW h \in Handlers, pc[h] = "three", my[h].blk \in Blocks \ ChecksumBlocks
      PROVE  my[h].blk \in delivered[my[h].sj]
  <2>1. my[h].sj \in SJobs
    BY <1>4, Working, ThreadFacts, Zenon DEF FreePC
  <2>2. Good(my[h].sj, my[h].blk)
    BY <1>2, <1>4, <2>1, Zenon DEF TransferOK, TakenOK, Doing
  <2> QED
    BY <1>4, <2>2, Zenon DEF Good
<1>5. MarksBehind(Blocks)'
  BY <1>2, <1>4, MarksStep, Zenon
<1> QED
  BY <1>3, <1>5, Zenon

\* The initial state of a bootstrapped job.
LEMMA InitInv == Init => StrongInv
<1> SUFFICES ASSUME Init PROVE StrongInv
  BY Zenon
<1> USE DEF Init
<1>1. TypeOK
  BY NothingType, Constants DEF TypeOK, RawJobState, SJobState, BlockState, FlowState, PC
<1>2. PcOK
  BY ThreadFacts, Zenon DEF PcOK, Own, FreePC, BeforeFlowPC, StatusPC
<1>3. NoFlowOK /\ FlowOK /\ TodoOK /\ CallOK
  BY ThreadFacts, NothingFields, Zenon
     DEF NoFlowOK, Untouched, FlowOK, BeforeFlowPC, AfterFlowPC, TodoOK, CallOK
<1>4. PathOK
  BY ThreadFacts, Zenon DEF PathOK, NewHoldsNoPath, TornDown, EndedHoldsNoPath
<1>5. \A B \in SUBSET Blocks : MarksBehind(B)
  BY NothingFields, Zenon DEF MarksBehind, MarksOK, FlagOK, EndsOK
<1>6. ASSUME NEW s \in SJobs PROVE TransferOK(s)
  <2>1. ~Called(s) /\ mdtm[s] = {} /\ retry[s] = 0 /\ RetryLimit \in Nat
    BY Constants, Zenon DEF Called
  <2>2. \A h \in Handlers : ~Doing(h, s) /\ ~Verifying(h, s)
    BY ThreadFacts, Zenon DEF Doing, Verifying
  <2>3. ~Reported(s) /\ OneDone(status[s])
    BY DEF Reported, HasDone, OneDone
  <2>4. OneTransfer(s)
    BY <2>1, <2>2, <2>3, Zenon DEF OneTransfer, Called
  <2>5. RetriesOK(s)
    BY <2>1, <2>2 DEF RetriesOK
  <2>6. TakenOK(s)
    BY <2>1, <2>2, <2>3, Zenon DEF TakenOK, Called, Handled
  <2> QED
    BY <2>4, <2>5, <2>6, Zenon DEF TransferOK
<1> QED
  BY <1>1, <1>2, <1>3, <1>4, <1>5, <1>6, Constants, Zenon DEF StrongInv, IInv, VInv, DeliveryInv

\* The conjuncts together.
LEMMA InductiveStep == StrongInv /\ [Next]_vars => StrongInv'
BY TypeStep, PcStep, NoFlowStep, FlowStep, TodoStep, CallStep, PathStep, VerifiedStep,
   DeliveryStep, Zenon
   DEF StrongInv, IInv

-----------------------------------------------------------------------------
(* Theorems                                                                *)

\* The inductive invariant holds in every reachable state.
THEOREM Inductive == Spec => []StrongInv
BY InitInv, InductiveStep, PTL DEF Spec

\* Every document field, local variable and message keeps its type: no handler
\* writes a state that is not one of typedefs.h.
THEOREM TypeCorrect == Spec => []TypeOK
<1>1. StrongInv => TypeOK
  BY Zenon DEF StrongInv, IInv
<1> QED
  BY <1>1, Inductive, PTL

\* No sjob ends, in success or error, with its network path still held
\* (schedule_clean_up, poll_rate and mld_status tear it down first).
THEOREM PathSafety == Spec => []EndedHoldsNoPath
<1>1. StrongInv => EndedHoldsNoPath
  BY Zenon DEF StrongInv, IInv, PathOK
<1> QED
  BY <1>1, Inductive, PTL

\* A raw job is reported finished only when the content of every checksummed
\* block is at the destination, whatever mld_status handlers overlap, messages
\* are redelivered, calls time out or processes restart.
THEOREM VerifiedDelivery == Spec => []FinishedIsVerified
<1>1. StrongInv => FinishedIsVerified
  BY Zenon DEF StrongInv, VInv, MarksBehind, EndsOK, Complete, FinishedIsVerified
<1> QED
  BY <1>1, Inductive, PTL

\* When the broker has redelivered no status, a raw job that mld_status reported
\* finished has every block at the destination, checksummed or not, although the
\* handler takes the block from a field that another handler writes late.
THEOREM Delivery == Spec => [](dups = 0 => FinishedIsDelivered)
<1>1. StrongInv => (dups = 0 => FinishedIsDelivered)
  <2> SUFFICES ASSUME StrongInv, dups = 0, rawjob = "finished", NEW s \in SJobs
               PROVE  delivered[s] = Blocks
    BY Zenon DEF FinishedIsDelivered
  <2>1. Blocks \subseteq delivered[s]
    BY Zenon DEF StrongInv, DeliveryInv, MarksBehind, EndsOK, Complete
  <2>2. delivered[s] \subseteq Blocks
    BY Zenon DEF StrongInv, IInv, TypeOK
  <2> QED
    BY <2>1, <2>2, Zenon
<1> QED
  BY <1>1, Inductive, PTL

\* mld_status counts a checksum error once more than the limit at most, when each
\* status is delivered once: the count of the snapshot is the count in the store,
\* because no other handler of the sjob is at work on a transfer.
THEOREM RetriesBounded == Spec => []RetryBound
<1>1. StrongInv => RetryBound
  BY Zenon DEF StrongInv, DeliveryInv, TransferOK, RetriesOK, RetryBound
<1> QED
  BY <1>1, Inductive, PTL

\* schedule() never matches DTNs for an sjob that had a network path.
THEOREM NeverMatchedAgain == Spec => MatchedOnce
<1>1. StrongInv /\ [Next]_vars => [FirstMatch]_vars
  BY MatchStep, Zenon DEF StrongInv
<1> QED
  BY <1>1, Inductive, PTL DEF Spec, MatchedOnce

=============================================================================
