---------------------------- MODULE TransferBytes ----------------------------
(***************************************************************************)
(* The byte counters of one raw job.  Four documents count the same bytes: *)
(* the block, the flow, the sjob and the raw job; the site documents count *)
(* them once more.  Two writers add to them from snapshots: poll_rate adds *)
(* what the mdtm client reports beyond the block's counter, mld_status     *)
(* adds what is missing to the size of the block.  An addition is one $inc *)
(* of MongoDB, so additions commute; the snapshots they are computed from  *)
(* may be outdated.                                                        *)
(***************************************************************************)
EXTENDS Integers, FiniteSets, Functions

CONSTANTS
    ByteJobs,       \* the sjobs of the raw job, with one flow each
    NBlocks,        \* NBlocks[j]: number of blocks of an sjob
    BlockSize,      \* bytes of a block
    CheckedJobs,    \* the sjobs whose blocks carry checksums
    ByteHandlers,   \* worker threads that run mld_status
    MaxTransferRetry,   \* repeated transfers of an sjob (2 in the code)
    MaxRepeats,     \* redelivered reports
    MaxPolls        \* runs of the poll timer

ASSUME ByteConstants ==
    /\ IsFiniteSet(ByteJobs) /\ "none" \notin ByteJobs
    /\ NBlocks \in [ByteJobs -> Nat \ {0}] /\ BlockSize \in Nat \ {0} /\ MaxTransferRetry \in Nat /\ MaxRepeats \in Nat /\ MaxPolls \in Nat

BlockIds(j) == 1..NBlocks[j]

VARIABLES
    blockTx, flowTx, sjobTx, rawTx, siteTx,     \* the tx_bytes fields
    transferRetry,  \* the transfer_retry field of an sjob
    finishedBlocks, \* blocks in block_state::finished
    flowBlock,      \* the block field of a flow
    flowActive,     \* flow_state::setting or flow_state::transferring
    jobFailed,      \* sjobs in error
    sending, sent,  \* the block that the mdtm client sends, and its progress
    reports,        \* queued "done" reports of a task
    repeats, polls, \* redeliveries and polls so far
    pollState,      \* locals of poll_rate
    handler,        \* locals of the mld_status handlers
    disturbed,      \* history: sjobs on which two handlers overlapped
    abandoned       \* history: poll_rate returned from the middle of its loop

docVars == <<blockTx, flowTx, sjobTx, rawTx, siteTx, transferRetry, finishedBlocks, flowBlock, flowActive, jobFailed>>
clientVars == <<sending, sent, reports, repeats>>
byteVars == <<docVars, clientVars, polls, pollState, handler, disturbed, abandoned>>

PollIdle == [at |-> "idle", docs |-> [j \in {} |-> 0], left |-> {}, job |-> "none", seen |-> 0, raw |-> 0]
HandlerIdle == [at |-> "idle", job |-> "none", block |-> 0, had |-> 0, retries |-> 0, open |-> {}, next |-> 0]

Overlaps(j) == j \in pollState.left \/ pollState.job = j \/ \E h \in ByteHandlers : handler[h].job = j

BytesInit ==
    /\ blockTx = [j \in ByteJobs |-> [b \in BlockIds(j) |-> 0]]
    /\ flowTx = [j \in ByteJobs |-> 0] /\ sjobTx = flowTx /\ rawTx = 0 /\ siteTx = 0
    /\ transferRetry = [j \in ByteJobs |-> 0]
    /\ finishedBlocks = [j \in ByteJobs |-> {}]
    /\ flowBlock = [j \in ByteJobs |-> 1] /\ flowActive = ByteJobs /\ jobFailed = {}
    /\ sending = flowBlock /\ sent = [j \in ByteJobs |-> 0]
    /\ reports = [j \in ByteJobs |-> 0] /\ repeats = 0 /\ polls = 0
    /\ pollState = PollIdle /\ handler = [h \in ByteHandlers |-> HandlerIdle]
    /\ disturbed = {} /\ abandoned = FALSE

-----------------------------------------------------------------------------
\* The mdtm client sends its block and reports the end of it; a report may be
\* delivered once more
ClientSends(j) ==
    /\ sending[j] # 0 /\ sent[j] < BlockSize
    /\ sent' = [sent EXCEPT ![j] = @ + 1]
    /\ UNCHANGED <<docVars, sending, reports, repeats, pollState, handler, disturbed, abandoned, polls>>

ClientReports(j) ==
    /\ sending[j] # 0 /\ sent[j] = BlockSize
    /\ sending' = [sending EXCEPT ![j] = 0]
    /\ \E again \in {0, 1} :
        /\ repeats + again <= MaxRepeats /\ repeats' = repeats + again
        /\ reports' = [reports EXCEPT ![j] = @ + 1 + again]
    /\ UNCHANGED <<docVars, sent, pollState, handler, disturbed, abandoned, polls>>

-----------------------------------------------------------------------------
\* poll_rate reads the sjobs of the raw job once
PollReads ==
    /\ pollState.at = "idle" /\ jobFailed = {} /\ flowActive # {}
    /\ polls < MaxPolls /\ polls' = polls + 1
    /\ pollState' = [at |-> "loop", docs |-> [j \in flowActive |-> [block |-> flowBlock[j], last |-> blockTx[j][flowBlock[j]]]],
                     left |-> flowActive, job |-> "none", seen |-> 0, raw |-> 0]
    /\ disturbed' = disturbed \cup {j \in flowActive : Overlaps(j)}
    /\ UNCHANGED <<docVars, clientVars, handler, abandoned>>

\* the answer to mld_rate: nothing (a time-out, or a rate still unknown), ...
PollUnanswered(j) ==
    /\ pollState.at = "loop" /\ j \in pollState.left
    /\ pollState' = [pollState EXCEPT !.left = @ \ {j}, !.docs = Restrict(@, pollState.left \ {j})]
    /\ UNCHANGED <<docVars, clientVars, handler, disturbed, abandoned, polls>>

\* ... that the task is unknown, which ends the job and the whole poll, ...
PollUnknownTaskId(j) ==
    /\ pollState.at = "loop" /\ j \in pollState.left
    /\ flowActive' = flowActive \ {j}
    /\ jobFailed' = jobFailed \cup {j}
    /\ abandoned' = (abandoned \/ pollState.raw # 0)
    /\ pollState' = PollIdle
    /\ UNCHANGED <<blockTx, flowTx, sjobTx, rawTx, siteTx, transferRetry, finishedBlocks, flowBlock,
                   clientVars, handler, disturbed, polls>>

\* ... or the bytes transferred of whatever the task sends now
PollAnswered(j) ==
    /\ pollState.at = "loop" /\ j \in pollState.left
    /\ pollState' = [pollState EXCEPT !.at = "count", !.left = @ \ {j}, !.job = j, !.seen = sent[j]]
    /\ UNCHANGED <<docVars, clientVars, handler, disturbed, abandoned, polls>>

\* Bytes beyond the counter that was read are added to the block of the snapshot;
\* without progress the job may meet its inactivity time-out
PollCounts ==
    LET j == pollState.job
        b == pollState.docs[j].block
        more == pollState.seen - pollState.docs[j].last
    IN  /\ pollState.at = "count"
        /\ blockTx' = [blockTx EXCEPT ![j][b] = @ + more]
        /\ flowTx' = [flowTx EXCEPT ![j] = @ + more]
        /\ sjobTx' = [sjobTx EXCEPT ![j] = @ + more]
        /\ pollState' = [pollState EXCEPT !.at = "loop", !.docs = Restrict(@, pollState.left), !.job = "none", !.seen = 0, !.raw = @ + more]
        /\ \/ UNCHANGED <<flowActive, jobFailed>>
           \/ /\ more <= 0
              /\ flowActive' = flowActive \ {j} /\ jobFailed' = jobFailed \cup {j}
        /\ UNCHANGED <<rawTx, siteTx, transferRetry, finishedBlocks, flowBlock, clientVars, handler, disturbed, abandoned, polls>>

\* The raw job and the sites get the sum of the loop
PollSums ==
    /\ pollState.at = "loop" /\ pollState.left = {}
    /\ rawTx' = rawTx + pollState.raw
    /\ siteTx' = siteTx + pollState.raw
    /\ pollState' = PollIdle
    /\ UNCHANGED <<blockTx, flowTx, sjobTx, transferRetry, finishedBlocks, flowBlock, flowActive, jobFailed,
                   clientVars, handler, disturbed, abandoned, polls>>

-----------------------------------------------------------------------------
\* mld_status reads the sjob of the task and puts the flow into waiting
DoneReads(h, j) ==
    /\ handler[h].at = "idle" /\ reports[j] > 0
    /\ reports' = [reports EXCEPT ![j] = @ - 1]
    /\ handler' = [handler EXCEPT ![h] =
           [at |-> "count", job |-> j, block |-> flowBlock[j], had |-> blockTx[j][flowBlock[j]],
            retries |-> transferRetry[j], open |-> BlockIds(j) \ (finishedBlocks[j] \cup {flowBlock[j]}), next |-> 0]]
    /\ flowActive' = flowActive \ {j}
    /\ disturbed' = IF Overlaps(j) THEN disturbed \cup {j} ELSE disturbed
    /\ UNCHANGED <<blockTx, flowTx, sjobTx, rawTx, siteTx, transferRetry, finishedBlocks, flowBlock, jobFailed,
                   sending, sent, repeats, pollState, abandoned, polls>>

\* A mutant that adds the whole block
DoneCountsAll(h) ==
    LET j == handler[h].job
        b == handler[h].block
    IN  /\ handler[h].at = "count"
        /\ blockTx' = [blockTx EXCEPT ![j][b] = @ + BlockSize]
        /\ flowTx' = [flowTx EXCEPT ![j] = @ + BlockSize]
        /\ sjobTx' = [sjobTx EXCEPT ![j] = @ + BlockSize]
        /\ rawTx' = rawTx + BlockSize
        /\ siteTx' = siteTx + BlockSize
        /\ handler' = [handler EXCEPT ![h].at = "verify"]
        /\ UNCHANGED <<transferRetry, finishedBlocks, flowBlock, flowActive, jobFailed, clientVars, pollState, disturbed, abandoned, polls>>

\* What is missing to the size of the block is added to every counter
DoneCounts(h) ==
    LET j == handler[h].job
        b == handler[h].block
        more == BlockSize - handler[h].had
    IN  /\ handler[h].at = "count"
        /\ blockTx' = [blockTx EXCEPT ![j][b] = @ + more]
        /\ flowTx' = [flowTx EXCEPT ![j] = @ + more]
        /\ sjobTx' = [sjobTx EXCEPT ![j] = @ + more]
        /\ rawTx' = rawTx + more
        /\ siteTx' = siteTx + more
        /\ handler' = [handler EXCEPT ![h].at = "verify"]
        /\ UNCHANGED <<transferRetry, finishedBlocks, flowBlock, flowActive, jobFailed, clientVars, pollState, disturbed, abandoned, polls>>

Least(S) == CHOOSE b \in S : \A c \in S : b <= c

\* The block is verified, or has no checksum: the next block in need of a
\* transfer is one that the snapshot shows waiting
DoneVerified(h) ==
    LET j == handler[h].job
    IN  /\ handler[h].at = "verify"
        /\ finishedBlocks' = [finishedBlocks EXCEPT ![j] = @ \cup {handler[h].block}]
        /\ handler' = [handler EXCEPT ![h] =
               IF handler[h].open = {} THEN HandlerIdle
               ELSE [@ EXCEPT !.at = "launch", !.next = Least(handler[h].open)]]
        /\ UNCHANGED <<blockTx, flowTx, sjobTx, rawTx, siteTx, transferRetry, flowBlock, flowActive, jobFailed,
                       clientVars, pollState, disturbed, abandoned, polls>>

\* A mutant that leaves the raw job out
DoneRetrogressesSome(h) ==
    LET j == handler[h].job
        b == handler[h].block
    IN  /\ handler[h].at = "verify" /\ j \in CheckedJobs
        /\ blockTx' = [blockTx EXCEPT ![j][b] = @ - BlockSize]
        /\ flowTx' = [flowTx EXCEPT ![j] = @ - BlockSize]
        /\ sjobTx' = [sjobTx EXCEPT ![j] = @ - BlockSize]
        /\ transferRetry' = [transferRetry EXCEPT ![j] = @ + 1]
        /\ handler' = [handler EXCEPT ![h] = HandlerIdle]
        /\ UNCHANGED <<rawTx, siteTx, finishedBlocks, flowBlock, flowActive, jobFailed, clientVars, pollState, disturbed, abandoned, polls>>

\* The verification failed: the whole block is taken back from every counter but
\* the sites', and the same block is sent again, at most MaxTransferRetry times
DoneRetrogresses(h) ==
    LET j == handler[h].job
        b == handler[h].block
    IN  /\ handler[h].at = "verify" /\ j \in CheckedJobs
        /\ blockTx' = [blockTx EXCEPT ![j][b] = @ - BlockSize]
        /\ flowTx' = [flowTx EXCEPT ![j] = @ - BlockSize]
        /\ sjobTx' = [sjobTx EXCEPT ![j] = @ - BlockSize]
        /\ rawTx' = rawTx - BlockSize
        /\ transferRetry' = [transferRetry EXCEPT ![j] = @ + 1]
        /\ IF handler[h].retries >= MaxTransferRetry
           THEN jobFailed' = jobFailed \cup {j} /\ handler' = [handler EXCEPT ![h] = HandlerIdle]
           ELSE handler' = [handler EXCEPT ![h].at = "launch", ![h].next = b] /\ UNCHANGED jobFailed
        /\ UNCHANGED <<siteTx, finishedBlocks, flowBlock, flowActive, clientVars, pollState, disturbed, abandoned, polls>>

\* The client starts with the next block before the documents name it
DoneLaunches(h) ==
    LET j == handler[h].job
    IN  /\ handler[h].at = "launch"
        /\ sending' = [sending EXCEPT ![j] = handler[h].next]
        /\ sent' = [sent EXCEPT ![j] = 0]
        /\ handler' = [handler EXCEPT ![h].at = "record"]
        /\ UNCHANGED <<docVars, reports, repeats, pollState, disturbed, abandoned, polls>>

DoneRecords(h) ==
    LET j == handler[h].job
    IN  /\ handler[h].at = "record"
        /\ flowBlock' = [flowBlock EXCEPT ![j] = handler[h].next]
        /\ flowActive' = flowActive \cup {j}
        /\ handler' = [handler EXCEPT ![h] = HandlerIdle]
        /\ UNCHANGED <<blockTx, flowTx, sjobTx, rawTx, siteTx, transferRetry, finishedBlocks, jobFailed,
                       clientVars, pollState, disturbed, abandoned, polls>>

BytesNext ==
    \/ PollReads \/ PollCounts \/ PollSums
    \/ \E j \in ByteJobs :
        \/ ClientSends(j) \/ ClientReports(j)
        \/ PollUnanswered(j) \/ PollUnknownTaskId(j) \/ PollAnswered(j)
        \/ \E h \in ByteHandlers : DoneReads(h, j)
    \/ \E h \in ByteHandlers :
        DoneCounts(h) \/ DoneVerified(h) \/ DoneRetrogresses(h) \/ DoneLaunches(h) \/ DoneRecords(h)

BytesSpec == BytesInit /\ [][BytesNext]_byteVars

-----------------------------------------------------------------------------
AtRest == pollState.at = "idle" /\ \A h \in ByteHandlers : handler[h].at = "idle"

\* However poll_rate and the mld_status handlers interleave, and whatever outdated
\* snapshots they add from, the counters of block, flow, sjob, raw job and site
\* count the same bytes once no handler runs: the site document differs by the
\* blocks that were taken back after a failed verification, and nothing else.
\* The exception is a poll that met an unknown task after it had counted others.
CountersAgree ==
    AtRest /\ ~abandoned =>
        /\ \A j \in ByteJobs : sjobTx[j] = flowTx[j] /\ sjobTx[j] = SumFunctionOnSet(blockTx[j], BlockIds(j))
        /\ rawTx = SumFunctionOnSet(sjobTx, ByteJobs)
        /\ siteTx = rawTx + BlockSize * SumFunctionOnSet(transferRetry, ByteJobs)

\* A finished block counts exactly its size, redelivered reports and repeated
\* transfers included, as long as no two handlers worked on its sjob at once:
\* mld_status corrects whatever poll_rate has counted.  A block that is sent
\* again, or whose job failed, is not counted as finished.
FinishedExact ==
    \A j \in ByteJobs \ (disturbed \cup jobFailed) :
        \A b \in finishedBlocks[j] : blockTx[j][b] = BlockSize \/ (b = flowBlock[j] /\ (j \in flowActive \/ Overlaps(j)))
=============================================================================
