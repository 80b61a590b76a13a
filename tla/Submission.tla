----------------------------- MODULE Submission -----------------------------
(***************************************************************************)
(* The submission of a raw job: submit_job reaches the server once or more *)
(* and each time runs bootstrap_transfer_job on a worker thread, which     *)
(* asks both sites through their portals, inserts the blocks of every      *)
(* source storage, then replaces the sjobs of the raw job.  Failures       *)
(* return early from any of its stages, the process may end in any of      *)
(* them, and two runs for the same raw job may overlap.  The scheduling    *)
(* timer takes up sjobs as soon as they are in the store.                  *)
(***************************************************************************)
EXTENDS Integers, Sequences, FiniteSets, Functions

CONSTANTS
    SubThreads,     \* worker threads
    RawJobs,        \* inputs: [sources, dataset, deadline, keys, dstOk]
    GroupsOf,       \* sizes of the blocks that expand_and_group returns for a storage
    FileSize,       \* sizes of the files of a dataset, by storage
    DiskFree,       \* available size at the destination
    MaxSubmits, MaxCrashes  \* bounds

ASSUME SubmissionConstants ==
    /\ {DiskFree, MaxSubmits, MaxCrashes} \subseteq Nat /\ IsFiniteSet(SubThreads)
    /\ \A r \in RawJobs :
        /\ r.sources \in Seq(Range(r.sources))
        /\ \A i \in DOMAIN r.sources :
            LET s == r.sources[i].storage
            IN  GroupsOf[s] \in Seq(Nat) /\ FileSize[s] \in Nat

VARIABLES
    job,            \* the raw job as the portal has stored it
    raw,            \* [error, errorField, size, certs]: what the server writes to it
    blocks,         \* the block collection: [id, storage, size]
    sjobs,          \* the sjob collection: [id, storage, size, blocks, state]
    fresh,          \* the next object id
    hasLauncher,
    stopping,       \* a handler has thrown: the process ends once the others return
    boot,           \* locals of bootstrap_transfer_job of each thread
    submits, crashes,
    overlapped,     \* history: two runs for this raw job overlapped
    failedRuns      \* history: runs that failed or were cut off

submitVars == <<job, raw, blocks, sjobs, fresh, hasLauncher, stopping, boot, submits, crashes, overlapped, failedRuns>>

NoBoot == [at |-> "idle", i |-> 0, left |-> <<>>, groups |-> <<>>, total |-> 0, mine |-> <<>>, src |-> <<>>, disk |-> FALSE]
StoragesOf(sources) == {sources[i].storage : i \in DOMAIN sources}

\* smap is keyed by storage: the storages in the order of their keys
StorageKeys(sources) ==
    CHOOSE keys \in Bijection(1..Cardinality(StoragesOf(sources)), StoragesOf(sources)) : TRUE

SubmitInit ==
    /\ job \in RawJobs
    /\ raw = [error |-> FALSE, errorField |-> FALSE, size |-> 0, certs |-> FALSE]
    /\ blocks = {} /\ sjobs = {} /\ fresh = 1
    /\ hasLauncher \in BOOLEAN /\ stopping = FALSE
    /\ boot = [t \in SubThreads |-> NoBoot]
    /\ submits = 0 /\ crashes = 0 /\ overlapped = FALSE /\ failedRuns = 0

BootRunning == {t \in SubThreads : boot[t].at # "idle"}

-----------------------------------------------------------------------------
\* Every failure writes the state, then the error field
BootFails(t) ==
    /\ boot' = [boot EXCEPT ![t].at = "fail"]
    /\ raw' = [raw EXCEPT !.error = TRUE]
    /\ failedRuns' = failedRuns + 1
    /\ UNCHANGED <<job, blocks, sjobs, fresh, hasLauncher, stopping, submits, crashes, overlapped>>

\* A mutant that returns with the state alone
BootRecordsNone(t) ==
    /\ boot[t].at = "fail"
    /\ boot' = [boot EXCEPT ![t] = NoBoot]
    /\ UNCHANGED <<job, raw, blocks, sjobs, fresh, hasLauncher, stopping, submits, crashes, overlapped, failedRuns>>

BootRecordsError(t) ==
    /\ boot[t].at = "fail"
    /\ raw' = [raw EXCEPT !.errorField = TRUE]
    /\ boot' = [boot EXCEPT ![t] = NoBoot]
    /\ UNCHANGED <<job, blocks, sjobs, fresh, hasLauncher, stopping, submits, crashes, overlapped, failedRuns>>

BootGoes(t, to) ==
    /\ boot' = [boot EXCEPT ![t] = to]
    /\ UNCHANGED <<job, raw, blocks, sjobs, fresh, hasLauncher, stopping, submits, crashes, overlapped, failedRuns>>

\* add_raw_job, and the start of bootstrap_transfer_job: a raw job whose document has
\* an error field is taken for one that could not be read
SubmitJob(t) ==
    /\ boot[t].at = "idle" /\ ~stopping /\ submits < MaxSubmits /\ submits' = submits + 1
    /\ overlapped' = (overlapped \/ BootRunning # {})
    /\ boot' = [boot EXCEPT ![t].at = IF raw.errorField THEN "idle" ELSE "launcher"]
    /\ UNCHANGED <<job, raw, blocks, sjobs, fresh, hasLauncher, stopping, crashes, failedRuns>>

BootAsksLauncher(t) ==
    /\ boot[t].at = "launcher"
    /\ IF hasLauncher THEN BootGoes(t, [boot[t] EXCEPT !.at = "certs"]) ELSE BootFails(t)

\* create_raw_job_proxy_cert.  Keys that do not parse throw: the worker threads stop
\* taking handlers, and those under way are waited for.
BootCerts(t) ==
    /\ boot[t].at = "certs"
    /\ \/ job.keys = "missing" /\ BootFails(t)
       \/ /\ job.keys = "bad" /\ stopping' = TRUE
          /\ boot' = [boot EXCEPT ![t] = NoBoot] /\ failedRuns' = failedRuns + 1
          /\ UNCHANGED <<job, raw, blocks, sjobs, fresh, hasLauncher, submits, crashes, overlapped>>
       \/ /\ job.keys = "good" /\ raw' = [raw EXCEPT !.certs = TRUE]
          /\ boot' = [boot EXCEPT ![t].at = "dst"]
          /\ UNCHANGED <<job, blocks, sjobs, fresh, hasLauncher, stopping, submits, crashes, overlapped, failedRuns>>

\* parse_raw_job_dst: the path must fit, and the portal of the destination answer; an
\* answer without disk usage is taken as well
BootDestination(t) ==
    /\ boot[t].at = "dst"
    /\ \/ BootFails(t)
       \/ job.dstOk /\ \E known \in BOOLEAN : BootGoes(t, [boot[t] EXCEPT !.at = "sources", !.i = 1, !.disk = known])

\* parse_raw_job_src and parse_raw_job_src_ds: every source must fit, and the source
\* site answer for every new DTN
BootSource(t) ==
    /\ boot[t].at = "sources"
    /\ IF boot[t].i > Len(job.sources)
       THEN BootGoes(t, [boot[t] EXCEPT !.at = "expand", !.i = 0, !.left = StorageKeys(job.sources)])
       ELSE LET src == job.sources[boot[t].i]
                asked == \E k \in 1..(boot[t].i - 1) : job.sources[k].dtn = src.dtn
            IN  \/ ~(src.fits /\ asked) /\ BootFails(t)
                \/ src.fits /\ BootGoes(t, [boot[t] EXCEPT !.i = @ + 1])

\* The process ends: every run under way is cut off
BootsEnd ==
    /\ boot' = [t \in SubThreads |-> NoBoot]
    /\ failedRuns' = failedRuns + Cardinality(BootRunning)
    /\ UNCHANGED <<job, raw, blocks, sjobs, fresh, hasLauncher, submits, overlapped>>

BootGroups(t, groups) ==
    BootGoes(t, [boot[t] EXCEPT !.at = "blocks", !.groups = groups, !.total = SumFunction(groups)])

\* The next storage: the source site expands its paths, or fails to.  The rate is the
\* size by the deadline: a deadline of zero divides by zero.
BootExpand(t) ==
    /\ boot[t].at = "expand" /\ boot[t].left # <<>> /\ ~job.dataset
    /\ \/ BootFails(t)
       \/ job.deadline # 0 /\ BootGroups(t, GroupsOf[Head(boot[t].left)])
       \/ job.deadline = 0 /\ BootsEnd /\ stopping' = FALSE /\ UNCHANGED crashes

\* A dataset makes one block of a storage, inserted before the division
BootDataset(t) ==
    /\ boot[t].at = "expand" /\ boot[t].left # <<>> /\ job.dataset
    /\ LET storage == Head(boot[t].left)
           files == {i \in DOMAIN job.sources : job.sources[i].storage = storage}
       IN  BootGroups(t, <<Cardinality(files) * FileSize[storage]>>)

SourceDoc(t) ==
    [storage |-> Head(boot[t].left), size |-> boot[t].total, blocks |-> boot[t].mine]

\* A mutant that keeps the blocks of one storage for the next
BootBlockKeeps(t) ==
    /\ boot[t].at = "blocks"
    /\ IF boot[t].groups = <<>>
       THEN BootGoes(t, [boot[t] EXCEPT !.at = "expand", !.left = Tail(@), !.src = Append(@, SourceDoc(t))])
       ELSE LET new == [id |-> fresh, storage |-> Head(boot[t].left), size |-> Head(boot[t].groups)]
            IN  /\ blocks' = blocks \cup {new} /\ fresh' = fresh + 1
                /\ boot' = [boot EXCEPT ![t].groups = Tail(@), ![t].mine = Append(@, new)]
                /\ UNCHANGED <<job, raw, sjobs, hasLauncher, stopping, submits, crashes, overlapped, failedRuns>>

\* Each group becomes a document; after the last one the storage is done
BootBlock(t) ==
    /\ boot[t].at = "blocks"
    /\ IF boot[t].groups = <<>>
       THEN IF job.deadline = 0 THEN BootsEnd /\ stopping' = FALSE /\ UNCHANGED crashes
            ELSE BootGoes(t, [boot[t] EXCEPT !.at = "expand", !.left = Tail(@), !.total = 0, !.mine = <<>>, !.src = Append(@, SourceDoc(t))])
       ELSE LET new == [id |-> fresh, storage |-> Head(boot[t].left), size |-> Head(boot[t].groups)]
            IN  /\ blocks' = blocks \cup {new} /\ fresh' = fresh + 1
                /\ boot' = [boot EXCEPT ![t].groups = Tail(@), ![t].mine = Append(@, new)]
                /\ UNCHANGED <<job, raw, sjobs, hasLauncher, stopping, submits, crashes, overlapped, failedRuns>>

\* update_rawjob_size.  The check of the disk asks for a member "dist" of the
\* destination, which nothing sets.  A job without sources has no sjobs and fails.
BootSize(t) ==
    /\ boot[t].at = "expand" /\ boot[t].left = <<>>
    /\ raw' = [raw EXCEPT !.size = SumFunction([i \in DOMAIN boot[t].src |-> boot[t].src[i].size]),
                          !.error = @ \/ boot[t].src = <<>>]
    /\ boot' = [boot EXCEPT ![t].at = IF boot[t].src = <<>> THEN "fail" ELSE "delete"]
    /\ failedRuns' = IF boot[t].src = <<>> THEN failedRuns + 1 ELSE failedRuns
    /\ UNCHANGED <<job, blocks, sjobs, fresh, hasLauncher, stopping, submits, crashes, overlapped>>

\* A mutant without the deletion
BootDeletesNone(t) ==
    /\ boot[t].at = "delete"
    /\ boot' = [boot EXCEPT ![t].at = "insert"]
    /\ UNCHANGED <<job, raw, blocks, sjobs, fresh, hasLauncher, stopping, submits, crashes, overlapped, failedRuns>>

\* del_sjobs: the sjobs of an earlier run go, whatever has become of them
BootDeletes(t) ==
    /\ boot[t].at = "delete"
    /\ sjobs' = {}
    /\ boot' = [boot EXCEPT ![t].at = "insert"]
    /\ UNCHANGED <<job, raw, blocks, fresh, hasLauncher, stopping, submits, crashes, overlapped, failedRuns>>

\* Then one sjob for each storage
BootInserts(t) ==
    /\ boot[t].at = "insert"
    /\ LET s == Head(boot[t].src)
       IN  sjobs' = sjobs \cup {[id |-> fresh, storage |-> s.storage, size |-> s.size, blocks |-> Range(s.blocks), state |-> "bootstrap"]}
    /\ fresh' = fresh + 1
    /\ boot' = [boot EXCEPT ![t] = IF Len(boot[t].src) = 1 THEN NoBoot ELSE [boot[t] EXCEPT !.src = Tail(boot[t].src)]]
    /\ UNCHANGED <<job, raw, blocks, hasLauncher, stopping, submits, crashes, overlapped, failedRuns>>

-----------------------------------------------------------------------------
\* Meanwhile: schedule takes up an sjob, the launching agent comes and goes, the
\* process ends
SubmitPickUp ==
    /\ \E s \in sjobs : s.state = "bootstrap" /\ sjobs' = (sjobs \ {s}) \cup {[s EXCEPT !.state = "matched"]}
    /\ UNCHANGED <<job, raw, blocks, fresh, hasLauncher, stopping, boot, submits, crashes, overlapped, failedRuns>>

SubmitLauncher ==
    /\ \E t \in SubThreads : boot[t].at = "launcher"
    /\ hasLauncher' = ~hasLauncher
    /\ UNCHANGED <<job, raw, blocks, sjobs, fresh, stopping, boot, submits, crashes, overlapped, failedRuns>>

SubmitCrash ==
    /\ BootRunning # {} /\ crashes < MaxCrashes /\ crashes' = crashes + 1
    /\ BootsEnd /\ stopping' = FALSE

SubmitRestart ==
    /\ stopping /\ BootRunning = {} /\ stopping' = FALSE
    /\ UNCHANGED <<job, raw, blocks, sjobs, fresh, hasLauncher, boot, submits, crashes, overlapped, failedRuns>>

SubmitNext ==
    \/ SubmitPickUp \/ SubmitLauncher \/ SubmitCrash \/ SubmitRestart
    \/ \E t \in SubThreads :
        \/ SubmitJob(t) \/ BootAsksLauncher(t) \/ BootCerts(t) \/ BootDestination(t) \/ BootSource(t)
        \/ BootExpand(t) \/ BootDataset(t) \/ BootBlock(t) \/ BootSize(t)
        \/ BootDeletes(t) \/ BootInserts(t) \/ BootRecordsError(t)

SubmitSpec == SubmitInit /\ [][SubmitNext]_submitVars

-----------------------------------------------------------------------------
\* An sjob in the store is whole at every moment, whatever runs fail, overlap or are
\* cut off: its blocks are in the block collection, they are of its storage, they add
\* up to its size, and no two sjobs share a block.
SjobsWhole ==
    \A s \in sjobs :
        /\ s.blocks \subseteq blocks /\ \A b \in s.blocks : b.storage = s.storage
        /\ s.size = SumFunction([b \in s.blocks |-> b.size])
        /\ \A u \in sjobs \ {s} : u.blocks \cap s.blocks = {}

\* After runs that did not overlap and none of which failed or was cut off, the raw job
\* has exactly one sjob for each storage of its sources, and its size is the sum of
\* theirs; after a single such run there is no other block in the store.
SubmittedOnce ==
    BootRunning = {} /\ submits > 0 /\ ~overlapped /\ failedRuns = 0 =>
        /\ {s.storage : s \in sjobs} = StoragesOf(job.sources)
        /\ Cardinality(sjobs) = Cardinality(StoragesOf(job.sources))
        /\ raw.size = SumFunction([s \in sjobs |-> s.size])
        /\ submits = 1 => UNION {s.blocks : s \in sjobs} = blocks

\* A run that fails or is cut off before it replaces the sjobs leaves those of an
\* earlier run in place, so a raw job whose runs all failed that way has none that
\* schedule could take up, and its error is recorded unless the process ended.
FailedSubmitsNothing ==
    BootRunning = {} /\ submits > 0 /\ failedRuns = submits /\ crashes = 0 =>
        sjobs = {} /\ (raw.error => raw.errorField) /\ (raw.error \/ job.deadline = 0 \/ job.keys = "bad")

\* What the comment "check destination disk usage" announces: a job that is larger
\* than 95 percent of the known free space is not bootstrapped.
FitsDestination ==
    \A t \in SubThreads : boot[t].at = "insert" /\ boot[t].disk => raw.size * 100 <= DiskFree * 95
=============================================================================
