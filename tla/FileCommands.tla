---------------------------- MODULE FileCommands ----------------------------
(***************************************************************************)
(* The commands of the DTN agent that read files: dtn_expand_and_group_v2, *)
(* which turns the sources of a job into blocks and computes their         *)
(* checksums, dtn_compute_checksums, dtn_verify_checksums, and the listing *)
(* commands.  Worker threads of the agents at the source and at the        *)
(* destination serve them; a directory is checksummed by asynchronous      *)
(* tasks whose number a counter of the whole process limits                *)
(* (utils/checksum.cc).                                                    *)
(*                                                                         *)
(* A checksum is the content it stands for: <<"file", text>> for a file,   *)
(* <<"dir", texts>> with the sorted texts for a directory.                 *)
(***************************************************************************)
EXTENDS PathTree

CONSTANTS
    SourceThreads,      \* worker threads of the agent at the source
    TargetThread,       \* a worker thread of the agent at the destination
    SourceDisk,         \* the tree at the source
    TargetDisk,         \* the tree at the destination before the transfer
    DirOrder,           \* order of readdir(3), per host
    NameOrder,          \* the alphabetical order of the names
    DataFolders,        \* the data folders of the source host, in order
    Users,              \* the users of the source host
    DstPath,            \* the folder at the destination
    MaxGroupSize,       \* group_size of the request
    MaxGroupFiles,      \* max_files of the request
    ParentList,         \* use_expand_v2_parent_list_
    Requests,           \* what each thread at the source may be asked
    MaxRequests,        \* bound: requests that a thread serves
    ChecksumThreads,    \* checksum_threads_
    SizeThreshold,      \* checksum_file_size_threshold_
    Fragile,            \* bound: the files that may vanish at the source
    MaxCorrupt          \* bound: files that the transfer corrupts

VARIABLES
    disk,       \* the tree of each host
    work,       \* the command each thread serves, with its locals
    counter,    \* task_counter of each process
    leaked,     \* increments of it that no decrement will follow
    reply,      \* the last answer of each thread
    asked,      \* number of requests to each thread
    corrupted,  \* number of files corrupted
    added,      \* number of blocks inserted into the store
    plan,       \* the groups that the server transfers, one after the other
    moved,      \* number of groups transferred
    verdict     \* what the verification of the last group answered

fileVars == <<disk, work, counter, leaked, reply, asked, corrupted, added, plan,
              moved, verdict>>

FileHosts == {"source", "target"}
FileThreads == SourceThreads \union {TargetThread}
HostOf(t) == IF t = TargetThread THEN "target" ELSE "source"
Disk(t) == disk[HostOf(t)]
Order(t) == DirOrder[HostOf(t)]

NoGroup == [files |-> <<>>, sums |-> <<>>, size |-> 0]
NoWork == [pc |-> "idle", cmd |-> "none", paths |-> <<>>, checksum |-> FALSE, db |-> FALSE,
           groups |-> <<>>, items |-> <<>>, group |-> NoGroup, done |-> <<>>, total |-> 0,
           dirs |-> {},
           pairs |-> <<>>, path |-> Nowhere, parts |-> <<>>, tasks |-> <<>>, later |-> <<>>,
           texts |-> <<>>, count |-> 0]
NoReply == [cmd |-> "none", code |-> 0, groups |-> <<>>, total |-> 0, paths |-> <<>>, user |-> "none"]
Failure(cmd) == [NoReply EXCEPT !.cmd = cmd, !.code = IF cmd \in {"sum", "verify"} THEN 2 ELSE 1]
NoVerdict == [code |-> -1, listed |-> TRUE, whole |-> TRUE]

\* data_folder_contains(): ends at the first folder that is missing.
DataFolderContains(fs, p) ==
    LET real == RealPath(fs, p) IN
    /\ real # Nowhere
    /\ \E i \in DOMAIN DataFolders :
          /\ IsPrefix(DataFolders[i], real)
          /\ \A j \in 1..i : Exists(fs, DataFolders[j])

\* make_dst_path_name(): the base name only.
MakeDstPathName(p) == JoinPaths(DstPath, BaseName(p))

\* The order of std::set<Path>.
PathBefore(p, q) ==
    LET Place(n) == SelectInSeq(NameOrder, LAMBDA x : x = n)
        apart == {k \in DOMAIN p \intersect DOMAIN q : p[k] # q[k]}
        k == CHOOSE i \in apart : \A j \in apart : i <= j
    IN  IF apart = {} THEN Len(p) < Len(q) ELSE Place(p[k]) < Place(q[k])
SortedPaths(S) == SetToSortSeq(S, PathBefore)

\* checksum_of_checksums(): sorted, so that the order of the files does not matter.
ChecksumOfUnsorted(texts) == <<"dir", texts>>

ChecksumOfChecksums(texts) == <<"dir", SortSeq(texts, LAMBDA a, b : a < b)>>

\* utils::checksum of the files of a group; it throws at a file it cannot open.
CanRead(fs, files) == \A i \in DOMAIN files : IsFile(fs, files[i])
TextsOf(fs, files) == [i \in DOMAIN files |-> fs[files[i]].text]

-----------------------------------------------------------------------------
Set(t, w) == work' = [work EXCEPT ![t] = w]

Respond(t, r) ==
    /\ reply' = [reply EXCEPT ![t] = r]
    /\ Set(t, NoWork)

\* The checksum that the content at a path has, and the one it should have.
TrueSum(fs, p) ==
    IF IsDir(fs, p)
    THEN ChecksumOfChecksums(TextsOf(fs, RegularFiles(fs, Walk(fs, DirOrder["source"], p, TRUE))))
    ELSE IF IsFile(fs, p) THEN <<"file", fs[p].text>> ELSE <<"none">>

\* Is the copy of an entry <<source, destination>> of a group what the source was?
Intact(e) ==
    TrueSum(disk.target, MakeDstPathName(e[1])) = TrueSum(SourceDisk, e[1])

\* The answer of a command, and for dtn_verify_checksums the truth beside it.
Finish(t, r) ==
    /\ Respond(t, r)
    /\ verdict' = IF work[t].cmd # "verify" THEN verdict
                  ELSE LET g == plan[moved]
                           named == {g.sums[i][1] : i \in DOMAIN g.sums}
                       IN  [code |-> r.code,
                            listed |-> \A i \in DOMAIN g.files :
                                MakeDstPathName(g.files[i][1]) \in named => Intact(g.files[i]),
                            whole |-> \A i \in DOMAIN g.files :
                                IsFile(SourceDisk, g.files[i][1]) => Intact(g.files[i])]

\* An exception ends the command.  The futures that were not collected wait for
\* their tasks; nothing decrements the counter for them.
Throw(t) ==
    /\ \A i \in DOMAIN work[t].tasks : work[t].tasks[i].state # "run"
    /\ Finish(t, Failure(work[t].cmd))
    /\ leaked' = [leaked EXCEPT ![HostOf(t)] = @ + Len(work[t].tasks)]

\* Json::Value checksums is a local of the loop over the paths of a group: the
\* checksum of a path replaces that of the path before it.
WithSum(w, p, sum) == [w EXCEPT !.pc = "item", !.group.sums = << <<MakeDstPathName(p), sum>> >>]

-----------------------------------------------------------------------------
(* dir_checksum_of_checksums, in parallel *)

\* The walk and the partition.
DirSumBegin(t, w, p) ==
    LET paths == Walk(Disk(t), Order(t), p, TRUE)
        groups == Partition(Disk(t), paths, ChecksumThreads)
    IN  Set(t, [w EXCEPT !.pc = "group", !.path = p, !.texts = <<>>, !.later = <<>>, !.tasks = <<>>,
                         !.parts = SelectSeq(groups, LAMBDA g : g # <<>>),
                         !.count = Len(RegularFiles(Disk(t), paths))])

\* The next group: is the counter below the limit?
DirSumGroupAtLimit(t) ==
    LET w == work[t] IN
    /\ w.pc = "group"
    /\ IF w.parts = <<>> THEN Set(t, [w EXCEPT !.pc = "later"])
       ELSE IF counter[HostOf(t)] <= ChecksumThreads THEN Set(t, [w EXCEPT !.pc = "launch"])
       ELSE Set(t, [w EXCEPT !.parts = Tail(@), !.later = Append(@, Head(w.parts))])
    /\ UNCHANGED <<disk, counter, leaked, reply, asked, corrupted, added, plan, moved, verdict>>

DirSumGroup(t) ==
    LET w == work[t] IN
    /\ w.pc = "group"
    /\ IF w.parts = <<>> THEN Set(t, [w EXCEPT !.pc = "later"])
       ELSE IF counter[HostOf(t)] < ChecksumThreads THEN Set(t, [w EXCEPT !.pc = "launch"])
       ELSE Set(t, [w EXCEPT !.parts = Tail(@), !.later = Append(@, Head(w.parts))])
    /\ UNCHANGED <<disk, counter, leaked, reply, asked, corrupted, added, plan, moved, verdict>>

\* std::async, and only then increment().
DirSumLaunch(t) ==
    LET w == work[t] IN
    /\ w.pc = "launch"
    /\ Set(t, [w EXCEPT !.pc = "group", !.parts = Tail(@),
                        !.tasks = Append(@, [files |-> Head(w.parts), state |-> "run", texts |-> <<>>])])
    /\ counter' = [counter EXCEPT ![HostOf(t)] = @ + 1]
    /\ UNCHANGED <<disk, leaked, reply, asked, corrupted, added, plan, moved, verdict>>

\* A task: checksum_group, or the checksum of one large file.
TaskEnds(t, i) ==
    LET w == work[t] IN
    /\ i \in DOMAIN w.tasks /\ w.tasks[i].state = "run"
    /\ LET k == w.tasks[i] IN
       Set(t, [w EXCEPT !.tasks[i] =
                 IF CanRead(Disk(t), k.files)
                 THEN [k EXCEPT !.state = "ok", !.texts = TextsOf(Disk(t), k.files)]
                 ELSE [k EXCEPT !.state = "error"]])
    /\ UNCHANGED <<disk, counter, leaked, reply, asked, corrupted, added, plan, moved, verdict>>

\* The groups for which there was no task.
DirSumLater(t) ==
    LET w == work[t] IN
    /\ w.pc = "later"
    /\ IF w.later = <<>> THEN Set(t, [w EXCEPT !.pc = "get"]) /\ UNCHANGED <<reply, leaked, verdict>>
       ELSE IF CanRead(Disk(t), Head(w.later))
       THEN /\ Set(t, [w EXCEPT !.later = Tail(@), !.texts = @ \o TextsOf(Disk(t), Head(w.later))])
            /\ UNCHANGED <<reply, leaked, verdict>>
       ELSE Throw(t)
    /\ UNCHANGED <<disk, counter, asked, corrupted, added, plan, moved>>

\* f.get(), and decrement() when it returns.
DirSumGet(t) ==
    LET w == work[t] IN
    /\ w.pc = "get" /\ w.tasks # <<>> /\ Head(w.tasks).state # "run"
    /\ IF Head(w.tasks).state = "ok"
       THEN /\ Set(t, [w EXCEPT !.tasks = Tail(@), !.texts = @ \o Head(w.tasks).texts])
            /\ counter' = [counter EXCEPT ![HostOf(t)] = @ - 1]
            /\ UNCHANGED <<reply, leaked, verdict>>
       ELSE Throw(t) /\ UNCHANGED counter
    /\ UNCHANGED <<disk, asked, corrupted, added, plan, moved>>

\* As many checksums as files?
DirSumComplete(w) == Len(w.texts) = w.count

\* What the caller does with the checksum of the directory.
DirSumReturn(t, w, sum) ==
    CASE w.cmd = "v2" -> WithSum(w, w.path, sum)
      [] w.cmd = "verify" -> [w EXCEPT !.pc = IF Head(w.pairs)[2] = sum THEN "pair" ELSE "differs",
                                !.pairs = Tail(@)]
      [] OTHER -> [w EXCEPT !.pc = "computed"]

DirSumEnd(t) ==
    LET w == work[t] IN
    /\ w.pc = "get" /\ w.tasks = <<>>
    /\ IF DirSumComplete(w)
       THEN /\ Set(t, DirSumReturn(t, w, ChecksumOfChecksums(w.texts)))
            /\ UNCHANGED <<reply, leaked, verdict>>
       ELSE Throw(t)
    /\ UNCHANGED <<disk, counter, asked, corrupted, added, plan, moved>>

-----------------------------------------------------------------------------
(* dtn_expand_and_group_v2 *)

SourceUnchanged == UNCHANGED <<disk, asked, corrupted, plan, moved>>

\* The next source path: divide it, add up its size.
V2Path(t) ==
    LET w == work[t]
        p == Head(w.paths)
        division == Divide(Disk(t), Order(t), p, MaxGroupSize, MaxGroupFiles)
    IN
    /\ w.pc = "path" /\ w.paths # <<>>
    /\ Set(t, [w EXCEPT !.pc = "next", !.groups = division.groups,
                        !.dirs = @ \union division.dirs, !.total = @ + TreeSize(Disk(t), p)])
    /\ SourceUnchanged /\ UNCHANGED <<counter, leaked, reply, added, verdict>>

\* The next group of it.
V2Group(t) ==
    LET w == work[t] IN
    /\ w.pc = "next" /\ w.groups # <<>>
    /\ Set(t, [w EXCEPT !.pc = "item", !.items = SortedPaths(Head(w.groups).paths),
                        !.groups = Tail(@), !.group = [NoGroup EXCEPT !.size = Head(w.groups).size]])
    /\ SourceUnchanged /\ UNCHANGED <<counter, leaked, reply, added, verdict>>

\* The next path of the group.
V2Item(t) ==
    LET w == work[t]
        p == Head(w.items)
        dir == IsDir(Disk(t), p)
        next == [w EXCEPT !.items = Tail(@), !.path = p,
                   !.group.files = Append(@, <<p, IF dir THEN DstPath ELSE MakeDstPathName(p)>>)]
    IN
    /\ w.pc = "item" /\ w.items # <<>>
    /\ IF ~Exists(Disk(t), p) THEN Throw(t)
       ELSE /\ IF ~w.checksum THEN Set(t, next)
               ELSE IF dir THEN DirSumBegin(t, next, p)
               ELSE IF /\ w.group.size > 2 /\ PathSize(Disk(t), p) > SizeThreshold
                       /\ counter[HostOf(t)] < ChecksumThreads
               THEN Set(t, [next EXCEPT !.pc = "filelaunch"])
               ELSE Set(t, WithSum(next, p, <<"file", Disk(t)[p].text>>))
            /\ UNCHANGED <<reply, leaked, verdict>>
    /\ SourceUnchanged /\ UNCHANGED <<counter, added>>

\* A task for a large file, which the loop waits for at once.
V2FileLaunch(t) ==
    LET w == work[t] IN
    /\ w.pc = "filelaunch"
    /\ Set(t, [w EXCEPT !.pc = "fileget",
                        !.tasks = << [files |-> <<w.path>>, state |-> "run", texts |-> <<>>] >>])
    /\ counter' = [counter EXCEPT ![HostOf(t)] = @ + 1]
    /\ SourceUnchanged /\ UNCHANGED <<leaked, reply, added, verdict>>

V2FileGet(t) ==
    LET w == work[t] IN
    /\ w.pc = "fileget" /\ w.tasks[1].state # "run"
    /\ IF w.tasks[1].state = "ok"
       THEN /\ Set(t, WithSum([w EXCEPT !.tasks = <<>>], w.path, <<"file", w.tasks[1].texts[1]>>))
            /\ counter' = [counter EXCEPT ![HostOf(t)] = @ - 1]
            /\ UNCHANGED <<reply, leaked, verdict>>
       ELSE Throw(t) /\ UNCHANGED counter
    /\ SourceUnchanged /\ UNCHANGED added

\* The group is complete.
V2GroupEnd(t) ==
    LET w == work[t] IN
    /\ w.pc = "item" /\ w.items = <<>>
    /\ Set(t, [w EXCEPT !.pc = "next", !.done = Append(@, w.group), !.group = NoGroup])
    /\ SourceUnchanged /\ UNCHANGED <<counter, leaked, reply, added, verdict>>

\* The path is complete.  All groups so far, and the parent folders before them, are
\* inserted into the store; the answer names those of the last insertion.
V2PathEnd(t) ==
    LET w == work[t]
        heads == IF ParentList /\ w.dirs # {} THEN 1 ELSE 0
        next == [w EXCEPT !.pc = "path", !.paths = Tail(@)]
    IN
    /\ w.pc = "next" /\ w.groups = <<>>
    /\ added' = IF w.db THEN added + Len(w.done) + heads ELSE added
    /\ IF next.paths = <<>>
       THEN Respond(t, [NoReply EXCEPT !.cmd = "v2", !.groups = w.done, !.total = w.total])
       ELSE Set(t, next) /\ UNCHANGED reply
    /\ SourceUnchanged /\ UNCHANGED <<counter, leaked, verdict>>

-----------------------------------------------------------------------------
(* The commands that answer at once *)

\* The entry that the listing has for a path, as a sequence of at most one path.
\* A link is listed as what it leads to, unless that is outside the data folders,
\* closed to the user or, when the name of the folder ends in a slash, in that folder.
ListSymlink(fs, p, r) ==
    LET to == RealPath(fs, p) IN
    IF /\ to # Nowhere /\ DataFolderContains(fs, to)
       /\ r.user = "none" \/ ReadableBy(fs, to, r.user)
       /\ ~(r.path # p /\ r.slash /\ DirName(to) = r.path)
    THEN <<to>> ELSE <<>>

ListEntryUnchecked(fs, p, r) == IF IsLink(fs, p) THEN <<RealPath(fs, p)>> ELSE <<p>>

ListEntry(fs, p, r) ==
    CASE r.user # "none" /\ ~ReadableBy(fs, p, r.user) -> <<>>
      [] IsLink(fs, p) -> ListSymlink(fs, p, r)
      [] OTHER -> <<p>>

ListAnswer(fs, order, r) ==
    LET cs == Children(fs, order, r.path)
        found == IF IsDir(fs, r.path)
                 THEN FlattenSeq([i \in DOMAIN cs |-> ListEntry(fs, cs[i], r)])
                 ELSE IF IsLink(fs, r.path) THEN ListSymlink(fs, r.path, r) ELSE <<r.path>>
    IN  IF \/ r.user \notin Users \union {"none"}
           \/ ~DataFolderContains(fs, r.path)
           \/ r.user # "none" /\ ~ReadableBy(fs, r.path, r.user)
           \/ IsDir(fs, r.path) /\ r.checksum
        THEN Failure("list")
        ELSE [NoReply EXCEPT !.cmd = "list", !.paths = found, !.user = r.user]

\* dtn_expand.  The entries of a folder are checked against the user.
ExpandAnswer(fs, order, r) ==
    LET found == IF IsDir(fs, r.path) THEN Walk(fs, order, r.path, TRUE) ELSE <<r.path>>
    IN  IF \/ ~DataFolderContains(fs, r.path)
           \/ r.user \notin Users \union {"none"}
           \/ IsDir(fs, r.path) /\ r.user # "none"
                /\ \E i \in DOMAIN found : ~ReadableBy(fs, found[i], r.user)
        THEN Failure("expand")
        ELSE [NoReply EXCEPT !.cmd = "expand", !.paths = found, !.total = TotalSize(fs, found),
                             !.user = IF IsDir(fs, r.path) THEN r.user ELSE "none"]

\* dtn_expand_and_group, the version without directories as blocks.
GroupAnswer(fs, order, r) ==
    LET paths == InterimPaths(fs, order, <<r.path>>)
        groups == GroupBySize(fs, paths, MaxGroupSize, MaxGroupFiles)
        Entry(p) == <<p, MakeDstPathName(p)>>
    IN  IF ~DataFolderContains(fs, r.path) \/ r.user \notin Users \union {"none"}
        THEN Failure("group")
        ELSE [NoReply EXCEPT !.cmd = "group", !.total = TotalSize(fs, FlattenSeq(groups)),
                 !.groups = [i \in DOMAIN groups |->
                     [NoGroup EXCEPT !.files = [k \in DOMAIN groups[i] |-> Entry(groups[i][k])],
                                     !.size = TotalSize(fs, groups[i])]]]

\* dtn_path_size.
PathSizeAnswer(fs, order, r) ==
    LET p == RealPath(fs, r.path)
        size == IF IsDir(fs, p) THEN TotalSize(fs, Walk(fs, order, p, TRUE)) ELSE PathSize(fs, p)
    IN  IF ~DataFolderContains(fs, r.path) THEN Failure("size")
        ELSE [NoReply EXCEPT !.cmd = "size", !.total = size]

AtOnce(fs, order, r) ==
    CASE r.cmd = "list" -> ListAnswer(fs, order, r)
      [] r.cmd = "expand" -> ExpandAnswer(fs, order, r)
      [] r.cmd = "group" -> GroupAnswer(fs, order, r)
      [] r.cmd = "size" -> PathSizeAnswer(fs, order, r)

AskAtOnce(t, r) ==
    /\ work[t].pc = "idle" /\ asked[t] < MaxRequests
    /\ r.cmd \in {"list", "expand", "group", "size"}
    /\ asked' = [asked EXCEPT ![t] = @ + 1]
    /\ Respond(t, AtOnce(disk.source, Order(t), r))
    /\ UNCHANGED <<disk, counter, leaked, corrupted, added, plan, moved, verdict>>

-----------------------------------------------------------------------------
(* The commands that compute checksums *)

\* dtn_expand_and_group_v2: the checks of its parameters.
V2Refused(r) ==
    \/ r.paths = {}
    \/ \E p \in r.paths : ~DataFolderContains(disk.source, p)
    \/ r.user \notin Users \union {"none"}

AskV2(t, r) ==
    /\ work[t].pc = "idle" /\ asked[t] < MaxRequests /\ r.cmd = "v2"
    /\ asked' = [asked EXCEPT ![t] = @ + 1]
    /\ IF V2Refused(r)
       THEN Respond(t, Failure("v2"))
       ELSE /\ Set(t, [NoWork EXCEPT !.pc = "path", !.cmd = "v2", !.paths = SortedPaths(r.paths),
                                     !.checksum = r.checksum, !.db = r.db])
            /\ UNCHANGED reply
    /\ UNCHANGED <<disk, counter, leaked, corrupted, added, plan, moved, verdict>>

\* dtn_compute_checksums: no check of the folder.
AskSum(t, r) ==
    LET w == [NoWork EXCEPT !.cmd = "sum"] IN
    /\ work[t].pc = "idle" /\ asked[t] < MaxRequests /\ r.cmd = "sum"
    /\ asked' = [asked EXCEPT ![t] = @ + 1]
    /\ IF IsDir(disk.source, r.path) THEN DirSumBegin(t, w, r.path) /\ UNCHANGED reply
       ELSE Respond(t, [NoReply EXCEPT !.cmd = "sum"])
    /\ UNCHANGED <<disk, counter, leaked, corrupted, added, plan, moved, verdict>>

SumEnd(t) ==
    /\ work[t].pc = "computed"
    /\ Respond(t, [NoReply EXCEPT !.cmd = "sum"])
    /\ SourceUnchanged /\ UNCHANGED <<counter, leaked, added, verdict>>

\* dtn_verify_checksums for the block that was moved last.
AskVerify(t) ==
    /\ t = TargetThread /\ work[t].pc = "idle"
    /\ moved > 0 /\ verdict = NoVerdict /\ plan[moved].sums # <<>>
    /\ Set(t, [NoWork EXCEPT !.pc = "pair", !.cmd = "verify", !.pairs = plan[moved].sums])
    /\ SourceUnchanged /\ UNCHANGED <<counter, leaked, reply, added, verdict>>

\* The next path and checksum of the command.
VerifyPair(t) ==
    LET w == work[t]
        p == Head(w.pairs)[1]
    IN
    /\ w.pc = "pair" /\ w.pairs # <<>>
    /\ IF IsDir(Disk(t), p) THEN DirSumBegin(t, w, p) /\ UNCHANGED <<reply, leaked, verdict>>
       ELSE IF ~IsFile(Disk(t), p) THEN Throw(t)
       ELSE /\ Set(t, [w EXCEPT !.pairs = Tail(@),
                 !.pc = IF Head(w.pairs)[2] = <<"file", Disk(t)[p].text>> THEN "pair" ELSE "differs"])
            /\ UNCHANGED <<reply, leaked, verdict>>
    /\ SourceUnchanged /\ UNCHANGED <<counter, added>>

VerifyEnd(t) ==
    LET w == work[t] IN
    /\ w.pc = "differs" \/ (w.pc = "pair" /\ w.pairs = <<>>)
    /\ Finish(t, [NoReply EXCEPT !.cmd = "verify", !.code = IF w.pc = "differs" THEN 1 ELSE 0])
    /\ SourceUnchanged /\ UNCHANGED <<counter, leaked, added>>

-----------------------------------------------------------------------------
(* Around the agents *)

\* The server takes the blocks of an answer for a job.
TakePlan(t) ==
    /\ plan = <<>> /\ reply[t].cmd = "v2" /\ reply[t].code = 0 /\ reply[t].groups # <<>>
    /\ plan' = reply[t].groups
    /\ UNCHANGED <<disk, work, counter, leaked, reply, asked, corrupted, added, moved, verdict>>

\* The transfer of one entry of a group: a file, or a folder with all that is in it.
CopyEntry(fs, e) ==
    LET from == {p \in DOMAIN SourceDisk : IsPrefix(e[1], p)}
        To(p) == MakeDstPathName(e[1]) \o SubSeq(p, Len(e[1]) + 1, Len(p))
    IN  [q \in {To(p) : p \in from} |-> SourceDisk[CHOOSE p \in from : To(p) = q]] @@ fs

\* The mdtm client moves the next block; one of its files may come out wrong.
MoveBlock ==
    /\ moved < Len(plan)
    /\ moved # 0 => (plan[moved].sums = <<>> \/ verdict.code = 0)
    /\ work[TargetThread].pc = "idle"
    /\ moved' = moved + 1
    /\ verdict' = NoVerdict
    /\ LET copied == FoldLeft(CopyEntry, disk.target, plan[moved + 1].files)
           files == {q \in DOMAIN copied : IsFile(copied, q) /\ ~IsFile(TargetDisk, q)}
       IN  \/ disk' = [disk EXCEPT !.target = copied] /\ UNCHANGED corrupted
          \/ /\ corrupted < MaxCorrupt
             /\ corrupted' = corrupted + 1
             /\ \E q \in files : disk' = [disk EXCEPT !.target = [copied EXCEPT ![q].text = 0]]
    /\ UNCHANGED <<work, counter, leaked, reply, asked, added, plan>>

\* Somebody deletes a file at the source.
Vanish ==
    /\ \E p \in Fragile :
          /\ IsFile(disk.source, p)
          /\ disk' = [disk EXCEPT !.source = [q \in DOMAIN @ \ {p} |-> @[q]]]
    /\ UNCHANGED <<work, counter, leaked, reply, asked, corrupted, added, plan, moved, verdict>>

FilesInit ==
    /\ disk = [source |-> SourceDisk, target |-> TargetDisk]
    /\ work = [t \in FileThreads |-> NoWork]
    /\ reply = [t \in FileThreads |-> NoReply]
    /\ counter = [h \in FileHosts |-> 0] /\ leaked = [h \in FileHosts |-> 0]
    /\ asked = [t \in SourceThreads |-> 0] /\ corrupted = 0 /\ added = 0
    /\ plan = <<>> /\ moved = 0 /\ verdict = NoVerdict

FileStep(t) ==
    \/ DirSumGroup(t) \/ DirSumLaunch(t) \/ DirSumLater(t) \/ DirSumGet(t) \/ DirSumEnd(t)
    \/ V2Path(t) \/ V2Group(t) \/ V2Item(t) \/ V2FileLaunch(t) \/ V2FileGet(t)
    \/ V2GroupEnd(t) \/ V2PathEnd(t)
    \/ SumEnd(t) \/ VerifyPair(t) \/ VerifyEnd(t)

FilesNext ==
    \/ \E t \in SourceThreads : \E r \in Requests[t] : AskAtOnce(t, r) \/ AskV2(t, r) \/ AskSum(t, r)
    \/ \E t \in FileThreads : FileStep(t) \/ \E i \in 1..ChecksumThreads : TaskEnds(t, i)
    \/ \E t \in SourceThreads : TakePlan(t)
    \/ AskVerify(TargetThread)
    \/ MoveBlock
    \/ Vanish

-----------------------------------------------------------------------------
(* Properties *)

\* A verification that answers "OK" has seen every path that the command names as it
\* was at the source, and one that answers "mismatch" has not, unless a file vanished
\* at the source before its checksum was computed: the checksum of a
\* folder depends neither on the order of readdir at the two hosts nor on how its
\* files were spread over tasks, and a file that partition() leaves out is noticed.
VerifyTruth ==
    /\ verdict.code = 0 => verdict.listed
    /\ verdict.code = 1 /\ disk.source = SourceDisk => ~verdict.listed

\* The counter of tasks is the number of tasks not yet collected, and of those that
\* an exception left behind.  Threads look at it first and increment it later, yet no
\* more than one task for each other thread comes on top of the limit.
TasksBounded ==
    /\ \A h \in FileHosts :
          counter[h] = leaked[h] + MapThenSumSet(LAMBDA t : Len(work[t].tasks),
                                                 {t \in FileThreads : HostOf(t) = h})
    /\ counter["source"] <= ChecksumThreads + Cardinality(SourceThreads) - 1

\* A listing names only what is inside a data folder and open to the user it is for,
\* links included.
ListedIsReadable ==
    \A t \in FileThreads : \A i \in DOMAIN reply[t].paths :
        LET p == reply[t].paths[i] IN
        /\ \E k \in DOMAIN DataFolders : IsPrefix(DataFolders[k], p)
        /\ reply[t].user # "none" => ReadableBy(SourceDisk, p, reply[t].user)

\* A block that was verified is at the destination as it was at the source, all
\* of its files included.
BlockVerified == verdict.code = 0 => verdict.whole
=============================================================================
