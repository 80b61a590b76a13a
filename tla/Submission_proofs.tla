-------------------------- MODULE Submission_proofs -------------------------
(***************************************************************************)
(* For any raw job, threads, submissions and crashes: an sjob in the store *)
(* is whole at every moment, a raw job whose runs all failed has none, and *)
(* runs one after the other of which none fails leave one for each storage *)
(* of its sources.                                                         *)
(***************************************************************************)
EXTENDS Submission, SumLemmas

-----------------------------------------------------------------------------
(* The documents of a raw job                                              *)

\* The size of a set of documents
TotalSize(T) == SumFunction([b \in T |-> b.size])

\* The blocks in the store, of which there are finitely many, older than the next id
BlockDocs(bs, next) ==
    /\ IsFiniteSet(bs) /\ next \in Nat
    /\ \A b \in bs : b.id \in Nat /\ b.id < next /\ b.size \in Int

\* The documents of a source storage: its blocks are of the storage and make its size
SourceDocs(bs, X) ==
    {d \in [storage : X, size : Int, blocks : Seq(bs)] :
        (\A b \in Range(d.blocks) : b.storage = d.storage) /\ d.size = TotalSize(Range(d.blocks))}

SjobDocs(bs, X) ==
    {s \in [id : Nat, storage : X, size : Int, blocks : SUBSET bs, state : {"bootstrap", "matched"}] :
        (\A b \in s.blocks : b.storage = s.storage) /\ s.size = TotalSize(s.blocks)}

BootStages == {"idle", "fail", "launcher", "certs", "dst", "sources", "expand", "blocks", "delete", "insert"}

BootLocals(bs, X) ==
    [at : BootStages, i : Nat, left : Seq(X), groups : Seq(Nat), total : Int, mine : Seq(bs), src : Seq(SourceDocs(bs, X)), disk : BOOLEAN]

\* What a run of bootstrap_transfer_job has put together so far
BootWhole(c) ==
    /\ c.at # "blocks" => c.mine = <<>>
    /\ c.at = "blocks" =>
         /\ c.left # <<>> /\ \A b \in Range(c.mine) : b.storage = Head(c.left)
         /\ c.total = SumFunction(c.groups) + TotalSize(Range(c.mine))
    /\ c.at \in {"delete", "insert"} => c.src # <<>>

\* The blocks that it has inserted and not yet handed over to an sjob
Held(c) == Range(c.mine) \cup UNION {Range(c.src[i].blocks) : i \in DOMAIN c.src}

BootApart(c) ==
    /\ \A i, j \in DOMAIN c.src : i # j => Range(c.src[i].blocks) \cap Range(c.src[j].blocks) = {}
    /\ \A i \in DOMAIN c.src : Range(c.mine) \cap Range(c.src[i].blocks) = {}

BootOK(c, bs, X) == c \in BootLocals(bs, X) /\ BootWhole(c) /\ BootApart(c)

StoragesOfJob == StoragesOf(job.sources)

WholeInv ==
    /\ job \in RawJobs /\ BlockDocs(blocks, fresh)
    /\ sjobs \subseteq SjobDocs(blocks, StoragesOfJob)
    /\ boot = [t \in SubThreads |-> boot[t]]
    /\ \A t \in SubThreads : BootOK(boot[t], blocks, StoragesOfJob)
    /\ \A t, u \in SubThreads : t # u => Held(boot[t]) \cap Held(boot[u]) = {}
    /\ \A t \in SubThreads : \A s \in sjobs : Held(boot[t]) \cap s.blocks = {}
    /\ \A s, u \in sjobs : s # u => s.blocks \cap u.blocks = {}

\* A thread that runs no bootstrap
LEMMA NoBootOK == \A bs, X : BootOK(NoBoot, bs, X) /\ Held(NoBoot) = {} /\ NoBoot.at = "idle" /\ NoBoot.src = <<>>
<1> TAKE bs, X
<1>1. NoBoot \in BootLocals(bs, X)
  BY DEF NoBoot, BootLocals, BootStages
<1>2. NoBoot.mine = <<>> /\ NoBoot.src = <<>> /\ NoBoot.at = "idle" /\ DOMAIN NoBoot.src = {} /\ DOMAIN NoBoot.mine = {}
  BY DEF NoBoot
<1>3. Held(NoBoot) = {}
  BY <1>2, Zenon DEF Held, Range
<1> QED BY <1>1, <1>2, <1>3, Zenon DEF BootOK, BootWhole, BootApart

\* Documents stay what they are when blocks are added to the store.
LEMMA DocsGrow ==
    ASSUME NEW bs, NEW more, bs \subseteq more, NEW X
    PROVE  /\ SourceDocs(bs, X) \subseteq SourceDocs(more, X) /\ SjobDocs(bs, X) \subseteq SjobDocs(more, X)
           /\ \A c : BootOK(c, bs, X) => BootOK(c, more, X)
<1>1. \A A, B : A \subseteq B => Seq(A) \subseteq Seq(B)
  OBVIOUS
<1>2. SourceDocs(bs, X) \subseteq SourceDocs(more, X)
  <2>1. Seq(bs) \subseteq Seq(more)
    BY <1>1, Zenon
  <2> QED BY <2>1, Zenon DEF SourceDocs
<1>3. SjobDocs(bs, X) \subseteq SjobDocs(more, X)
  BY Zenon DEF SjobDocs
<1>4. BootLocals(bs, X) \subseteq BootLocals(more, X)
  <2>1. Seq(bs) \subseteq Seq(more) /\ Seq(SourceDocs(bs, X)) \subseteq Seq(SourceDocs(more, X))
    BY <1>1, <1>2, Zenon
  <2> QED BY <2>1, Zenon DEF BootLocals
<1> QED BY <1>2, <1>3, <1>4, Zenon DEF BootOK

\* What a run holds is in the store.
LEMMA HeldStored ==
    ASSUME NEW bs, NEW X, NEW c, BootOK(c, bs, X)
    PROVE  Held(c) \subseteq bs
<1>1. c \in BootLocals(bs, X)
  BY Zenon DEF BootOK
<1>2. Range(c.mine) \subseteq bs
  <2>1. c.mine \in Seq(bs)
    BY <1>1, Zenon DEF BootLocals
  <2> QED BY <2>1 DEF Range
<1>3. \A i \in DOMAIN c.src : Range(c.src[i].blocks) \subseteq bs
  <2>1. c.src \in Seq(SourceDocs(bs, X))
    BY <1>1, Zenon DEF BootLocals
  <2>2. \A i \in DOMAIN c.src : c.src[i].blocks \in Seq(bs)
    BY <2>1 DEF SourceDocs
  <2> QED BY <2>2 DEF Range
<1> QED BY <1>2, <1>3, Zenon DEF Held

\* The invariant holds before the first submission.
LEMMA WholeInit == SubmitInit => WholeInv
<1> SUFFICES ASSUME SubmitInit PROVE WholeInv
  BY Zenon
<1>1. BlockDocs(blocks, fresh)
  BY FS_EmptySet, Zenon DEF SubmitInit, BlockDocs
<1>2. \A t \in SubThreads : boot[t] = NoBoot
  BY Zenon DEF SubmitInit
<1>3. boot = [t \in SubThreads |-> boot[t]] /\ job \in RawJobs /\ sjobs = {}
  BY Zenon DEF SubmitInit
<1> QED BY <1>1, <1>2, <1>3, NoBootOK, Zenon DEF WholeInv

\* A run goes on without new blocks: it holds what it held, or less.
LEMMA WholeMoves ==
    ASSUME WholeInv, NEW t \in SubThreads, NEW c, BootOK(c, blocks, StoragesOfJob), Held(c) \subseteq Held(boot[t]),
           boot' = [boot EXCEPT ![t] = c], UNCHANGED <<job, blocks, sjobs, fresh>>
    PROVE  WholeInv'
<1>1. boot' = [u \in SubThreads |-> boot'[u]] /\ \A u \in SubThreads : boot'[u] = IF u = t THEN c ELSE boot[u]
  BY Zenon DEF WholeInv
<1>2. StoragesOfJob' = StoragesOfJob
  BY Zenon DEF StoragesOfJob
<1>3. job' \in RawJobs /\ BlockDocs(blocks', fresh') /\ sjobs' \subseteq SjobDocs(blocks', StoragesOfJob')
      /\ \A s, u \in sjobs' : s # u => s.blocks \cap u.blocks = {}
  BY <1>2, Zenon DEF WholeInv
<1>4. \A u \in SubThreads : BootOK(boot'[u], blocks', StoragesOfJob')
  BY <1>1, <1>2, Zenon DEF WholeInv
<1>5. \A u \in SubThreads : Held(boot'[u]) \subseteq Held(boot[u])
  BY <1>1, Zenon
<1>6. \A u, v \in SubThreads : u # v => Held(boot'[u]) \cap Held(boot'[v]) = {}
  BY <1>5, Zenon DEF WholeInv
<1>7. \A u \in SubThreads : \A s \in sjobs' : Held(boot'[u]) \cap s.blocks = {}
  BY <1>5, Zenon DEF WholeInv
<1> QED BY <1>1, <1>3, <1>4, <1>6, <1>7, ZenonT(30) DEF WholeInv

\* The locals of a run
LEMMA BootLocal ==
    ASSUME WholeInv, NEW t \in SubThreads
    PROVE  /\ boot[t] \in BootLocals(blocks, StoragesOfJob) /\ BootWhole(boot[t]) /\ BootApart(boot[t])
           /\ boot[t] = [at |-> boot[t].at, i |-> boot[t].i, left |-> boot[t].left, groups |-> boot[t].groups,
                         total |-> boot[t].total, mine |-> boot[t].mine, src |-> boot[t].src, disk |-> boot[t].disk]
           /\ DOMAIN boot = SubThreads
<1>1. boot[t] \in BootLocals(blocks, StoragesOfJob) /\ BootWhole(boot[t]) /\ BootApart(boot[t])
  BY Zenon DEF WholeInv, BootOK
<1>2. boot[t] = [at |-> boot[t].at, i |-> boot[t].i, left |-> boot[t].left, groups |-> boot[t].groups,
                 total |-> boot[t].total, mine |-> boot[t].mine, src |-> boot[t].src, disk |-> boot[t].disk]
  BY <1>1, Zenon DEF BootLocals
<1>3. DOMAIN boot = SubThreads
  BY Zenon DEF WholeInv
<1> QED BY <1>1, <1>2, <1>3, ZenonT(30)

\* A run goes to another stage with the documents it has.
LEMMA WholeStage ==
    ASSUME WholeInv, NEW t \in SubThreads, boot[t].at # "blocks",
           NEW c \in BootLocals(blocks, StoragesOfJob), c.mine = boot[t].mine, c.src = boot[t].src, c.at # "blocks",
           c.at \in {"delete", "insert"} => c.src # <<>>,
           boot' = [boot EXCEPT ![t] = c], UNCHANGED <<job, blocks, sjobs, fresh>>
    PROVE  WholeInv'
<1>1. BootOK(c, blocks, StoragesOfJob)
  BY BootLocal, Zenon DEF BootOK, BootWhole, BootApart
<1>2. Held(c) = Held(boot[t])
  BY Zenon DEF Held
<1> QED BY <1>1, <1>2, WholeMoves, Zenon

\* A failure
LEMMA WholeFails ==
    ASSUME WholeInv, NEW t \in SubThreads, boot[t].at # "blocks", BootFails(t)
    PROVE  WholeInv'
<1>1. PICK c : c = [boot[t] EXCEPT !.at = "fail"]
  BY Zenon
<1>2. boot' = [boot EXCEPT ![t] = c] /\ UNCHANGED <<job, blocks, sjobs, fresh>>
  BY <1>1, BootLocal, Zenon DEF BootFails
<1>3. c \in BootLocals(blocks, StoragesOfJob) /\ c.mine = boot[t].mine /\ c.src = boot[t].src /\ c.at = "fail"
  BY <1>1, BootLocal, ZenonT(30) DEF BootLocals, BootStages
<1> QED BY <1>2, <1>3, WholeStage, ZenonT(30)

\* The stages before the documents of the job are made
LEMMA WholeAsks ==
    ASSUME WholeInv, NEW t \in SubThreads, SubmitJob(t) \/ BootAsksLauncher(t) \/ BootCerts(t) \/ BootDestination(t)
    PROVE  WholeInv'
<1>0. boot[t].at # "blocks"
  BY Zenon DEF SubmitJob, BootAsksLauncher, BootCerts, BootDestination
<1>1. CASE BootFails(t)
  BY <1>0, <1>1, WholeFails, Zenon
<1>2. CASE boot' = [boot EXCEPT ![t] = NoBoot] /\ UNCHANGED <<job, blocks, sjobs, fresh>>
  BY <1>2, NoBootOK, WholeMoves, Zenon
<1>3. ASSUME NEW a \in {"idle", "launcher", "certs", "dst"}, NEW c, c = [boot[t] EXCEPT !.at = a],
             boot' = [boot EXCEPT ![t] = c], UNCHANGED <<job, blocks, sjobs, fresh>>
      PROVE  WholeInv'
  <2>1. c \in BootLocals(blocks, StoragesOfJob) /\ c.mine = boot[t].mine /\ c.src = boot[t].src /\ c.at = a
    BY <1>3, BootLocal, ZenonT(30) DEF BootLocals, BootStages
  <2> QED BY <1>0, <1>3, <2>1, WholeStage, ZenonT(30)
<1>4. CASE SubmitJob(t)
  <2>1. PICK a \in {"idle", "launcher"} : boot' = [boot EXCEPT ![t].at = a]
    BY <1>4, Zenon DEF SubmitJob
  <2>2. PICK c : c = [boot[t] EXCEPT !.at = a]
    BY Zenon
  <2>3. boot' = [boot EXCEPT ![t] = c] /\ UNCHANGED <<job, blocks, sjobs, fresh>>
    BY <1>4, <2>1, <2>2, BootLocal, ZenonT(30) DEF SubmitJob
  <2> QED BY <1>3, <2>2, <2>3, Zenon
<1>5. CASE BootAsksLauncher(t)
  <2>1. CASE BootGoes(t, [boot[t] EXCEPT !.at = "certs"])
    <3>1. PICK c : c = [boot[t] EXCEPT !.at = "certs"]
      BY Zenon
    <3>2. boot' = [boot EXCEPT ![t] = c] /\ UNCHANGED <<job, blocks, sjobs, fresh>>
      BY <2>1, <3>1, Zenon DEF BootGoes
    <3> QED BY <1>3, <3>1, <3>2, Zenon
  <2> QED BY <1>1, <1>5, <2>1, Zenon DEF BootAsksLauncher
<1>6. CASE BootCerts(t)
  <2>1. CASE boot' = [boot EXCEPT ![t].at = "dst"] /\ UNCHANGED <<job, blocks, sjobs, fresh>>
    <3>1. PICK c : c = [boot[t] EXCEPT !.at = "dst"]
      BY Zenon
    <3>2. boot' = [boot EXCEPT ![t] = c]
      BY <2>1, <3>1, BootLocal, Zenon
    <3> QED BY <1>3, <2>1, <3>1, <3>2, Zenon
  <2> QED BY <1>1, <1>2, <1>6, <2>1, ZenonT(30) DEF BootCerts
<1>7. CASE BootDestination(t)
  <2>1. ASSUME NEW known \in BOOLEAN, BootGoes(t, [boot[t] EXCEPT !.at = "sources", !.i = 1, !.disk = known]) PROVE WholeInv'
    <3>1. PICK c : c = [boot[t] EXCEPT !.at = "sources", !.i = 1, !.disk = known]
      BY Zenon
    <3>2. boot' = [boot EXCEPT ![t] = c] /\ UNCHANGED <<job, blocks, sjobs, fresh>>
      BY <2>1, <3>1, Zenon DEF BootGoes
    <3>3. c \in BootLocals(blocks, StoragesOfJob) /\ c.mine = boot[t].mine /\ c.src = boot[t].src /\ c.at = "sources"
      BY <3>1, BootLocal, ZenonT(30) DEF BootLocals, BootStages
    <3> QED BY <1>0, <3>2, <3>3, WholeStage, Zenon
  <2> QED BY <1>1, <1>7, <2>1, Zenon DEF BootDestination
<1> QED BY <1>4, <1>5, <1>6, <1>7, Zenon

\* The storages of a job in the order of their keys: each of them once
LEMMA KeysOfJob ==
    ASSUME NEW r \in RawJobs
    PROVE  /\ IsFiniteSet(StoragesOf(r.sources)) /\ Cardinality(StoragesOf(r.sources)) \in Nat
           /\ StorageKeys(r.sources) \in Bijection(1..Cardinality(StoragesOf(r.sources)), StoragesOf(r.sources))
           /\ StorageKeys(r.sources) \in Seq(StoragesOf(r.sources))
<1> DEFINE X == StoragesOf(r.sources)
<1>1. r.sources \in Seq(Range(r.sources))
  BY SubmissionConstants, Zenon
<1>2. DOMAIN r.sources = 1..Len(r.sources) /\ Len(r.sources) \in Nat
  BY <1>1
<1>3. IsFiniteSet(DOMAIN r.sources)
  BY <1>2, FS_Interval
<1>4. IsFiniteSet(X)
  <2>1. PICK f : f = [i \in DOMAIN r.sources |-> r.sources[i].storage]
    BY Zenon
  <2>2. f \in Surjection(DOMAIN r.sources, X)
    BY <2>1, Zenon DEF Surjection, StoragesOf
  <2> QED BY <1>3, <2>2, FS_Surjection, Zenon
<1>5. Cardinality(X) \in Nat /\ ExistsBijection(1..Cardinality(X), X)
  BY <1>4, FS_CardinalityType, Zenon
<1>6. StorageKeys(r.sources) \in Bijection(1..Cardinality(X), X)
  BY <1>5, Zenon DEF StorageKeys, ExistsBijection
<1> HIDE DEF X
<1>7. StorageKeys(r.sources) \in [1..Cardinality(X) -> X]
  BY <1>6, Zenon DEF Bijection, Injection
<1>8. StorageKeys(r.sources) \in Seq(X)
  BY <1>5, <1>7
<1> QED BY <1>4, <1>5, <1>6, <1>8, Zenon DEF X

\* The sources are read one after the other, then the storages are known.
LEMMA WholeSource ==
    ASSUME WholeInv, NEW t \in SubThreads, BootSource(t)
    PROVE  WholeInv'
<1>0. boot[t].at = "sources" /\ job \in RawJobs
  BY Zenon DEF BootSource, WholeInv
<1>1. CASE BootFails(t)
  BY <1>0, <1>1, WholeFails, Zenon
<1>2. ASSUME NEW c \in BootLocals(blocks, StoragesOfJob), c.mine = boot[t].mine, c.src = boot[t].src,
             c.at \in {"sources", "expand"}, BootGoes(t, c)
      PROVE  WholeInv'
  BY <1>0, <1>2, WholeStage, Zenon DEF BootGoes
<1>3. CASE BootGoes(t, [boot[t] EXCEPT !.at = "expand", !.i = 0, !.left = StorageKeys(job.sources)])
  <2>1. PICK c : c = [boot[t] EXCEPT !.at = "expand", !.i = 0, !.left = StorageKeys(job.sources)]
    BY Zenon
  <2>2. StorageKeys(job.sources) \in Seq(StoragesOfJob)
    BY <1>0, KeysOfJob, Zenon DEF StoragesOfJob
  <2>3. c \in BootLocals(blocks, StoragesOfJob) /\ c.mine = boot[t].mine /\ c.src = boot[t].src /\ c.at = "expand"
    BY <2>1, <2>2, BootLocal, ZenonT(30) DEF BootLocals, BootStages
  <2>4. BootGoes(t, c)
    BY <1>3, <2>1, Zenon
  <2> QED BY <1>2, <2>3, <2>4, Zenon
<1>4. CASE BootGoes(t, [boot[t] EXCEPT !.i = @ + 1])
  <2>1. PICK c : c = [boot[t] EXCEPT !.i = @ + 1]
    BY Zenon
  <2>a. boot[t] \in BootLocals(blocks, StoragesOfJob)
    BY BootLocal, Zenon
  <2>b. boot[t].i \in Nat
    BY <2>a, Zenon DEF BootLocals
  <2>2. boot[t].i + 1 \in Nat
    BY <2>b
  <2>3. c \in BootLocals(blocks, StoragesOfJob) /\ c.mine = boot[t].mine /\ c.src = boot[t].src /\ c.at = "sources"
    BY <1>0, <2>1, <2>2, <2>a, ZenonT(30) DEF BootLocals
  <2>4. BootGoes(t, c)
    BY <1>4, <2>1, Zenon
  <2> QED BY <1>2, <2>3, <2>4, Zenon
<1> QED BY <1>1, <1>3, <1>4, Zenon DEF BootSource

\* The answer for a storage gives the sizes of its groups.
LEMMA WholeGroups ==
    ASSUME WholeInv, NEW t \in SubThreads, boot[t].at = "expand", boot[t].left # <<>>,
           NEW groups \in Seq(Nat), BootGroups(t, groups)
    PROVE  WholeInv'
<1>1. PICK c : c = [boot[t] EXCEPT !.at = "blocks", !.groups = groups, !.total = SumFunction(groups)]
  BY Zenon
<1>2. boot' = [boot EXCEPT ![t] = c] /\ UNCHANGED <<job, blocks, sjobs, fresh>>
  BY <1>1, Zenon DEF BootGroups, BootGoes
<1>3. SumFunction(groups) \in Int
  <2>0. Len(groups) \in Int /\ 1 \in Int
    OBVIOUS
  <2>1. IsFiniteSet(1..Len(groups))
    BY <2>0, FS_Interval, Zenon
  <2>2. groups \in [1..Len(groups) -> Int]
    OBVIOUS
  <2> QED BY <2>1, <2>2, SumWhole, ZenonT(30)
<1>4. c \in BootLocals(blocks, StoragesOfJob) /\ c.mine = boot[t].mine /\ c.src = boot[t].src /\ c.at = "blocks"
      /\ c.left = boot[t].left /\ c.total = SumFunction(groups) /\ c.groups = groups
  BY <1>1, <1>3, BootLocal, ZenonT(30) DEF BootLocals, BootStages
<1>5. boot[t].mine = <<>> /\ Range(boot[t].mine) = {}
  <2>1. boot[t].mine = <<>>
    BY BootLocal, Zenon DEF BootWhole
  <2>2. Range(<<>>) = {}
    BY DEF Range
  <2> QED BY <2>1, <2>2, Zenon
<1>6. TotalSize(Range(c.mine)) = 0
  <2>1. PICK f : f = [b \in {} |-> b.size]
    BY Zenon
  <2>2. f \in [{} -> Int]
    BY <2>1, Zenon
  <2>3. SumFunction(f) = 0
    BY <2>2, SumWhole, FS_EmptySet, Zenon
  <2> QED BY <1>4, <1>5, <2>1, <2>3, ZenonT(30) DEF TotalSize
<1>7. BootWhole(c)
  <2>1. c.total = SumFunction(c.groups) + TotalSize(Range(c.mine))
    BY <1>3, <1>4, <1>6
  <2>2. \A b \in Range(c.mine) : b.storage = Head(c.left)
    BY <1>4, <1>5, Zenon
  <2> QED BY <1>4, <2>1, <2>2, ZenonT(30) DEF BootWhole
<1>8. BootApart(c) /\ Held(c) = Held(boot[t])
  <2>1. BootApart(boot[t])
    BY BootLocal, Zenon
  <2> QED BY <1>4, <2>1, ZenonT(30) DEF BootApart, Held
<1> QED BY <1>2, <1>4, <1>7, <1>8, WholeMoves, ZenonT(30) DEF BootOK

\* The process ends: no run is left.
LEMMA WholeEnds ==
    ASSUME WholeInv, boot' = [t \in SubThreads |-> NoBoot], UNCHANGED <<job, blocks, sjobs, fresh>>
    PROVE  WholeInv'
<1>1. StoragesOfJob' = StoragesOfJob
  BY Zenon DEF StoragesOfJob
<1>2. \A t \in SubThreads : boot'[t] = NoBoot
  BY Zenon
<1> QED BY <1>1, <1>2, NoBootOK, ZenonT(30) DEF WholeInv

\* The two ways to get the groups of a storage
LEMMA WholeExpands ==
    ASSUME WholeInv, NEW t \in SubThreads, BootExpand(t) \/ BootDataset(t)
    PROVE  WholeInv'
<1>0. boot[t].at = "expand" /\ boot[t].left # <<>> /\ job \in RawJobs
  BY Zenon DEF BootExpand, BootDataset, WholeInv
<1>1. CASE BootFails(t)
  BY <1>0, <1>1, WholeFails, ZenonT(30)
<1>2. CASE BootsEnd
  BY <1>2, WholeEnds, ZenonT(30) DEF BootsEnd
<1>3. PICK s : s = Head(boot[t].left)
  BY Zenon
<1>4. s \in StoragesOfJob
  <2>1. boot[t].left \in Seq(StoragesOfJob)
    BY BootLocal, Zenon DEF BootLocals
  <2> QED BY <1>0, <1>3, <2>1
<1>5. GroupsOf[s] \in Seq(Nat) /\ FileSize[s] \in Nat
  BY <1>0, <1>4, SubmissionConstants, ZenonT(30) DEF StoragesOfJob, StoragesOf
<1>6. CASE BootGroups(t, GroupsOf[s])
  BY <1>0, <1>5, <1>6, WholeGroups, ZenonT(30)
<1>7. CASE BootDataset(t)
  <2>1. PICK files : files = {i \in DOMAIN job.sources : job.sources[i].storage = s}
    BY Zenon
  <2>2. BootGroups(t, <<Cardinality(files) * FileSize[s]>>)
    BY <1>3, <1>7, <2>1, Zenon DEF BootDataset
  <2>3. IsFiniteSet(files)
    <3>1. job.sources \in Seq(Range(job.sources))
      BY <1>0, SubmissionConstants, Zenon
    <3>2. DOMAIN job.sources = 1..Len(job.sources) /\ Len(job.sources) \in Nat
      BY <3>1
    <3>3. IsFiniteSet(DOMAIN job.sources)
      BY <3>2, FS_Interval
    <3>4. files \subseteq DOMAIN job.sources
      BY <2>1, Zenon
    <3> QED BY <3>3, <3>4, FS_Subset, Zenon
  <2>4. Cardinality(files) \in Nat
    BY <2>3, FS_CardinalityType, Zenon
  <2>5. Cardinality(files) * FileSize[s] \in Nat
    BY <1>5, <2>4
  <2>6. <<Cardinality(files) * FileSize[s]>> \in Seq(Nat)
    BY <2>5
  <2> QED BY <1>0, <2>2, <2>6, WholeGroups, ZenonT(30)
<1> QED BY <1>1, <1>2, <1>3, <1>6, <1>7, ZenonT(30) DEF BootExpand

\* A run inserts a document of a block that is in no other document.
LEMMA WholeAdds ==
    ASSUME WholeInv, NEW t \in SubThreads, NEW new, new \notin blocks, NEW c, BootOK(c, blocks \cup {new}, StoragesOfJob),
           Held(c) \subseteq Held(boot[t]) \cup {new}, BlockDocs(blocks', fresh'),
           blocks' = blocks \cup {new}, boot' = [boot EXCEPT ![t] = c], UNCHANGED <<job, sjobs>>
    PROVE  WholeInv'
<1>1. boot' = [u \in SubThreads |-> boot'[u]] /\ \A u \in SubThreads : boot'[u] = IF u = t THEN c ELSE boot[u]
  BY Zenon DEF WholeInv
<1>2. StoragesOfJob' = StoragesOfJob
  BY Zenon DEF StoragesOfJob
<1>3. blocks \subseteq blocks'
  BY Zenon
<1>4. SjobDocs(blocks, StoragesOfJob) \subseteq SjobDocs(blocks', StoragesOfJob)
  BY <1>3, DocsGrow, Zenon
<1>5. \A u \in SubThreads : BootOK(boot'[u], blocks', StoragesOfJob)
  <2> TAKE u \in SubThreads
  <2>1. CASE u = t
    BY <1>1, <2>1, Zenon
  <2>2. CASE u # t
    <3>1. BootOK(boot[u], blocks, StoragesOfJob) /\ boot'[u] = boot[u]
      BY <1>1, <2>2, Zenon DEF WholeInv
    <3> QED BY <1>3, <3>1, DocsGrow
  <2> QED BY <2>1, <2>2, ZenonT(30)
<1>6. \A u \in SubThreads : Held(boot[u]) \subseteq blocks
  BY HeldStored, Zenon DEF WholeInv
<1>7. \A s \in sjobs : s.blocks \subseteq blocks
  BY Zenon DEF WholeInv, SjobDocs
<1>8. \A u \in SubThreads : Held(boot'[u]) \subseteq Held(boot[u]) \cup (IF u = t THEN {new} ELSE {})
  BY <1>1, Zenon
<1>9. \A u, v \in SubThreads : u # v => Held(boot'[u]) \cap Held(boot'[v]) = {}
  BY <1>6, <1>8 DEF WholeInv
<1>10. \A u \in SubThreads : \A s \in sjobs' : Held(boot'[u]) \cap s.blocks = {}
  BY <1>7, <1>8 DEF WholeInv
<1> QED BY <1>1, <1>2, <1>4, <1>5, <1>9, <1>10, ZenonT(30) DEF WholeInv

\* One more group of a storage becomes a document.
LEMMA WholeBlock ==
    ASSUME WholeInv, NEW t \in SubThreads, BootBlock(t), boot[t].groups # <<>>
    PROVE  WholeInv'
<1>0. boot[t].at = "blocks"
  BY Zenon DEF BootBlock
<1>1. PICK new : new = [id |-> fresh, storage |-> Head(boot[t].left), size |-> Head(boot[t].groups)]
  BY Zenon
<1>2. PICK c : c = [boot[t] EXCEPT !.groups = Tail(@), !.mine = Append(@, new)]
  BY Zenon
<1>3. blocks' = blocks \cup {new} /\ fresh' = fresh + 1 /\ UNCHANGED <<job, sjobs>>
      /\ boot' = [boot EXCEPT ![t] = c]
  BY <1>1, <1>2, BootLocal, ZenonT(30) DEF BootBlock
<1>4. /\ boot[t] \in BootLocals(blocks, StoragesOfJob) /\ BootWhole(boot[t]) /\ BootApart(boot[t])
      /\ Held(boot[t]) \subseteq blocks /\ BlockDocs(blocks, fresh)
  BY BootLocal, HeldStored, ZenonT(30) DEF WholeInv
<1>5. PICK g, m : g = boot[t].groups /\ m = boot[t].mine
  BY Zenon
<1>6. g \in Seq(Nat) /\ g # <<>> /\ m \in Seq(blocks)
  BY <1>4, <1>5, ZenonT(30) DEF BootLocals
<1>7. Head(g) \in Nat /\ Tail(g) \in Seq(Nat) /\ g \in Seq(Int)
  BY <1>6
<1>8. new.size = Head(g) /\ new.id = fresh /\ new.storage = Head(boot[t].left)
  BY <1>1, <1>5, ZenonT(30)
<1>9. new \notin blocks
  BY <1>4, <1>8 DEF BlockDocs
<1>10. BlockDocs(blocks', fresh')
  <2>1. IsFiniteSet(blocks') /\ fresh' \in Nat
    BY <1>3, <1>4, FS_AddElement DEF BlockDocs
  <2>2. \A b \in blocks : b.id \in Nat /\ b.id < fresh /\ b.size \in Int /\ fresh \in Nat
    BY <1>4, Zenon DEF BlockDocs
  <2>3. \A b \in blocks' : b.id \in Nat /\ b.id < fresh' /\ b.size \in Int
    <3> TAKE b \in blocks'
    <3>1. CASE b = new
      <4>1. fresh \in Nat
        BY <1>4, Zenon DEF BlockDocs
      <4> QED BY <1>3, <1>7, <1>8, <3>1, <4>1
    <3>2. CASE b \in blocks
      BY <1>3, <2>2, <3>2
    <3> QED BY <1>3, <3>1, <3>2, Zenon
  <2> QED BY <2>1, <2>3, ZenonT(30) DEF BlockDocs
<1>11. Range(Append(m, new)) = Range(m) \cup {new} /\ Append(m, new) \in Seq(blocks \cup {new})
  <2>1. m \in Seq(blocks \cup {new})
    BY <1>6
  <2>2. Append(m, new) \in Seq(blocks \cup {new}) /\ Len(Append(m, new)) = Len(m) + 1
        /\ \A i \in 1..Len(m) : Append(m, new)[i] = m[i]
        /\ Append(m, new)[Len(m) + 1] = new
    BY <2>1
  <2>3. Len(m) \in Nat /\ DOMAIN m = 1..Len(m) /\ DOMAIN Append(m, new) = 1..(Len(m) + 1)
    BY <2>1, <2>2
  <2>4. 1..(Len(m) + 1) = (1..Len(m)) \cup {Len(m) + 1}
    BY <2>3
  <2> QED BY <2>2, <2>3, <2>4 DEF Range
<1>12. c.mine = Append(m, new) /\ c.groups = Tail(g) /\ c.at = "blocks" /\ c.left = boot[t].left
       /\ c.total = boot[t].total /\ c.src = boot[t].src /\ c \in BootLocals(blocks \cup {new}, StoragesOfJob)
  <2>1. boot[t] \in BootLocals(blocks \cup {new}, StoragesOfJob)
    <3>1. BootOK(boot[t], blocks, StoragesOfJob)
      BY <1>4, Zenon DEF BootOK
    <3>2. BootOK(boot[t], blocks \cup {new}, StoragesOfJob)
      BY <3>1, DocsGrow, ZenonT(30)
    <3> QED BY <3>2, Zenon DEF BootOK
  <2> QED BY <1>0, <1>2, <1>5, <1>7, <1>11, <2>1, Zenon DEF BootLocals
<1>13. Range(m) \subseteq blocks /\ IsFiniteSet(Range(m)) /\ new \notin Range(m) /\ (\A b \in Range(m) : b.size \in Int)
  <2>1. Range(m) \subseteq blocks
    BY <1>6 DEF Range
  <2> QED BY <1>4, <1>9, <2>1, FS_Subset, ZenonT(30) DEF BlockDocs
<1>14. TotalSize(Range(c.mine)) = Head(g) + TotalSize(Range(m)) /\ TotalSize(Range(m)) \in Int
  <2>1. PICK T : T = Range(m)
    BY Zenon
  <2>2. IsFiniteSet(T) /\ new \notin T /\ new.size \in Int /\ (\A b \in T : b.size \in Int)
    BY <1>7, <1>8, <1>13, <2>1
  <2>3. TotalSize(T \cup {new}) = new.size + TotalSize(T) /\ TotalSize(T) \in Int
    BY <2>2, SumAdds, ZenonT(30) DEF TotalSize
  <2>4. Range(c.mine) = T \cup {new}
    BY <1>11, <1>12, <2>1, ZenonT(30)
  <2> QED BY <1>8, <2>1, <2>3, <2>4, Zenon
<1>15. SumFunction(g) = Head(g) + SumFunction(Tail(g)) /\ SumFunction(Tail(g)) \in Int
  BY <1>6, <1>7, SumTail, ZenonT(30)
<1>16. BootWhole(c)
  <2>1. c.left # <<>> /\ \A b \in Range(m) : b.storage = Head(c.left)
    BY <1>0, <1>4, <1>5, <1>12, ZenonT(30) DEF BootWhole
  <2>2. \A b \in Range(c.mine) : b.storage = Head(c.left)
    BY <1>8, <1>11, <1>12, <2>1, ZenonT(30)
  <2>3. c.total = SumFunction(g) + TotalSize(Range(m))
    BY <1>0, <1>4, <1>5, <1>12, ZenonT(30) DEF BootWhole
  <2>4. c.total = SumFunction(c.groups) + TotalSize(Range(c.mine))
    BY <1>7, <1>12, <1>14, <1>15, <2>3
  <2> QED BY <1>12, <2>1, <2>2, <2>4, ZenonT(30) DEF BootWhole
<1>17. Held(c) = Held(boot[t]) \cup {new}
  BY <1>5, <1>11, <1>12, ZenonT(30) DEF Held
<1>18. BootApart(c)
  <2>1. \A i \in DOMAIN c.src : Range(c.src[i].blocks) \subseteq blocks
    BY <1>4, <1>12, ZenonT(30) DEF Held
  <2> QED BY <1>4, <1>5, <1>9, <1>11, <1>12, <2>1, ZenonT(30) DEF BootApart
<1> QED BY <1>3, <1>9, <1>10, <1>12, <1>16, <1>17, <1>18, WholeAdds, ZenonT(30) DEF BootOK

\* After the last group the storage is done: its blocks make the size that was asked.
LEMMA WholeStorage ==
    ASSUME WholeInv, NEW t \in SubThreads, BootBlock(t), boot[t].groups = <<>>
    PROVE  WholeInv'
<1>0. boot[t].at = "blocks"
  BY Zenon DEF BootBlock
<1>1. CASE BootsEnd
  BY <1>1, WholeEnds, ZenonT(30) DEF BootsEnd
<1>2. ASSUME NEW doc, doc = [storage |-> Head(boot[t].left), size |-> boot[t].total, blocks |-> boot[t].mine],
             NEW c, c = [boot[t] EXCEPT !.at = "expand", !.left = Tail(@), !.total = 0, !.mine = <<>>, !.src = Append(@, doc)],
             boot' = [boot EXCEPT ![t] = c], UNCHANGED <<job, blocks, sjobs, fresh>>
      PROVE  WholeInv'
  <2>1. boot[t] \in BootLocals(blocks, StoragesOfJob) /\ BootWhole(boot[t]) /\ BootApart(boot[t]) /\ BlockDocs(blocks, fresh)
    BY BootLocal, Zenon DEF WholeInv
  <2>2. PICK l, m, d : l = boot[t].left /\ m = boot[t].mine /\ d = boot[t].src
    BY Zenon
  <2>3. l \in Seq(StoragesOfJob) /\ m \in Seq(blocks) /\ d \in Seq(SourceDocs(blocks, StoragesOfJob)) /\ boot[t].total \in Int
    BY <2>1, <2>2, ZenonT(30) DEF BootLocals
  <2>4. l # <<>> /\ boot[t].total = SumFunction(<<>>) + TotalSize(Range(m)) /\ \A b \in Range(m) : b.storage = Head(l)
    BY <1>0, <2>1, <2>2, ZenonT(30) DEF BootWhole
  <2>5. SumFunction(<<>>) = 0
    <3>1. IsFiniteSet({}) /\ <<>> \in [{} -> Int]
      BY FS_EmptySet
    <3> QED BY <3>1, SumWhole, ZenonT(30)
  <2>6. TotalSize(Range(m)) \in Int
    <3>1. PICK T : T = Range(m)
      BY Zenon
    <3>2. T \subseteq blocks
      BY <2>3, <3>1 DEF Range
    <3>3. IsFiniteSet(T) /\ \A b \in T : b.size \in Int
      BY <2>1, <3>2, FS_Subset, ZenonT(30) DEF BlockDocs
    <3>4. [b \in T |-> b.size] \in [T -> Int]
      BY <3>3, Zenon
    <3>5. TotalSize(T) \in Int
      BY <3>3, <3>4, SumWhole, ZenonT(30) DEF TotalSize
    <3> QED BY <3>1, <3>5, Zenon
  <2>7. boot[t].total = TotalSize(Range(m))
    BY <2>4, <2>5, <2>6
  <2>8. doc.storage = Head(l) /\ doc.size = boot[t].total /\ doc.blocks = m /\ Head(l) \in StoragesOfJob /\ Tail(l) \in Seq(StoragesOfJob)
    BY <1>2, <2>2, <2>3, <2>4
  <2>9. doc \in SourceDocs(blocks, StoragesOfJob)
    <3>1. doc \in [storage : StoragesOfJob, size : Int, blocks : Seq(blocks)]
      BY <1>2, <2>2, <2>3, <2>8, ZenonT(30)
    <3>2. (\A b \in Range(doc.blocks) : b.storage = doc.storage) /\ doc.size = TotalSize(Range(doc.blocks))
      BY <2>4, <2>7, <2>8, ZenonT(30)
    <3> QED BY <3>1, <3>2, ZenonT(30) DEF SourceDocs
  <2>10. Append(d, doc) \in Seq(SourceDocs(blocks, StoragesOfJob))
    BY <2>3, <2>9
  <2>11. /\ Len(d) \in Nat /\ DOMAIN d = 1..Len(d) /\ DOMAIN Append(d, doc) = 1..(Len(d) + 1)
         /\ (\A i \in 1..Len(d) : Append(d, doc)[i] = d[i]) /\ Append(d, doc)[Len(d) + 1] = doc
    BY <2>3, <2>9
  <2>12. c.at = "expand" /\ c.mine = <<>> /\ c.src = Append(d, doc) /\ c \in BootLocals(blocks, StoragesOfJob)
    <3>1. boot[t] = [at |-> boot[t].at, i |-> boot[t].i, left |-> boot[t].left, groups |-> boot[t].groups,
                     total |-> boot[t].total, mine |-> boot[t].mine, src |-> boot[t].src, disk |-> boot[t].disk]
      BY BootLocal, Zenon
    <3>2. c = [at |-> "expand", i |-> boot[t].i, left |-> Tail(l), groups |-> boot[t].groups,
               total |-> 0, mine |-> <<>>, src |-> Append(d, doc), disk |-> boot[t].disk]
      BY <1>2, <2>2, <3>1, Zenon
    <3>3. boot[t].i \in Nat /\ boot[t].groups \in Seq(Nat) /\ boot[t].disk \in BOOLEAN /\ <<>> \in Seq(blocks)
      BY <2>1 DEF BootLocals
    <3> QED BY <2>8, <2>10, <3>2, <3>3 DEF BootLocals, BootStages
  <2>13. BootWhole(c)
    BY <2>12, Zenon DEF BootWhole
  <2>14. \A i \in 1..(Len(d) + 1) : i \in 1..Len(d) \/ i = Len(d) + 1
    BY <2>11
  <2>15. Range(<<>>) = {}
    BY DEF Range
  <2>16. Held(c) = Held(boot[t])
    <3>1. Held(c) = UNION {Range(Append(d, doc)[i].blocks) : i \in 1..(Len(d) + 1)}
      BY <2>11, <2>12, <2>15, ZenonT(30) DEF Held
    <3>2. Held(boot[t]) = Range(m) \cup UNION {Range(d[i].blocks) : i \in 1..Len(d)}
      BY <2>2, <2>11, ZenonT(30) DEF Held
    <3>3. Len(d) + 1 \in 1..(Len(d) + 1) /\ 1..Len(d) \subseteq 1..(Len(d) + 1)
      BY <2>11
    <3>4. \A b : b \in Held(c) <=> \E i \in 1..(Len(d) + 1) : b \in Range(Append(d, doc)[i].blocks)
      BY <3>1, Zenon
    <3>5. \A b : b \in Held(boot[t]) <=> b \in Range(m) \/ \E i \in 1..Len(d) : b \in Range(d[i].blocks)
      BY <3>2, Zenon
    <3>6. \A b : b \in Held(c) <=> b \in Held(boot[t])
      BY <2>8, <2>11, <2>14, <3>3, <3>4, <3>5, ZenonT(30)
    <3> QED BY <3>6, Zenon
  <2>17. BootApart(c)
    <3>1. /\ \A i, j \in 1..Len(d) : i # j => Range(d[i].blocks) \cap Range(d[j].blocks) = {}
          /\ \A i \in 1..Len(d) : Range(m) \cap Range(d[i].blocks) = {}
      BY <2>1, <2>2, <2>11, ZenonT(30) DEF BootApart
    <3>2. \A i, j \in 1..(Len(d) + 1) : i # j => Range(Append(d, doc)[i].blocks) \cap Range(Append(d, doc)[j].blocks) = {}
      <4> SUFFICES ASSUME NEW i \in 1..(Len(d) + 1), NEW j \in 1..(Len(d) + 1), i # j
                   PROVE  Range(Append(d, doc)[i].blocks) \cap Range(Append(d, doc)[j].blocks) = {}
        BY Zenon
      <4>1. CASE i \in 1..Len(d) /\ j \in 1..Len(d)
        BY <2>11, <3>1, <4>1, ZenonT(30)
      <4>2. CASE i \in 1..Len(d) /\ j = Len(d) + 1
        BY <2>8, <2>11, <3>1, <4>2, ZenonT(30)
      <4>3. CASE i = Len(d) + 1 /\ j \in 1..Len(d)
        BY <2>8, <2>11, <3>1, <4>3, ZenonT(30)
      <4> QED BY <2>14, <4>1, <4>2, <4>3, ZenonT(30)
    <3> QED BY <2>11, <2>12, <2>15, <3>2, ZenonT(30) DEF BootApart
  <2> QED BY <1>2, <2>12, <2>13, <2>16, <2>17, WholeMoves, ZenonT(30) DEF BootOK
<1>3. PICK doc : doc = SourceDoc(t)
  BY Zenon
<1>4. PICK c : c = [boot[t] EXCEPT !.at = "expand", !.left = Tail(@), !.total = 0, !.mine = <<>>, !.src = Append(@, doc)]
  BY Zenon
<1>5. BootsEnd \/ (boot' = [boot EXCEPT ![t] = c] /\ UNCHANGED <<job, blocks, sjobs, fresh>>)
  BY <1>3, <1>4, Zenon DEF BootBlock, BootGoes
<1> QED BY <1>1, <1>2, <1>3, <1>4, <1>5, ZenonT(30) DEF SourceDoc

\* The size of the job is written; a job without storages fails.
LEMMA WholeSize ==
    ASSUME WholeInv, NEW t \in SubThreads, BootSize(t)
    PROVE  WholeInv'
<1>1. PICK a : a = IF boot[t].src = <<>> THEN "fail" ELSE "delete"
  BY Zenon
<1>2. PICK c : c = [boot[t] EXCEPT !.at = a]
  BY Zenon
<1>3. boot' = [boot EXCEPT ![t] = c] /\ UNCHANGED <<job, blocks, sjobs, fresh>> /\ boot[t].at = "expand"
  BY <1>1, <1>2, BootLocal, ZenonT(30) DEF BootSize
<1>4. c \in BootLocals(blocks, StoragesOfJob) /\ c.mine = boot[t].mine /\ c.src = boot[t].src /\ c.at = a
  BY <1>1, <1>2, BootLocal, ZenonT(30) DEF BootLocals, BootStages
<1> QED BY <1>1, <1>3, <1>4, WholeStage, ZenonT(30)

\* The sjobs of an earlier run go.
LEMMA WholeDeletes ==
    ASSUME WholeInv, NEW t \in SubThreads, BootDeletes(t)
    PROVE  WholeInv'
<1>1. PICK c : c = [boot[t] EXCEPT !.at = "insert"]
  BY Zenon
<1>2. boot' = [boot EXCEPT ![t] = c] /\ UNCHANGED <<job, blocks, fresh>> /\ boot[t].at = "delete" /\ sjobs' = {}
  BY <1>1, BootLocal, ZenonT(30) DEF BootDeletes
<1>3. c \in BootLocals(blocks, StoragesOfJob) /\ c.mine = boot[t].mine /\ c.src = boot[t].src /\ c.at = "insert"
  BY <1>1, BootLocal, ZenonT(30) DEF BootLocals, BootStages
<1>4. boot[t].src # <<>> /\ boot[t].mine = <<>> /\ BootApart(boot[t])
  BY <1>2, BootLocal, Zenon DEF BootWhole
<1>5. BootOK(c, blocks, StoragesOfJob) /\ Held(c) = Held(boot[t])
  BY <1>3, <1>4, ZenonT(30) DEF BootOK, BootWhole, BootApart, Held
<1>6. boot' = [u \in SubThreads |-> boot'[u]] /\ \A u \in SubThreads : boot'[u] = IF u = t THEN c ELSE boot[u]
  BY <1>2, Zenon DEF WholeInv
<1>7. \A u \in SubThreads : BootOK(boot'[u], blocks, StoragesOfJob) /\ Held(boot'[u]) = Held(boot[u])
  BY <1>5, <1>6, Zenon DEF WholeInv
<1>8. StoragesOfJob' = StoragesOfJob
  BY <1>2, Zenon DEF StoragesOfJob
<1> QED BY <1>2, <1>6, <1>7, <1>8, Zenon DEF WholeInv

\* The next storage of a run becomes an sjob: its blocks are no longer held by the run.
LEMMA WholeInserts ==
    ASSUME WholeInv, NEW t \in SubThreads, BootInserts(t)
    PROVE  WholeInv'
<1>1. PICK d, s : d = boot[t].src /\ s = Head(d)
  BY Zenon
<1>2. PICK c : c = IF Len(d) = 1 THEN NoBoot ELSE [boot[t] EXCEPT !.src = Tail(d)]
  BY Zenon
<1>3. PICK n : n = [id |-> fresh, storage |-> s.storage, size |-> s.size, blocks |-> Range(s.blocks), state |-> "bootstrap"]
  BY Zenon
<1>4. boot' = [boot EXCEPT ![t] = c] /\ UNCHANGED <<job, blocks>> /\ boot[t].at = "insert" /\ sjobs' = sjobs \cup {n} /\ fresh' = fresh + 1
  <2>1. boot' = [boot EXCEPT ![t] = IF Len(boot[t].src) = 1 THEN NoBoot ELSE [boot[t] EXCEPT !.src = Tail(boot[t].src)]]
    BY BootLocal, Zenon DEF BootInserts
  <2>2. boot' = [boot EXCEPT ![t] = c]
    BY <1>1, <1>2, <2>1, ZenonT(30)
  <2>3. UNCHANGED <<job, blocks>> /\ boot[t].at = "insert" /\ sjobs' = sjobs \cup {n} /\ fresh' = fresh + 1
    BY <1>1, <1>3, ZenonT(30) DEF BootInserts
  <2> QED BY <2>2, <2>3, Zenon
<1>5. /\ boot[t] \in BootLocals(blocks, StoragesOfJob) /\ BootWhole(boot[t]) /\ BootApart(boot[t])
      /\ BlockDocs(blocks, fresh) /\ Held(boot[t]) \subseteq blocks
  BY BootLocal, HeldStored, ZenonT(30) DEF WholeInv
<1>6. d # <<>> /\ boot[t].mine = <<>> /\ d \in Seq(SourceDocs(blocks, StoragesOfJob))
  BY <1>1, <1>4, <1>5, ZenonT(30) DEF BootWhole, BootLocals
<1>7. /\ Len(d) \in Nat /\ Len(d) >= 1 /\ DOMAIN d = 1..Len(d) /\ s = d[1] /\ s \in SourceDocs(blocks, StoragesOfJob)
      /\ Tail(d) \in Seq(SourceDocs(blocks, StoragesOfJob)) /\ DOMAIN Tail(d) = 1..(Len(d) - 1)
      /\ \A i \in 1..(Len(d) - 1) : Tail(d)[i] = d[i + 1]
  BY <1>1, <1>6
<1>8. BlockDocs(blocks', fresh') /\ fresh \in Nat
  BY <1>4, <1>5 DEF BlockDocs
<1>9. n \in SjobDocs(blocks, StoragesOfJob) /\ n.blocks = Range(s.blocks)
  <2>1. /\ s.storage \in StoragesOfJob /\ s.size \in Int /\ s.blocks \in Seq(blocks)
        /\ (\A b \in Range(s.blocks) : b.storage = s.storage) /\ s.size = TotalSize(Range(s.blocks))
    BY <1>7, Zenon DEF SourceDocs
  <2>2. Range(s.blocks) \subseteq blocks
    BY <2>1 DEF Range
  <2> QED BY <1>3, <1>8, <2>1, <2>2, ZenonT(30) DEF SjobDocs
<1>10. \A i \in 1..(Len(d) - 1) : i + 1 \in 1..Len(d) /\ i + 1 # 1
  BY <1>7
<1>11. Range(<<>>) = {}
  BY DEF Range
<1>12. /\ \A i, j \in 1..Len(d) : i # j => Range(d[i].blocks) \cap Range(d[j].blocks) = {}
       /\ \A i \in 1..Len(d) : Range(d[i].blocks) \subseteq Held(boot[t])
  BY <1>1, <1>5, <1>7, ZenonT(30) DEF BootApart, Held
<1>13. BootOK(c, blocks, StoragesOfJob) /\ Held(c) \subseteq Held(boot[t]) /\ Held(c) \cap n.blocks = {}
  <2>1. CASE Len(d) = 1
    BY <1>2, <2>1, NoBootOK, Zenon
  <2>2. CASE Len(d) # 1
    <3>1. c = [boot[t] EXCEPT !.src = Tail(d)]
      BY <1>2, <2>2, Zenon
    <3>2. c.at = "insert" /\ c.mine = <<>> /\ c.src = Tail(d) /\ c \in BootLocals(blocks, StoragesOfJob)
      BY <1>4, <1>5, <1>6, <1>7, <3>1, ZenonT(30) DEF BootLocals
    <3>3. Tail(d) # <<>>
      <4>1. 1 \in DOMAIN Tail(d)
        BY <1>7, <2>2
      <4> QED BY <4>1
    <3>4. BootWhole(c)
      BY <3>2, <3>3, Zenon DEF BootWhole
    <3>5. BootApart(c)
      <4>1. \A i, j \in 1..(Len(d) - 1) : i # j => i + 1 # j + 1
        BY <1>7
      <4>2. \A i, j \in 1..(Len(d) - 1) : i # j => Range(Tail(d)[i].blocks) \cap Range(Tail(d)[j].blocks) = {}
        BY <1>7, <1>10, <1>12, <4>1, Zenon
      <4> QED BY <1>7, <1>11, <3>2, <4>2, Zenon DEF BootApart
    <3>6. \A b \in Held(c) : \E i \in 1..(Len(d) - 1) : b \in Range(d[i + 1].blocks)
      BY <1>7, <1>11, <3>2, ZenonT(30) DEF Held
    <3>7. \A i \in 1..(Len(d) - 1) : Range(d[i + 1].blocks) \cap Range(s.blocks) = {}
      <4>1. 1 \in 1..Len(d)
        BY <1>7
      <4> QED BY <1>7, <1>10, <1>12, <4>1, ZenonT(30)
    <3>8. Held(c) \subseteq Held(boot[t]) /\ Held(c) \cap n.blocks = {}
      BY <1>9, <1>10, <1>12, <3>6, <3>7
    <3> QED BY <3>2, <3>4, <3>5, <3>8, ZenonT(30) DEF BootOK
  <2> QED BY <2>1, <2>2, Zenon
<1>14. n.blocks \subseteq Held(boot[t])
  <2>1. 1 \in 1..Len(d)
    BY <1>7
  <2> QED BY <1>7, <1>9, <1>12, <2>1, ZenonT(30)
<1>15. boot' = [u \in SubThreads |-> boot'[u]] /\ \A u \in SubThreads : boot'[u] = IF u = t THEN c ELSE boot[u]
  BY <1>4, Zenon DEF WholeInv
<1>16. \A u \in SubThreads : BootOK(boot'[u], blocks, StoragesOfJob) /\ Held(boot'[u]) \subseteq Held(boot[u]) /\ Held(boot'[u]) \cap n.blocks = {}
  BY <1>13, <1>14, <1>15, ZenonT(30) DEF WholeInv
<1>17. StoragesOfJob' = StoragesOfJob
  BY <1>4, ZenonT(30) DEF StoragesOfJob
<1>18. \A u, v \in SubThreads : u # v => Held(boot'[u]) \cap Held(boot'[v]) = {}
  BY <1>16, Zenon DEF WholeInv
<1>19. \A u \in SubThreads : \A r \in sjobs' : Held(boot'[u]) \cap r.blocks = {}
  BY <1>4, <1>16, ZenonT(30) DEF WholeInv
<1>20. \A r, u \in sjobs' : r # u => r.blocks \cap u.blocks = {}
  BY <1>4, <1>14, ZenonT(30) DEF WholeInv
<1> QED BY <1>4, <1>8, <1>9, <1>15, <1>16, <1>17, <1>18, <1>19, <1>20, ZenonT(30) DEF WholeInv

\* schedule takes up an sjob: only its state changes.
LEMMA WholePickUp ==
    ASSUME WholeInv, SubmitPickUp
    PROVE  WholeInv'
<1>1. PICK s \in sjobs : sjobs' = (sjobs \ {s}) \cup {[s EXCEPT !.state = "matched"]}
  BY Zenon DEF SubmitPickUp
<1>2. PICK n : n = [s EXCEPT !.state = "matched"]
  BY Zenon
<1>3. sjobs' = (sjobs \ {s}) \cup {n} /\ UNCHANGED <<job, blocks, fresh, boot>>
  BY <1>1, <1>2, ZenonT(30) DEF SubmitPickUp
<1>4. n \in SjobDocs(blocks, StoragesOfJob) /\ n.blocks = s.blocks
  BY <1>2, ZenonT(30) DEF WholeInv, SjobDocs
<1>5. StoragesOfJob' = StoragesOfJob
  BY <1>3, Zenon DEF StoragesOfJob
<1>6. \A t \in SubThreads : \A r \in sjobs' : Held(boot[t]) \cap r.blocks = {}
  BY <1>3, <1>4, ZenonT(30) DEF WholeInv
<1>7. \A r, u \in sjobs' : r # u => r.blocks \cap u.blocks = {}
  BY <1>3, <1>4, ZenonT(30) DEF WholeInv
<1>8. sjobs' \subseteq SjobDocs(blocks, StoragesOfJob)
  BY <1>3, <1>4, ZenonT(30) DEF WholeInv
<1> QED BY <1>3, <1>5, <1>6, <1>7, <1>8, ZenonT(30) DEF WholeInv

\* Every step keeps the documents whole and apart.
LEMMA WholeStep == WholeInv /\ [SubmitNext]_submitVars => WholeInv'
<1> SUFFICES ASSUME WholeInv, [SubmitNext]_submitVars PROVE WholeInv'
  BY Zenon
<1>1. CASE UNCHANGED <<job, blocks, sjobs, fresh, boot>>
  BY <1>1, ZenonT(30) DEF WholeInv, StoragesOfJob
<1>2. CASE SubmitPickUp
  BY <1>2, WholePickUp, ZenonT(30)
<1>3. CASE SubmitLauncher \/ SubmitRestart
  BY <1>1, <1>3, Zenon DEF SubmitLauncher, SubmitRestart
<1>4. CASE SubmitCrash
  BY <1>4, WholeEnds, ZenonT(30) DEF SubmitCrash, BootsEnd
<1>5. ASSUME NEW t \in SubThreads, SubmitJob(t) \/ BootAsksLauncher(t) \/ BootCerts(t) \/ BootDestination(t) PROVE WholeInv'
  BY <1>5, WholeAsks, ZenonT(30)
<1>6. ASSUME NEW t \in SubThreads, BootSource(t) \/ BootExpand(t) \/ BootDataset(t) PROVE WholeInv'
  BY <1>6, WholeSource, WholeExpands, ZenonT(30)
<1>7. ASSUME NEW t \in SubThreads, BootBlock(t) PROVE WholeInv'
  BY <1>7, WholeBlock, WholeStorage, ZenonT(30)
<1>8. ASSUME NEW t \in SubThreads, BootSize(t) \/ BootDeletes(t) \/ BootInserts(t) PROVE WholeInv'
  BY <1>8, WholeSize, WholeDeletes, WholeInserts, ZenonT(30)
<1>9. ASSUME NEW t \in SubThreads, BootRecordsError(t) PROVE WholeInv'
  <2>1. boot' = [boot EXCEPT ![t] = NoBoot] /\ UNCHANGED <<job, blocks, sjobs, fresh>>
    BY <1>9, Zenon DEF BootRecordsError
  <2> QED BY <2>1, NoBootOK, WholeMoves, ZenonT(30)
<1>10. CASE UNCHANGED submitVars
  BY <1>1, <1>10, Zenon DEF submitVars
<1> QED BY <1>2, <1>3, <1>4, <1>5, <1>6, <1>7, <1>8, <1>9, <1>10, ZenonT(30) DEF SubmitNext

\* An sjob in the store is whole at every moment, whatever runs fail, overlap or are cut off.
THEOREM SjobsAreWhole == SubmitSpec => []SjobsWhole
<1>1. WholeInv => SjobsWhole
  BY Zenon DEF WholeInv, SjobsWhole, SjobDocs, TotalSize
<1> QED BY <1>1, WholeInit, WholeStep, PTL DEF SubmitSpec

-----------------------------------------------------------------------------
(* The account of the runs                                                 *)

\* Runs under way that have not failed; those that have not begun to insert sjobs; those
\* that have failed and not yet recorded why
BusyBoots == {t \in SubThreads : boot[t].at \notin {"idle", "fail"}}
EarlyBoots == {t \in SubThreads : boot[t].at \notin {"idle", "fail", "insert"}}
FailingBoots == {t \in SubThreads : boot[t].at = "fail"}

\* The submissions are accounted for by the runs that failed, those under way and those
\* that inserted sjobs
CountInv ==
    /\ submits \in Nat /\ failedRuns \in Nat /\ crashes \in Nat
    /\ raw \in [error : BOOLEAN, errorField : BOOLEAN, size : Int, certs : BOOLEAN]
    /\ job.deadline = 0 => sjobs = {} /\ \A t \in SubThreads : boot[t].src = <<>>
    /\ crashes = 0 =>
        /\ failedRuns > 0 => raw.error \/ job.deadline = 0 \/ job.keys = "bad"
        /\ job.deadline # 0 =>
            /\ failedRuns + Cardinality(BusyBoots) <= submits
            /\ sjobs # {} \/ (\E t \in SubThreads : boot[t].at = "insert") => failedRuns + Cardinality(EarlyBoots) < submits
            /\ raw.error => raw.errorField \/ FailingBoots # {}
        /\ job.deadline = 0 /\ ~raw.errorField =>
            /\ failedRuns + Cardinality(BusyBoots) >= submits
            /\ raw.error /\ FailingBoots = {} => failedRuns + Cardinality(BusyBoots) > submits

One(b) == IF b THEN 1 ELSE 0

\* Two sets that differ in one element at most
LEMMA CountsDiffer ==
    ASSUME NEW S, IsFiniteSet(S), NEW x, NEW T, T \ {x} = S \ {x}
    PROVE  /\ IsFiniteSet(T) /\ Cardinality(S) \in Nat /\ Cardinality(T) \in Nat
           /\ Cardinality(T) = Cardinality(S) + One(x \in T) - One(x \in S)
<1>1. PICK R : R = S \ {x}
  BY Zenon
<1>2. IsFiniteSet(R) /\ x \notin R
  BY <1>1, FS_Subset, ZenonT(30)
<1>3. Cardinality(R) \in Nat
  BY <1>2, FS_CardinalityType, ZenonT(30)
<1>4. IsFiniteSet(R \cup {x}) /\ Cardinality(R \cup {x}) = Cardinality(R) + 1
  BY <1>2, FS_AddElement, ZenonT(30)
<1>5. S = IF x \in S THEN R \cup {x} ELSE R
  BY <1>1, ZenonT(30)
<1>6. T = IF x \in T THEN R \cup {x} ELSE R
  BY <1>1, Zenon
<1>7. Cardinality(S) = Cardinality(R) + One(x \in S)
  BY <1>3, <1>4, <1>5, SMTT(30) DEF One
<1>8. Cardinality(T) = Cardinality(R) + One(x \in T)
  BY <1>3, <1>4, <1>6, SMTT(30) DEF One
<1>9. IsFiniteSet(T)
  BY <1>2, <1>4, <1>6, ZenonT(30)
<1> QED BY <1>3, <1>7, <1>8, <1>9 DEF One

\* One thread goes on: how the counts change
LEMMA CountsChange ==
    ASSUME WholeInv, NEW t \in SubThreads, NEW c, boot' = [boot EXCEPT ![t] = c]
    PROVE  /\ Cardinality(BusyBoots) \in Nat /\ Cardinality(EarlyBoots) \in Nat /\ Cardinality(EarlyBoots) <= Cardinality(BusyBoots)
           /\ Cardinality(BusyBoots') = Cardinality(BusyBoots) + One(c.at \notin {"idle", "fail"}) - One(boot[t].at \notin {"idle", "fail"})
           /\ Cardinality(EarlyBoots') = Cardinality(EarlyBoots) + One(c.at \notin {"idle", "fail", "insert"})
                                          - One(boot[t].at \notin {"idle", "fail", "insert"})
           /\ Cardinality(BusyBoots') \in Nat /\ Cardinality(EarlyBoots') \in Nat
           /\ (\A u \in SubThreads : boot'[u] = IF u = t THEN c ELSE boot[u])
<1>1. \A u \in SubThreads : boot'[u] = IF u = t THEN c ELSE boot[u]
  BY Zenon DEF WholeInv
<1>2. IsFiniteSet(BusyBoots) /\ IsFiniteSet(EarlyBoots) /\ EarlyBoots \subseteq BusyBoots
  <2>1. BusyBoots \subseteq SubThreads /\ EarlyBoots \subseteq SubThreads /\ EarlyBoots \subseteq BusyBoots
    BY Zenon DEF BusyBoots, EarlyBoots
  <2> QED BY <2>1, FS_Subset, SubmissionConstants, ZenonT(30)
<1>3. BusyBoots' \ {t} = BusyBoots \ {t} /\ EarlyBoots' \ {t} = EarlyBoots \ {t}
  BY <1>1, Zenon DEF BusyBoots, EarlyBoots
<1>4. /\ t \in BusyBoots <=> boot[t].at \notin {"idle", "fail"}
      /\ t \in EarlyBoots <=> boot[t].at \notin {"idle", "fail", "insert"}
      /\ t \in BusyBoots' <=> c.at \notin {"idle", "fail"}
      /\ t \in EarlyBoots' <=> c.at \notin {"idle", "fail", "insert"}
  BY <1>1, Zenon DEF BusyBoots, EarlyBoots
<1>5. PICK B, E, C, F : B = BusyBoots /\ E = EarlyBoots /\ C = BusyBoots' /\ F = EarlyBoots'
  BY Zenon
<1>6. /\ Cardinality(B) \in Nat /\ Cardinality(C) \in Nat /\ Cardinality(C) = Cardinality(B) + One(t \in C) - One(t \in B)
  BY <1>2, <1>3, <1>5, CountsDiffer, ZenonT(30)
<1>7. /\ Cardinality(E) \in Nat /\ Cardinality(F) \in Nat /\ Cardinality(F) = Cardinality(E) + One(t \in F) - One(t \in E)
  BY <1>2, <1>3, <1>5, CountsDiffer, ZenonT(30)
<1>8. Cardinality(E) <= Cardinality(B)
  BY <1>2, <1>5, FS_Subset, ZenonT(30)
<1> QED BY <1>1, <1>4, <1>5, <1>6, <1>7, <1>8, ZenonT(30) DEF One

\* The counts when a run goes on, fails, begins to insert, is through, or starts
LEMMA CountsMove ==
    ASSUME WholeInv, NEW t \in SubThreads, NEW c, boot' = [boot EXCEPT ![t] = c]
    PROVE  /\ Cardinality(BusyBoots) \in Nat /\ Cardinality(EarlyBoots) \in Nat /\ Cardinality(EarlyBoots) <= Cardinality(BusyBoots)
           /\ boot[t].at \notin {"idle", "fail", "insert"} /\ c.at \notin {"idle", "fail", "insert"} =>
                Cardinality(BusyBoots') = Cardinality(BusyBoots) /\ Cardinality(EarlyBoots') = Cardinality(EarlyBoots)
           /\ boot[t].at \notin {"idle", "fail", "insert"} /\ c.at \in {"idle", "fail"} =>
                Cardinality(BusyBoots') = Cardinality(BusyBoots) - 1 /\ Cardinality(EarlyBoots') = Cardinality(EarlyBoots) - 1
           /\ boot[t].at \notin {"idle", "fail", "insert"} /\ c.at = "insert" =>
                Cardinality(BusyBoots') = Cardinality(BusyBoots) /\ Cardinality(EarlyBoots') = Cardinality(EarlyBoots) - 1
           /\ boot[t].at = "insert" /\ c.at = "idle" =>
                Cardinality(BusyBoots') = Cardinality(BusyBoots) - 1 /\ Cardinality(EarlyBoots') = Cardinality(EarlyBoots)
           /\ boot[t].at = c.at \/ (boot[t].at \in {"idle", "fail"} /\ c.at \in {"idle", "fail"}) =>
                Cardinality(BusyBoots') = Cardinality(BusyBoots) /\ Cardinality(EarlyBoots') = Cardinality(EarlyBoots)
           /\ boot[t].at = "idle" /\ c.at \notin {"idle", "fail", "insert"} =>
                Cardinality(BusyBoots') = Cardinality(BusyBoots) + 1 /\ Cardinality(EarlyBoots') = Cardinality(EarlyBoots) + 1
           /\ \A u \in SubThreads : boot'[u] = IF u = t THEN c ELSE boot[u]
<1>1. PICK b, e, d, f, p, q : b = Cardinality(BusyBoots) /\ e = Cardinality(EarlyBoots) /\ d = Cardinality(BusyBoots') /\ f = Cardinality(EarlyBoots') /\ p = boot[t].at /\ q = c.at
  BY Zenon
<1>2. /\ b \in Nat /\ e \in Nat /\ e <= b /\ d \in Nat /\ f \in Nat
      /\ d = b + One(q \notin {"idle", "fail"}) - One(p \notin {"idle", "fail"})
      /\ f = e + One(q \notin {"idle", "fail", "insert"}) - One(p \notin {"idle", "fail", "insert"})
      /\ \A u \in SubThreads : boot'[u] = IF u = t THEN c ELSE boot[u]
  BY <1>1, CountsChange, ZenonT(40)
<1>3. /\ p \notin {"idle", "fail", "insert"} /\ q \notin {"idle", "fail", "insert"} => d = b /\ f = e
      /\ p \notin {"idle", "fail", "insert"} /\ q \in {"idle", "fail"} => d = b - 1 /\ f = e - 1
      /\ p \notin {"idle", "fail", "insert"} /\ q = "insert" => d = b /\ f = e - 1
      /\ p = "insert" /\ q = "idle" => d = b - 1 /\ f = e
      /\ p = q \/ (p \in {"idle", "fail"} /\ q \in {"idle", "fail"}) => d = b /\ f = e
      /\ p = "idle" /\ q \notin {"idle", "fail", "insert"} => d = b + 1 /\ f = e + 1
  BY <1>2 DEF One
<1> QED BY <1>1, <1>2, <1>3, ZenonT(30)

\* The counts at the start
LEMMA CountInit == SubmitInit => CountInv
<1> SUFFICES ASSUME SubmitInit PROVE CountInv
  BY Zenon
<1>1. \A t \in SubThreads : boot[t] = NoBoot
  BY Zenon DEF SubmitInit
<1>2. BusyBoots = {} /\ EarlyBoots = {} /\ FailingBoots = {} /\ \A t \in SubThreads : boot[t].src = <<>> /\ boot[t].at = "idle"
  BY <1>1 DEF BusyBoots, EarlyBoots, FailingBoots, NoBoot
<1>3. Cardinality(BusyBoots) = 0 /\ Cardinality(EarlyBoots) = 0
  BY <1>2, FS_EmptySet, ZenonT(30)
<1> QED BY <1>2, <1>3 DEF SubmitInit, CountInv

\* A run goes on before its sjobs, or in the middle of inserting them: the counts stay.
LEMMA CountStage ==
    ASSUME WholeInv, CountInv, NEW t \in SubThreads, NEW c, boot' = [boot EXCEPT ![t] = c],
           boot[t].at \notin {"idle", "fail", "insert"}, c.at \notin {"idle", "fail", "insert"},
           job.deadline = 0 => c.src = <<>>, UNCHANGED <<job, sjobs, submits, failedRuns, crashes>>,
           raw' \in [error : BOOLEAN, errorField : BOOLEAN, size : Int, certs : BOOLEAN],
           raw'.error = raw.error, raw'.errorField = raw.errorField
    PROVE  CountInv'
<1>1. /\ \A u \in SubThreads : boot'[u] = IF u = t THEN c ELSE boot[u]
      /\ Cardinality(BusyBoots') = Cardinality(BusyBoots) /\ Cardinality(EarlyBoots') = Cardinality(EarlyBoots)
  BY CountsMove, ZenonT(30)
<1>2. FailingBoots' = FailingBoots
  BY <1>1, ZenonT(30) DEF FailingBoots
<1>3. (\E u \in SubThreads : boot'[u].at = "insert") <=> (\E u \in SubThreads : boot[u].at = "insert")
  BY <1>1
<1>4. job.deadline = 0 => sjobs' = {} /\ \A u \in SubThreads : boot'[u].src = <<>>
  BY <1>1, Zenon DEF CountInv
<1> QED BY <1>1, <1>2, <1>3, <1>4, ZenonT(30) DEF CountInv

\* A run fails before it has begun to insert sjobs.
LEMMA CountFails ==
    ASSUME WholeInv, CountInv, NEW t \in SubThreads, NEW c, boot' = [boot EXCEPT ![t] = c],
           boot[t].at \notin {"idle", "fail", "insert"}, c.at \in {"idle", "fail"}
    PROVE  /\ c.at = "fail" /\ c.src = boot[t].src
           /\ UNCHANGED <<job, sjobs, submits, crashes>> /\ failedRuns' = failedRuns + 1
           /\ raw' \in [error : BOOLEAN, errorField : BOOLEAN, size : Int, certs : BOOLEAN]
           /\ raw'.error /\ raw'.errorField = raw.errorField
           => CountInv'
<1>1. /\ \A u \in SubThreads : boot'[u] = IF u = t THEN c ELSE boot[u]
      /\ Cardinality(BusyBoots') = Cardinality(BusyBoots) - 1 /\ Cardinality(EarlyBoots') = Cardinality(EarlyBoots) - 1
      /\ Cardinality(BusyBoots) \in Nat /\ Cardinality(EarlyBoots) \in Nat
  BY CountsMove, Zenon
<1> SUFFICES ASSUME c.at = "fail", c.src = boot[t].src,
                    UNCHANGED <<job, sjobs, submits, crashes>>, failedRuns' = failedRuns + 1,
                    raw' \in [error : BOOLEAN, errorField : BOOLEAN, size : Int, certs : BOOLEAN],
                    raw'.error, raw'.errorField = raw.errorField
             PROVE  CountInv'
  BY Zenon
<1>2. t \in FailingBoots'
  BY <1>1, Zenon DEF FailingBoots
<1>3. (\E u \in SubThreads : boot'[u].at = "insert") => (\E u \in SubThreads : boot[u].at = "insert")
  BY <1>1
<1>4. job.deadline = 0 => sjobs' = {} /\ \A u \in SubThreads : boot'[u].src = <<>>
  BY <1>1 DEF CountInv
<1>5. /\ failedRuns' + Cardinality(BusyBoots') = failedRuns + Cardinality(BusyBoots)
      /\ failedRuns' + Cardinality(EarlyBoots') = failedRuns + Cardinality(EarlyBoots) /\ failedRuns' \in Nat
  BY <1>1, SMTT(30) DEF CountInv
<1> QED BY <1>1, <1>2, <1>3, <1>4, <1>5, ZenonT(30) DEF CountInv

\* The state is written, then the error field
LEMMA CountBootFails ==
    ASSUME WholeInv, CountInv, NEW t \in SubThreads, boot[t].at \notin {"idle", "fail", "insert"}, BootFails(t)
    PROVE  CountInv'
<1>1. PICK c : c = [boot[t] EXCEPT !.at = "fail"]
  BY Zenon
<1>2. boot' = [boot EXCEPT ![t] = c] /\ c.at = "fail" /\ c.src = boot[t].src
  BY <1>1, BootLocal DEF BootFails
<1>3. UNCHANGED <<job, sjobs, submits, crashes>> /\ failedRuns' = failedRuns + 1
      /\ raw' \in [error : BOOLEAN, errorField : BOOLEAN, size : Int, certs : BOOLEAN]
      /\ raw'.error /\ raw'.errorField = raw.errorField
  BY Zenon DEF BootFails, CountInv
<1> QED BY <1>2, <1>3, CountFails, Zenon

\* Every run under way is cut off.
LEMMA CountEnds ==
    ASSUME WholeInv, CountInv, BootsEnd, crashes' \in Nat, crashes' # 0 \/ (job.deadline = 0 /\ crashes' = crashes)
    PROVE  CountInv'
<1>1. \A t \in SubThreads : boot'[t] = NoBoot
  BY Zenon DEF BootsEnd
<1>2. BusyBoots' = {} /\ EarlyBoots' = {} /\ FailingBoots' = {} /\ \A t \in SubThreads : boot'[t].src = <<>> /\ boot'[t].at = "idle"
  BY <1>1 DEF BusyBoots, EarlyBoots, FailingBoots, NoBoot
<1>3. Cardinality(BusyBoots') = 0 /\ Cardinality(EarlyBoots') = 0
  BY <1>2, FS_EmptySet, ZenonT(30)
<1>4. /\ Cardinality(BootRunning) \in Nat /\ Cardinality(BusyBoots) \in Nat /\ Cardinality(BusyBoots) <= Cardinality(BootRunning)
      /\ FailingBoots # {} => Cardinality(BusyBoots) < Cardinality(BootRunning)
  <2>1. IsFiniteSet(BootRunning) /\ BusyBoots \subseteq BootRunning
    <3>1. BootRunning \subseteq SubThreads /\ BusyBoots \subseteq BootRunning
      BY Zenon DEF BootRunning, BusyBoots
    <3> QED BY <3>1, FS_Subset, SubmissionConstants, ZenonT(30)
  <2>2. IsFiniteSet(BusyBoots) /\ Cardinality(BusyBoots) <= Cardinality(BootRunning)
    BY <2>1, FS_Subset, ZenonT(30)
  <2>3. Cardinality(BootRunning) \in Nat /\ Cardinality(BusyBoots) \in Nat
    BY <2>1, <2>2, FS_CardinalityType, ZenonT(30)
  <2>4. FailingBoots # {} => BusyBoots # BootRunning
    BY Zenon DEF FailingBoots, BusyBoots, BootRunning
  <2>5. BusyBoots # BootRunning => Cardinality(BusyBoots) # Cardinality(BootRunning)
    BY <2>1, FS_Subset, ZenonT(30)
  <2> QED BY <2>2, <2>3, <2>4, <2>5
<1>5. failedRuns' = failedRuns + Cardinality(BootRunning) /\ UNCHANGED <<job, raw, sjobs, submits>>
  BY Zenon DEF BootsEnd
<1>6. failedRuns' \in Nat
  BY <1>4, <1>5 DEF CountInv
<1>7. job.deadline = 0 /\ crashes = 0 /\ ~raw.errorField =>
        /\ failedRuns' >= submits
        /\ raw.error => failedRuns' > submits
  BY <1>4, <1>5 DEF CountInv
<1> QED BY <1>2, <1>3, <1>5, <1>6, <1>7 DEF CountInv

\* A run goes on to a stage before the insertion and writes nothing.
LEMMA CountGoes ==
    ASSUME WholeInv, CountInv, NEW t \in SubThreads, NEW c, BootGoes(t, c),
           boot[t].at \notin {"idle", "fail", "insert"}, c.at \notin {"idle", "fail", "insert"},
           c.src = boot[t].src \/ job.deadline # 0
    PROVE  CountInv'
<1>1. boot' = [boot EXCEPT ![t] = c] /\ UNCHANGED <<job, raw, sjobs, submits, failedRuns, crashes>>
  BY Zenon DEF BootGoes
<1>2. /\ job.deadline = 0 => c.src = <<>>
      /\ raw' \in [error : BOOLEAN, errorField : BOOLEAN, size : Int, certs : BOOLEAN]
      /\ raw'.error = raw.error /\ raw'.errorField = raw.errorField
  BY <1>1, Zenon DEF CountInv
<1> QED BY <1>1, <1>2, CountStage, Zenon

\* A submission starts a run, unless the error field of the raw job is set.
LEMMA CountSubmit ==
    ASSUME WholeInv, CountInv, NEW t \in SubThreads, SubmitJob(t)
    PROVE  CountInv'
<1>1. PICK a : a = IF raw.errorField THEN "idle" ELSE "launcher"
  BY Zenon
<1>2. PICK c : c = [boot[t] EXCEPT !.at = a]
  BY Zenon
<1>3. boot' = [boot EXCEPT ![t] = c] /\ c.at = a /\ c.src = boot[t].src /\ boot[t].at = "idle"
  BY <1>1, <1>2, BootLocal DEF SubmitJob
<1>4. UNCHANGED <<job, raw, sjobs, failedRuns, crashes>> /\ submits' = submits + 1
  BY Zenon DEF SubmitJob
<1>5. \A u \in SubThreads : boot'[u] = IF u = t THEN c ELSE boot[u]
  BY <1>3, CountsMove, ZenonT(30)
<1>6. FailingBoots' = FailingBoots
  BY <1>1, <1>3, <1>5, Zenon DEF FailingBoots
<1>7. (\E u \in SubThreads : boot'[u].at = "insert") <=> (\E u \in SubThreads : boot[u].at = "insert")
  BY <1>1, <1>3, <1>5, ZenonT(30)
<1>8. job.deadline = 0 => sjobs' = {} /\ \A u \in SubThreads : boot'[u].src = <<>>
  BY <1>3, <1>4, <1>5 DEF CountInv
<1>9. PICK b, e, d, f : b = Cardinality(BusyBoots) /\ e = Cardinality(EarlyBoots) /\ d = Cardinality(BusyBoots') /\ f = Cardinality(EarlyBoots')
  BY Zenon
<1>10. b \in Nat /\ e \in Nat
  BY <1>3, <1>9, CountsMove, ZenonT(30)
<1>11. CASE raw.errorField
  <2>1. boot[t].at = c.at
    BY <1>1, <1>3, <1>11, ZenonT(30)
  <2>2. d = b /\ f = e
    BY <1>3, <1>9, <2>1, CountsMove, ZenonT(30)
  <2>3. submits \in Nat /\ failedRuns \in Nat
    BY Zenon DEF CountInv
  <2>4. /\ failedRuns + b <= submits => failedRuns' + d <= submits'
        /\ failedRuns + e < submits => failedRuns' + f < submits'
        /\ submits' \in Nat
    BY <1>4, <1>10, <2>2, <2>3
  <2> QED BY <1>4, <1>6, <1>7, <1>8, <1>9, <1>11, <2>4, ZenonT(30) DEF CountInv
<1>12. CASE ~raw.errorField
  <2>1. c.at \notin {"idle", "fail", "insert"}
    BY <1>1, <1>3, <1>12, ZenonT(30)
  <2>2. d = b + 1 /\ f = e + 1
    BY <1>3, <1>9, <2>1, CountsMove, ZenonT(30)
  <2>3. submits \in Nat /\ failedRuns \in Nat
    BY Zenon DEF CountInv
  <2>4. /\ failedRuns + b <= submits => failedRuns' + d <= submits'
        /\ failedRuns + e < submits => failedRuns' + f < submits'
        /\ failedRuns + b >= submits => failedRuns' + d >= submits'
        /\ failedRuns + b > submits => failedRuns' + d > submits'
        /\ submits' \in Nat
    BY <1>4, <1>10, <2>2, <2>3
  <2> QED BY <1>4, <1>6, <1>7, <1>8, <1>9, <1>12, <2>4, ZenonT(30) DEF CountInv
<1> QED BY <1>11, <1>12, Zenon

\* The certificates: keys that do not parse end the run without a record.
LEMMA CountCerts ==
    ASSUME WholeInv, CountInv, NEW t \in SubThreads, BootCerts(t)
    PROVE  CountInv'
<1>0. boot[t].at = "certs" /\ boot[t].at \notin {"idle", "fail", "insert"}
  BY Zenon DEF BootCerts
<1>1. CASE BootFails(t)
  BY <1>0, <1>1, CountBootFails, ZenonT(30)
<1>2. CASE job.keys = "bad"
  <2>1. PICK c : c = NoBoot
    BY Zenon
  <2>2. c.at \in {"idle", "fail"} /\ c.at = "idle" /\ c.src = <<>>
    BY <2>1, Zenon DEF NoBoot
  <2>3. boot' = [boot EXCEPT ![t] = c] /\ UNCHANGED <<job, raw, sjobs, submits, crashes>> /\ failedRuns' = failedRuns + 1
    BY <1>1, <1>2, <2>1, ZenonT(30) DEF BootCerts
  <2>4. /\ \A u \in SubThreads : boot'[u] = IF u = t THEN c ELSE boot[u]
        /\ Cardinality(BusyBoots') = Cardinality(BusyBoots) - 1 /\ Cardinality(EarlyBoots') = Cardinality(EarlyBoots) - 1
        /\ Cardinality(BusyBoots) \in Nat /\ Cardinality(EarlyBoots) \in Nat
    BY <1>0, <2>2, <2>3, CountsMove, ZenonT(30)
  <2>5. FailingBoots' = FailingBoots
    BY <1>0, <2>2, <2>4, ZenonT(30) DEF FailingBoots
  <2>6. (\E u \in SubThreads : boot'[u].at = "insert") => (\E u \in SubThreads : boot[u].at = "insert")
    BY <2>2, <2>4, ZenonT(30)
  <2>7. job.deadline = 0 => sjobs' = {} /\ \A u \in SubThreads : boot'[u].src = <<>>
    BY <2>2, <2>3, <2>4, ZenonT(30) DEF CountInv
  <2>8. /\ failedRuns' + Cardinality(BusyBoots') = failedRuns + Cardinality(BusyBoots)
        /\ failedRuns' + Cardinality(EarlyBoots') = failedRuns + Cardinality(EarlyBoots) /\ failedRuns' \in Nat
    BY <2>3, <2>4, SMTT(30) DEF CountInv
  <2> QED BY <1>2, <2>3, <2>5, <2>6, <2>7, <2>8, ZenonT(30) DEF CountInv
<1>3. CASE job.keys = "good" /\ ~BootFails(t)
  <2>1. PICK c : c = [boot[t] EXCEPT !.at = "dst"]
    BY Zenon
  <2>2. boot' = [boot EXCEPT ![t] = c] /\ c.at = "dst" /\ c.src = boot[t].src
    BY <1>3, <2>1, BootLocal DEF BootCerts
  <2>3. UNCHANGED <<job, sjobs, submits, failedRuns, crashes>> /\ raw' = [raw EXCEPT !.certs = TRUE]
    BY <1>3, Zenon DEF BootCerts
  <2>4. /\ raw' \in [error : BOOLEAN, errorField : BOOLEAN, size : Int, certs : BOOLEAN]
        /\ raw'.error = raw.error /\ raw'.errorField = raw.errorField
        /\ job.deadline = 0 => c.src = <<>>
    BY <2>2, <2>3, Zenon DEF CountInv
  <2> QED BY <1>0, <2>2, <2>3, <2>4, CountStage, Zenon
<1> QED BY <1>1, <1>2, <1>3, ZenonT(30) DEF BootCerts

\* The stages that ask the sites
LEMMA CountAsks ==
    ASSUME WholeInv, CountInv, NEW t \in SubThreads,
           BootAsksLauncher(t) \/ BootDestination(t) \/ BootSource(t)
    PROVE  CountInv'
<1>0. boot[t].at \notin {"idle", "fail", "insert"}
  BY Zenon DEF BootAsksLauncher, BootDestination, BootSource
<1>1. CASE BootFails(t)
  BY <1>0, <1>1, CountBootFails, ZenonT(30)
<1>2. ASSUME NEW c, BootGoes(t, c), c.at \notin {"idle", "fail", "insert"}, c.src = boot[t].src PROVE CountInv'
  BY <1>0, <1>2, CountGoes, ZenonT(30)
<1>3. CASE BootGoes(t, [boot[t] EXCEPT !.at = "certs"])
  <2>1. PICK c : c = [boot[t] EXCEPT !.at = "certs"]
    BY Zenon
  <2>2. BootGoes(t, c) /\ c.at = "certs" /\ c.src = boot[t].src
    BY <1>3, <2>1, BootLocal
  <2> QED BY <1>2, <2>2, ZenonT(30)
<1>4. ASSUME NEW known \in BOOLEAN, BootGoes(t, [boot[t] EXCEPT !.at = "sources", !.i = 1, !.disk = known]) PROVE CountInv'
  <2>1. PICK c : c = [boot[t] EXCEPT !.at = "sources", !.i = 1, !.disk = known]
    BY Zenon
  <2>2. BootGoes(t, c) /\ c.at = "sources" /\ c.src = boot[t].src
    BY <1>4, <2>1, BootLocal
  <2> QED BY <1>2, <2>2, Zenon
<1>5. CASE BootGoes(t, [boot[t] EXCEPT !.at = "expand", !.i = 0, !.left = StorageKeys(job.sources)])
  <2>1. PICK c : c = [boot[t] EXCEPT !.at = "expand", !.i = 0, !.left = StorageKeys(job.sources)]
    BY Zenon
  <2>2. BootGoes(t, c) /\ c.at = "expand" /\ c.src = boot[t].src
    BY <1>5, <2>1, BootLocal, SMTT(30)
  <2> QED BY <1>2, <2>2, Zenon
<1>6. CASE BootGoes(t, [boot[t] EXCEPT !.i = @ + 1])
  <2>1. PICK c : c = [boot[t] EXCEPT !.i = @ + 1]
    BY Zenon
  <2>2. BootGoes(t, c) /\ c.at = boot[t].at /\ c.src = boot[t].src
    BY <1>6, <2>1, BootLocal
  <2> QED BY <1>0, <1>2, <2>2, Zenon
<1> QED BY <1>1, <1>3, <1>4, <1>5, <1>6, ZenonT(30) DEF BootAsksLauncher, BootDestination, BootSource

\* The answer for a storage, or none
LEMMA CountExpands ==
    ASSUME WholeInv, CountInv, NEW t \in SubThreads, BootExpand(t) \/ BootDataset(t)
    PROVE  CountInv'
<1>0. boot[t].at = "expand" /\ boot[t].at \notin {"idle", "fail", "insert"}
  BY Zenon DEF BootExpand, BootDataset
<1>1. CASE BootFails(t)
  BY <1>0, <1>1, CountBootFails, ZenonT(30)
<1>2. CASE job.deadline = 0 /\ BootsEnd /\ UNCHANGED crashes
  BY <1>2, CountEnds, ZenonT(30) DEF CountInv
<1>3. ASSUME NEW groups, BootGroups(t, groups) PROVE CountInv'
  <2>1. PICK c : c = [boot[t] EXCEPT !.at = "blocks", !.groups = groups, !.total = SumFunction(groups)]
    BY Zenon
  <2>2. BootGoes(t, c) /\ c.at = "blocks" /\ c.src = boot[t].src
    BY <1>3, <2>1, BootLocal DEF BootGroups
  <2> QED BY <1>0, <2>2, CountGoes, ZenonT(30)
<1>4. CASE BootExpand(t)
  BY <1>1, <1>2, <1>3, <1>4, Zenon DEF BootExpand
<1>5. CASE BootDataset(t)
  BY <1>3, <1>5, Zenon DEF BootDataset
<1> QED BY <1>4, <1>5, Zenon

\* A block is inserted, or the storage is done; a deadline of zero ends the process.
LEMMA CountBlock ==
    ASSUME WholeInv, CountInv, NEW t \in SubThreads, BootBlock(t)
    PROVE  CountInv'
<1>0. boot[t].at = "blocks" /\ boot[t].at \notin {"idle", "fail", "insert"}
  BY Zenon DEF BootBlock
<1>1. CASE boot[t].groups # <<>>
  <2>1. PICK new : new = [id |-> fresh, storage |-> Head(boot[t].left), size |-> Head(boot[t].groups)]
    BY Zenon
  <2>2. PICK c : c = [boot[t] EXCEPT !.groups = Tail(@), !.mine = Append(@, new)]
    BY Zenon
  <2>3. boot' = [boot EXCEPT ![t] = c] /\ UNCHANGED <<job, raw, sjobs, submits, failedRuns, crashes>>
    BY <1>1, <2>1, <2>2, BootLocal, ZenonT(30) DEF BootBlock
  <2>4. c.at = "blocks" /\ c.src = boot[t].src
    BY <1>0, <2>2, BootLocal
  <2>5. /\ job.deadline = 0 => c.src = <<>>
        /\ raw' \in [error : BOOLEAN, errorField : BOOLEAN, size : Int, certs : BOOLEAN]
        /\ raw'.error = raw.error /\ raw'.errorField = raw.errorField
    BY <2>3, <2>4, Zenon DEF CountInv
  <2> QED BY <1>0, <2>3, <2>4, <2>5, CountStage, ZenonT(30)
<1>2. CASE boot[t].groups = <<>> /\ job.deadline = 0
  <2>1. BootsEnd /\ UNCHANGED crashes
    BY <1>2, Zenon DEF BootBlock
  <2> QED BY <1>2, <2>1, CountEnds, Zenon DEF CountInv
<1>3. CASE boot[t].groups = <<>> /\ job.deadline # 0
  <2>1. PICK doc : doc = SourceDoc(t)
    BY Zenon
  <2>2. PICK c : c = [boot[t] EXCEPT !.at = "expand", !.left = Tail(@), !.total = 0, !.mine = <<>>, !.src = Append(@, doc)]
    BY Zenon
  <2>3. BootGoes(t, c)
    BY <1>3, <2>1, <2>2, ZenonT(30) DEF BootBlock
  <2>4. c.at = "expand"
    BY <2>2, BootLocal
  <2> QED BY <1>0, <1>3, <2>3, <2>4, CountGoes, ZenonT(30)
<1> QED BY <1>1, <1>2, <1>3, ZenonT(30)

\* The size of the job; a job without storages fails.
LEMMA CountSize ==
    ASSUME WholeInv, CountInv, NEW t \in SubThreads, BootSize(t)
    PROVE  CountInv'
<1>1. PICK d, f : d = boot[t].src /\ f = [i \in DOMAIN d |-> d[i].size]
  BY Zenon
<1>2. SumFunction(f) \in Int
  <2>1. d \in Seq(SourceDocs(blocks, StoragesOfJob))
    BY <1>1, BootLocal, ZenonT(30) DEF BootLocals
  <2>2. Len(d) \in Int /\ 1 \in Int /\ DOMAIN d = 1..Len(d)
    BY <2>1
  <2>3. IsFiniteSet(1..Len(d))
    BY <2>2, FS_Interval, ZenonT(30)
  <2>4. \A i \in 1..Len(d) : d[i] \in SourceDocs(blocks, StoragesOfJob)
    BY <2>1, <2>2
  <2>5. \A i \in 1..Len(d) : d[i].size \in Int
    BY <2>4, Zenon DEF SourceDocs
  <2>6. f \in [1..Len(d) -> Int]
    BY <1>1, <2>2, <2>5, ZenonT(30)
  <2> QED BY <2>3, <2>6, SumWhole, ZenonT(30)
<1>3. PICK a : a = IF d = <<>> THEN "fail" ELSE "delete"
  BY Zenon
<1>4. PICK c : c = [boot[t] EXCEPT !.at = a]
  BY Zenon
<1>5. boot' = [boot EXCEPT ![t] = c] /\ c.at = a /\ c.src = boot[t].src /\ boot[t].at \notin {"idle", "fail", "insert"}
  BY <1>1, <1>3, <1>4, BootLocal DEF BootSize
<1>6. /\ UNCHANGED <<job, sjobs, submits, crashes>> /\ failedRuns' = IF d = <<>> THEN failedRuns + 1 ELSE failedRuns
      /\ raw' = [raw EXCEPT !.size = SumFunction(f), !.error = raw.error \/ d = <<>>]
  BY <1>1, Zenon DEF BootSize
<1>7. /\ raw' \in [error : BOOLEAN, errorField : BOOLEAN, size : Int, certs : BOOLEAN]
      /\ raw'.error = (raw.error \/ d = <<>>) /\ raw'.errorField = raw.errorField
  BY <1>2, <1>6, ZenonT(30) DEF CountInv
<1>8. CASE d = <<>>
  BY <1>3, <1>5, <1>6, <1>7, <1>8, CountFails, ZenonT(30)
<1>9. CASE d # <<>>
  <2>1. raw'.error = raw.error
    BY <1>7, <1>9, ZenonT(30) DEF CountInv
  <2>2. job.deadline = 0 => c.src = <<>>
    BY <1>5, Zenon DEF CountInv
  <2>3. c.at \notin {"idle", "fail", "insert"} /\ UNCHANGED failedRuns
    BY <1>3, <1>5, <1>6, <1>9, ZenonT(30)
  <2> QED BY <1>5, <1>6, <1>7, <2>1, <2>2, <2>3, CountStage, ZenonT(30)
<1> QED BY <1>8, <1>9, Zenon

\* The sjobs of earlier runs go; the run that deletes them is one that has not failed.
LEMMA CountDeletes ==
    ASSUME WholeInv, CountInv, NEW t \in SubThreads, BootDeletes(t)
    PROVE  CountInv'
<1>1. PICK c : c = [boot[t] EXCEPT !.at = "insert"]
  BY Zenon
<1>2. boot' = [boot EXCEPT ![t] = c] /\ c.at = "insert" /\ boot[t].at = "delete" /\ boot[t].at \notin {"idle", "fail", "insert"}
  BY <1>1, BootLocal DEF BootDeletes
<1>3. sjobs' = {} /\ UNCHANGED <<job, raw, submits, failedRuns, crashes>>
  BY Zenon DEF BootDeletes
<1>4. job.deadline # 0
  BY <1>2, BootLocal, ZenonT(30) DEF BootWhole, CountInv
<1>5. PICK b, e, d, f : b = Cardinality(BusyBoots) /\ e = Cardinality(EarlyBoots) /\ d = Cardinality(BusyBoots') /\ f = Cardinality(EarlyBoots')
  BY Zenon
<1>6. /\ b \in Nat /\ e \in Nat /\ e <= b /\ d = b /\ f = e - 1
      /\ \A u \in SubThreads : boot'[u] = IF u = t THEN c ELSE boot[u]
  BY <1>2, <1>5, CountsMove, ZenonT(30)
<1>7. FailingBoots' = FailingBoots
  BY <1>2, <1>6, ZenonT(30) DEF FailingBoots
<1>8. submits \in Nat /\ failedRuns \in Nat
  BY Zenon DEF CountInv
<1>9. failedRuns + b <= submits => failedRuns + d <= submits /\ failedRuns + f < submits
  BY <1>6, <1>8
<1> QED BY <1>3, <1>4, <1>5, <1>7, <1>9, ZenonT(30) DEF CountInv

\* An sjob is inserted, and with the last one the run is through.
LEMMA CountInserts ==
    ASSUME WholeInv, CountInv, NEW t \in SubThreads, BootInserts(t)
    PROVE  CountInv'
<1>1. PICK c : c = IF Len(boot[t].src) = 1 THEN NoBoot ELSE [boot[t] EXCEPT !.src = Tail(boot[t].src)]
  BY Zenon
<1>2. boot[t].at = "insert" /\ boot' = [boot EXCEPT ![t] = c]
  BY <1>1, Zenon DEF BootInserts
<1>3. c.at = "idle" \/ c.at = boot[t].at
  BY <1>1, BootLocal DEF NoBoot
<1>4. sjobs' # {} /\ UNCHANGED <<job, raw, submits, failedRuns, crashes>>
  BY Zenon DEF BootInserts
<1>5. job.deadline # 0
  BY <1>2, BootLocal, Zenon DEF BootWhole, CountInv
<1>6. PICK b, e, d, f : b = Cardinality(BusyBoots) /\ e = Cardinality(EarlyBoots) /\ d = Cardinality(BusyBoots') /\ f = Cardinality(EarlyBoots')
  BY Zenon
<1>7. /\ b \in Nat /\ e \in Nat
      /\ \A u \in SubThreads : boot'[u] = IF u = t THEN c ELSE boot[u]
  BY <1>2, <1>6, CountsMove, ZenonT(30)
<1>8. (d = b - 1 /\ f = e) \/ (d = b /\ f = e)
  BY <1>2, <1>3, <1>6, CountsMove, ZenonT(30)
<1>9. FailingBoots' = FailingBoots
  BY <1>2, <1>3, <1>7, ZenonT(30) DEF FailingBoots
<1>10. submits \in Nat /\ failedRuns \in Nat
  BY Zenon DEF CountInv
<1>11. failedRuns + b <= submits => failedRuns + d <= submits
  BY <1>7, <1>8, <1>10
<1>12. f = e
  BY <1>8, Zenon
<1> QED BY <1>2, <1>4, <1>5, <1>6, <1>9, <1>11, <1>12, ZenonT(30) DEF CountInv

\* The error field is written last.
LEMMA CountRecords ==
    ASSUME WholeInv, CountInv, NEW t \in SubThreads, BootRecordsError(t)
    PROVE  CountInv'
<1>1. PICK c : c = NoBoot
  BY Zenon
<1>2. c.at = "idle" /\ c.src = <<>> /\ c.at \in {"idle", "fail"} /\ boot[t].at = "fail" /\ boot[t].at \in {"idle", "fail"}
      /\ boot' = [boot EXCEPT ![t] = c]
  BY <1>1, Zenon DEF NoBoot, BootRecordsError
<1>3. UNCHANGED <<job, sjobs, submits, failedRuns, crashes>> /\ raw' = [raw EXCEPT !.errorField = TRUE]
  BY Zenon DEF BootRecordsError
<1>4. raw' \in [error : BOOLEAN, errorField : BOOLEAN, size : Int, certs : BOOLEAN] /\ raw'.errorField /\ raw'.error = raw.error
  BY <1>3, Zenon DEF CountInv
<1>5. /\ Cardinality(BusyBoots') = Cardinality(BusyBoots) /\ Cardinality(EarlyBoots') = Cardinality(EarlyBoots)
      /\ \A u \in SubThreads : boot'[u] = IF u = t THEN c ELSE boot[u]
  BY <1>2, CountsMove, Zenon
<1>6. (\E u \in SubThreads : boot'[u].at = "insert") => (\E u \in SubThreads : boot[u].at = "insert")
  BY <1>2, <1>5, ZenonT(30)
<1>7. job.deadline = 0 => sjobs' = {} /\ \A u \in SubThreads : boot'[u].src = <<>>
  BY <1>2, <1>3, <1>5, ZenonT(30) DEF CountInv
<1> QED BY <1>3, <1>4, <1>5, <1>6, <1>7, ZenonT(30) DEF CountInv

\* The accounts are kept by every step.
LEMMA CountsStep == WholeInv /\ CountInv /\ [SubmitNext]_submitVars => CountInv'
<1> SUFFICES ASSUME WholeInv, CountInv, [SubmitNext]_submitVars PROVE CountInv'
  BY Zenon
<1>1. CASE UNCHANGED <<job, raw, boot, submits, failedRuns, crashes>> /\ (sjobs' = {} <=> sjobs = {})
  <2>1. BusyBoots' = BusyBoots /\ EarlyBoots' = EarlyBoots /\ FailingBoots' = FailingBoots
    BY <1>1, Zenon DEF BusyBoots, EarlyBoots, FailingBoots
  <2> QED BY <1>1, <2>1, ZenonT(30) DEF CountInv
<1>2. CASE SubmitPickUp
  <2>1. sjobs # {} /\ sjobs' # {} /\ UNCHANGED <<job, raw, boot, submits, failedRuns, crashes>>
    BY <1>2, Zenon DEF SubmitPickUp
  <2> QED BY <1>1, <2>1, Zenon
<1>3. CASE SubmitLauncher \/ SubmitRestart
  BY <1>1, <1>3, ZenonT(30) DEF SubmitLauncher, SubmitRestart
<1>4. CASE SubmitCrash
  <2>1. BootsEnd /\ crashes' = crashes + 1 /\ crashes \in Nat
    BY <1>4, Zenon DEF SubmitCrash, CountInv
  <2>2. crashes' \in Nat /\ crashes' # 0
    BY <2>1
  <2> QED BY <2>1, <2>2, CountEnds, ZenonT(30)
<1>5. ASSUME NEW t \in SubThreads, SubmitJob(t) \/ BootAsksLauncher(t) \/ BootCerts(t) \/ BootDestination(t) \/ BootSource(t) PROVE CountInv'
  BY <1>5, CountSubmit, CountAsks, CountCerts, ZenonT(30)
<1>6. ASSUME NEW t \in SubThreads, BootExpand(t) \/ BootDataset(t) \/ BootBlock(t) \/ BootSize(t) PROVE CountInv'
  BY <1>6, CountExpands, CountBlock, CountSize, ZenonT(30)
<1>7. ASSUME NEW t \in SubThreads, BootDeletes(t) \/ BootInserts(t) \/ BootRecordsError(t) PROVE CountInv'
  BY <1>7, CountDeletes, CountInserts, CountRecords, ZenonT(30)
<1>8. CASE UNCHANGED submitVars
  BY <1>1, <1>8, ZenonT(30) DEF submitVars
<1> QED BY <1>2, <1>3, <1>4, <1>5, <1>6, <1>7, <1>8, ZenonT(30) DEF SubmitNext

\* A raw job whose runs all failed has no sjobs, and its error is recorded.
THEOREM FailuresSubmitNothing == SubmitSpec => []FailedSubmitsNothing
<1>1. WholeInv /\ CountInv => FailedSubmitsNothing
  <2> SUFFICES ASSUME WholeInv, CountInv, BootRunning = {}, submits > 0, failedRuns = submits, crashes = 0
               PROVE  sjobs = {} /\ (raw.error => raw.errorField) /\ (raw.error \/ job.deadline = 0 \/ job.keys = "bad")
    BY Zenon DEF FailedSubmitsNothing
  <2>1. \A t \in SubThreads : boot[t].at = "idle"
    BY Zenon DEF BootRunning
  <2>2. BusyBoots = {} /\ EarlyBoots = {} /\ FailingBoots = {}
    BY <2>1, Zenon DEF BusyBoots, EarlyBoots, FailingBoots
  <2>3. Cardinality(BusyBoots) = 0 /\ Cardinality(EarlyBoots) = 0
    BY <2>2, FS_EmptySet, ZenonT(30)
  <2>4. submits \in Nat /\ failedRuns \in Nat /\ failedRuns > 0
    BY Zenon DEF CountInv
  <2>5. raw.error \/ job.deadline = 0 \/ job.keys = "bad"
    BY <2>4, Zenon DEF CountInv
  <2>6. ~(failedRuns + Cardinality(EarlyBoots) < submits) /\ ~(failedRuns + Cardinality(BusyBoots) > submits)
    BY <2>3, <2>4
  <2>7. sjobs = {}
    BY <2>6, Zenon DEF CountInv
  <2>8. raw.error => raw.errorField
    BY <2>2, <2>6, Zenon DEF CountInv
  <2> QED BY <2>5, <2>7, <2>8, ZenonT(30)
<1> QED BY <1>1, WholeInit, CountInit, WholeStep, CountsStep, PTL DEF SubmitSpec

-----------------------------------------------------------------------------
(* Runs one after the other                                                *)

\* The storages and the sizes of the documents that a run has made
SrcStorages(src) == {src[i].storage : i \in DOMAIN src}
SrcSizes(src) == [i \in DOMAIN src |-> src[i].size]
OneOfEach(src) == \A i, k \in DOMAIN src : src[i].storage = src[k].storage => i = k

\* The sjobs in the store and the documents that are left to insert are one for each
\* storage and make up the size of the raw job.
Inserted(src, ss, X, size) ==
    /\ IsFiniteSet(ss) /\ OneOfEach(src) /\ \A s, u \in ss : s.storage = u.storage => s = u
    /\ SrcStorages(src) \cup {s.storage : s \in ss} = X
    /\ SrcStorages(src) \cap {s.storage : s \in ss} = {}
    /\ size = SumFunction(SrcSizes(src)) + TotalSize(ss)

\* What a run that nothing disturbs has done so far
Alone(c, ss, X, size) ==
    /\ OneOfEach(c.src)
    /\ c.at \notin {"expand", "blocks", "delete", "insert"} => c.src = <<>>
    /\ c.at \in {"expand", "blocks"} =>
        /\ \A i, k \in DOMAIN c.left : c.left[i] = c.left[k] => i = k
        /\ Range(c.left) \cup SrcStorages(c.src) = X
        /\ Range(c.left) \cap SrcStorages(c.src) = {}
    /\ c.at = "delete" => SrcStorages(c.src) = X /\ size = SumFunction(SrcSizes(c.src))
    /\ c.at = "insert" => Inserted(c.src, ss, X, size)

\* Runs came one after the other and none failed.
Calm == ~overlapped /\ failedRuns = 0

CalmInv ==
    /\ ~raw.errorField /\ FailingBoots = {}
    /\ \A t, u \in BootRunning : t = u
    /\ \A t \in BootRunning : Alone(boot[t], sjobs, StoragesOfJob, raw.size)
    /\ submits > 0 /\ BootRunning = {} => Inserted(<<>>, sjobs, StoragesOfJob, raw.size)
    /\ submits <= 1 => \A b \in blocks : (\E t \in SubThreads : b \in Held(boot[t])) \/ (\E s \in sjobs : b \in s.blocks)
    /\ submits = 1 /\ (\E t \in BootRunning : boot[t].at # "insert") => sjobs = {}

OnceInv ==
    /\ \A t \in SubThreads : boot[t].at = "idle" => boot[t].src = <<>>
    /\ submits = 0 => BootRunning = {} /\ sjobs = {}
    /\ Calm => CalmInv

\* The first of the documents that are left, and the others
LEMMA SrcTail ==
    ASSUME NEW D, \A d \in D : d.size \in Int, NEW src \in Seq(D), src # <<>>, OneOfEach(src)
    PROVE  /\ SumFunction(SrcSizes(src)) = Head(src).size + SumFunction(SrcSizes(Tail(src)))
           /\ SumFunction(SrcSizes(Tail(src))) \in Int /\ Head(src).size \in Int
           /\ SrcStorages(src) = SrcStorages(Tail(src)) \cup {Head(src).storage}
           /\ Head(src).storage \notin SrcStorages(Tail(src)) /\ OneOfEach(Tail(src))
<1>1. PICK n, r : n = Len(src) /\ r = Tail(src)
  BY Zenon
<1>2. /\ n \in Nat /\ n # 0 /\ DOMAIN src = 1..n /\ Head(src) = src[1] /\ src[1] \in D
      /\ r \in Seq(D) /\ DOMAIN r = 1..(n - 1) /\ \A i \in 1..(n - 1) : r[i] = src[i + 1] /\ src[i + 1] \in D
  BY <1>1
<1>3. SrcSizes(src) \in Seq(Int) /\ SrcSizes(src) # <<>> /\ Head(SrcSizes(src)) = Head(src).size
  <2>1. SrcSizes(src) = [i \in 1..n |-> src[i].size]
    BY <1>2, Zenon DEF SrcSizes
  <2>2. \A i \in 1..n : src[i].size \in Int
    <3>1. \A i \in 1..n : src[i] \in D
      BY <1>1
    <3> QED BY <3>1, Zenon
  <2>3. PICK f : f = SrcSizes(src)
    BY Zenon
  <2>4. f \in [1..n -> Int] /\ 1 \in 1..n /\ f[1] = src[1].size
    BY <1>2, <2>1, <2>2, <2>3, SMTT(30)
  <2>5. f \in Seq(Int) /\ f # <<>> /\ Head(f) = f[1]
    BY <1>2, <2>4
  <2> QED BY <1>2, <2>3, <2>4, <2>5, Zenon
<1>4. Tail(SrcSizes(src)) = SrcSizes(r)
  BY <1>2 DEF SrcSizes
<1>5. /\ SumFunction(SrcSizes(src)) = Head(src).size + SumFunction(SrcSizes(r))
      /\ SumFunction(SrcSizes(r)) \in Int
  BY <1>3, <1>4, SumTail, Zenon
<1>6. \A i \in 1..n : i = 1 \/ (i - 1 \in 1..(n - 1) /\ src[i] = r[i - 1])
  BY <1>2
<1>7. SrcStorages(src) = SrcStorages(r) \cup {Head(src).storage}
  <2>1. \A i \in 1..(n - 1) : i + 1 \in 1..n
    BY <1>2
  <2>2. 1 \in 1..n
    BY <1>2
  <2>3. \A x : (\E i \in 1..n : x = src[i].storage) <=> (\E i \in 1..(n - 1) : x = r[i].storage) \/ x = src[1].storage
    BY <1>2, <1>6, <2>1, <2>2
  <2>4. Head(src).storage = src[1].storage
    BY <1>2, Zenon
  <2>5. \A x : x \in SrcStorages(src) <=> (\E i \in 1..n : x = src[i].storage)
    BY <1>2, Zenon DEF SrcStorages
  <2>6. \A x : x \in SrcStorages(r) <=> (\E i \in 1..(n - 1) : x = r[i].storage)
    BY <1>2, Zenon DEF SrcStorages
  <2>7. \A x : x \in SrcStorages(src) <=> x \in SrcStorages(r) \/ x = src[1].storage
    <3> TAKE x
    <3> QED BY <2>3, <2>5, <2>6, SMTT(30)
  <2> QED BY <2>4, <2>7, Zenon
<1>8. \A i \in 1..(n - 1) : i + 1 \in 1..n /\ i + 1 # 1 /\ 1 \in 1..n
  BY <1>2
<1>9. Head(src).storage \notin SrcStorages(r)
  <2> SUFFICES ASSUME NEW i \in 1..(n - 1), r[i].storage = src[1].storage PROVE FALSE
    BY <1>2, Zenon DEF SrcStorages
  <2>1. i + 1 \in DOMAIN src /\ 1 \in DOMAIN src /\ src[i + 1].storage = src[1].storage /\ i + 1 # 1
    BY <1>2, <1>8
  <2> QED BY <2>1, Zenon DEF OneOfEach
<1>10. OneOfEach(r)
  <2> SUFFICES ASSUME NEW i \in 1..(n - 1), NEW k \in 1..(n - 1), r[i].storage = r[k].storage PROVE i = k
    BY <1>2, Zenon DEF OneOfEach
  <2>0. i + 1 \in DOMAIN src /\ k + 1 \in DOMAIN src /\ src[i + 1].storage = src[k + 1].storage
    BY <1>2, <1>8
  <2>1. i + 1 = k + 1
    BY <2>0, Zenon DEF OneOfEach
  <2> QED BY <2>1
<1> QED BY <1>1, <1>2, <1>5, <1>7, <1>9, <1>10, Zenon

\* One more document
LEMMA SrcAppend ==
    ASSUME NEW D, NEW src \in Seq(D), NEW d, OneOfEach(src), d.storage \notin SrcStorages(src)
    PROVE  SrcStorages(Append(src, d)) = SrcStorages(src) \cup {d.storage} /\ OneOfEach(Append(src, d))
<1>1. PICK n, r : n = Len(src) /\ r = Append(src, d)
  BY Zenon
<1>2. n \in Nat /\ DOMAIN src = 1..n /\ DOMAIN r = 1..(n + 1) /\ r[n + 1] = d /\ \A i \in 1..n : r[i] = src[i]
  BY <1>1
<1>3. (\A i \in 1..(n + 1) : i \in 1..n \/ i = n + 1) /\ (\A i \in 1..n : i \in 1..(n + 1)) /\ n + 1 \in 1..(n + 1)
  BY <1>2
<1>4. SrcStorages(r) = SrcStorages(src) \cup {d.storage}
  BY <1>2, <1>3, ZenonT(30) DEF SrcStorages
<1>5. OneOfEach(r)
  <2> SUFFICES ASSUME NEW i \in 1..(n + 1), NEW k \in 1..(n + 1), r[i].storage = r[k].storage PROVE i = k
    BY <1>2, Zenon DEF OneOfEach
  <2>1. \A m \in 1..n : r[m].storage # d.storage
    BY <1>2, Zenon DEF SrcStorages
  <2> QED BY <1>2, <1>3, <2>1, Zenon DEF OneOfEach
<1> QED BY <1>1, <1>4, <1>5, Zenon

\* The next storage, and those after it
LEMMA LeftTail ==
    ASSUME NEW X, NEW left \in Seq(X), left # <<>>, \A i, k \in DOMAIN left : left[i] = left[k] => i = k
    PROVE  /\ Range(left) = Range(Tail(left)) \cup {Head(left)} /\ Head(left) \notin Range(Tail(left))
           /\ \A i, k \in DOMAIN Tail(left) : Tail(left)[i] = Tail(left)[k] => i = k
<1>1. PICK n, r : n = Len(left) /\ r = Tail(left)
  BY Zenon
<1>2. /\ n \in Nat /\ n # 0 /\ DOMAIN left = 1..n /\ Head(left) = left[1]
      /\ DOMAIN r = 1..(n - 1) /\ \A i \in 1..(n - 1) : r[i] = left[i + 1]
  BY <1>1
<1>3. \A i \in 1..n : i = 1 \/ (i - 1 \in 1..(n - 1) /\ left[i] = r[i - 1])
  BY <1>2
<1>4. \A i \in 1..(n - 1) : i + 1 \in 1..n /\ i + 1 # 1 /\ 1 \in 1..n
  BY <1>2
<1>5. 1 \in 1..n
  BY <1>2
<1>6. Range(left) = Range(r) \cup {Head(left)}
  <2>1. \A x : (\E i \in 1..n : left[i] = x) <=> (\E i \in 1..(n - 1) : r[i] = x) \/ x = left[1]
    BY <1>2, <1>3, <1>4, <1>5
  <2>2. \A x : x \in Range(left) <=> (\E i \in 1..n : left[i] = x)
    BY <1>2, Zenon DEF Range
  <2>3. \A x : x \in Range(r) <=> (\E i \in 1..(n - 1) : r[i] = x)
    BY <1>2, Zenon DEF Range
  <2>4. \A x : x \in Range(left) <=> x \in Range(r) \/ x = left[1]
    BY <2>1, <2>2, <2>3, Zenon
  <2> QED BY <1>2, <2>4, Zenon
<1>7. Head(left) \notin Range(r)
  <2>1. \A i \in 1..(n - 1) : r[i] # left[1]
    BY <1>2, <1>4, SMTT(30)
  <2> QED BY <1>2, <2>1, Zenon DEF Range
<1>8. ASSUME NEW i \in 1..(n - 1), NEW k \in 1..(n - 1), r[i] = r[k] PROVE i = k
  <2>1. i + 1 = k + 1
    BY <1>2, <1>4, <1>8, ZenonT(40)
  <2> QED BY <2>1
<1> QED BY <1>1, <1>2, <1>6, <1>7, <1>8, Zenon

\* A run that is under way goes on.
LEMMA OnceMoves ==
    ASSUME WholeInv, OnceInv, NEW t \in SubThreads, NEW c, boot' = [boot EXCEPT ![t] = c],
           boot[t].at # "idle", c.at \notin {"idle", "fail"}, c.at # "insert" => boot[t].at # "insert" /\ sjobs' = sjobs,
           UNCHANGED <<job, submits, overlapped, failedRuns>>, raw'.errorField = raw.errorField,
           Calm => Alone(c, sjobs', StoragesOfJob, raw'.size),
           \A b \in Held(boot[t]) : b \in Held(c) \/ \E s \in sjobs' : b \in s.blocks,
           blocks' \subseteq blocks \cup Held(c),
           Calm /\ submits <= 1 => sjobs \subseteq sjobs'
    PROVE  OnceInv'
<1>1. \A u \in SubThreads : boot'[u] = IF u = t THEN c ELSE boot[u]
  BY Zenon DEF WholeInv
<1>2. BootRunning' = BootRunning /\ t \in BootRunning
  BY <1>1, ZenonT(30) DEF BootRunning
<1>3. (Calm' <=> Calm) /\ StoragesOfJob' = StoragesOfJob
  BY Zenon DEF Calm, StoragesOfJob
<1>4. (\A u \in SubThreads : boot'[u].at = "idle" => boot'[u].src = <<>>) /\ submits # 0
  BY <1>1, <1>2, ZenonT(30) DEF OnceInv
<1>5. ASSUME Calm PROVE CalmInv'
  <2>1. CalmInv
    BY <1>5, Zenon DEF OnceInv
  <2>2. \A u \in BootRunning : u = t
    BY <1>2, <2>1, Zenon DEF CalmInv
  <2>3. ~raw'.errorField /\ FailingBoots' = {}
    BY <1>1, <2>1, ZenonT(30) DEF CalmInv, FailingBoots
  <2>4. \A u \in BootRunning' : Alone(boot'[u], sjobs', StoragesOfJob', raw'.size)
    BY <1>1, <1>2, <1>3, <1>5, <2>2, ZenonT(30)
  <2>5. ASSUME submits' <= 1, NEW b \in blocks'
        PROVE  (\E u \in SubThreads : b \in Held(boot'[u])) \/ \E s \in sjobs' : b \in s.blocks
    <3>1. CASE b \in Held(c)
      BY <1>1, <3>1, ZenonT(30)
    <3>2. CASE b \in blocks
      <4>1. submits <= 1 /\ sjobs \subseteq sjobs'
        BY <1>5, <2>5, Zenon
      <4>2. (\E u \in SubThreads : b \in Held(boot[u])) \/ \E s \in sjobs : b \in s.blocks
        BY <2>1, <3>2, <4>1, Zenon DEF CalmInv
      <4> QED BY <1>1, <4>1, <4>2, <3>1, ZenonT(30)
    <3> QED BY <3>1, <3>2, Zenon
  <2>6. submits' = 1 /\ (\E u \in BootRunning' : boot'[u].at # "insert") => sjobs' = {}
    BY <1>1, <1>2, <2>1, <2>2, ZenonT(30) DEF CalmInv
  <2> QED BY <1>2, <2>2, <2>3, <2>4, <2>5, <2>6, ZenonT(30) DEF CalmInv
<1> QED BY <1>3, <1>4, <1>5, ZenonT(30) DEF OnceInv

\* A run fails, or all are cut off: from then on there is a run that failed.
LEMMA OnceFails ==
    ASSUME CountInv, OnceInv, BootRunning # {}, failedRuns' > 0, failedRuns' \in Nat, UNCHANGED submits,
           \A u \in SubThreads : boot'[u].at = "idle" => boot'[u].src = <<>>
    PROVE  OnceInv'
<1>1. submits' # 0
  BY Zenon DEF OnceInv
<1>2. ~Calm'
  BY DEF Calm
<1> QED BY <1>1, <1>2, Zenon DEF OnceInv

\* The state of a failure is written.
LEMMA OnceBootFails ==
    ASSUME WholeInv, CountInv, OnceInv, NEW t \in SubThreads, boot[t].at # "idle", BootFails(t)
    PROVE  OnceInv'
<1>1. BootRunning # {}
  BY Zenon DEF BootRunning
<1>2. failedRuns' > 0 /\ failedRuns' \in Nat /\ UNCHANGED submits
  BY DEF BootFails, CountInv
<1>a. PICK c : c = [boot[t] EXCEPT !.at = "fail"]
  BY Zenon
<1>3. boot' = [boot EXCEPT ![t] = c] /\ c.at = "fail"
  BY <1>a, BootLocal DEF BootFails
<1>4. boot'[t].at = "fail" /\ \A u \in SubThreads : u # t => boot'[u] = boot[u]
  BY <1>3, Zenon DEF WholeInv
<1>5. \A u \in SubThreads : boot'[u].at = "idle" => boot'[u].src = <<>>
  BY <1>4 DEF OnceInv
<1> QED BY <1>1, <1>2, <1>5, OnceFails, Zenon

\* The process ends while a run is under way.
LEMMA OnceEnds ==
    ASSUME WholeInv, CountInv, OnceInv, BootRunning # {}, BootsEnd
    PROVE  OnceInv'
<1>1. IsFiniteSet(BootRunning)
  <2>1. BootRunning \subseteq SubThreads
    BY Zenon DEF BootRunning
  <2> QED BY <2>1, FS_Subset, SubmissionConstants, ZenonT(30)
<1>2. Cardinality(BootRunning) \in Nat /\ Cardinality(BootRunning) # 0
  BY <1>1, FS_CardinalityType, FS_EmptySet, ZenonT(30)
<1>3. failedRuns' > 0 /\ failedRuns' \in Nat /\ UNCHANGED submits
  BY <1>2 DEF BootsEnd, CountInv
<1>4. \A u \in SubThreads : boot'[u].at = "idle" => boot'[u].src = <<>>
  BY NoBootOK, Zenon DEF BootsEnd
<1> QED BY <1>3, <1>4, OnceFails, Zenon

\* A run goes on and neither block nor sjob changes.
LEMMA OnceStage ==
    ASSUME WholeInv, OnceInv, NEW t \in SubThreads, NEW c, boot' = [boot EXCEPT ![t] = c],
           boot[t].at \notin {"idle", "insert"}, c.at \notin {"idle", "fail", "insert"}, Held(c) = Held(boot[t]),
           UNCHANGED <<job, blocks, sjobs, submits, overlapped, failedRuns>>, raw'.errorField = raw.errorField,
           Calm => Alone(c, sjobs, StoragesOfJob, raw'.size)
    PROVE  OnceInv'
<1>1. /\ Calm => Alone(c, sjobs', StoragesOfJob, raw'.size)
      /\ \A b \in Held(boot[t]) : b \in Held(c) \/ \E s \in sjobs' : b \in s.blocks
      /\ blocks' \subseteq blocks \cup Held(c) /\ (Calm /\ submits <= 1 => sjobs \subseteq sjobs')
      /\ sjobs' = sjobs
  BY Zenon
<1> QED BY <1>1, OnceMoves, ZenonT(30)

\* What a run that nothing disturbs has done
LEMMA AloneNow ==
    ASSUME OnceInv, Calm, NEW t \in SubThreads, boot[t].at # "idle"
    PROVE  Alone(boot[t], sjobs, StoragesOfJob, raw.size)
BY Zenon DEF OnceInv, CalmInv, BootRunning

\* No document is made in the stages before the expansion.
LEMMA OnceEarly ==
    ASSUME WholeInv, OnceInv, NEW t \in SubThreads, NEW c, boot' = [boot EXCEPT ![t] = c],
           boot[t].at \in {"launcher", "certs", "dst", "sources"}, c.at \in {"certs", "dst", "sources"},
           c.mine = boot[t].mine, c.src = boot[t].src,
           UNCHANGED <<job, blocks, sjobs, submits, overlapped, failedRuns>>, raw'.errorField = raw.errorField
    PROVE  OnceInv'
<1>1. Held(c) = Held(boot[t])
  BY Zenon DEF Held
<1>2. ASSUME Calm PROVE Alone(c, sjobs, StoragesOfJob, raw'.size)
  <2>1. boot[t].at # "idle"
    OBVIOUS
  <2>2. Alone(boot[t], sjobs, StoragesOfJob, raw.size)
    BY <1>2, <2>1, AloneNow, Zenon
  <2>3. c.src = <<>> /\ OneOfEach(c.src)
    BY <2>2, ZenonT(30) DEF Alone
  <2> QED BY <2>3, ZenonT(30) DEF Alone
<1>3. boot[t].at \notin {"idle", "insert"} /\ c.at \notin {"idle", "fail", "insert"}
  OBVIOUS
<1> QED BY <1>1, <1>2, <1>3, OnceStage, ZenonT(30)

\* A submission that finds no other run under way starts one.
LEMMA OnceSubmit ==
    ASSUME WholeInv, CountInv, OnceInv, NEW t \in SubThreads, SubmitJob(t)
    PROVE  OnceInv'
<1>1. PICK a : a = IF raw.errorField THEN "idle" ELSE "launcher"
  BY Zenon
<1>2. PICK c : c = [boot[t] EXCEPT !.at = a]
  BY Zenon
<1>3. boot' = [boot EXCEPT ![t] = c] /\ c.at = a /\ c.src = boot[t].src /\ c.mine = boot[t].mine /\ boot[t].at = "idle"
  BY <1>1, <1>2, BootLocal, SMTT(30) DEF SubmitJob
<1>4. /\ UNCHANGED <<job, raw, blocks, sjobs, failedRuns>> /\ submits' = submits + 1 /\ submits \in Nat
      /\ overlapped' = (overlapped \/ BootRunning # {})
  BY Zenon DEF SubmitJob, CountInv
<1>5. \A u \in SubThreads : boot'[u] = IF u = t THEN c ELSE boot[u]
  BY <1>3, Zenon DEF WholeInv
<1>6. c.src = <<>> /\ Held(c) = Held(boot[t])
  BY <1>3, Zenon DEF OnceInv, Held
<1>7. \A u \in SubThreads : boot'[u].at = "idle" => boot'[u].src = <<>>
  BY <1>5, <1>6, ZenonT(30) DEF OnceInv
<1>8. submits' # 0 /\ (submits' <= 1 => submits = 0 /\ submits <= 1) /\ (submits' = 1 => submits = 0)
  BY <1>4
<1>9. ASSUME Calm' PROVE CalmInv'
  <2>1. Calm /\ BootRunning = {}
    BY <1>4, <1>9, Zenon DEF Calm
  <2>2. CalmInv /\ ~raw.errorField
    BY <2>1, Zenon DEF OnceInv, CalmInv
  <2>3. c.at = "launcher"
    BY <1>1, <1>3, <2>2, Zenon
  <2>4. BootRunning' = {t}
    BY <1>5, <2>1, <2>3, ZenonT(30) DEF BootRunning
  <2>5. FailingBoots' = {}
    BY <1>5, <2>2, <2>3, ZenonT(30) DEF CalmInv, FailingBoots
  <2>6. OneOfEach(c.src)
    BY <1>6 DEF OneOfEach
  <2>7. Alone(boot'[t], sjobs', StoragesOfJob', raw'.size)
    <3>1. boot'[t] = c
      BY <1>5, ZenonT(30)
    <3>2. Alone(c, sjobs', StoragesOfJob', raw'.size)
      BY <1>6, <2>3, <2>6, SMTT(30) DEF Alone
    <3> QED BY <3>1, <3>2, Zenon
  <2>8. ASSUME submits' <= 1, NEW b \in blocks'
        PROVE  (\E u \in SubThreads : b \in Held(boot'[u])) \/ \E s \in sjobs' : b \in s.blocks
    <3>1. (\E u \in SubThreads : b \in Held(boot[u])) \/ \E s \in sjobs : b \in s.blocks
      BY <1>4, <1>8, <2>2, <2>8, ZenonT(30) DEF CalmInv
    <3> QED BY <1>4, <1>5, <1>6, <3>1, ZenonT(30)
  <2>9. submits' = 1 => sjobs' = {}
    BY <1>4, <1>8, Zenon DEF OnceInv
  <2> QED BY <1>4, <2>2, <2>4, <2>5, <2>7, <2>8, <2>9, ZenonT(30) DEF CalmInv
<1> QED BY <1>7, <1>8, <1>9, ZenonT(30) DEF OnceInv

\* The stages before the sources are known
LEMMA OnceAsks ==
    ASSUME WholeInv, CountInv, OnceInv, NEW t \in SubThreads, BootAsksLauncher(t) \/ BootCerts(t) \/ BootDestination(t)
    PROVE  OnceInv'
<1>0. boot[t].at \in {"launcher", "certs", "dst"}
  BY Zenon DEF BootAsksLauncher, BootCerts, BootDestination
<1>a. boot[t].at # "idle" /\ boot[t].at \in {"launcher", "certs", "dst", "sources"}
  BY <1>0
<1>1. CASE BootFails(t)
  BY <1>1, <1>a, OnceBootFails, Zenon
<1>2. CASE boot' = [boot EXCEPT ![t] = NoBoot] /\ failedRuns' = failedRuns + 1 /\ UNCHANGED submits
  <2>1. BootRunning # {} /\ failedRuns' > 0 /\ failedRuns' \in Nat
    BY <1>2, <1>a, SMTT(30) DEF BootRunning, CountInv
  <2>2. \A u \in SubThreads : boot'[u] = IF u = t THEN NoBoot ELSE boot[u]
    BY <1>2, Zenon DEF WholeInv
  <2>3. \A u \in SubThreads : boot'[u].at = "idle" => boot'[u].src = <<>>
    BY <2>2, NoBootOK, ZenonT(30) DEF OnceInv
  <2> QED BY <1>2, <2>1, <2>3, OnceFails, ZenonT(40)
<1>3. CASE BootGoes(t, [boot[t] EXCEPT !.at = "certs"])
  <2>1. PICK c : c = [boot[t] EXCEPT !.at = "certs"]
    BY Zenon
  <2>2. /\ boot' = [boot EXCEPT ![t] = c]
        /\ UNCHANGED <<job, blocks, sjobs, submits, overlapped, failedRuns>> /\ raw'.errorField = raw.errorField
    BY <1>3, <2>1, ZenonT(30) DEF BootGoes
  <2>3. c.mine = boot[t].mine /\ c.src = boot[t].src /\ c.at \in {"certs", "dst", "sources"}
    BY <2>1, BootLocal, SMTT(30)
  <2> QED BY <1>a, <2>2, <2>3, OnceEarly, ZenonT(40)
<1>4. CASE /\ raw' = [raw EXCEPT !.certs = TRUE] /\ boot' = [boot EXCEPT ![t].at = "dst"]
           /\ UNCHANGED <<job, blocks, sjobs, submits, overlapped, failedRuns>>
  <2>1. PICK c : c = [boot[t] EXCEPT !.at = "dst"]
    BY Zenon
  <2>2. boot' = [boot EXCEPT ![t] = c]
    BY <1>4, <2>1, BootLocal, ZenonT(40)
  <2>3. c.mine = boot[t].mine /\ c.src = boot[t].src /\ c.at \in {"certs", "dst", "sources"}
    BY <2>1, BootLocal, SMTT(30)
  <2>4. raw'.errorField = raw.errorField
    BY <1>4, ZenonT(30) DEF CountInv
  <2> QED BY <1>4, <1>a, <2>2, <2>3, <2>4, OnceEarly, ZenonT(30)
<1>5. ASSUME NEW known \in BOOLEAN, BootGoes(t, [boot[t] EXCEPT !.at = "sources", !.i = 1, !.disk = known]) PROVE OnceInv'
  <2>1. PICK c : c = [boot[t] EXCEPT !.at = "sources", !.i = 1, !.disk = known]
    BY Zenon
  <2>2. /\ boot' = [boot EXCEPT ![t] = c]
        /\ UNCHANGED <<job, blocks, sjobs, submits, overlapped, failedRuns>> /\ raw'.errorField = raw.errorField
    BY <1>5, <2>1, ZenonT(30) DEF BootGoes
  <2>3. c.mine = boot[t].mine /\ c.src = boot[t].src /\ c.at \in {"certs", "dst", "sources"}
    BY <2>1, BootLocal, SMTT(30)
  <2> QED BY <1>a, <2>2, <2>3, OnceEarly, ZenonT(40)
<1>6. CASE BootAsksLauncher(t)
  BY <1>1, <1>3, <1>6, Zenon DEF BootAsksLauncher
<1>7. CASE BootCerts(t)
  BY <1>1, <1>2, <1>4, <1>7, ZenonT(30) DEF BootCerts
<1>8. CASE BootDestination(t)
  BY <1>1, <1>5, <1>8, Zenon DEF BootDestination
<1> QED BY <1>6, <1>7, <1>8, Zenon

\* The sources are read, then every storage is left to do.
LEMMA OnceSource ==
    ASSUME WholeInv, CountInv, OnceInv, NEW t \in SubThreads, BootSource(t)
    PROVE  OnceInv'
<1>0. boot[t].at = "sources" /\ job \in RawJobs
  BY Zenon DEF BootSource, WholeInv
<1>1. CASE BootFails(t)
  BY <1>0, <1>1, OnceBootFails, Zenon
<1>2. CASE BootGoes(t, [boot[t] EXCEPT !.at = "expand", !.i = 0, !.left = StorageKeys(job.sources)])
  <2>1. PICK c : c = [boot[t] EXCEPT !.at = "expand", !.i = 0, !.left = StorageKeys(job.sources)]
    BY Zenon
  <2>2. /\ boot' = [boot EXCEPT ![t] = c]
        /\ UNCHANGED <<job, raw, blocks, sjobs, submits, overlapped, failedRuns>> /\ raw'.errorField = raw.errorField
    BY <1>2, <2>1, ZenonT(30) DEF BootGoes
  <2>3. c.mine = boot[t].mine /\ c.src = boot[t].src /\ c.at = "expand" /\ c.left = StorageKeys(job.sources)
    BY <2>1, BootLocal
  <2>4. Held(c) = Held(boot[t])
    BY <2>3, Zenon DEF Held
  <2>5. ASSUME Calm PROVE Alone(c, sjobs, StoragesOfJob, raw'.size)
    <3>1. Alone(boot[t], sjobs, StoragesOfJob, raw.size)
      BY <1>0, <2>5, AloneNow, Zenon
    <3>2. c.src = <<>> /\ OneOfEach(c.src)
      BY <1>0, <2>3, <3>1, ZenonT(30) DEF Alone
    <3>3. SrcStorages(c.src) = {}
      BY <3>2 DEF SrcStorages
    <3>4. c.left \in Bijection(1..Cardinality(StoragesOfJob), StoragesOfJob)
      BY <1>0, <2>3, KeysOfJob, ZenonT(40) DEF StoragesOfJob
    <3>5. \A i, k \in DOMAIN c.left : c.left[i] = c.left[k] => i = k
      BY <3>4, ZenonT(30) DEF Bijection, Injection, IsInjective
    <3>6. Range(c.left) = StoragesOfJob
      BY <3>4, ZenonT(30) DEF Bijection, Surjection, Injection, Range
    <3> QED BY <2>3, <3>2, <3>3, <3>5, <3>6, ZenonT(30) DEF Alone
  <2> QED BY <1>0, <2>2, <2>3, <2>4, <2>5, OnceStage, ZenonT(30)
<1>3. CASE BootGoes(t, [boot[t] EXCEPT !.i = @ + 1])
  <2>1. PICK c : c = [boot[t] EXCEPT !.i = @ + 1]
    BY Zenon
  <2>2. /\ boot' = [boot EXCEPT ![t] = c]
        /\ UNCHANGED <<job, blocks, sjobs, submits, overlapped, failedRuns>> /\ raw'.errorField = raw.errorField
    BY <1>3, <2>1, ZenonT(30) DEF BootGoes
  <2>3. c.mine = boot[t].mine /\ c.src = boot[t].src /\ c.at \in {"certs", "dst", "sources"}
    BY <1>0, <2>1, BootLocal, SMTT(30)
  <2> QED BY <1>0, <2>2, <2>3, OnceEarly, ZenonT(30)
<1> QED BY <1>1, <1>2, <1>3, Zenon DEF BootSource

\* The paths of the next storage are expanded, or its dataset taken.
LEMMA OnceExpands ==
    ASSUME WholeInv, CountInv, OnceInv, NEW t \in SubThreads, BootExpand(t) \/ BootDataset(t)
    PROVE  OnceInv'
<1>0. boot[t].at = "expand" /\ boot[t].at # "idle"
  BY DEF BootExpand, BootDataset
<1>1. CASE BootFails(t)
  BY <1>0, <1>1, OnceBootFails, Zenon
<1>2. CASE BootsEnd
  <2>1. BootRunning # {}
    BY <1>0, Zenon DEF BootRunning
  <2> QED BY <1>2, <2>1, OnceEnds, Zenon
<1>3. ASSUME NEW groups, BootGroups(t, groups) PROVE OnceInv'
  <2>1. PICK c : c = [boot[t] EXCEPT !.at = "blocks", !.groups = groups, !.total = SumFunction(groups)]
    BY Zenon
  <2>2. /\ boot' = [boot EXCEPT ![t] = c]
        /\ UNCHANGED <<job, raw, blocks, sjobs, submits, overlapped, failedRuns>> /\ raw'.errorField = raw.errorField
    BY <1>3, <2>1, ZenonT(30) DEF BootGroups, BootGoes
  <2>3. c.mine = boot[t].mine /\ c.src = boot[t].src /\ c.at = "blocks" /\ c.left = boot[t].left
    BY <2>1, BootLocal
  <2>4. Held(c) = Held(boot[t])
    BY <2>3, ZenonT(40) DEF Held
  <2>5. ASSUME Calm PROVE Alone(c, sjobs, StoragesOfJob, raw'.size)
    <3>1. Alone(boot[t], sjobs, StoragesOfJob, raw.size)
      BY <1>0, <2>5, AloneNow, ZenonT(40)
    <3> QED BY <1>0, <2>3, <3>1, SMTT(30) DEF Alone
  <2>6. boot[t].at \notin {"idle", "insert"} /\ c.at \notin {"idle", "fail", "insert"}
    BY <1>0, <2>3
  <2> QED BY <2>2, <2>4, <2>5, <2>6, OnceStage, ZenonT(30)
<1> QED BY <1>1, <1>2, <1>3, ZenonT(30) DEF BootExpand, BootDataset

\* The next block is inserted.
LEMMA OnceBlock ==
    ASSUME WholeInv, CountInv, OnceInv, NEW t \in SubThreads, BootBlock(t), boot[t].groups # <<>>
    PROVE  OnceInv'
<1>0. boot[t].at = "blocks"
  BY Zenon DEF BootBlock
<1>1. PICK new : new = [id |-> fresh, storage |-> Head(boot[t].left), size |-> Head(boot[t].groups)]
  BY Zenon
<1>2. PICK c : c = [boot[t] EXCEPT !.groups = Tail(@), !.mine = Append(@, new)]
  BY Zenon
<1>3. /\ blocks' = blocks \cup {new} /\ UNCHANGED <<job, raw, sjobs, submits, overlapped, failedRuns>>
      /\ boot' = [boot EXCEPT ![t] = c]
  BY <1>1, <1>2, BootLocal, ZenonT(30) DEF BootBlock
<1>4. PICK m : m = boot[t].mine
  BY Zenon
<1>5. c.at = boot[t].at /\ c.left = boot[t].left /\ c.src = boot[t].src /\ c.mine = Append(m, new)
  BY <1>2, <1>4, BootLocal, SMTT(30)
<1>6. m \in Seq(blocks)
  BY <1>4, BootLocal, ZenonT(30) DEF BootLocals
<1>7. Range(Append(m, new)) = Range(m) \cup {new}
  <2>1. /\ Len(m) \in Nat /\ DOMAIN m = 1..Len(m) /\ DOMAIN Append(m, new) = 1..(Len(m) + 1)
        /\ (\A i \in 1..Len(m) : Append(m, new)[i] = m[i]) /\ Append(m, new)[Len(m) + 1] = new
    BY <1>6
  <2>2. /\ \A i \in 1..(Len(m) + 1) : i \in 1..Len(m) \/ i = Len(m) + 1
        /\ Len(m) + 1 \in 1..(Len(m) + 1) /\ 1..Len(m) \subseteq 1..(Len(m) + 1)
    BY <2>1
  <2> QED BY <2>1, <2>2, ZenonT(30) DEF Range
<1>8. Held(c) = Held(boot[t]) \cup {new}
  BY <1>4, <1>5, <1>7, ZenonT(30) DEF Held
<1>9. ASSUME Calm PROVE Alone(c, sjobs', StoragesOfJob, raw'.size)
  <2>1. Alone(boot[t], sjobs, StoragesOfJob, raw.size)
    BY <1>0, <1>9, AloneNow, Zenon
  <2> QED BY <1>3, <1>5, <2>1, ZenonT(30) DEF Alone
<1>10. /\ \A b \in Held(boot[t]) : b \in Held(c) \/ \E s \in sjobs' : b \in s.blocks
       /\ blocks' \subseteq blocks \cup Held(c) /\ sjobs \subseteq sjobs' /\ raw'.errorField = raw.errorField
  BY <1>3, <1>8, ZenonT(30)
<1>11. boot[t].at \notin {"idle", "insert"} /\ c.at \notin {"idle", "fail", "insert"}
  BY <1>0, <1>5, SMTT(30)
<1> QED BY <1>3, <1>9, <1>10, <1>11, OnceMoves, ZenonT(30)

\* A storage is done: its document is put to the others.
LEMMA OnceStorage ==
    ASSUME WholeInv, CountInv, OnceInv, NEW t \in SubThreads, BootBlock(t), boot[t].groups = <<>>
    PROVE  OnceInv'
<1>0. boot[t].at = "blocks"
  BY Zenon DEF BootBlock
<1>1. CASE BootsEnd
  <2>1. BootRunning # {}
    BY <1>0, Zenon DEF BootRunning
  <2> QED BY <1>1, <2>1, OnceEnds, Zenon
<1>2. PICK doc : doc = SourceDoc(t)
  BY Zenon
<1>3. PICK c : c = [boot[t] EXCEPT !.at = "expand", !.left = Tail(@), !.total = 0, !.mine = <<>>, !.src = Append(@, doc)]
  BY Zenon
<1>4. PICK l, m, d : l = boot[t].left /\ m = boot[t].mine /\ d = boot[t].src
  BY Zenon
<1>5. /\ BootsEnd \/ (boot' = [boot EXCEPT ![t] = c] /\ UNCHANGED <<job, raw, blocks, sjobs, submits, overlapped, failedRuns>>)
  BY <1>2, <1>3, Zenon DEF BootBlock, BootGoes
<1>6. doc.storage = Head(l) /\ doc.blocks = m
  BY <1>2, <1>4, SMTT(30) DEF SourceDoc
<1>7. c.at = "expand" /\ c.left = Tail(l) /\ c.mine = <<>> /\ c.src = Append(d, doc)
  BY <1>3, <1>4, BootLocal, SMTT(30)
<1>8. l \in Seq(StoragesOfJob) /\ d \in Seq(SourceDocs(blocks, StoragesOfJob)) /\ l # <<>>
  <2>1. boot[t] \in BootLocals(blocks, StoragesOfJob) /\ BootWhole(boot[t])
    BY BootLocal, Zenon
  <2> QED BY <1>0, <1>4, <2>1, ZenonT(30) DEF BootLocals, BootWhole
<1>9. Held(c) = Held(boot[t])
  <2>1. /\ Len(d) \in Nat /\ DOMAIN d = 1..Len(d) /\ DOMAIN Append(d, doc) = 1..(Len(d) + 1)
        /\ (\A i \in 1..Len(d) : Append(d, doc)[i] = d[i]) /\ Append(d, doc)[Len(d) + 1] = doc
    BY <1>8, SMTT(30)
  <2>2. (\A i \in 1..(Len(d) + 1) : i \in 1..Len(d) \/ i = Len(d) + 1) /\ Range(<<>>) = {}
    BY <2>1, SMTT(30) DEF Range
  <2>3. Len(d) + 1 \in 1..(Len(d) + 1) /\ 1..Len(d) \subseteq 1..(Len(d) + 1)
    BY <2>1
  <2>4. \A b : b \in Held(c) <=> \E i \in 1..(Len(d) + 1) : b \in Range(Append(d, doc)[i].blocks)
    BY <1>7, <2>1, <2>2, ZenonT(30) DEF Held
  <2>5. \A b : b \in Held(boot[t]) <=> b \in Range(m) \/ \E i \in 1..Len(d) : b \in Range(d[i].blocks)
    BY <1>4, <2>1, ZenonT(30) DEF Held
  <2>6. \A b : b \in Held(c) <=> b \in Held(boot[t])
    BY <1>6, <2>1, <2>2, <2>3, <2>4, <2>5, ZenonT(30)
  <2> QED BY <2>6, Zenon
<1>10. ASSUME Calm, ~BootsEnd PROVE Alone(c, sjobs, StoragesOfJob, raw'.size)
  <2>1. Alone(boot[t], sjobs, StoragesOfJob, raw.size)
    BY <1>0, <1>10, AloneNow, ZenonT(40)
  <2>2. /\ OneOfEach(d) /\ \A i, k \in DOMAIN l : l[i] = l[k] => i = k
        /\ Range(l) \cup SrcStorages(d) = StoragesOfJob /\ Range(l) \cap SrcStorages(d) = {}
    BY <1>0, <1>4, <2>1, SMTT(30) DEF Alone
  <2>3. /\ Range(l) = Range(Tail(l)) \cup {Head(l)} /\ Head(l) \notin Range(Tail(l))
        /\ \A i, k \in DOMAIN Tail(l) : Tail(l)[i] = Tail(l)[k] => i = k
    BY <1>8, <2>2, LeftTail, ZenonT(30)
  <2>4. SrcStorages(Append(d, doc)) = SrcStorages(d) \cup {Head(l)} /\ OneOfEach(Append(d, doc))
    <3>1. doc.storage \notin SrcStorages(d)
      BY <1>6, <2>2, <2>3, Zenon
    <3> QED BY <1>6, <1>8, <2>2, <3>1, SrcAppend, ZenonT(30)
  <2>5. /\ Range(c.left) \cup SrcStorages(c.src) = StoragesOfJob /\ Range(c.left) \cap SrcStorages(c.src) = {}
    BY <1>7, <2>2, <2>3, <2>4, ZenonT(30)
  <2> QED BY <1>7, <2>3, <2>4, <2>5, SMTT(30) DEF Alone
<1>11. boot[t].at \notin {"idle", "insert"} /\ c.at \notin {"idle", "fail", "insert"}
  BY <1>0, <1>7
<1>12. CASE ~BootsEnd
  <2>1. boot' = [boot EXCEPT ![t] = c] /\ UNCHANGED <<job, raw, blocks, sjobs, submits, overlapped, failedRuns>>
    BY <1>5, <1>12, ZenonT(40)
  <2>2. raw'.errorField = raw.errorField
    BY <2>1, Zenon
  <2> QED BY <1>9, <1>10, <1>11, <1>12, <2>1, <2>2, OnceStage, ZenonT(30)
<1> QED BY <1>1, <1>12, Zenon

\* The size of the raw job is that of the documents that were made.
LEMMA OnceSize ==
    ASSUME WholeInv, CountInv, OnceInv, NEW t \in SubThreads, BootSize(t)
    PROVE  OnceInv'
<1>0. boot[t].at = "expand" /\ boot[t].left = <<>> /\ boot[t].at # "idle"
  BY DEF BootSize
<1>1. PICK a : a = IF boot[t].src = <<>> THEN "fail" ELSE "delete"
  BY Zenon
<1>2. PICK c : c = [boot[t] EXCEPT !.at = a]
  BY Zenon
<1>3. boot' = [boot EXCEPT ![t] = c] /\ UNCHANGED <<job, blocks, sjobs, submits, overlapped>>
  BY <1>1, <1>2, BootLocal, ZenonT(30) DEF BootSize
<1>4. c.mine = boot[t].mine /\ c.src = boot[t].src /\ c.at = a
  BY <1>2, BootLocal, SMTT(30)
<1>5. CASE boot[t].src = <<>>
  <2>1. BootRunning # {}
    BY <1>0, Zenon DEF BootRunning
  <2>2. failedRuns' > 0 /\ failedRuns' \in Nat
    BY <1>5 DEF BootSize, CountInv
  <2>3. \A u \in SubThreads : boot'[u] = IF u = t THEN c ELSE boot[u]
    BY <1>3, Zenon DEF WholeInv
  <2>4. \A u \in SubThreads : boot'[u].at = "idle" => boot'[u].src = <<>>
    BY <1>4, <1>5, <2>3, ZenonT(30) DEF OnceInv
  <2> QED BY <1>3, <2>1, <2>2, <2>4, OnceFails, ZenonT(30)
<1>6. CASE boot[t].src # <<>>
  <2>1. c.at = "delete" /\ UNCHANGED failedRuns
    BY <1>1, <1>4, <1>6, ZenonT(30) DEF BootSize
  <2>2. raw' = [raw EXCEPT !.size = SumFunction(SrcSizes(boot[t].src)), !.error = @ \/ boot[t].src = <<>>]
    BY Zenon DEF BootSize, SrcSizes
  <2>3. raw'.errorField = raw.errorField /\ raw'.size = SumFunction(SrcSizes(boot[t].src))
    <3>1. raw = [error |-> raw.error, errorField |-> raw.errorField, size |-> raw.size, certs |-> raw.certs]
      BY Zenon DEF CountInv
    <3> QED BY <2>2, <3>1, SMTT(30)
  <2>4. Held(c) = Held(boot[t])
    BY <1>4, ZenonT(40) DEF Held
  <2>5. ASSUME Calm PROVE Alone(c, sjobs, StoragesOfJob, raw'.size)
    <3>1. Alone(boot[t], sjobs, StoragesOfJob, raw.size)
      BY <1>0, <2>5, AloneNow, ZenonT(40)
    <3>2. Range(<<>>) = {}
      BY SMTT(30) DEF Range
    <3>3. OneOfEach(c.src) /\ SrcStorages(c.src) = StoragesOfJob
      BY <1>0, <1>4, <3>1, <3>2, Zenon DEF Alone
    <3> QED BY <1>4, <2>1, <2>3, <3>3, SMTT(30) DEF Alone
  <2>6. boot[t].at \notin {"idle", "insert"} /\ c.at \notin {"idle", "fail", "insert"}
    BY <1>0, <2>1
  <2> QED BY <1>3, <2>1, <2>3, <2>4, <2>5, <2>6, OnceStage, ZenonT(30)
<1> QED BY <1>5, <1>6, Zenon

\* The sjobs of the earlier run go, and every document is left to insert.
LEMMA OnceDeletes ==
    ASSUME WholeInv, CountInv, OnceInv, NEW t \in SubThreads, BootDeletes(t)
    PROVE  OnceInv'
<1>1. PICK c : c = [boot[t] EXCEPT !.at = "insert"]
  BY Zenon
<1>2. /\ boot' = [boot EXCEPT ![t] = c] /\ boot[t].at = "delete" /\ sjobs' = {}
      /\ UNCHANGED <<job, raw, blocks, submits, overlapped, failedRuns>>
  BY <1>1, BootLocal, ZenonT(30) DEF BootDeletes
<1>3. c.mine = boot[t].mine /\ c.src = boot[t].src /\ c.at = "insert"
  BY <1>1, BootLocal, SMTT(30)
<1>4. Held(c) = Held(boot[t])
  BY <1>3, ZenonT(40) DEF Held
<1>5. ASSUME Calm PROVE Alone(c, sjobs', StoragesOfJob, raw'.size)
  <2>1. Alone(boot[t], sjobs, StoragesOfJob, raw.size)
    BY <1>2, <1>5, AloneNow, ZenonT(40)
  <2>2. OneOfEach(c.src) /\ SrcStorages(c.src) = StoragesOfJob /\ raw'.size = SumFunction(SrcSizes(c.src)) /\ raw'.size \in Int
    BY <1>2, <1>3, <2>1, SMTT(30) DEF Alone, CountInv
  <2>3. TotalSize(sjobs') = 0 /\ IsFiniteSet(sjobs')
    <3>1. IsFiniteSet({}) /\ [b \in {} |-> b.size] \in [{} -> Int]
      BY FS_EmptySet
    <3>2. SumFunction([b \in {} |-> b.size]) = 0
      BY <3>1, SumWhole, ZenonT(30)
    <3> QED BY <1>2, <3>1, <3>2, ZenonT(40) DEF TotalSize
  <2>4. raw'.size = SumFunction(SrcSizes(c.src)) + TotalSize(sjobs')
    BY <2>2, <2>3, SMTT(30)
  <2>5. Inserted(c.src, sjobs', StoragesOfJob, raw'.size)
    BY <1>2, <2>2, <2>3, <2>4, ZenonT(30) DEF Inserted
  <2> QED BY <1>3, <2>2, <2>5, SMTT(30) DEF Alone
<1>6. Calm /\ submits <= 1 => sjobs \subseteq sjobs'
  <2>1. t \in BootRunning /\ boot[t].at # "insert"
    BY <1>2, SMTT(30) DEF BootRunning
  <2>2. submits <= 1 => submits = 1
    BY <2>1 DEF OnceInv, CountInv
  <2> QED BY <2>1, <2>2, ZenonT(30) DEF OnceInv, CalmInv
<1>7. /\ \A b \in Held(boot[t]) : b \in Held(c) \/ \E s \in sjobs' : b \in s.blocks
      /\ blocks' \subseteq blocks \cup Held(c) /\ raw'.errorField = raw.errorField
  BY <1>2, <1>4, ZenonT(30)
<1>8. boot[t].at # "idle" /\ c.at \notin {"idle", "fail"}
  BY <1>2, <1>3
<1> QED BY <1>2, <1>3, <1>5, <1>6, <1>7, <1>8, OnceMoves, ZenonT(30)

\* The first of the documents that are left becomes an sjob.
LEMMA InsertedNext ==
    ASSUME NEW D, \A d \in D : d.size \in Int, NEW src \in Seq(D), src # <<>>, NEW ss, NEW X, NEW size,
           Inserted(src, ss, X, size), \A s \in ss : s.size \in Int,
           NEW n, n.storage = Head(src).storage, n.size = Head(src).size
    PROVE  Inserted(Tail(src), ss \cup {n}, X, size)
<1>1. OneOfEach(src) /\ IsFiniteSet(ss) /\ size = SumFunction(SrcSizes(src)) + TotalSize(ss)
  BY Zenon DEF Inserted
<1>2. /\ SumFunction(SrcSizes(src)) = n.size + SumFunction(SrcSizes(Tail(src)))
      /\ SumFunction(SrcSizes(Tail(src))) \in Int /\ n.size \in Int
      /\ SrcStorages(src) = SrcStorages(Tail(src)) \cup {n.storage}
      /\ n.storage \notin SrcStorages(Tail(src)) /\ OneOfEach(Tail(src))
  BY <1>1, SrcTail, Zenon
<1>3. \A s \in ss : s.storage # n.storage
  BY <1>2, Zenon DEF Inserted
<1>4. TotalSize(ss \cup {n}) = n.size + TotalSize(ss) /\ TotalSize(ss) \in Int
  BY <1>1, <1>2, <1>3, SumAdds, ZenonT(30) DEF TotalSize
<1>5. size = SumFunction(SrcSizes(Tail(src))) + TotalSize(ss \cup {n})
  BY <1>1, <1>2, <1>4, SMTT(30)
<1>6. IsFiniteSet(ss \cup {n})
  BY <1>1, FS_AddElement, ZenonT(30)
<1>7. \A s, u \in ss \cup {n} : s.storage = u.storage => s = u
  BY <1>3, Zenon DEF Inserted
<1>8. {s.storage : s \in ss \cup {n}} = {s.storage : s \in ss} \cup {n.storage}
  BY Zenon
<1>9. /\ SrcStorages(Tail(src)) \cup {s.storage : s \in ss \cup {n}} = X
      /\ SrcStorages(Tail(src)) \cap {s.storage : s \in ss \cup {n}} = {}
  BY <1>2, <1>8, ZenonT(30) DEF Inserted
<1> QED BY <1>2, <1>5, <1>6, <1>7, <1>9, ZenonT(40) DEF Inserted

\* An sjob changes its state.
LEMMA InsertedSwap ==
    ASSUME NEW src, NEW ss, NEW X, NEW size, Inserted(src, ss, X, size), \A s \in ss : s.size \in Int,
           NEW o \in ss, NEW n, n.storage = o.storage, n.size = o.size
    PROVE  Inserted(src, (ss \ {o}) \cup {n}, X, size)
<1>1. PICK T : T = ss \ {o}
  BY Zenon
<1>2. T \cup {o} = ss /\ o \notin T /\ T \subseteq ss
  BY <1>1, Zenon
<1>3. \A s \in T : s.storage # n.storage /\ s.size \in Int
  BY <1>2, Zenon DEF Inserted
<1>4. IsFiniteSet(T) /\ IsFiniteSet(T \cup {n})
  BY <1>2, FS_Subset, FS_AddElement, ZenonT(30) DEF Inserted
<1>5. TotalSize(T \cup {o}) = o.size + TotalSize(T)
  BY <1>2, <1>3, <1>4, SumAdds, ZenonT(30) DEF TotalSize
<1>6. TotalSize(T \cup {n}) = n.size + TotalSize(T)
  BY <1>3, <1>4, SumAdds, ZenonT(30) DEF TotalSize
<1>7. TotalSize(T \cup {n}) = TotalSize(ss)
  BY <1>2, <1>5, <1>6, Zenon
<1>8. {s.storage : s \in T \cup {n}} = {s.storage : s \in ss}
  BY <1>2, Zenon
<1>9. \A s, u \in T \cup {n} : s.storage = u.storage => s = u
  BY <1>2, <1>3, Zenon DEF Inserted
<1> QED BY <1>1, <1>4, <1>7, <1>8, <1>9, Zenon DEF Inserted

\* The sizes of the documents are integers.
LEMMA DocSizes ==
    ASSUME WholeInv
    PROVE  (\A d \in SourceDocs(blocks, StoragesOfJob) : d.size \in Int) /\ \A s \in sjobs : s.size \in Int
BY Zenon DEF WholeInv, SourceDocs, SjobDocs

\* The last document of a run becomes an sjob: the run is over.
LEMMA OnceLast ==
    ASSUME WholeInv, OnceInv, NEW t \in SubThreads, boot' = [boot EXCEPT ![t] = NoBoot], boot[t].at = "insert",
           UNCHANGED <<job, raw, blocks, submits, overlapped, failedRuns>>,
           Calm => Inserted(<<>>, sjobs', StoragesOfJob, raw.size),
           \A b \in Held(boot[t]) : \E s \in sjobs' : b \in s.blocks, sjobs \subseteq sjobs'
    PROVE  OnceInv'
<1>1. \A u \in SubThreads : boot'[u] = IF u = t THEN NoBoot ELSE boot[u]
  BY Zenon DEF WholeInv
<1>2. (Calm' <=> Calm) /\ StoragesOfJob' = StoragesOfJob
  BY Zenon DEF Calm, StoragesOfJob
<1>3. t \in BootRunning
  BY DEF BootRunning
<1>4. (\A u \in SubThreads : boot'[u].at = "idle" => boot'[u].src = <<>>) /\ submits # 0
  BY <1>1, <1>3, NoBootOK, ZenonT(30) DEF OnceInv
<1>5. ASSUME Calm PROVE CalmInv'
  <2>1. CalmInv /\ \A u \in BootRunning : u = t
    BY <1>3, <1>5, Zenon DEF OnceInv, CalmInv
  <2>2. BootRunning' = {}
    <3>1. \A u \in SubThreads : u # t => boot[u].at = "idle"
      BY <2>1, Zenon DEF BootRunning
    <3>2. \A u \in SubThreads : boot'[u].at = "idle"
      BY <1>1, <3>1, NoBootOK, SMTT(30)
    <3> QED BY <3>2, Zenon DEF BootRunning
  <2>3. FailingBoots' = {}
    BY <2>2 DEF FailingBoots, BootRunning
  <2>4. ASSUME submits' <= 1, NEW b \in blocks'
        PROVE  (\E u \in SubThreads : b \in Held(boot'[u])) \/ \E s \in sjobs' : b \in s.blocks
    <3>1. (\E u \in SubThreads : b \in Held(boot[u])) \/ \E s \in sjobs : b \in s.blocks
      BY <2>1, <2>4, ZenonT(30) DEF CalmInv
    <3> QED BY <1>1, <3>1, ZenonT(30)
  <2>5. Inserted(<<>>, sjobs', StoragesOfJob', raw'.size) /\ ~raw'.errorField
    BY <1>2, <1>5, <2>1, Zenon DEF CalmInv
  <2> QED BY <2>2, <2>3, <2>4, <2>5, ZenonT(30) DEF CalmInv
<1> QED BY <1>2, <1>4, <1>5, ZenonT(30) DEF OnceInv

\* The next document of a run becomes an sjob.
LEMMA OnceInserts ==
    ASSUME WholeInv, CountInv, OnceInv, NEW t \in SubThreads, BootInserts(t)
    PROVE  OnceInv'
<1>1. PICK d, s : d = boot[t].src /\ s = Head(d)
  BY Zenon
<1>2. PICK c : c = IF Len(d) = 1 THEN NoBoot ELSE [boot[t] EXCEPT !.src = Tail(d)]
  BY Zenon
<1>3. PICK n : n = [id |-> fresh, storage |-> s.storage, size |-> s.size, blocks |-> Range(s.blocks), state |-> "bootstrap"]
  BY Zenon
<1>4. /\ boot' = [boot EXCEPT ![t] = c] /\ boot[t].at = "insert" /\ sjobs' = sjobs \cup {n}
      /\ UNCHANGED <<job, raw, blocks, submits, overlapped, failedRuns>>
  <2>1. boot' = [boot EXCEPT ![t] = IF Len(boot[t].src) = 1 THEN NoBoot ELSE [boot[t] EXCEPT !.src = Tail(boot[t].src)]]
    BY BootLocal, Zenon DEF BootInserts
  <2>2. boot' = [boot EXCEPT ![t] = c]
    BY <1>1, <1>2, <2>1, ZenonT(30)
  <2>3. UNCHANGED <<job, raw, blocks, submits, overlapped, failedRuns>> /\ boot[t].at = "insert" /\ sjobs' = sjobs \cup {n}
    BY <1>1, <1>3, ZenonT(30) DEF BootInserts
  <2> QED BY <2>2, <2>3, Zenon
<1>5. d # <<>> /\ boot[t].mine = <<>> /\ d \in Seq(SourceDocs(blocks, StoragesOfJob))
  <2>1. boot[t] \in BootLocals(blocks, StoragesOfJob) /\ BootWhole(boot[t])
    BY BootLocal, ZenonT(40)
  <2> QED BY <1>1, <1>4, <2>1, ZenonT(30) DEF BootWhole, BootLocals
<1>6. n.storage = Head(d).storage /\ n.size = Head(d).size /\ n.blocks = Range(s.blocks)
  BY <1>1, <1>3, ZenonT(30)
<1>7. ASSUME Calm PROVE Inserted(Tail(d), sjobs', StoragesOfJob, raw.size)
  <2>1. boot[t].at # "idle"
    BY <1>4
  <2>2. Inserted(d, sjobs, StoragesOfJob, raw.size)
    BY <1>1, <1>4, <1>7, <2>1, AloneNow, ZenonT(40) DEF Alone
  <2>3. Inserted(Tail(d), sjobs \cup {n}, StoragesOfJob, raw.size)
    BY <1>5, <1>6, <2>2, DocSizes, InsertedNext, ZenonT(30)
  <2> QED BY <1>4, <2>3, Zenon
<1>8. /\ Len(d) \in Nat /\ DOMAIN d = 1..Len(d) /\ DOMAIN Tail(d) = 1..(Len(d) - 1)
      /\ \A i \in 1..Len(d) : (i = 1 /\ d[i] = s) \/ (i - 1 \in 1..(Len(d) - 1) /\ d[i] = Tail(d)[i - 1])
      /\ Len(d) = 1 => Tail(d) = <<>>
  <2>1. /\ Len(d) \in Nat /\ Len(d) >= 1 /\ DOMAIN d = 1..Len(d) /\ s = d[1]
        /\ DOMAIN Tail(d) = 1..(Len(d) - 1) /\ \A i \in 1..(Len(d) - 1) : Tail(d)[i] = d[i + 1]
    BY <1>1, <1>5, SMTT(30)
  <2>2. \A i \in 1..Len(d) : (i = 1 /\ d[i] = s) \/ (i - 1 \in 1..(Len(d) - 1) /\ d[i] = Tail(d)[i - 1])
    BY <2>1
  <2>3. ASSUME Len(d) = 1 PROVE Tail(d) = <<>>
    <3>1. PICK q : q = Tail(d)
      BY Zenon
    <3>2. q \in Seq(SourceDocs(blocks, StoragesOfJob)) /\ Len(q) = 0
      BY <1>5, <2>1, <2>3, <3>1, SMTT(30)
    <3>3. q = <<>>
      BY <3>2, SMTT(30)
    <3> QED BY <3>1, <3>3, Zenon
  <2> QED BY <2>1, <2>2, <2>3, ZenonT(40)
<1>9. \A b \in Held(boot[t]) : b \in n.blocks \/ \E i \in DOMAIN Tail(d) : b \in Range(Tail(d)[i].blocks)
  <2>1. Range(<<>>) = {}
    BY DEF Range
  <2>2. \A b \in Held(boot[t]) : \E i \in 1..Len(d) : b \in Range(d[i].blocks)
    BY <1>1, <1>5, <1>8, <2>1, ZenonT(30) DEF Held
  <2> QED BY <1>6, <1>8, <2>2, Zenon
<1>10. n \in sjobs' /\ sjobs \subseteq sjobs' /\ raw'.errorField = raw.errorField
  BY <1>4, Zenon
<1>11. CASE Len(d) = 1
  <2>1. c = NoBoot /\ Tail(d) = <<>> /\ DOMAIN Tail(d) = {}
    BY <1>2, <1>8, <1>11, SMTT(30)
  <2>2. \A b \in Held(boot[t]) : \E u \in sjobs' : b \in u.blocks
    BY <1>9, <1>10, <2>1, ZenonT(30)
  <2>3. Calm => Inserted(<<>>, sjobs', StoragesOfJob, raw.size)
    BY <1>7, <2>1, Zenon
  <2>4. boot' = [boot EXCEPT ![t] = NoBoot]
    BY <1>4, <2>1, Zenon
  <2> QED BY <1>4, <1>10, <2>2, <2>3, <2>4, OnceLast, ZenonT(30)
<1>12. CASE Len(d) # 1
  <2>1. c = [boot[t] EXCEPT !.src = Tail(d)]
    BY <1>2, <1>12, Zenon
  <2>2. c.at = "insert" /\ c.src = Tail(d) /\ c.mine = boot[t].mine
    BY <1>4, <2>1, BootLocal, SMTT(30)
  <2>3. \A b \in Held(boot[t]) : b \in Held(c) \/ \E u \in sjobs' : b \in u.blocks
    BY <1>9, <1>10, <2>2, ZenonT(30) DEF Held
  <2>4. ASSUME Calm PROVE Alone(c, sjobs', StoragesOfJob, raw'.size)
    <3>1. Inserted(c.src, sjobs', StoragesOfJob, raw'.size)
      BY <1>4, <1>7, <2>2, <2>4, Zenon
    <3>2. OneOfEach(c.src)
      BY <3>1, Zenon DEF Inserted
    <3> QED BY <2>2, <3>1, <3>2, SMTT(30) DEF Alone
  <2>5. boot[t].at # "idle" /\ c.at \notin {"idle", "fail"} /\ blocks' \subseteq blocks \cup Held(c)
    BY <1>4, <2>2, SMTT(30)
  <2> QED BY <1>4, <1>10, <2>2, <2>3, <2>4, <2>5, OnceMoves, ZenonT(30)
<1> QED BY <1>11, <1>12, Zenon

\* schedule takes up an sjob: its storage, its size and its blocks stay.
LEMMA OncePickUp ==
    ASSUME WholeInv, OnceInv, SubmitPickUp
    PROVE  OnceInv'
<1>1. PICK o \in sjobs : sjobs' = (sjobs \ {o}) \cup {[o EXCEPT !.state = "matched"]}
  BY Zenon DEF SubmitPickUp
<1>2. PICK n : n = [o EXCEPT !.state = "matched"]
  BY Zenon
<1>3. sjobs' = (sjobs \ {o}) \cup {n} /\ UNCHANGED <<job, raw, blocks, boot, submits, overlapped, failedRuns>>
  BY <1>1, <1>2, ZenonT(30) DEF SubmitPickUp
<1>4. n.storage = o.storage /\ n.size = o.size /\ n.blocks = o.blocks
  <2>1. o = [id |-> o.id, storage |-> o.storage, size |-> o.size, blocks |-> o.blocks, state |-> o.state]
    BY ZenonT(30) DEF WholeInv, SjobDocs
  <2> QED BY <1>2, <2>1, SMTT(30)
<1>5. BootRunning' = BootRunning /\ FailingBoots' = FailingBoots /\ StoragesOfJob' = StoragesOfJob /\ (Calm' <=> Calm)
  BY <1>3, Zenon DEF BootRunning, FailingBoots, StoragesOfJob, Calm
<1>6. submits # 0
  BY Zenon DEF OnceInv
<1>7. ASSUME NEW src, Inserted(src, sjobs, StoragesOfJob, raw.size) PROVE Inserted(src, sjobs', StoragesOfJob, raw.size)
  BY <1>3, <1>4, <1>7, DocSizes, InsertedSwap, ZenonT(30)
<1>8. ASSUME Calm PROVE CalmInv'
  <2>1. CalmInv
    BY <1>8, Zenon DEF OnceInv
  <2>2. \A t \in BootRunning : Alone(boot[t], sjobs', StoragesOfJob, raw.size)
    BY <1>7, <2>1, ZenonT(30) DEF CalmInv, Alone
  <2>3. \A b : (\E s \in sjobs : b \in s.blocks) => \E s \in sjobs' : b \in s.blocks
    BY <1>3, <1>4, ZenonT(30)
  <2>4. ~(submits = 1 /\ \E t \in BootRunning : boot[t].at # "insert")
    BY <2>1, Zenon DEF CalmInv
  <2>5. submits > 0 /\ BootRunning = {} => Inserted(<<>>, sjobs', StoragesOfJob, raw.size)
    BY <1>7, <2>1, Zenon DEF CalmInv
  <2>6. submits <= 1 => \A b \in blocks : (\E t \in SubThreads : b \in Held(boot[t])) \/ (\E s \in sjobs' : b \in s.blocks)
    BY <2>1, <2>3, Zenon DEF CalmInv
  <2>7. ~raw.errorField /\ FailingBoots = {} /\ \A t, u \in BootRunning : t = u
    BY <2>1, Zenon DEF CalmInv
  <2> QED BY <1>3, <1>5, <2>2, <2>4, <2>5, <2>6, <2>7, ZenonT(30) DEF CalmInv
<1> QED BY <1>3, <1>5, <1>6, <1>8, ZenonT(30) DEF OnceInv

\* The error of a failed run is recorded.
LEMMA OnceRecords ==
    ASSUME WholeInv, OnceInv, NEW t \in SubThreads, BootRecordsError(t)
    PROVE  OnceInv'
<1>1. boot[t].at = "fail" /\ boot' = [boot EXCEPT ![t] = NoBoot] /\ UNCHANGED <<submits, overlapped, failedRuns>>
  BY Zenon DEF BootRecordsError
<1>2. \A u \in SubThreads : boot'[u] = IF u = t THEN NoBoot ELSE boot[u]
  BY <1>1, Zenon DEF WholeInv
<1>3. t \in FailingBoots /\ t \in BootRunning
  BY <1>1 DEF FailingBoots, BootRunning
<1>4. ~Calm'
  BY <1>1, <1>3, Zenon DEF OnceInv, CalmInv, Calm
<1>5. submits' # 0 /\ \A u \in SubThreads : boot'[u].at = "idle" => boot'[u].src = <<>>
  BY <1>1, <1>2, <1>3, NoBootOK, ZenonT(30) DEF OnceInv
<1> QED BY <1>4, <1>5, Zenon DEF OnceInv

\* Nothing is submitted at the start.
LEMMA OnceInit == SubmitInit => OnceInv
<1> SUFFICES ASSUME SubmitInit PROVE OnceInv
  BY Zenon
<1>1. \A t \in SubThreads : boot[t].at = "idle" /\ boot[t].src = <<>>
  BY NoBootOK, Zenon DEF SubmitInit
<1>2. BootRunning = {} /\ FailingBoots = {} /\ sjobs = {} /\ blocks = {} /\ ~raw.errorField /\ submits = 0
  BY <1>1 DEF SubmitInit, BootRunning, FailingBoots
<1> QED BY <1>1, <1>2, SMTT(30) DEF OnceInv, CalmInv

\* Every step keeps what runs one after the other leave.
LEMMA OnceStep == WholeInv /\ CountInv /\ OnceInv /\ [SubmitNext]_submitVars => OnceInv'
<1> SUFFICES ASSUME WholeInv, CountInv, OnceInv, [SubmitNext]_submitVars PROVE OnceInv'
  BY Zenon
<1>1. CASE UNCHANGED <<job, raw, blocks, sjobs, boot, submits, overlapped, failedRuns>>
  BY <1>1, ZenonT(30) DEF OnceInv, CalmInv, Calm, BootRunning, FailingBoots, StoragesOfJob
<1>2. CASE SubmitPickUp
  BY <1>2, OncePickUp, ZenonT(30)
<1>3. CASE SubmitLauncher \/ SubmitRestart \/ UNCHANGED submitVars
  BY <1>1, <1>3, ZenonT(30) DEF SubmitLauncher, SubmitRestart, submitVars
<1>4. CASE SubmitCrash
  BY <1>4, OnceEnds, ZenonT(30) DEF SubmitCrash
<1>5. ASSUME NEW t \in SubThreads, SubmitJob(t) \/ BootAsksLauncher(t) \/ BootCerts(t) \/ BootDestination(t) PROVE OnceInv'
  BY <1>5, OnceSubmit, OnceAsks, ZenonT(30)
<1>6. ASSUME NEW t \in SubThreads, BootSource(t) \/ BootExpand(t) \/ BootDataset(t) PROVE OnceInv'
  BY <1>6, OnceSource, OnceExpands, ZenonT(30)
<1>7. ASSUME NEW t \in SubThreads, BootBlock(t) PROVE OnceInv'
  BY <1>7, OnceBlock, OnceStorage, ZenonT(30)
<1>8. ASSUME NEW t \in SubThreads, BootSize(t) \/ BootDeletes(t) \/ BootInserts(t) \/ BootRecordsError(t) PROVE OnceInv'
  BY <1>8, OnceSize, OnceDeletes, OnceInserts, OnceRecords, ZenonT(30)
<1> QED BY <1>2, <1>3, <1>4, <1>5, <1>6, <1>7, <1>8, ZenonT(30) DEF SubmitNext

\* After runs that did not overlap and none of which failed, the raw job has one sjob for
\* each of its storages, of its size altogether; after a single one no block is stray.
THEOREM SubmitsOnce == SubmitSpec => []SubmittedOnce
<1>1. ASSUME WholeInv, CountInv, OnceInv PROVE SubmittedOnce
  <2> SUFFICES ASSUME BootRunning = {}, submits > 0, ~overlapped, failedRuns = 0
               PROVE  /\ {s.storage : s \in sjobs} = StoragesOf(job.sources)
                      /\ Cardinality(sjobs) = Cardinality(StoragesOf(job.sources))
                      /\ raw.size = SumFunction([s \in sjobs |-> s.size])
                      /\ submits = 1 => UNION {s.blocks : s \in sjobs} = blocks
    BY Zenon DEF SubmittedOnce
  <2>1. CalmInv /\ Inserted(<<>>, sjobs, StoragesOfJob, raw.size)
    BY <1>1, Zenon DEF OnceInv, Calm, CalmInv
  <2>2. SrcStorages(<<>>) = {} /\ SrcSizes(<<>>) = <<>>
    BY DEF SrcStorages, SrcSizes
  <2>3. SumFunction(<<>>) = 0
    <3>1. IsFiniteSet({}) /\ <<>> \in [{} -> Int]
      BY FS_EmptySet
    <3> QED BY <3>1, SumWhole, ZenonT(30)
  <2>4. {s.storage : s \in sjobs} = StoragesOfJob /\ IsFiniteSet(sjobs) /\ \A s, u \in sjobs : s.storage = u.storage => s = u
    BY <2>1, <2>2, ZenonT(30) DEF Inserted
  <2>5. raw.size = TotalSize(sjobs)
    <3>1. [s \in sjobs |-> s.size] \in [sjobs -> Int]
      BY <1>1, DocSizes, Zenon
    <3>2. TotalSize(sjobs) \in Int
      BY <2>4, <3>1, SumWhole, ZenonT(30) DEF TotalSize
    <3>3. raw.size = 0 + TotalSize(sjobs)
      BY <2>1, <2>2, <2>3, Zenon DEF Inserted
    <3> QED BY <3>2, <3>3
  <2>6. Cardinality(sjobs) = Cardinality(StoragesOfJob)
    <3>1. PICK f : f = [s \in sjobs |-> s.storage]
      BY Zenon
    <3>2. f \in Bijection(sjobs, StoragesOfJob)
      BY <2>4, <3>1, ZenonT(30) DEF Bijection, Injection, Surjection, IsInjective
    <3>3. ExistsBijection(sjobs, StoragesOfJob)
      BY <3>2, Zenon DEF ExistsBijection
    <3> QED BY <2>4, <3>3, FS_Bijection, ZenonT(30)
  <2>7. ASSUME submits = 1 PROVE UNION {s.blocks : s \in sjobs} = blocks
    <3>1. submits <= 1
      BY <2>7
    <3>2. \A t \in SubThreads : Held(boot[t]) = {}
      <4> TAKE t \in SubThreads
      <4>1. boot[t].at = "idle"
        BY SMTT(30) DEF BootRunning
      <4>2. boot[t].src = <<>> /\ boot[t].mine = <<>>
        BY <1>1, <4>1, BootLocal, Zenon DEF OnceInv, BootWhole
      <4> QED BY <4>2, SMTT(30) DEF Held, Range
    <3>3. blocks \subseteq UNION {s.blocks : s \in sjobs}
      BY <2>1, <3>1, <3>2, ZenonT(30) DEF CalmInv
    <3>4. \A s \in sjobs : s.blocks \subseteq blocks
      BY <1>1, Zenon DEF WholeInv, SjobDocs
    <3> QED BY <3>3, <3>4, Zenon
  <2> QED BY <2>4, <2>5, <2>6, <2>7, ZenonT(40) DEF StoragesOfJob, TotalSize
<1> QED BY <1>1, WholeInit, WholeStep, CountInit, CountsStep, OnceInit, OnceStep, PTL DEF SubmitSpec
=============================================================================
