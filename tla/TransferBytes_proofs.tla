------------------------ MODULE TransferBytes_proofs ------------------------
(***************************************************************************)
(* For any sjobs, blocks, handlers, redelivered reports and retries: the   *)
(* byte counters of poll_rate and of the status handler agree, and a       *)
(* finished block counts once.                                             *)
(***************************************************************************)
EXTENDS TransferBytes, SumLemmas

-----------------------------------------------------------------------------
(* The byte counters                                                       *)

\* The snapshot that poll_rate holds of an sjob, and the locals of a handler
Snapshots == UNION {[D -> [block : Nat, last : Int]] : D \in SUBSET ByteJobs}
PollLocals == [at : {"idle", "loop", "count"}, docs : Snapshots, left : SUBSET ByteJobs,
               job : ByteJobs \cup {"none"}, seen : Int, raw : Int]
HandlerLocals == [at : {"idle", "count", "verify", "launch", "record"}, job : ByteJobs \cup {"none"},
                  block : Nat, had : Int, retries : Int, open : SUBSET Nat, next : Nat]

CounterTypes ==
    /\ DOMAIN blockTx = ByteJobs /\ blockTx = [j \in ByteJobs |-> blockTx[j]]
    /\ \A j \in ByteJobs : blockTx[j] \in [BlockIds(j) -> Int]
    /\ flowTx \in [ByteJobs -> Int] /\ sjobTx \in [ByteJobs -> Int] /\ transferRetry \in [ByteJobs -> Int]
    /\ rawTx \in Int /\ siteTx \in Int

DocTypes ==
    /\ flowBlock \in [ByteJobs -> Nat] /\ \A j \in ByteJobs : flowBlock[j] \in BlockIds(j)
    /\ finishedBlocks \in [ByteJobs -> SUBSET Nat] /\ \A j \in ByteJobs : finishedBlocks[j] \subseteq BlockIds(j)
    /\ flowActive \subseteq ByteJobs
    /\ sent \in [ByteJobs -> Int]

PollBusy == pollState.left \cup (IF pollState.at = "count" THEN {pollState.job} ELSE {})

PollTypes ==
    /\ pollState \in PollLocals
    /\ pollState.at = "idle" => pollState.raw = 0 /\ pollState.left = {}
    /\ pollState.at = "count" <=> pollState.job # "none"
    /\ pollState.job \notin pollState.left
    /\ PollBusy \subseteq DOMAIN pollState.docs
    /\ \A j \in PollBusy : pollState.docs[j].block \in BlockIds(j)

HandlerOK(r) ==
    IF r.at = "idle" THEN r.job = "none"
    ELSE /\ r.job \in ByteJobs
         /\ r.block \in BlockIds(r.job) /\ r.open \subseteq BlockIds(r.job)
         /\ r.at \in {"launch", "record"} => r.next \in BlockIds(r.job)

HandlerTypes ==
    /\ handler \in [ByteHandlers -> HandlerLocals]
    /\ \A h \in ByteHandlers : HandlerOK(handler[h])

BytesTypes == CounterTypes /\ DocTypes /\ PollTypes /\ HandlerTypes

\* The documents of an sjob agree after every step, and so do the site and the raw
\* job; the raw job lacks what the poll under way has still to add.
BlocksAddUp == \A j \in ByteJobs : sjobTx[j] = flowTx[j] /\ sjobTx[j] = SumFunctionOnSet(blockTx[j], BlockIds(j))
RawAddsUp == ~abandoned => rawTx + pollState.raw = SumFunctionOnSet(sjobTx, ByteJobs)
SiteAddsUp == siteTx = rawTx + BlockSize * SumFunctionOnSet(transferRetry, ByteJobs)

\* An sjob on which handlers never overlapped: the one that works on it has a snapshot
\* that is still true.
Clean(j) == j \notin disturbed \cup jobFailed
PollClean(j) ==
    j \in PollBusy => /\ j \in flowActive /\ pollState.docs[j].block = flowBlock[j]
                      /\ \A h \in ByteHandlers : handler[h].job # j
HandlerClean(h, j) ==
    handler[h].job = j =>
        /\ \A g \in ByteHandlers : handler[g].job = j => g = h
        /\ handler[h].block = flowBlock[j]
        /\ handler[h].at = "count" => handler[h].had = blockTx[j][flowBlock[j]]
        /\ handler[h].at = "verify" => blockTx[j][flowBlock[j]] = BlockSize
        /\ handler[h].at \in {"launch", "record"} /\ handler[h].next # flowBlock[j] => blockTx[j][flowBlock[j]] = BlockSize
Finished(j) ==
    \A b \in finishedBlocks[j] : blockTx[j][b] = BlockSize \/ (b = flowBlock[j] /\ (j \in flowActive \/ Overlaps(j)))
Neat(j) == Clean(j) => PollClean(j) /\ (\A h \in ByteHandlers : HandlerClean(h, j)) /\ Finished(j)

AddsUp == BytesTypes /\ BlocksAddUp /\ RawAddsUp /\ SiteAddsUp

BytesInv == AddsUp /\ \A j \in ByteJobs : Neat(j)

\* What the constants give: block numbers start at one, and there are finitely many.
LEMMA ByteFacts ==
    /\ IsFiniteSet(ByteJobs) /\ "none" \notin ByteJobs
    /\ BlockSize \in Nat /\ BlockSize \in Int
    /\ \A j \in ByteJobs : NBlocks[j] \in Nat /\ 1 \in BlockIds(j) /\ BlockIds(j) \subseteq Nat /\ IsFiniteSet(BlockIds(j))
<1>1. \A j \in ByteJobs : NBlocks[j] \in Nat /\ NBlocks[j] # 0
  BY ByteConstants, Zenon
<1>2. \A n \in Nat : IsFiniteSet(1..n)
  BY FS_Interval
<1> QED BY <1>1, <1>2, ByteConstants DEF BlockIds

\* A sum of nothing but zeros
LEMMA SumZero ==
    ASSUME NEW S, IsFiniteSet(S)
    PROVE  SumFunctionOnSet([x \in S |-> 0], S) = 0
<1> DEFINE f == [x \in S |-> 0]
           Bad == {T \in SUBSET S : SumFunctionOnSet(f, T) # 0}
<1>1. SUFFICES ASSUME Bad # {} PROVE FALSE
  <2>1. S \notin Bad
    BY <1>1, Zenon
  <2> QED BY <2>1, Zenon
<1>2. PICK T \in Bad : \A y \in Bad : ~(y \subseteq T /\ y # T)
  <2>1. Bad \subseteq SUBSET S
    BY Zenon
  <2> HIDE DEF Bad
  <2> QED BY <1>1, <2>1, MinimalSubset
<1>3. PICK x \in T : TRUE
  BY <1>2, SumEmpty, Zenon
<1>4. SumFunctionOnSet(f, T \ {x}) = 0
  <2>1. T \ {x} \in SUBSET S /\ T \ {x} \notin Bad
    BY <1>2, <1>3, Zenon
  <2> QED BY <2>1, Zenon
<1>5. IsFiniteSet(T) /\ (\A y \in T : f[y] \in Int) /\ f[x] = 0
  BY <1>2, <1>3, FS_Subset
<1> HIDE DEF f
<1>6. SumFunctionOnSet(f, T) = f[x] + SumFunctionOnSet(f, T \ {x})
  BY <1>5, SumTakesOut, Zenon
<1> QED BY <1>2, <1>4, <1>5, <1>6

\* What both writers do: add to one block, its flow and its sjob
AddBytes(j, b, d) ==
    /\ blockTx' = [blockTx EXCEPT ![j][b] = @ + d]
    /\ flowTx' = [flowTx EXCEPT ![j] = @ + d]
    /\ sjobTx' = [sjobTx EXCEPT ![j] = @ + d]

\* Adding to one block, its flow and its sjob keeps the three in step.
LEMMA CountStep ==
    ASSUME CounterTypes, BlocksAddUp, NEW j \in ByteJobs, NEW b \in BlockIds(j), NEW d \in Int, AddBytes(j, b, d)
    PROVE  /\ DOMAIN blockTx' = ByteJobs /\ blockTx' = [k \in ByteJobs |-> blockTx'[k]]
           /\ \A k \in ByteJobs : blockTx'[k] \in [BlockIds(k) -> Int]
           /\ flowTx' \in [ByteJobs -> Int] /\ sjobTx' \in [ByteJobs -> Int]
           /\ BlocksAddUp'
           /\ SumFunctionOnSet(sjobTx', ByteJobs) = SumFunctionOnSet(sjobTx, ByteJobs) + d
           /\ blockTx'[j][b] = blockTx[j][b] + d
           /\ \A k \in ByteJobs : \A c \in BlockIds(k) : k # j \/ c # b => blockTx'[k][c] = blockTx[k][c]
<1> USE DEF AddBytes
<1> DEFINE new == [blockTx[j] EXCEPT ![b] = @ + d]
<1>0. DOMAIN blockTx = ByteJobs /\ blockTx[j] \in [BlockIds(j) -> Int]
  BY Zenon DEF CounterTypes
<1>1. blockTx' = [blockTx EXCEPT ![j] = new]
  BY <1>0, Zenon
<1>2. new \in [BlockIds(j) -> Int] /\ new[b] = blockTx[j][b] + d /\ \A c \in BlockIds(j) : c # b => new[c] = blockTx[j][c]
  BY <1>0
<1>3. SumFunctionOnSet(new, BlockIds(j)) = SumFunctionOnSet(blockTx[j], BlockIds(j)) + d
  BY <1>0, ByteFacts, SumChange, ZenonT(30)
<1> HIDE DEF new
<1>4. blockTx'[j] = new /\ DOMAIN blockTx' = ByteJobs /\ \A k \in ByteJobs \ {j} : blockTx'[k] = blockTx[k]
  BY <1>0, <1>1, Zenon DEF CounterTypes
<1>5. blockTx' = [k \in ByteJobs |-> blockTx'[k]]
  BY <1>0, <1>1, Zenon DEF CounterTypes
<1>6. \A k \in ByteJobs : blockTx'[k] \in [BlockIds(k) -> Int]
  BY <1>2, <1>4, Zenon DEF CounterTypes
<1>7. flowTx' \in [ByteJobs -> Int] /\ sjobTx' \in [ByteJobs -> Int]
  BY DEF CounterTypes
<1>8. SumFunctionOnSet(sjobTx', ByteJobs) = SumFunctionOnSet(sjobTx, ByteJobs) + d
  <2>1. sjobTx \in [ByteJobs -> Int]
    BY Zenon DEF CounterTypes
  <2> QED BY <2>1, ByteFacts, SumChange, ZenonT(30)
<1>9. ASSUME NEW k \in ByteJobs
      PROVE  sjobTx'[k] = flowTx'[k] /\ sjobTx'[k] = SumFunctionOnSet(blockTx'[k], BlockIds(k))
  <2>1. CASE k = j
    <3>1. sjobTx'[j] = sjobTx[j] + d /\ flowTx'[j] = flowTx[j] + d
      BY Zenon DEF CounterTypes
    <3>2. sjobTx[j] = flowTx[j] /\ sjobTx[j] = SumFunctionOnSet(blockTx[j], BlockIds(j))
      BY Zenon DEF BlocksAddUp
    <3> QED BY <2>1, <3>1, <3>2, <1>3, <1>4, Zenon
  <2>2. CASE k # j
    <3>1. sjobTx'[k] = sjobTx[k] /\ flowTx'[k] = flowTx[k] /\ blockTx'[k] = blockTx[k]
      BY <1>4, <2>2, Zenon DEF CounterTypes
    <3> QED BY <3>1, Zenon DEF BlocksAddUp
  <2> QED BY <2>1, <2>2, Zenon
<1>10. BlocksAddUp'
  BY <1>9, Zenon DEF BlocksAddUp
<1>11. blockTx'[j][b] = blockTx[j][b] + d
  BY <1>2, <1>4, Zenon
<1>12. \A k \in ByteJobs : \A c \in BlockIds(k) : k # j \/ c # b => blockTx'[k][c] = blockTx[k][c]
  BY <1>2, <1>4, Zenon
<1> QED BY <1>4, <1>5, <1>6, <1>7, <1>8, <1>10, <1>11, <1>12, Zenon

\* The invariant holds before the first byte is counted.
LEMMA BytesInitInv == BytesInit => BytesInv
<1> SUFFICES ASSUME BytesInit PROVE BytesInv
  BY Zenon
<1> USE DEF BytesInit
<1>1. CounterTypes
  BY ByteFacts DEF CounterTypes
<1>2. DocTypes
  BY ByteFacts DEF DocTypes
<1>3. PollTypes
  <2>1. pollState.docs \in [{} -> [block : Nat, last : Int]]
    BY Zenon DEF PollIdle
  <2>2. pollState.docs \in Snapshots
    BY <2>1, Zenon DEF Snapshots
  <2> QED BY <2>2, ByteFacts DEF PollTypes, PollIdle, PollLocals, PollBusy
<1>4. HandlerTypes
  BY DEF HandlerTypes, HandlerIdle, HandlerLocals, HandlerOK
<1>5. BlocksAddUp
  BY ByteFacts, SumZero, Zenon DEF BlocksAddUp
<1>6. RawAddsUp /\ SiteAddsUp
  <2>1. SumFunctionOnSet(sjobTx, ByteJobs) = 0 /\ SumFunctionOnSet(transferRetry, ByteJobs) = 0
    BY ByteFacts, SumZero, Zenon
  <2> QED BY <2>1, ByteFacts DEF RawAddsUp, SiteAddsUp, PollIdle
<1>7. \A j \in ByteJobs : PollClean(j) /\ \A h \in ByteHandlers : HandlerClean(h, j)
  BY ByteFacts, Zenon DEF PollClean, HandlerClean, PollBusy, PollIdle, HandlerIdle
<1>8. \A j \in ByteJobs : Finished(j)
  BY Zenon DEF Finished
<1> QED BY <1>1, <1>2, <1>3, <1>4, <1>5, <1>6, <1>7, <1>8, Zenon DEF BytesInv, AddsUp, BytesTypes, Neat

\* A handler that goes to well-formed locals keeps the types, and leaves the others.
LEMMA HandlerTypesStep ==
    ASSUME HandlerTypes, NEW h \in ByteHandlers, NEW r \in HandlerLocals, HandlerOK(r),
           handler' = [handler EXCEPT ![h] = r]
    PROVE  HandlerTypes' /\ handler'[h] = r /\ \A g \in ByteHandlers : g # h => handler'[g] = handler[g]
<1>1. handler' \in [ByteHandlers -> HandlerLocals] /\ handler'[h] = r /\ \A g \in ByteHandlers : g # h => handler'[g] = handler[g]
  BY Zenon DEF HandlerTypes
<1>2. \A g \in ByteHandlers : HandlerOK(handler'[g])
  BY <1>1, Zenon DEF HandlerTypes
<1> QED BY <1>1, <1>2, Zenon DEF HandlerTypes

\* A handler that has returned has well-formed locals.
LEMMA IdleHandler == HandlerIdle \in HandlerLocals /\ HandlerOK(HandlerIdle) /\ HandlerIdle.at = "idle" /\ HandlerIdle.job = "none"
BY DEF HandlerIdle, HandlerLocals, HandlerOK

\* A poll that has returned holds nothing.
LEMMA IdlePoll ==
    ASSUME pollState' = PollIdle
    PROVE  PollTypes' /\ PollBusy' = {} /\ pollState'.raw = 0 /\ pollState'.job = "none" /\ pollState'.left = {}
<1>1. pollState'.docs \in [{} -> [block : Nat, last : Int]]
  BY Zenon DEF PollIdle
<1>2. pollState'.docs \in Snapshots
  BY <1>1, Zenon DEF Snapshots
<1> QED BY <1>2, ByteFacts DEF PollTypes, PollIdle, PollLocals, PollBusy

\* The types, and what the sums need, action by action
LEMMA SumsFrame ==
    ASSUME CounterTypes, BlocksAddUp, RawAddsUp, SiteAddsUp,
           UNCHANGED <<blockTx, flowTx, sjobTx, rawTx, siteTx, transferRetry>>,
           ~abandoned' => ~abandoned /\ pollState'.raw = pollState.raw
    PROVE  CounterTypes' /\ BlocksAddUp' /\ RawAddsUp' /\ SiteAddsUp'
<1>1. CounterTypes'
  BY Zenon DEF CounterTypes
<1>2. BlocksAddUp' /\ SiteAddsUp'
  BY Zenon DEF BlocksAddUp, SiteAddsUp
<1>3. RawAddsUp'
  BY Zenon DEF RawAddsUp
<1> QED BY <1>1, <1>2, <1>3, Zenon

\* What the mdtm client sends and reports touches no counter.
LEMMA AddsUpClient ==
    ASSUME AddsUp, NEW j \in ByteJobs, ClientSends(j) \/ ClientReports(j)
    PROVE  AddsUp'
<1>1. UNCHANGED <<docVars, pollState, handler, abandoned>>
  BY Zenon DEF ClientSends, ClientReports
<1>2. CounterTypes' /\ BlocksAddUp' /\ RawAddsUp' /\ SiteAddsUp'
  BY <1>1, SumsFrame, Zenon DEF docVars, AddsUp, BytesTypes
<1>3. sent' \in [ByteJobs -> Int]
  BY DEF ClientSends, ClientReports, AddsUp, BytesTypes, DocTypes
<1>4. DocTypes'
  BY <1>1, <1>3, Zenon DEF docVars, AddsUp, BytesTypes, DocTypes
<1>5. PollTypes' /\ HandlerTypes'
  BY <1>1, Zenon DEF AddsUp, BytesTypes, PollTypes, HandlerTypes, PollBusy
<1> QED BY <1>2, <1>4, <1>5, Zenon DEF AddsUp, BytesTypes

\* poll_rate starts: nothing is counted yet, so what it lacks is zero.
LEMMA AddsUpReads ==
    ASSUME AddsUp, PollReads
    PROVE  AddsUp'
<1> USE DEF AddsUp, BytesTypes
<1>1. UNCHANGED <<docVars, clientVars, handler, abandoned>>
  BY Zenon DEF PollReads
<1>2. pollState.raw = 0 /\ pollState'.raw = 0
  BY Zenon DEF PollReads, PollTypes
<1>3. CounterTypes' /\ BlocksAddUp' /\ RawAddsUp' /\ SiteAddsUp'
  BY <1>1, <1>2, SumsFrame, Zenon DEF docVars
<1>4. DocTypes' /\ HandlerTypes'
  BY <1>1, Zenon DEF docVars, clientVars, DocTypes, HandlerTypes
<1> DEFINE d == [j \in flowActive |-> [block |-> flowBlock[j], last |-> blockTx[j][flowBlock[j]]]]
<1>5. d \in [flowActive -> [block : Nat, last : Int]]
  BY DEF CounterTypes, DocTypes
<1>6. d \in Snapshots
  BY <1>5, Zenon DEF Snapshots, DocTypes
<1>7. pollState' = [at |-> "loop", docs |-> d, left |-> flowActive, job |-> "none", seen |-> 0, raw |-> 0]
  BY Zenon DEF PollReads
<1>8. DOMAIN d = flowActive /\ \A j \in flowActive : d[j].block = flowBlock[j]
  BY Zenon
<1> HIDE DEF d
<1>9. pollState' \in PollLocals
  BY <1>6, <1>7 DEF PollLocals, DocTypes
<1>10. PollBusy' = flowActive
  BY <1>7, Zenon DEF PollBusy
<1>11. \A j \in flowActive : d[j].block \in BlockIds(j)
  BY <1>8, Zenon DEF DocTypes
<1>12. PollTypes'
  BY <1>7, <1>8, <1>9, <1>10, <1>11, ByteFacts, Zenon DEF PollTypes, DocTypes
<1> QED BY <1>3, <1>4, <1>12, Zenon

\* The snapshots that a poll keeps are those it had.
LEMMA RestrictedDocs ==
    ASSUME PollTypes, NEW D \in SUBSET PollBusy
    PROVE  /\ Restrict(pollState.docs, D) \in Snapshots /\ DOMAIN Restrict(pollState.docs, D) = D
           /\ \A j \in D : Restrict(pollState.docs, D)[j] = pollState.docs[j]
<1>1. pollState \in PollLocals /\ D \subseteq DOMAIN pollState.docs
  BY Zenon DEF PollTypes
<1>2. pollState.docs \in Snapshots
  BY <1>1, Zenon DEF PollLocals
<1>3. PICK E \in SUBSET ByteJobs : pollState.docs \in [E -> [block : Nat, last : Int]]
  BY <1>2, Zenon DEF Snapshots
<1>4. Restrict(pollState.docs, D) = [j \in D |-> pollState.docs[j]]
  BY Zenon DEF Restrict
<1>5. D \in SUBSET ByteJobs /\ Restrict(pollState.docs, D) \in [D -> [block : Nat, last : Int]]
  BY <1>1, <1>3, <1>4, Zenon
<1>6. Restrict(pollState.docs, D) \in Snapshots
  BY <1>5, Zenon DEF Snapshots
<1> QED BY <1>4, <1>6, Zenon

\* A client that does not answer costs the poll its sjob only.
LEMMA AddsUpUnanswered ==
    ASSUME AddsUp, NEW j \in ByteJobs, PollUnanswered(j)
    PROVE  AddsUp' /\ PollBusy' = PollBusy \ {j} /\ \A k \in PollBusy' : pollState'.docs[k] = pollState.docs[k]
<1> USE DEF AddsUp, BytesTypes
<1>1. UNCHANGED <<docVars, clientVars, handler, abandoned>>
  BY Zenon DEF PollUnanswered
<1> DEFINE D == pollState.left \ {j}
           d == Restrict(pollState.docs, D)
<1>2. pollState' = [pollState EXCEPT !.left = @ \ {j}, !.docs = d]
  BY Zenon DEF PollUnanswered
<1>3. pollState \in PollLocals /\ pollState.at = "loop"
  BY Zenon DEF PollUnanswered, PollTypes
<1>4. D \in SUBSET PollBusy /\ PollBusy = pollState.left
  BY <1>3, Zenon DEF PollBusy
<1>5. d \in Snapshots /\ DOMAIN d = D /\ \A k \in D : d[k] = pollState.docs[k]
  BY <1>4, RestrictedDocs, Zenon
<1> HIDE DEF d
<1>6. pollState' \in PollLocals /\ pollState'.at = "loop" /\ pollState'.left = D /\ pollState'.docs = d
      /\ pollState'.job = pollState.job /\ pollState'.raw = pollState.raw
  BY <1>2, <1>3, <1>5, Zenon DEF PollLocals
<1>7. PollBusy' = D
  BY <1>6, Zenon DEF PollBusy
<1>8. PollTypes'
  BY <1>3, <1>4, <1>5, <1>6, <1>7, Zenon DEF PollTypes
<1>9. CounterTypes' /\ BlocksAddUp' /\ RawAddsUp' /\ SiteAddsUp'
  BY <1>1, <1>6, SumsFrame, Zenon DEF docVars
<1>10. DocTypes' /\ HandlerTypes'
  BY <1>1, Zenon DEF docVars, clientVars, DocTypes, HandlerTypes
<1> QED BY <1>4, <1>5, <1>6, <1>7, <1>8, <1>9, <1>10, Zenon

\* A task that the client does not know ends the poll, which abandons what it had added.
LEMMA AddsUpUnknown ==
    ASSUME AddsUp, NEW j \in ByteJobs, PollUnknownTaskId(j)
    PROVE  AddsUp'
<1> USE DEF AddsUp, BytesTypes
<1>1. PollTypes' /\ pollState'.raw = 0
  BY IdlePoll, Zenon DEF PollUnknownTaskId
<1>2. ~abandoned' => ~abandoned /\ pollState'.raw = pollState.raw
  BY <1>1, Zenon DEF PollUnknownTaskId
<1>3. CounterTypes' /\ BlocksAddUp' /\ RawAddsUp' /\ SiteAddsUp'
  BY <1>2, SumsFrame, Zenon DEF PollUnknownTaskId
<1>4. DocTypes' /\ HandlerTypes'
  BY Zenon DEF PollUnknownTaskId, clientVars, DocTypes, HandlerTypes
<1> QED BY <1>1, <1>3, <1>4, Zenon

\* An answer of the client is held until it is counted.
LEMMA AddsUpAnswered ==
    ASSUME AddsUp, NEW j \in ByteJobs, PollAnswered(j)
    PROVE  AddsUp' /\ PollBusy' = PollBusy /\ pollState'.docs = pollState.docs
<1> USE DEF AddsUp, BytesTypes
<1>1. UNCHANGED <<docVars, clientVars, handler, abandoned>>
  BY Zenon DEF PollAnswered
<1>2. pollState \in PollLocals /\ pollState.at = "loop" /\ j \in pollState.left
  BY Zenon DEF PollAnswered, PollTypes
<1>3. pollState' \in PollLocals /\ pollState'.at = "count" /\ pollState'.left = pollState.left \ {j} /\ pollState'.docs = pollState.docs
      /\ pollState'.job = j /\ pollState'.raw = pollState.raw
  BY <1>2, Zenon DEF PollAnswered, PollLocals, DocTypes
<1>4. PollBusy' = PollBusy
  BY <1>2, <1>3, Zenon DEF PollBusy
<1>5. PollTypes'
  BY <1>2, <1>3, <1>4, ByteFacts, Zenon DEF PollTypes
<1>6. CounterTypes' /\ BlocksAddUp' /\ RawAddsUp' /\ SiteAddsUp'
  BY <1>1, <1>3, SumsFrame, Zenon DEF docVars
<1>7. DocTypes' /\ HandlerTypes'
  BY <1>1, Zenon DEF docVars, clientVars, DocTypes, HandlerTypes
<1> QED BY <1>3, <1>4, <1>5, <1>6, <1>7, Zenon

\* poll_rate counts: block, flow and sjob grow together, and so does what the poll has
\* still to add to the raw job.
LEMMA AddsUpCounts ==
    ASSUME AddsUp, PollCounts
    PROVE  /\ AddsUp' /\ PollBusy' = PollBusy \ {pollState.job} /\ pollState.job \in ByteJobs /\ pollState.job \in PollBusy
           /\ \A k \in PollBusy' : pollState'.docs[k] = pollState.docs[k]
           /\ pollState.docs[pollState.job].block \in BlockIds(pollState.job)
           /\ \A k \in ByteJobs : \A c \in BlockIds(k) :
                 k # pollState.job \/ c # pollState.docs[pollState.job].block => blockTx'[k][c] = blockTx[k][c]
<1> USE DEF AddsUp, BytesTypes
<1>0. PICK j, b, more, d : /\ j = pollState.job /\ b = pollState.docs[j].block /\ more = pollState.seen - pollState.docs[j].last
                          /\ d = Restrict(pollState.docs, pollState.left)
  BY Zenon
<1>1. pollState \in PollLocals /\ pollState.at = "count" /\ j \in ByteJobs /\ j \in PollBusy
  BY <1>0, ByteFacts, Zenon DEF PollCounts, PollTypes, PollBusy, PollLocals
<1>2. b \in BlockIds(j) /\ more \in Int
  <2>1. PICK E \in SUBSET ByteJobs : pollState.docs \in [E -> [block : Nat, last : Int]]
    BY <1>1, Zenon DEF PollLocals, Snapshots
  <2>2. j \in E
    BY <1>1, <2>1, Zenon DEF PollTypes
  <2>3. pollState.docs[j] \in [block : Nat, last : Int] /\ pollState.seen \in Int
    BY <1>1, <2>1, <2>2, Zenon DEF PollLocals
  <2> QED BY <1>0, <1>1, <2>3 DEF PollTypes
<1>3. pollState.left \in SUBSET PollBusy /\ PollBusy = pollState.left \cup {j}
  BY <1>0, <1>1, Zenon DEF PollBusy
<1>4. d \in Snapshots /\ DOMAIN d = pollState.left /\ \A k \in pollState.left : d[k] = pollState.docs[k]
  BY <1>0, <1>3, RestrictedDocs, Zenon
<1>5. /\ AddBytes(j, b, more)
      /\ pollState' = [pollState EXCEPT !.at = "loop", !.docs = d, !.job = "none", !.seen = 0, !.raw = @ + more]
      /\ flowActive' \subseteq flowActive
      /\ UNCHANGED <<rawTx, siteTx, transferRetry, finishedBlocks, flowBlock, clientVars, handler, abandoned>>
  BY <1>0, Zenon DEF PollCounts, AddBytes
<1>6. /\ DOMAIN blockTx' = ByteJobs /\ blockTx' = [k \in ByteJobs |-> blockTx'[k]]
      /\ \A k \in ByteJobs : blockTx'[k] \in [BlockIds(k) -> Int]
      /\ flowTx' \in [ByteJobs -> Int] /\ sjobTx' \in [ByteJobs -> Int]
      /\ BlocksAddUp'
      /\ SumFunctionOnSet(sjobTx', ByteJobs) = SumFunctionOnSet(sjobTx, ByteJobs) + more
      /\ \A k \in ByteJobs : \A c \in BlockIds(k) : k # j \/ c # b => blockTx'[k][c] = blockTx[k][c]
  BY <1>1, <1>2, <1>5, CountStep, Zenon
<1>7. CounterTypes'
  BY <1>5, <1>6, Zenon DEF CounterTypes
<1>8. pollState' \in PollLocals /\ pollState'.at = "loop" /\ pollState'.left = pollState.left /\ pollState'.docs = d
      /\ pollState'.job = "none" /\ pollState'.raw = pollState.raw + more /\ pollState.raw \in Int
  <2>1. pollState' = [pollState EXCEPT !.at = "loop", !.docs = d, !.job = "none", !.seen = 0, !.raw = @ + more]
    BY <1>5, Zenon
  <2>2. pollState.raw \in Int /\ pollState.left \in SUBSET ByteJobs
    BY <1>1, Zenon DEF PollLocals
  <2>3. pollState' = [at |-> "loop", docs |-> d, left |-> pollState.left, job |-> "none", seen |-> 0, raw |-> pollState.raw + more]
    BY <1>1, <2>1, Zenon DEF PollLocals
  <2>4. pollState.raw + more \in Int
    BY <1>2, <2>2
  <2> QED BY <1>4, <2>2, <2>3, <2>4 DEF PollLocals
<1>9. RawAddsUp'
  <2>1. ~abandoned => rawTx + pollState.raw = SumFunctionOnSet(sjobTx, ByteJobs)
    BY Zenon DEF RawAddsUp
  <2>2. rawTx \in Int
    BY Zenon DEF CounterTypes
  <2> QED BY <1>2, <1>5, <1>6, <1>8, <2>1, <2>2 DEF RawAddsUp
<1>10. SiteAddsUp'
  BY <1>5, Zenon DEF SiteAddsUp
<1>11. PollBusy' = pollState.left
  BY <1>8, Zenon DEF PollBusy
<1>12. PollTypes'
  BY <1>3, <1>4, <1>8, <1>11, ByteFacts, Zenon DEF PollTypes, PollLocals
<1>13. DocTypes' /\ HandlerTypes'
  BY <1>5, Zenon DEF DocTypes, HandlerTypes, clientVars
<1>14. PollBusy' = PollBusy \ {j}
  BY <1>0, <1>3, <1>11, Zenon DEF PollTypes
<1>15. \A k \in PollBusy' : pollState'.docs[k] = pollState.docs[k]
  BY <1>4, <1>8, <1>11, Zenon
<1>16. AddsUp'
  BY <1>6, <1>7, <1>9, <1>10, <1>12, <1>13, Zenon
<1> QED BY <1>0, <1>1, <1>2, <1>6, <1>14, <1>15, <1>16

\* The end of poll_rate: raw job and site grow by what the poll has added.
LEMMA AddsUpSums ==
    ASSUME AddsUp, PollSums
    PROVE  AddsUp'
<1> USE DEF AddsUp, BytesTypes
<1>1. PollTypes' /\ pollState'.raw = 0
  BY IdlePoll, Zenon DEF PollSums
<1>2. rawTx \in Int /\ siteTx \in Int /\ pollState.raw \in Int /\ rawTx' = rawTx + pollState.raw /\ siteTx' = siteTx + pollState.raw
  BY Zenon DEF PollSums, CounterTypes, PollTypes, PollLocals
<1>3. UNCHANGED <<blockTx, flowTx, sjobTx, transferRetry, finishedBlocks, flowBlock, flowActive, sent, handler, abandoned>>
  BY Zenon DEF PollSums, clientVars
<1>4. CounterTypes' /\ BlocksAddUp'
  BY <1>2, <1>3 DEF CounterTypes, BlocksAddUp
<1>5. RawAddsUp'
  BY <1>1, <1>2, <1>3 DEF RawAddsUp
<1>6. SiteAddsUp'
  <2>1. SumFunctionOnSet(transferRetry, ByteJobs) \in Int
    BY ByteFacts, SumInt, Zenon DEF CounterTypes
  <2>2. BlockSize * SumFunctionOnSet(transferRetry, ByteJobs) \in Int
    BY <2>1, ByteFacts
  <2>3. siteTx = rawTx + BlockSize * SumFunctionOnSet(transferRetry, ByteJobs)
    BY Zenon DEF SiteAddsUp
  <2>4. siteTx' = rawTx' + BlockSize * SumFunctionOnSet(transferRetry, ByteJobs)
    BY <1>2, <2>2, <2>3
  <2> QED BY <1>3, <2>4, Zenon DEF SiteAddsUp
<1>7. DocTypes' /\ HandlerTypes'
  BY <1>3, Zenon DEF DocTypes, HandlerTypes
<1> QED BY <1>1, <1>4, <1>5, <1>6, <1>7, Zenon

\* The locals of a handler before it reads, counts, verifies, launches and records
LEMMA HandlerLocal ==
    ASSUME HandlerTypes, NEW h \in ByteHandlers
    PROVE  /\ handler[h] \in HandlerLocals /\ HandlerOK(handler[h])
           /\ handler[h].at # "idle" => handler[h].job \in ByteJobs /\ handler[h].block \in BlockIds(handler[h].job)
BY Zenon DEF HandlerTypes, HandlerOK

\* mld_status starts with a snapshot of the flow and its block.
LEMMA AddsUpDoneReads ==
    ASSUME AddsUp, NEW h \in ByteHandlers, NEW j \in ByteJobs, DoneReads(h, j)
    PROVE  /\ AddsUp' /\ \A g \in ByteHandlers : g # h => handler'[g] = handler[g]
           /\ handler'[h].at = "count" /\ handler'[h].job = j /\ handler'[h].block = flowBlock[j]
           /\ handler'[h].had = blockTx[j][flowBlock[j]]
<1> USE DEF AddsUp, BytesTypes
<1>0. PICK r : r = [at |-> "count", job |-> j, block |-> flowBlock[j], had |-> blockTx[j][flowBlock[j]],
            retries |-> transferRetry[j], open |-> BlockIds(j) \ (finishedBlocks[j] \cup {flowBlock[j]}), next |-> 0]
  BY Zenon
<1>1. handler' = [handler EXCEPT ![h] = r]
  BY <1>0, Zenon DEF DoneReads
<1>2. flowBlock[j] \in BlockIds(j) /\ flowBlock[j] \in Nat /\ BlockIds(j) \subseteq Nat /\ blockTx[j][flowBlock[j]] \in Int /\ transferRetry[j] \in Int
  BY ByteFacts, ZenonT(30) DEF DocTypes, CounterTypes
<1>3. r \in HandlerLocals
  <2>1. BlockIds(j) \ (finishedBlocks[j] \cup {flowBlock[j]}) \in SUBSET Nat
    BY <1>2, Zenon
  <2> QED BY <1>0, <1>2, <2>1, Zenon DEF HandlerLocals
<1>4. HandlerOK(r)
  BY <1>0, <1>2, Zenon DEF HandlerOK
<1>5. HandlerTypes' /\ handler'[h] = r /\ \A g \in ByteHandlers : g # h => handler'[g] = handler[g]
  BY <1>1, <1>3, <1>4, HandlerTypesStep, Zenon
<1>6. UNCHANGED <<blockTx, flowTx, sjobTx, rawTx, siteTx, transferRetry, finishedBlocks, flowBlock, sent, pollState, abandoned>> /\ flowActive' \subseteq flowActive
  BY Zenon DEF DoneReads
<1>7. CounterTypes' /\ BlocksAddUp' /\ RawAddsUp' /\ SiteAddsUp'
  BY <1>6, SumsFrame, Zenon
<1>8. DocTypes' /\ PollTypes'
  BY <1>6, Zenon DEF DocTypes, PollTypes, PollBusy
<1>9. AddsUp'
  BY <1>5, <1>7, <1>8, Zenon
<1> QED BY <1>0, <1>5, <1>9

\* mld_status tops up the block, the flow, the sjob, the raw job and the site alike.
LEMMA AddsUpDoneCounts ==
    ASSUME AddsUp, NEW h \in ByteHandlers, DoneCounts(h), NEW j, j = handler[h].job, NEW b, b = handler[h].block
    PROVE  /\ AddsUp' /\ \A g \in ByteHandlers : g # h => handler'[g] = handler[g]
           /\ handler'[h].at = "verify" /\ handler'[h].job = j /\ handler'[h].block = b /\ j \in ByteJobs /\ b \in BlockIds(j)
           /\ handler[h].had = blockTx[j][b] => blockTx'[j][b] = BlockSize
           /\ \A k \in ByteJobs : \A c \in BlockIds(k) : k # j \/ c # b => blockTx'[k][c] = blockTx[k][c]
<1> USE DEF AddsUp, BytesTypes
<1>1. handler[h] \in HandlerLocals /\ HandlerOK(handler[h]) /\ handler[h].at = "count" /\ j \in ByteJobs /\ b \in BlockIds(j)
  BY HandlerLocal, Zenon DEF DoneCounts
<1>2. PICK more \in Int : more = BlockSize - handler[h].had
  BY <1>1, ByteFacts DEF HandlerLocals
<1>3. /\ AddBytes(j, b, more) /\ rawTx' = rawTx + more /\ siteTx' = siteTx + more
      /\ handler' = [handler EXCEPT ![h].at = "verify"]
      /\ UNCHANGED <<transferRetry, finishedBlocks, flowBlock, flowActive, sent, pollState, abandoned>>
  BY <1>2, Zenon DEF DoneCounts, AddBytes, clientVars
<1>4. PICK r : r = [handler[h] EXCEPT !.at = "verify"]
  BY Zenon
<1>5. r \in HandlerLocals /\ HandlerOK(r) /\ r.at = "verify" /\ r.job = j /\ r.block = b
  BY <1>1, <1>4, Zenon DEF HandlerLocals, HandlerOK
<1>6. handler' = [handler EXCEPT ![h] = r]
  BY <1>3, <1>4, Zenon
<1>7. HandlerTypes' /\ handler'[h] = r /\ \A g \in ByteHandlers : g # h => handler'[g] = handler[g]
  BY <1>5, <1>6, HandlerTypesStep, Zenon
<1>8. /\ DOMAIN blockTx' = ByteJobs /\ blockTx' = [k \in ByteJobs |-> blockTx'[k]]
      /\ \A k \in ByteJobs : blockTx'[k] \in [BlockIds(k) -> Int]
      /\ flowTx' \in [ByteJobs -> Int] /\ sjobTx' \in [ByteJobs -> Int]
      /\ BlocksAddUp'
      /\ SumFunctionOnSet(sjobTx', ByteJobs) = SumFunctionOnSet(sjobTx, ByteJobs) + more
      /\ blockTx'[j][b] = blockTx[j][b] + more
      /\ \A k \in ByteJobs : \A c \in BlockIds(k) : k # j \/ c # b => blockTx'[k][c] = blockTx[k][c]
  BY <1>1, <1>3, CountStep, Zenon
<1>9. CounterTypes'
  BY <1>3, <1>8 DEF CounterTypes
<1>10. rawTx \in Int /\ siteTx \in Int /\ pollState.raw \in Int /\ blockTx[j][b] \in Int
  BY <1>1 DEF CounterTypes, PollTypes, PollLocals
<1>11. RawAddsUp'
  <2>1. ~abandoned => rawTx + pollState.raw = SumFunctionOnSet(sjobTx, ByteJobs)
    BY Zenon DEF RawAddsUp
  <2> QED BY <1>3, <1>8, <1>10, <2>1 DEF RawAddsUp
<1>12. SiteAddsUp'
  <2>1. SumFunctionOnSet(transferRetry, ByteJobs) \in Int
    BY ByteFacts, SumInt, Zenon DEF CounterTypes
  <2>2. BlockSize * SumFunctionOnSet(transferRetry, ByteJobs) \in Int
    BY <2>1, ByteFacts
  <2>3. siteTx = rawTx + BlockSize * SumFunctionOnSet(transferRetry, ByteJobs)
    BY Zenon DEF SiteAddsUp
  <2>4. siteTx' = rawTx' + BlockSize * SumFunctionOnSet(transferRetry, ByteJobs)
    BY <1>3, <1>10, <2>2, <2>3
  <2> QED BY <1>3, <2>4, Zenon DEF SiteAddsUp
<1>13. DocTypes' /\ PollTypes'
  BY <1>3, Zenon DEF DocTypes, PollTypes, PollBusy
<1>14. AddsUp'
  BY <1>7, <1>8, <1>9, <1>11, <1>12, <1>13, ZenonT(40)
<1>15. handler[h].had = blockTx[j][b] => blockTx'[j][b] = BlockSize
  BY <1>2, <1>8, <1>10, ByteFacts
<1> QED BY <1>1, <1>5, <1>7, <1>8, <1>14, <1>15, Zenon

\* A good checksum changes no counter.
LEMMA AddsUpVerified ==
    ASSUME AddsUp, NEW h \in ByteHandlers, DoneVerified(h), NEW j, j = handler[h].job, NEW b, b = handler[h].block
    PROVE  /\ AddsUp' /\ \A g \in ByteHandlers : g # h => handler'[g] = handler[g]
           /\ j \in ByteJobs /\ b \in BlockIds(j)
           /\ finishedBlocks'[j] = finishedBlocks[j] \cup {b} /\ \A k \in ByteJobs \ {j} : finishedBlocks'[k] = finishedBlocks[k]
           /\ \/ handler'[h].job = "none"
              \/ handler'[h].at = "launch" /\ handler'[h].job = j /\ handler'[h].block = b
<1> USE DEF AddsUp, BytesTypes
<1>1. handler[h] \in HandlerLocals /\ HandlerOK(handler[h]) /\ handler[h].at = "verify" /\ j \in ByteJobs /\ b \in BlockIds(j) /\ b \in Nat
  BY HandlerLocal, ByteFacts, Zenon DEF DoneVerified
<1>2. /\ finishedBlocks' = [finishedBlocks EXCEPT ![j] = @ \cup {b}]
      /\ UNCHANGED <<blockTx, flowTx, sjobTx, rawTx, siteTx, transferRetry, flowBlock, flowActive, sent, pollState, abandoned>>
  BY Zenon DEF DoneVerified, clientVars
<1>3. PICK r : r = IF handler[h].open = {} THEN HandlerIdle ELSE [handler[h] EXCEPT !.at = "launch", !.next = Least(handler[h].open)]
  BY Zenon
<1>4. handler' = [handler EXCEPT ![h] = r]
  BY <1>3, Zenon DEF DoneVerified
<1>5. /\ r \in HandlerLocals /\ HandlerOK(r)
      /\ r.job = "none" \/ (r.at = "launch" /\ r.job = j /\ r.block = b)
  <2>1. CASE handler[h].open = {}
    <3>1. r = HandlerIdle
      BY <1>3, <2>1, Zenon
    <3>2. r \in HandlerLocals /\ HandlerOK(r)
      BY <3>1, IdleHandler, Zenon
    <3>3. r.job = "none"
      BY <3>1, Zenon DEF HandlerIdle
    <3> QED BY <3>2, <3>3, Zenon
  <2>2. CASE handler[h].open # {}
    <3>1. handler[h].open \subseteq BlockIds(j) /\ BlockIds(j) \subseteq Nat
      BY <1>1, ByteFacts, Zenon DEF HandlerOK
    <3>2. Least(handler[h].open) \in handler[h].open
      <4> DEFINE S == handler[h].open
      <4>1. PICK m \in S : \A n \in S : n >= m
        <5>1. S \subseteq Nat /\ S # {}
          BY <2>2, <3>1, Zenon
        <5>2. IsWellFoundedOn(OpToRel(<, Nat), Nat)
          BY NatLessThanWellFounded, Zenon
        <5> HIDE DEF S
        <5>3. \E x \in S : \A y \in S : ~ (<<y, x>> \in OpToRel(<, Nat))
          BY <5>1, <5>2, WFMin, Zenon
        <5>4. \A x, y \in Nat : y < x => <<y, x>> \in OpToRel(<, Nat)
          BY Zenon DEF OpToRel
        <5>5. PICK x \in S : \A y \in S : ~ (y < x)
          BY <5>1, <5>3, <5>4, Zenon
        <5> QED BY <5>1, <5>5
      <4>2. \A n \in S : m <= n
        BY <3>1, <4>1, Zenon
      <4> QED BY <4>1, <4>2, Zenon DEF Least
    <3>3. r = [handler[h] EXCEPT !.at = "launch", !.next = Least(handler[h].open)]
      BY <1>3, <2>2, Zenon
    <3> QED BY <1>1, <3>1, <3>2, <3>3, Zenon DEF HandlerLocals, HandlerOK
  <2> QED BY <2>1, <2>2, Zenon
<1>6. HandlerTypes' /\ handler'[h] = r /\ \A g \in ByteHandlers : g # h => handler'[g] = handler[g]
  BY <1>4, <1>5, HandlerTypesStep, Zenon
<1>7. CounterTypes' /\ BlocksAddUp' /\ RawAddsUp' /\ SiteAddsUp'
  BY <1>2, SumsFrame, Zenon
<1>8. DocTypes'
  BY <1>1, <1>2, Zenon DEF DocTypes
<1>9. PollTypes'
  BY <1>2, Zenon DEF PollTypes, PollBusy
<1>10. finishedBlocks'[j] = finishedBlocks[j] \cup {b} /\ \A k \in ByteJobs \ {j} : finishedBlocks'[k] = finishedBlocks[k]
  BY <1>1, <1>2, Zenon DEF DocTypes
<1> QED BY <1>1, <1>5, <1>6, <1>7, <1>8, <1>9, <1>10, Zenon

\* A bad checksum takes the block back everywhere but at the site, which counts a retry.
LEMMA AddsUpRetrogresses ==
    ASSUME AddsUp, NEW h \in ByteHandlers, DoneRetrogresses(h), NEW j, j = handler[h].job, NEW b, b = handler[h].block
    PROVE  /\ AddsUp' /\ \A g \in ByteHandlers : g # h => handler'[g] = handler[g]
           /\ j \in ByteJobs /\ b \in BlockIds(j)
           /\ \A k \in ByteJobs : \A c \in BlockIds(k) : k # j \/ c # b => blockTx'[k][c] = blockTx[k][c]
           /\ \/ handler'[h].job = "none" /\ j \in jobFailed'
              \/ handler'[h].at = "launch" /\ handler'[h].job = j /\ handler'[h].block = b /\ handler'[h].next = b
<1> USE DEF AddsUp, BytesTypes
<1>1. handler[h] \in HandlerLocals /\ HandlerOK(handler[h]) /\ handler[h].at = "verify" /\ j \in ByteJobs /\ b \in BlockIds(j) /\ b \in Nat
  BY HandlerLocal, ByteFacts, Zenon DEF DoneRetrogresses
<1>2. PICK less \in Int : less = -BlockSize /\ BlockSize \in Int
  BY ByteFacts
<1>3. AddBytes(j, b, less)
  <2>0. CounterTypes
    BY Zenon
  <2>1. \A x \in Int : x - BlockSize = x + less
    BY <1>2, Zenon
  <2>2. blockTx' = [blockTx EXCEPT ![j] = [blockTx[j] EXCEPT ![b] = blockTx[j][b] - BlockSize]]
    BY <1>1, <2>0, Zenon DEF DoneRetrogresses, CounterTypes
  <2>3. blockTx[j][b] \in Int /\ flowTx[j] \in Int /\ sjobTx[j] \in Int
    BY <1>1, Zenon DEF CounterTypes
  <2>4. blockTx' = [blockTx EXCEPT ![j] = [blockTx[j] EXCEPT ![b] = blockTx[j][b] + less]]
    BY <2>1, <2>2, <2>3, Zenon
  <2>5. blockTx' = [blockTx EXCEPT ![j][b] = @ + less]
    BY <1>1, <2>4, Zenon DEF CounterTypes
  <2>6. flowTx' = [flowTx EXCEPT ![j] = @ + less] /\ sjobTx' = [sjobTx EXCEPT ![j] = @ + less]
    BY <1>1, <2>1, <2>3, Zenon DEF DoneRetrogresses
  <2> QED BY <2>5, <2>6, Zenon DEF AddBytes
<1>4. /\ rawTx' = rawTx + less /\ transferRetry' = [transferRetry EXCEPT ![j] = @ + 1]
      /\ UNCHANGED <<siteTx, finishedBlocks, flowBlock, flowActive, sent, pollState, abandoned>>
  BY <1>2, Zenon DEF DoneRetrogresses, clientVars, CounterTypes
<1>5. PICK r : /\ handler' = [handler EXCEPT ![h] = r]
               /\ (r = HandlerIdle /\ j \in jobFailed') \/ r = [handler[h] EXCEPT !.at = "launch", !.next = b]
  <2>1. CASE handler[h].retries >= MaxTransferRetry
    BY <2>1, Zenon DEF DoneRetrogresses
  <2>2. CASE ~(handler[h].retries >= MaxTransferRetry)
    <3>1. handler' = [handler EXCEPT ![h].at = "launch", ![h].next = b]
      BY <2>2, Zenon DEF DoneRetrogresses
    <3>2. handler' = [handler EXCEPT ![h] = [handler[h] EXCEPT !.at = "launch", !.next = b]]
      BY <3>1, Zenon DEF HandlerTypes
    <3> QED BY <3>2, Zenon
  <2> QED BY <2>1, <2>2, Zenon
<1>6. /\ r \in HandlerLocals /\ HandlerOK(r)
      /\ \/ r.job = "none" /\ j \in jobFailed'
         \/ r.at = "launch" /\ r.job = j /\ r.block = b /\ r.next = b
  <2>1. CASE r = HandlerIdle /\ j \in jobFailed'
    <3>1. r \in HandlerLocals /\ HandlerOK(r)
      BY <2>1, IdleHandler, Zenon
    <3>2. r.job = "none"
      BY <2>1, Zenon DEF HandlerIdle
    <3> QED BY <2>1, <3>1, <3>2, Zenon
  <2>2. CASE r = [handler[h] EXCEPT !.at = "launch", !.next = b]
    BY <1>1, <2>2, Zenon DEF HandlerLocals, HandlerOK
  <2> QED BY <1>5, <2>1, <2>2, Zenon
<1>7. HandlerTypes' /\ handler'[h] = r /\ \A g \in ByteHandlers : g # h => handler'[g] = handler[g]
  BY <1>5, <1>6, HandlerTypesStep, Zenon
<1>8. /\ DOMAIN blockTx' = ByteJobs /\ blockTx' = [k \in ByteJobs |-> blockTx'[k]]
      /\ \A k \in ByteJobs : blockTx'[k] \in [BlockIds(k) -> Int]
      /\ flowTx' \in [ByteJobs -> Int] /\ sjobTx' \in [ByteJobs -> Int]
      /\ BlocksAddUp'
      /\ SumFunctionOnSet(sjobTx', ByteJobs) = SumFunctionOnSet(sjobTx, ByteJobs) + less
      /\ \A k \in ByteJobs : \A c \in BlockIds(k) : k # j \/ c # b => blockTx'[k][c] = blockTx[k][c]
  BY <1>1, <1>3, CountStep
<1>9. rawTx \in Int /\ siteTx \in Int /\ pollState.raw \in Int /\ transferRetry \in [ByteJobs -> Int]
  BY Zenon DEF CounterTypes, PollTypes, PollLocals
<1>10. CounterTypes'
  BY <1>1, <1>4, <1>8, <1>9, SMTT(30) DEF CounterTypes
<1>11. RawAddsUp'
  <2>1. ~abandoned => rawTx + pollState.raw = SumFunctionOnSet(sjobTx, ByteJobs)
    BY Zenon DEF RawAddsUp
  <2> QED BY <1>4, <1>8, <1>9, <2>1 DEF RawAddsUp
<1>12. SiteAddsUp'
  <2>1. PICK n \in Int : n = SumFunctionOnSet(transferRetry, ByteJobs)
    BY <1>9, ByteFacts, SumInt, Zenon
  <2>2. SumFunctionOnSet(transferRetry', ByteJobs) = n + 1
    <3>1. PICK one \in Int : one = 1
      OBVIOUS
    <3>2. SumFunctionOnSet([transferRetry EXCEPT ![j] = @ + one], ByteJobs) = SumFunctionOnSet(transferRetry, ByteJobs) + one
      BY <1>1, <1>9, ByteFacts, SumChange, ZenonT(30)
    <3> QED BY <1>4, <2>1, <3>1, <3>2, Zenon
  <2>3. BlockSize * (n + 1) = BlockSize * n + BlockSize
    BY <1>2
  <2>4. siteTx = rawTx + BlockSize * n /\ BlockSize * n \in Int
    BY <1>2, <2>1 DEF SiteAddsUp
  <2>5. siteTx = rawTx' + BlockSize * (n + 1)
    BY <1>2, <1>4, <1>9, <2>3, <2>4
  <2> QED BY <1>4, <2>2, <2>5, Zenon DEF SiteAddsUp
<1>13. DocTypes' /\ PollTypes'
  BY <1>4, Zenon DEF DocTypes, PollTypes, PollBusy
<1>14. AddsUp'
  BY <1>7, <1>8, <1>10, <1>11, <1>12, <1>13, Zenon
<1> QED BY <1>1, <1>6, <1>7, <1>8, <1>14, Zenon

\* The launch of the next block changes no counter.
LEMMA AddsUpLaunches ==
    ASSUME AddsUp, NEW h \in ByteHandlers, DoneLaunches(h)
    PROVE  /\ AddsUp' /\ \A g \in ByteHandlers : g # h => handler'[g] = handler[g]
           /\ handler[h].at = "launch" /\ handler'[h].at = "record" /\ handler'[h].job = handler[h].job
           /\ handler'[h].block = handler[h].block /\ handler'[h].next = handler[h].next
<1> USE DEF AddsUp, BytesTypes
<1>1. handler[h] \in HandlerLocals /\ HandlerOK(handler[h]) /\ handler[h].at = "launch"
  BY HandlerLocal, Zenon DEF DoneLaunches
<1>2. PICK r : r = [handler[h] EXCEPT !.at = "record"]
  BY Zenon
<1>3. r \in HandlerLocals /\ HandlerOK(r) /\ r.at = "record" /\ r.job = handler[h].job /\ r.block = handler[h].block /\ r.next = handler[h].next
  BY <1>1, <1>2, Zenon DEF HandlerLocals, HandlerOK
<1>4. handler' = [handler EXCEPT ![h] = r]
  BY <1>2, Zenon DEF DoneLaunches, HandlerTypes
<1>5. HandlerTypes' /\ handler'[h] = r /\ \A g \in ByteHandlers : g # h => handler'[g] = handler[g]
  BY <1>3, <1>4, HandlerTypesStep, Zenon
<1>6. UNCHANGED <<blockTx, flowTx, sjobTx, rawTx, siteTx, transferRetry, finishedBlocks, flowBlock, flowActive, pollState, abandoned>>
      /\ sent' = [sent EXCEPT ![handler[h].job] = 0]
  BY Zenon DEF DoneLaunches, docVars
<1>7. CounterTypes' /\ BlocksAddUp' /\ RawAddsUp' /\ SiteAddsUp'
  BY <1>6, SumsFrame, Zenon
<1>8. sent' \in [ByteJobs -> Int]
  <2>1. sent \in [ByteJobs -> Int]
    BY Zenon DEF DocTypes
  <2>2. PICK j \in ByteJobs : j = handler[h].job
    BY <1>1, Zenon DEF HandlerOK
  <2>3. sent' = [sent EXCEPT ![j] = 0]
    BY <1>6, <2>2, Zenon
  <2> QED BY <2>1, <2>3
<1>9. DocTypes' /\ PollTypes'
  BY <1>6, <1>8, Zenon DEF DocTypes, PollTypes, PollBusy
<1> QED BY <1>1, <1>3, <1>5, <1>7, <1>9, Zenon

\* Nor does the record of the flow's new block.
LEMMA AddsUpRecords ==
    ASSUME AddsUp, NEW h \in ByteHandlers, DoneRecords(h), NEW j, j = handler[h].job
    PROVE  /\ AddsUp' /\ \A g \in ByteHandlers : g # h => handler'[g] = handler[g]
           /\ handler[h].at = "record" /\ j \in ByteJobs /\ handler'[h].job = "none" /\ flowBlock'[j] = handler[h].next
           /\ \A k \in ByteJobs \ {j} : flowBlock'[k] = flowBlock[k]
<1> USE DEF AddsUp, BytesTypes
<1>1. handler[h] \in HandlerLocals /\ HandlerOK(handler[h]) /\ handler[h].at = "record" /\ j \in ByteJobs
      /\ handler[h].next \in BlockIds(j) /\ handler[h].next \in Nat
  BY HandlerLocal, ByteFacts, Zenon DEF DoneRecords, HandlerOK
<1>2. handler' = [handler EXCEPT ![h] = HandlerIdle]
  BY Zenon DEF DoneRecords
<1>3. HandlerTypes' /\ handler'[h] = HandlerIdle /\ \A g \in ByteHandlers : g # h => handler'[g] = handler[g]
  BY <1>2, IdleHandler, HandlerTypesStep, Zenon
<1>4. /\ flowBlock' = [flowBlock EXCEPT ![j] = handler[h].next] /\ flowActive' = flowActive \cup {j}
      /\ UNCHANGED <<blockTx, flowTx, sjobTx, rawTx, siteTx, transferRetry, finishedBlocks, sent, pollState, abandoned>>
  BY Zenon DEF DoneRecords, clientVars
<1>5. CounterTypes' /\ BlocksAddUp' /\ RawAddsUp' /\ SiteAddsUp'
  BY <1>4, SumsFrame, Zenon
<1>6. DocTypes' /\ flowBlock'[j] = handler[h].next /\ \A k \in ByteJobs \ {j} : flowBlock'[k] = flowBlock[k]
  BY <1>1, <1>4, Zenon DEF DocTypes
<1>7. PollTypes'
  BY <1>4, Zenon DEF PollTypes, PollBusy
<1>8. handler'[h].job = "none"
  BY <1>3 DEF HandlerIdle
<1> QED BY <1>1, <1>3, <1>5, <1>6, <1>7, <1>8, Zenon

\* The sjobs that the poll still works on.
LEMMA BusyPoll ==
    ASSUME PollTypes, NEW k \in ByteJobs
    PROVE  k \in pollState.left \/ pollState.job = k <=> k \in PollBusy
BY ByteFacts, Zenon DEF PollTypes, PollBusy

\* A step that leaves the documents and the handlers of an sjob alone keeps it neat;
\* the poll may let go of it.
LEMMA NeatFrame ==
    ASSUME AddsUp, AddsUp', NEW k \in ByteJobs, Neat(k), Clean(k)' => Clean(k),
           \A c \in BlockIds(k) : blockTx'[k][c] = blockTx[k][c],
           finishedBlocks'[k] = finishedBlocks[k], flowBlock'[k] = flowBlock[k],
           k \in flowActive' <=> k \in flowActive,
           k \in PollBusy' => k \in PollBusy /\ pollState'.docs[k] = pollState.docs[k],
           \A h \in ByteHandlers : handler'[h].job = k \/ handler[h].job = k => handler'[h] = handler[h]
    PROVE  Neat(k)'
<1> USE DEF AddsUp, BytesTypes
<1> SUFFICES ASSUME Clean(k)' PROVE PollClean(k)' /\ (\A h \in ByteHandlers : HandlerClean(h, k)') /\ Finished(k)'
  BY Zenon DEF Neat
<1>1. PollClean(k) /\ (\A h \in ByteHandlers : HandlerClean(h, k)) /\ Finished(k)
  BY Zenon DEF Neat
<1>2. flowBlock[k] \in BlockIds(k) /\ finishedBlocks[k] \subseteq BlockIds(k)
  BY Zenon DEF DocTypes
<1>3. PollClean(k)'
  BY <1>1, Zenon DEF PollClean
<1>4. ASSUME NEW h \in ByteHandlers PROVE HandlerClean(h, k)'
  BY <1>1, <1>2 DEF HandlerClean
<1>5. ASSUME Overlaps(k) PROVE k \in flowActive' \/ Overlaps(k)'
  <2>1. CASE k \in PollBusy
    BY <1>1, <2>1, Zenon DEF PollClean
  <2>2. CASE \E h \in ByteHandlers : handler[h].job = k
    BY <2>2, Zenon DEF Overlaps
  <2> QED BY <1>5, <2>1, <2>2, BusyPoll, Zenon DEF Overlaps
<1>6. Finished(k)'
  <2>1. SUFFICES ASSUME NEW b \in finishedBlocks'[k], blockTx'[k][b] # BlockSize
                 PROVE  b = flowBlock'[k] /\ (k \in flowActive' \/ Overlaps(k)')
    BY Zenon DEF Finished
  <2>2. b \in finishedBlocks[k] /\ blockTx[k][b] # BlockSize
    BY <1>2, <2>1, Zenon
  <2> QED BY <1>1, <1>5, <2>2, Zenon DEF Finished
<1> QED BY <1>3, <1>4, <1>6, Zenon

\* The documents of the other sjobs stay, and no handler comes to work on them.
LEMMA NeatOthers ==
    ASSUME BytesInv, AddsUp', NEW h \in ByteHandlers, NEW j \in ByteJobs,
           handler[h].job \in {j, "none"}, handler'[h].job \in {j, "none"},
           \A g \in ByteHandlers : g # h => handler'[g] = handler[g],
           \A k \in ByteJobs \ {j} :
               /\ \A c \in BlockIds(k) : blockTx'[k][c] = blockTx[k][c]
               /\ finishedBlocks'[k] = finishedBlocks[k] /\ flowBlock'[k] = flowBlock[k]
               /\ (k \in flowActive') = (k \in flowActive),
           pollState' = pollState, jobFailed \subseteq jobFailed', disturbed \subseteq disturbed'
    PROVE  \A k \in ByteJobs \ {j} : Neat(k)'
<1> TAKE k \in ByteJobs \ {j}
<1>1. AddsUp /\ Neat(k)
  BY Zenon DEF BytesInv
<1>2. Clean(k)' => Clean(k)
  BY Zenon DEF Clean
<1>3. PollBusy' = PollBusy
  BY Zenon DEF PollBusy
<1>4. \A g \in ByteHandlers : handler'[g].job = k \/ handler[g].job = k => handler'[g] = handler[g]
  BY ByteFacts
<1> QED BY <1>1, <1>2, <1>3, <1>4, NeatFrame, Zenon

\* A step of the poll that changes no document keeps every sjob neat.
LEMMA NeatPoll ==
    ASSUME BytesInv, AddsUp', UNCHANGED <<docVars, handler, disturbed>>,
           \A k \in PollBusy' : k \in PollBusy /\ pollState'.docs[k] = pollState.docs[k]
    PROVE  \A k \in ByteJobs : Neat(k)'
<1> TAKE k \in ByteJobs
<1>1. AddsUp /\ Neat(k)
  BY Zenon DEF BytesInv
<1>2. Clean(k)' => Clean(k)
  BY Zenon DEF Clean, docVars
<1>3. UNCHANGED <<blockTx, finishedBlocks, flowBlock, flowActive>>
  BY Zenon DEF docVars
<1> QED BY <1>1, <1>2, <1>3, NeatFrame, Zenon

\* A poll that starts takes active flows, of which it has true snapshots unless a handler
\* is at work on them.
LEMMA NeatReads ==
    ASSUME BytesInv, AddsUp', PollReads
    PROVE  \A k \in ByteJobs : Neat(k)'
<1> TAKE k \in ByteJobs
<1> USE DEF BytesInv, AddsUp, BytesTypes
<1>1. UNCHANGED <<blockTx, finishedBlocks, flowBlock, flowActive, jobFailed, handler>>
  BY Zenon DEF PollReads, docVars
<1>2. PollBusy' = flowActive /\ (k \in flowActive => pollState'.docs[k].block = flowBlock[k])
  BY Zenon DEF PollReads, PollBusy
<1>3. Clean(k)' => Clean(k) /\ (k \in flowActive => ~Overlaps(k))
  BY <1>1, Zenon DEF PollReads, Clean
<1>4. Neat(k)
  BY Zenon
<1>5. CASE k \notin flowActive
  <2>1. k \notin PollBusy'
    BY <1>2, <1>5, Zenon
  <2> QED BY <1>1, <1>3, <1>4, <2>1, NeatFrame, Zenon
<1>6. CASE k \in flowActive
  <2> SUFFICES ASSUME Clean(k)' PROVE PollClean(k)' /\ (\A h \in ByteHandlers : HandlerClean(h, k)') /\ Finished(k)'
    BY Zenon DEF Neat
  <2>1. \A h \in ByteHandlers : handler[h].job # k
    BY <1>3, <1>6, Zenon DEF Overlaps
  <2>2. PollClean(k)'
    BY <1>1, <1>2, <1>6, <2>1, Zenon DEF PollClean
  <2>3. \A h \in ByteHandlers : HandlerClean(h, k)'
    BY <1>1, <2>1, Zenon DEF HandlerClean
  <2>4. Finished(k)'
    BY <1>1, <1>3, <1>4, <1>6, Zenon DEF Neat, Finished
  <2> QED BY <2>2, <2>3, <2>4, Zenon
<1> QED BY <1>5, <1>6, Zenon

\* A task that the client does not know fails its sjob.
LEMMA NeatUnknown ==
    ASSUME BytesInv, AddsUp', NEW j \in ByteJobs, PollUnknownTaskId(j)
    PROVE  \A k \in ByteJobs : Neat(k)'
<1> TAKE k \in ByteJobs
<1>1. PollBusy' = {}
  BY IdlePoll, Zenon DEF PollUnknownTaskId
<1>2. CASE k = j
  BY <1>2, Zenon DEF PollUnknownTaskId, Neat, Clean
<1>3. CASE k # j
  <2>1. Clean(k)' => Clean(k)
    BY Zenon DEF PollUnknownTaskId, Clean
  <2>2. UNCHANGED <<blockTx, finishedBlocks, flowBlock, handler>> /\ (k \in flowActive' <=> k \in flowActive)
    BY <1>3, Zenon DEF PollUnknownTaskId
  <2>3. AddsUp /\ Neat(k)
    BY Zenon DEF BytesInv
  <2> QED BY <1>1, <2>1, <2>2, <2>3, NeatFrame, Zenon
<1> QED BY <1>2, <1>3, Zenon

\* What the poll counts belongs to the block that its flow carries.
LEMMA NeatCounts ==
    ASSUME BytesInv, AddsUp', PollCounts
    PROVE  \A k \in ByteJobs : Neat(k)'
<1> TAKE k \in ByteJobs
<1> USE DEF BytesInv
<1>0. PICK j, b : j = pollState.job /\ b = pollState.docs[pollState.job].block
  BY Zenon
<1>1. /\ PollBusy' = PollBusy \ {j} /\ j \in ByteJobs /\ j \in PollBusy
      /\ \A i \in PollBusy' : pollState'.docs[i] = pollState.docs[i]
      /\ \A i \in ByteJobs : \A c \in BlockIds(i) : i # j \/ c # b => blockTx'[i][c] = blockTx[i][c]
  BY <1>0, AddsUpCounts, Zenon
<1>2. UNCHANGED <<finishedBlocks, flowBlock, handler, disturbed>>
  BY Zenon DEF PollCounts
<1>3. UNCHANGED <<flowActive, jobFailed>> \/ (flowActive' = flowActive \ {j} /\ jobFailed' = jobFailed \cup {j})
  BY <1>0, Zenon DEF PollCounts
<1>4. Clean(k)' => Clean(k)
  BY <1>2, <1>3, Zenon DEF Clean
<1>5. CASE k # j
  <2>1. k \in PollBusy' => k \in PollBusy /\ pollState'.docs[k] = pollState.docs[k]
    BY <1>1, Zenon
  <2>2. \A c \in BlockIds(k) : blockTx'[k][c] = blockTx[k][c]
    BY <1>1, <1>5, Zenon
  <2>3. k \in flowActive' <=> k \in flowActive
    BY <1>3, <1>5, Zenon
  <2> QED BY <1>2, <1>4, <2>1, <2>2, <2>3, NeatFrame, Zenon
<1>6. CASE k = j
  <2> SUFFICES ASSUME Clean(k)' PROVE PollClean(k)' /\ (\A h \in ByteHandlers : HandlerClean(h, k)') /\ Finished(k)'
    BY Zenon DEF Neat
  <2>1. UNCHANGED flowActive
    BY <1>3, <1>6, Zenon DEF Clean
  <2>2. PollClean(k) /\ Finished(k)
    BY <1>4, Zenon DEF Neat
  <2>3. k \in flowActive /\ b = flowBlock[k] /\ \A h \in ByteHandlers : handler[h].job # k
    BY <1>0, <1>1, <1>6, <2>2, Zenon DEF PollClean
  <2>4. PollClean(k)' /\ \A h \in ByteHandlers : HandlerClean(h, k)'
    BY <1>1, <1>2, <1>6, <2>3, Zenon DEF PollClean, HandlerClean
  <2>5. finishedBlocks[k] \subseteq BlockIds(k)
    BY Zenon DEF AddsUp, BytesTypes, DocTypes
  <2>6. Finished(k)'
    BY <1>1, <1>2, <1>6, <2>1, <2>2, <2>3, <2>5, ZenonT(30) DEF Finished
  <2> QED BY <2>4, <2>6, Zenon
<1> QED BY <1>5, <1>6, Zenon

\* A mld_status that is alone on its sjob reads it as it is.
LEMMA NeatDoneReads ==
    ASSUME BytesInv, NEW h \in ByteHandlers, NEW j \in ByteJobs, DoneReads(h, j)
    PROVE  \A k \in ByteJobs : Neat(k)'
<1> USE DEF BytesInv
<1>1. /\ AddsUp' /\ \A g \in ByteHandlers : g # h => handler'[g] = handler[g]
      /\ handler'[h].at = "count" /\ handler'[h].job = j /\ handler'[h].block = flowBlock[j]
      /\ handler'[h].had = blockTx[j][flowBlock[j]]
  BY AddsUpDoneReads, Zenon
<1>2. UNCHANGED <<blockTx, finishedBlocks, flowBlock, jobFailed, pollState>> /\ flowActive' = flowActive \ {j}
      /\ disturbed \subseteq disturbed' /\ (Overlaps(j) => j \in disturbed')
  BY Zenon DEF DoneReads
<1>3. handler[h].job = "none"
  BY HandlerLocal, Zenon DEF DoneReads, HandlerOK, AddsUp, BytesTypes
<1>4. \A k \in ByteJobs \ {j} : Neat(k)'
  BY <1>1, <1>2, <1>3, NeatOthers
<1>5. Neat(j)'
  <2> SUFFICES ASSUME Clean(j)' PROVE PollClean(j)' /\ (\A g \in ByteHandlers : HandlerClean(g, j)') /\ Finished(j)'
    BY Zenon DEF Neat
  <2>1. Clean(j) /\ ~Overlaps(j)
    BY <1>2, Zenon DEF Clean
  <2>2. Finished(j)
    BY <2>1, Zenon DEF Neat
  <2>3. j \notin PollBusy /\ \A g \in ByteHandlers : handler[g].job # j
    BY <2>1, BusyPoll, Zenon DEF Overlaps, AddsUp, BytesTypes
  <2>4. PollClean(j)'
    BY <1>2, <2>3, Zenon DEF PollClean, PollBusy
  <2>5. \A g \in ByteHandlers : HandlerClean(g, j)'
    BY <1>1, <1>2, <2>3, ZenonT(30) DEF HandlerClean
  <2>6. Overlaps(j)'
    BY <1>1, Zenon DEF Overlaps
  <2>7. Finished(j)'
    BY <1>2, <2>2, <2>6, Zenon DEF Finished
  <2> QED BY <2>4, <2>5, <2>7, Zenon
<1> QED BY <1>4, <1>5, Zenon

\* What a handler that works on a neat sjob knows of it
LEMMA NeatHandler ==
    ASSUME BytesInv, NEW h \in ByteHandlers, NEW j \in ByteJobs, handler[h].job = j, Clean(j)
    PROVE  HandlerClean(h, j) /\ Finished(j) /\ j \notin PollBusy /\ (\A g \in ByteHandlers : g # h => handler[g].job # j)
BY DEF BytesInv, Neat, HandlerClean, PollClean

\* Its next step keeps the sjob neat when it knows the same afterwards.
LEMMA NeatMine ==
    ASSUME BytesInv, NEW h \in ByteHandlers, NEW j \in ByteJobs, handler[h].job = j, handler'[h].job \in {j, "none"},
           \A g \in ByteHandlers : g # h => handler'[g] = handler[g],
           pollState' = pollState, jobFailed \subseteq jobFailed', disturbed \subseteq disturbed',
           Clean(j)' => (handler'[h].job = j =>
               /\ handler'[h].block = flowBlock'[j]
               /\ handler'[h].at = "count" => handler'[h].had = blockTx'[j][flowBlock'[j]]
               /\ handler'[h].at = "verify" => blockTx'[j][flowBlock'[j]] = BlockSize
               /\ handler'[h].at \in {"launch", "record"} /\ handler'[h].next # flowBlock'[j] => blockTx'[j][flowBlock'[j]] = BlockSize),
           Clean(j)' => \A b \in finishedBlocks'[j] :
               blockTx'[j][b] = BlockSize \/ (b = flowBlock'[j] /\ (j \in flowActive' \/ handler'[h].job = j))
    PROVE  Neat(j)'
<1> SUFFICES ASSUME Clean(j)' PROVE PollClean(j)' /\ (\A g \in ByteHandlers : HandlerClean(g, j)') /\ Finished(j)'
  BY Zenon DEF Neat
<1>1. Clean(j)
  BY Zenon DEF Clean
<1>2. j \notin PollBusy /\ \A g \in ByteHandlers : g # h => handler[g].job # j
  BY <1>1, NeatHandler, ZenonT(30)
<1>3. PollClean(j)'
  BY <1>2, Zenon DEF PollClean, PollBusy
<1>4. \A g \in ByteHandlers : HandlerClean(g, j)'
  BY <1>2, ZenonT(30) DEF HandlerClean
<1>5. handler'[h].job = j => Overlaps(j)'
  BY Zenon DEF Overlaps
<1>6. Finished(j)'
  BY <1>5, Zenon DEF Finished
<1> QED BY <1>3, <1>4, <1>6, Zenon

\* It tops up the block to its size exactly.
LEMMA NeatDoneCounts ==
    ASSUME BytesInv, NEW h \in ByteHandlers, DoneCounts(h)
    PROVE  \A k \in ByteJobs : Neat(k)'
<1> USE DEF BytesInv
<1>0. PICK j, b : j = handler[h].job /\ b = handler[h].block
  BY Zenon
<1>1. /\ AddsUp' /\ \A g \in ByteHandlers : g # h => handler'[g] = handler[g]
      /\ handler'[h].at = "verify" /\ handler'[h].job = j /\ handler'[h].block = b /\ j \in ByteJobs /\ b \in BlockIds(j)
      /\ handler[h].had = blockTx[j][b] => blockTx'[j][b] = BlockSize
      /\ \A k \in ByteJobs : \A c \in BlockIds(k) : k # j \/ c # b => blockTx'[k][c] = blockTx[k][c]
  BY <1>0, AddsUpDoneCounts
<1>2. UNCHANGED <<finishedBlocks, flowBlock, flowActive, jobFailed, pollState, disturbed>> /\ handler[h].at = "count"
  BY ZenonT(40) DEF DoneCounts
<1>3. \A k \in ByteJobs \ {j} : Neat(k)'
  BY <1>0, <1>1, <1>2, NeatOthers, SMTT(30)
<1>4. ASSUME Clean(j)'
      PROVE  /\ b = flowBlock'[j] /\ blockTx'[j][b] = BlockSize
             /\ \A c \in finishedBlocks'[j] : blockTx'[j][c] = BlockSize \/ c = flowBlock'[j]
  <2>1. Clean(j)
    BY <1>2, <1>4, Zenon DEF Clean
  <2>2. HandlerClean(h, j) /\ Finished(j)
    BY <1>0, <1>1, <2>1, NeatHandler, Zenon
  <2>3. b = flowBlock[j] /\ handler[h].had = blockTx[j][b]
    BY <1>0, <1>2, <2>2, Zenon DEF HandlerClean
  <2>4. finishedBlocks[j] \subseteq BlockIds(j)
    BY <1>1, Zenon DEF AddsUp, BytesTypes, DocTypes
  <2> QED BY <1>1, <1>2, <2>2, <2>3, <2>4, ZenonT(30) DEF Finished
<1>5. Neat(j)'
  BY <1>0, <1>1, <1>2, <1>4, NeatMine, ZenonT(30)
<1> QED BY <1>3, <1>5, Zenon

\* So a block that it finishes has its size.
LEMMA NeatVerified ==
    ASSUME BytesInv, NEW h \in ByteHandlers, DoneVerified(h)
    PROVE  \A k \in ByteJobs : Neat(k)'
<1> USE DEF BytesInv
<1>0. PICK j, b : j = handler[h].job /\ b = handler[h].block
  BY Zenon
<1>1. /\ AddsUp' /\ \A g \in ByteHandlers : g # h => handler'[g] = handler[g]
      /\ j \in ByteJobs /\ b \in BlockIds(j)
      /\ finishedBlocks'[j] = finishedBlocks[j] \cup {b} /\ \A k \in ByteJobs \ {j} : finishedBlocks'[k] = finishedBlocks[k]
      /\ \/ handler'[h].job = "none"
         \/ handler'[h].at = "launch" /\ handler'[h].job = j /\ handler'[h].block = b
  BY <1>0, AddsUpVerified
<1>2. UNCHANGED <<blockTx, flowBlock, flowActive, jobFailed, pollState, disturbed>> /\ handler[h].at = "verify"
  BY Zenon DEF DoneVerified
<1>3. \A k \in ByteJobs \ {j} : Neat(k)'
  BY <1>0, <1>1, <1>2, NeatOthers, ZenonT(30)
<1>4. ASSUME Clean(j)'
      PROVE  b = flowBlock[j] /\ blockTx[j][b] = BlockSize /\ \A c \in finishedBlocks'[j] : blockTx'[j][c] = BlockSize
  <2>1. Clean(j)
    BY <1>2, <1>4, Zenon DEF Clean
  <2>2. HandlerClean(h, j) /\ Finished(j)
    BY <1>0, <1>1, <2>1, NeatHandler, Zenon
  <2>3. b = flowBlock[j] /\ blockTx[j][b] = BlockSize
    BY <1>0, <1>2, <2>2, ZenonT(40) DEF HandlerClean
  <2> QED BY <1>1, <1>2, <2>2, <2>3, Zenon DEF Finished
<1>5. Neat(j)'
  BY <1>0, <1>1, <1>2, <1>4, ByteFacts, NeatMine, SMTT(30)
<1> QED BY <1>3, <1>5, Zenon

\* A block that was taken back is the flow's own, and is launched again.
LEMMA NeatRetrogresses ==
    ASSUME BytesInv, NEW h \in ByteHandlers, DoneRetrogresses(h)
    PROVE  \A k \in ByteJobs : Neat(k)'
<1> USE DEF BytesInv
<1>0. PICK j, b : j = handler[h].job /\ b = handler[h].block
  BY Zenon
<1>1. /\ AddsUp' /\ \A g \in ByteHandlers : g # h => handler'[g] = handler[g]
      /\ j \in ByteJobs /\ b \in BlockIds(j)
      /\ \A k \in ByteJobs : \A c \in BlockIds(k) : k # j \/ c # b => blockTx'[k][c] = blockTx[k][c]
      /\ \/ handler'[h].job = "none" /\ j \in jobFailed'
         \/ handler'[h].at = "launch" /\ handler'[h].job = j /\ handler'[h].block = b /\ handler'[h].next = b
  BY <1>0, AddsUpRetrogresses
<1>2. UNCHANGED <<finishedBlocks, flowBlock, flowActive, pollState, disturbed>> /\ jobFailed \subseteq jobFailed'
  BY Zenon DEF DoneRetrogresses
<1>3. \A k \in ByteJobs \ {j} : Neat(k)'
  BY <1>0, <1>1, <1>2, NeatOthers
<1>4. ASSUME Clean(j)'
      PROVE  /\ b = flowBlock'[j] /\ handler'[h].job = j /\ handler'[h].at = "launch" /\ handler'[h].next = b
             /\ \A c \in finishedBlocks'[j] : blockTx'[j][c] = BlockSize \/ c = flowBlock'[j]
  <2>1. Clean(j) /\ j \notin jobFailed'
    BY <1>2, <1>4, Zenon DEF Clean
  <2>2. HandlerClean(h, j) /\ Finished(j)
    BY <1>0, <1>1, <2>1, NeatHandler, Zenon
  <2>3. b = flowBlock[j]
    BY <1>0, <1>2, <2>2, Zenon DEF HandlerClean
  <2>4. finishedBlocks[j] \subseteq BlockIds(j)
    BY <1>1, Zenon DEF AddsUp, BytesTypes, DocTypes
  <2> QED BY <1>1, <1>2, <2>1, <2>2, <2>3, <2>4, Zenon DEF Finished
<1>5. Neat(j)'
  <2>1. handler[h].job = j /\ handler'[h].job \in {j, "none"}
    BY <1>0, <1>1, Zenon
  <2>2. Clean(j)' => /\ handler'[h].block = flowBlock'[j] /\ handler'[h].next = flowBlock'[j] /\ handler'[h].at = "launch"
                     /\ handler'[h].job = j
    BY <1>1, <1>4, ByteFacts, ZenonT(30)
  <2> QED BY <1>1, <1>2, <1>4, <2>1, <2>2, NeatMine, ZenonT(30)
<1> QED BY <1>3, <1>5, Zenon

\* The launch makes the flow active again.
LEMMA NeatLaunches ==
    ASSUME BytesInv, NEW h \in ByteHandlers, DoneLaunches(h)
    PROVE  \A k \in ByteJobs : Neat(k)'
<1> USE DEF BytesInv
<1>0. PICK j : j = handler[h].job
  BY Zenon
<1>1. /\ AddsUp' /\ \A g \in ByteHandlers : g # h => handler'[g] = handler[g]
      /\ handler[h].at = "launch" /\ handler'[h].at = "record" /\ handler'[h].job = j
      /\ handler'[h].block = handler[h].block /\ handler'[h].next = handler[h].next
  BY <1>0, AddsUpLaunches, ZenonT(30)
<1>2. UNCHANGED <<blockTx, finishedBlocks, flowBlock, flowActive, jobFailed, pollState, disturbed>>
  BY Zenon DEF DoneLaunches, docVars
<1>3. j \in ByteJobs
  BY <1>0, <1>1, HandlerLocal, ZenonT(30) DEF AddsUp, BytesTypes
<1>4. \A k \in ByteJobs \ {j} : Neat(k)'
  BY <1>0, <1>1, <1>2, <1>3, NeatOthers, ZenonT(30)
<1>5. ASSUME Clean(j)'
      PROVE  /\ handler[h].block = flowBlock[j]
             /\ handler[h].next # flowBlock[j] => blockTx[j][flowBlock[j]] = BlockSize
             /\ \A c \in finishedBlocks[j] : blockTx[j][c] = BlockSize \/ c = flowBlock[j]
  <2>1. Clean(j)
    BY <1>2, <1>5, Zenon DEF Clean
  <2>2. HandlerClean(h, j) /\ Finished(j)
    BY <1>0, <1>3, <2>1, NeatHandler, Zenon
  <2> QED BY <1>0, <1>1, <2>2, Zenon DEF HandlerClean, Finished
<1>6. Neat(j)'
  BY <1>0, <1>1, <1>2, <1>3, <1>5, NeatMine, ZenonT(30)
<1> QED BY <1>4, <1>6, Zenon

\* The flow carries the next block once it is recorded.
LEMMA NeatRecords ==
    ASSUME BytesInv, NEW h \in ByteHandlers, DoneRecords(h)
    PROVE  \A k \in ByteJobs : Neat(k)'
<1> USE DEF BytesInv
<1>0. PICK j : j = handler[h].job
  BY Zenon
<1>1. /\ AddsUp' /\ \A g \in ByteHandlers : g # h => handler'[g] = handler[g]
      /\ handler[h].at = "record" /\ j \in ByteJobs /\ handler'[h].job = "none" /\ flowBlock'[j] = handler[h].next
      /\ \A k \in ByteJobs \ {j} : flowBlock'[k] = flowBlock[k]
  BY <1>0, AddsUpRecords, Zenon
<1>2. UNCHANGED <<blockTx, finishedBlocks, jobFailed, pollState, disturbed>> /\ flowActive' = flowActive \cup {j}
  BY <1>0, ZenonT(40) DEF DoneRecords
<1>3. \A k \in ByteJobs \ {j} : Neat(k)'
  BY <1>0, <1>1, <1>2, NeatOthers
<1>4. ASSUME Clean(j)'
      PROVE  \A c \in finishedBlocks[j] : blockTx[j][c] = BlockSize \/ c = flowBlock'[j]
  <2>1. Clean(j)
    BY <1>2, <1>4, Zenon DEF Clean
  <2>2. HandlerClean(h, j) /\ Finished(j)
    BY <1>0, <1>1, <2>1, NeatHandler, Zenon
  <2> QED BY <1>0, <1>1, <2>2, Zenon DEF HandlerClean, Finished
<1>5. Neat(j)'
  BY <1>0, <1>1, <1>2, <1>4, ByteFacts, NeatMine, ZenonT(30)
<1> QED BY <1>3, <1>5, Zenon

\* Every step keeps the invariant.
LEMMA BytesStep == BytesInv /\ [BytesNext]_byteVars => BytesInv'
<1> SUFFICES ASSUME BytesInv, [BytesNext]_byteVars PROVE BytesInv'
  BY Zenon
<1>0. AddsUp
  BY Zenon DEF BytesInv
<1>1. CASE PollReads
  BY <1>0, <1>1, AddsUpReads, NeatReads, Zenon DEF BytesInv
<1>2. CASE PollCounts
  BY <1>0, <1>2, AddsUpCounts, NeatCounts, Zenon DEF BytesInv
<1>3. CASE PollSums
  <2>1. AddsUp' /\ PollBusy' = {}
    BY <1>0, <1>3, AddsUpSums, IdlePoll, Zenon DEF PollSums
  <2>2. UNCHANGED <<handler, disturbed>> /\ UNCHANGED <<blockTx, flowBlock, finishedBlocks, flowActive, jobFailed>>
    BY <1>3, Zenon DEF PollSums
  <2>3. ASSUME NEW k \in ByteJobs PROVE Neat(k)'
    <3>1. Neat(k) /\ (Clean(k)' => Clean(k))
      BY <2>2, Zenon DEF BytesInv, Clean
    <3> QED BY <1>0, <2>1, <2>2, <3>1, NeatFrame, Zenon
  <2> QED BY <2>1, <2>3, Zenon DEF BytesInv
<1>4. ASSUME NEW j \in ByteJobs, ClientSends(j) \/ ClientReports(j) PROVE BytesInv'
  <2>1. UNCHANGED <<docVars, handler, disturbed, pollState>>
    BY <1>4, Zenon DEF ClientSends, ClientReports
  <2>2. AddsUp' /\ PollBusy' = PollBusy
    BY <1>0, <1>4, <2>1, AddsUpClient, Zenon DEF PollBusy
  <2> QED BY <2>1, <2>2, NeatPoll, Zenon DEF BytesInv
<1>5. ASSUME NEW j \in ByteJobs, PollUnanswered(j) PROVE BytesInv'
  <2>1. UNCHANGED <<docVars, handler, disturbed>>
    BY <1>5, Zenon DEF PollUnanswered
  <2>2. AddsUp' /\ \A k \in PollBusy' : k \in PollBusy /\ pollState'.docs[k] = pollState.docs[k]
    BY <1>0, <1>5, AddsUpUnanswered, Zenon
  <2> QED BY <2>1, <2>2, NeatPoll, Zenon DEF BytesInv
<1>6. ASSUME NEW j \in ByteJobs, PollUnknownTaskId(j) PROVE BytesInv'
  BY <1>0, <1>6, AddsUpUnknown, NeatUnknown, ZenonT(30) DEF BytesInv
<1>7. ASSUME NEW j \in ByteJobs, PollAnswered(j) PROVE BytesInv'
  <2>1. UNCHANGED <<docVars, handler, disturbed>>
    BY <1>7, Zenon DEF PollAnswered
  <2>2. AddsUp' /\ \A k \in PollBusy' : k \in PollBusy /\ pollState'.docs[k] = pollState.docs[k]
    BY <1>0, <1>7, AddsUpAnswered, Zenon
  <2> QED BY <2>1, <2>2, NeatPoll, Zenon DEF BytesInv
<1>8. ASSUME NEW h \in ByteHandlers, NEW j \in ByteJobs, DoneReads(h, j) PROVE BytesInv'
  BY <1>0, <1>8, AddsUpDoneReads, NeatDoneReads, Zenon DEF BytesInv
<1>9. ASSUME NEW h \in ByteHandlers, DoneCounts(h) PROVE BytesInv'
  <2>1. AddsUp'
    BY <1>0, <1>9, AddsUpDoneCounts, ZenonT(30)
  <2> QED BY <1>9, <2>1, NeatDoneCounts, Zenon DEF BytesInv
<1>10. ASSUME NEW h \in ByteHandlers, DoneVerified(h) PROVE BytesInv'
  <2>1. AddsUp'
    BY <1>0, <1>10, AddsUpVerified, ZenonT(30)
  <2> QED BY <1>10, <2>1, NeatVerified, Zenon DEF BytesInv
<1>11. ASSUME NEW h \in ByteHandlers, DoneRetrogresses(h) PROVE BytesInv'
  <2>1. AddsUp'
    BY <1>0, <1>11, AddsUpRetrogresses, Zenon
  <2> QED BY <1>11, <2>1, NeatRetrogresses, Zenon DEF BytesInv
<1>12. ASSUME NEW h \in ByteHandlers, DoneLaunches(h) PROVE BytesInv'
  BY <1>0, <1>12, AddsUpLaunches, NeatLaunches, ZenonT(30) DEF BytesInv
<1>13. ASSUME NEW h \in ByteHandlers, DoneRecords(h) PROVE BytesInv'
  <2>1. AddsUp'
    BY <1>0, <1>13, AddsUpRecords, Zenon
  <2> QED BY <1>13, <2>1, NeatRecords, Zenon DEF BytesInv
<1>14. CASE UNCHANGED byteVars
  <2>1. UNCHANGED <<docVars, handler, disturbed, pollState, abandoned, sent>>
    BY <1>14, Zenon DEF byteVars, clientVars
  <2>2. AddsUp'
    BY <1>0, <2>1, Zenon DEF AddsUp, BytesTypes, CounterTypes, DocTypes, PollTypes, HandlerTypes, PollBusy, BlocksAddUp, RawAddsUp, SiteAddsUp, docVars
  <2>3. PollBusy' = PollBusy
    BY <2>1, Zenon DEF PollBusy
  <2> QED BY <2>1, <2>2, <2>3, NeatPoll, Zenon DEF BytesInv
<1> QED BY <1>1, <1>2, <1>3, <1>4, <1>5, <1>6, <1>7, <1>8, <1>9, <1>10, <1>11, <1>12, <1>13, <1>14, ZenonT(30) DEF BytesNext

\* The counters of block, flow, sjob, raw job and site agree whenever no handler runs, for
\* any number of sjobs, blocks and handlers and whatever outdated snapshots poll_rate and
\* mld_status add from.
THEOREM BytesAgree == BytesSpec => []CountersAgree
<1>1. BytesInv => CountersAgree
  <2> SUFFICES ASSUME BytesInv, AtRest, ~abandoned
               PROVE  /\ \A j \in ByteJobs : sjobTx[j] = flowTx[j] /\ sjobTx[j] = SumFunctionOnSet(blockTx[j], BlockIds(j))
                      /\ rawTx = SumFunctionOnSet(sjobTx, ByteJobs)
                      /\ siteTx = rawTx + BlockSize * SumFunctionOnSet(transferRetry, ByteJobs)
    BY Zenon DEF CountersAgree
  <2>1. pollState.raw = 0 /\ rawTx \in Int
    BY Zenon DEF AtRest, BytesInv, AddsUp, BytesTypes, PollTypes, CounterTypes
  <2>2. rawTx = SumFunctionOnSet(sjobTx, ByteJobs)
    BY <2>1, SMTT(30) DEF BytesInv, AddsUp, RawAddsUp
  <2> QED BY <2>2, Zenon DEF BytesInv, AddsUp, BlocksAddUp, SiteAddsUp
<1> QED BY <1>1, BytesInitInv, BytesStep, PTL DEF BytesSpec

\* A finished block counts exactly its size, for any number of sjobs, blocks and handlers:
\* polls, redelivered reports, retries and failures in any order, on every sjob that no
\* two handlers worked on at once.
THEOREM FinishedBlocksExact == BytesSpec => []FinishedExact
<1>1. BytesInv => FinishedExact
  BY Zenon DEF BytesInv, Neat, Clean, Finished, FinishedExact
<1> QED BY <1>1, BytesInitInv, BytesStep, PTL DEF BytesSpec
=============================================================================
