------------------------- MODULE Registration_proofs ------------------------
(***************************************************************************)
(* For any number of agents, modules and faults: the resource graph that   *)
(* follows the agents through lost connections, restarts and stops.        *)
(***************************************************************************)
EXTENDS Registration, FiniteSetTheorems, TLAPS

-----------------------------------------------------------------------------
(* The registration of modules                                             *)

GraphInv == GTypeOK /\ WellFormed

\* A process of an agent is numbered within the crashes so far, so its topic is
\* one of Topics.
CrashInv ==
  /\ used \in [Faults -> Nat]
  /\ used["drop"] + used["crash"] + used["stop"] + used["sdrop"] + used["scrash"] <= MaxFaults
  /\ inc \in [Agents -> 0..used["crash"]]

\* Messages come from topics of the site, so their modules are modules.
QueueInv ==
  /\ retained \in [Topics -> {"none", "online", "offline"}]
  /\ inbox \in Seq(Topics \X {"online", "offline"})
  /\ work \in Seq(Topics \X {"online", "offline"})

\* The rest of RegTypeOK.
LinkInv ==
  /\ agent \in [Agents -> {"on", "off", "stopped"}]
  /\ will \subseteq Topics
  /\ server \in {"on", "off"}

RInv == GraphInv /\ CrashInv /\ QueueInv /\ LinkInv

\* The empty graph, of the constructor and after a restart, is well formed.
LEMMA EmptyGraph == GInit => GraphInv
BY GraphConstants, SMTT(30) DEF GInit, GraphInv, GTypeOK, WellFormed, Modules

\* add_modules: the edges it adds join nodes that are registered by then.
LEMMA AddKeeps ==
  ASSUME NEW ms \in SUBSET Modules, GraphInv, AddModules(ms)
  PROVE  GraphInv'
PROOF
<1>1. PICK choice \in [Storages -> Dtns \cup {NoNode}] :
        /\ \A s \in Storages :
             LET ds == {d \in ms \cap Dtns : <<s, d>> \in NewLinks(ms)}
             IN  IF ds = {} THEN choice[s] = NoNode ELSE choice[s] \in ds
        /\ pdtn' = [s \in Storages |-> IF choice[s] = NoNode THEN pdtn[s] ELSE choice[s]]
  BY Zenon DEF AddModules, PointStorages
<1>2. dtns' \subseteq Dtns /\ storages' \subseteq Storages /\ dtns \subseteq dtns' /\ storages \subseteq storages'
  BY Zenon DEF AddModules, GraphInv, GTypeOK
<1>3. NewLinks(ms) \subseteq Storages \X Dtns
  BY <1>2, Zenon DEF NewLinks
<1>4. \A p \in NewLinks(ms) : p[1] \in storages' /\ p[2] \in dtns' /\ p[1] \in Attached[p[2]]
  BY Zenon DEF NewLinks, AddModules
<1>5. gateway' \in [Dtns -> Nat] /\ \A d \in Dtns : gateway'[d] > 0 <=> d \in dtns'
  BY SMTT(30) DEF AddModules, GraphInv, GTypeOK, WellFormed
<1>6. launcher' \in Launchers \cup {NoNode} /\ sdn' \in Sdns \cup {NoNode}
  BY Zenon DEF AddModules, Replace, GraphInv, GTypeOK
<1>7. link' = link \cup NewLinks(ms)
  BY Zenon DEF AddModules
<1>8. ASSUME NEW s \in Storages
      PROVE  /\ pdtn'[s] \in Dtns \cup {NoNode, Dangling}
             /\ pdtn'[s] \in Dtns => <<s, pdtn'[s]>> \in link'
  <2>1. CASE choice[s] = NoNode
    BY <1>1, <1>7, <2>1, Zenon DEF GraphInv, GTypeOK, WellFormed
  <2>2. CASE choice[s] # NoNode
    BY <1>1, <1>7, <2>2, Zenon
  <2> QED BY <2>1, <2>2, Zenon
<1>9. pdtn' \in [Storages -> Dtns \cup {NoNode, Dangling}]
  BY <1>1, <1>8, Zenon
<1>10. \A p \in link' : p[1] \in storages' /\ p[2] \in dtns' /\ p[1] \in Attached[p[2]]
  BY <1>2, <1>4, <1>7, Zenon DEF GraphInv, WellFormed
<1> QED
  BY <1>2, <1>3, <1>5, <1>6, <1>7, <1>8, <1>9, <1>10, Zenon DEF GraphInv, GTypeOK, WellFormed

\* del_modules: edges and pointers go with their nodes, or dangle.
LEMMA DelKeeps ==
  ASSUME NEW ms \in SUBSET Modules, GraphInv, DelModules(ms)
  PROVE  GraphInv'
PROOF
<1>1. GTypeOK'
  BY Zenon DEF DelModules, GraphInv, GTypeOK
<1>2. \A p \in link' : p[1] \in storages' /\ p[2] \in dtns' /\ p[1] \in Attached[p[2]]
  BY Zenon DEF DelModules, GraphInv, WellFormed
<1>3. \A d \in Dtns : gateway'[d] > 0 <=> d \in dtns'
  BY SMTT(30) DEF DelModules, GraphInv, GTypeOK, WellFormed
<1>4. ASSUME NEW s \in Storages, pdtn'[s] \in Dtns
      PROVE  <<s, pdtn'[s]>> \in link'
  <2>1. s \notin ms /\ pdtn[s] \notin ms /\ pdtn'[s] = pdtn[s]
    BY <1>4, GraphConstants, Zenon DEF DelModules, Modules
  <2>2. <<s, pdtn[s]>> \in link
    BY <1>4, <2>1, Zenon DEF GraphInv, WellFormed
  <2> QED BY <2>1, <2>2, Zenon DEF DelModules
<1> QED BY <1>1, <1>2, <1>3, <1>4, Zenon DEF GraphInv, WellFormed

\* Topics is finite, so the broker can send what it retains as a sequence.
LEMMA TopicsFinite == IsFiniteSet(Topics)
PROOF
<1>1. MaxFaults \in Int /\ 0 \in Int BY RegistrationConstants
<1>2. IsFiniteSet(0..MaxFaults) BY <1>1, FS_Interval, Zenon
<1>3. IsFiniteSet(Agents) BY RegistrationConstants, Zenon
<1> QED BY <1>2, <1>3, FS_Product, Zenon DEF Topics

\* A sequence of the elements of a set is a sequence over any finite superset.
LEMMA SeqOfSet ==
  ASSUME NEW S, NEW T, IsFiniteSet(T), S \in SUBSET T, NEW q \in Bijection(1..Cardinality(S), S)
  PROVE  q \in Seq(T)
PROOF
<1>1. Cardinality(S) \in Nat BY FS_Subset, FS_CardinalityType, Zenon
<1>2. q \in [1..Cardinality(S) -> S] BY Zenon DEF Bijection, Injection
<1> QED BY <1>1, <1>2

\* A process is numbered within the faults allowed.
LEMMA IncBound ==
  ASSUME CrashInv
  PROVE  /\ \A f \in Faults : used[f] \in Nat
         /\ used["crash"] <= MaxFaults
         /\ inc \in [Agents -> 0..MaxFaults]
PROOF
<1>1. MaxFaults \in Nat BY RegistrationConstants, Zenon
<1>2. used["drop"] \in Nat /\ used["crash"] \in Nat /\ used["stop"] \in Nat /\ used["sdrop"] \in Nat /\ used["scrash"] \in Nat
  BY Zenon DEF CrashInv, Faults
<1>3. used["crash"] <= MaxFaults BY <1>1, <1>2, SMTT(30) DEF CrashInv
<1>4. 0..used["crash"] \subseteq 0..MaxFaults BY <1>1, <1>2, <1>3, SMTT(30)
<1>5. inc \in [Agents -> 0..MaxFaults] BY <1>4, Zenon DEF CrashInv
<1> QED BY <1>3, <1>5, Zenon DEF CrashInv

\* Only a crash of an agent gives a process a new number.
LEMMA CrashStep == CrashInv /\ [RegNext]_regVars => CrashInv'
PROOF
<1> SUFFICES ASSUME CrashInv, [RegNext]_regVars PROVE CrashInv' BY Zenon
<1> USE DEF CrashInv
<1>0. /\ MaxFaults \in Nat /\ "crash" \in Faults
      /\ {"drop", "stop", "sdrop", "scrash"} \subseteq Faults
  BY RegistrationConstants, Zenon DEF Faults
<1>1. ASSUME NEW f \in {"drop", "stop", "sdrop", "scrash"}, Fault(f), UNCHANGED inc PROVE CrashInv'
  BY <1>0, <1>1, SMTT(30) DEF Fault
<1>2. ASSUME NEW a \in Agents, AgentCrash(a) PROVE CrashInv'
  <2>0. used["drop"] \in Nat /\ used["crash"] \in Nat /\ used["stop"] \in Nat /\ used["sdrop"] \in Nat /\ used["scrash"] \in Nat
    BY Zenon DEF Faults
  <2>1. /\ used["drop"] + used["crash"] + used["stop"] + used["sdrop"] + used["scrash"] < MaxFaults
        /\ used' = [used EXCEPT !["crash"] = used["crash"] + 1]
    BY <1>2, Zenon DEF AgentCrash, Fault
  <2>2. inc' = [inc EXCEPT ![a] = inc[a] + 1] BY <1>2, Zenon DEF AgentCrash
  <2>3. used'["crash"] = used["crash"] + 1 /\ used' \in [Faults -> Nat]
    BY <1>0, <2>1, SMTT(30)
  <2>4. inc' \in [Agents -> 0..used'["crash"]]
    BY <1>0, <2>2, <2>3, SMTT(30)
  <2> QED BY <1>0, <2>0, <2>1, <2>3, <2>4, SMTT(30)
<1>3. CASE UNCHANGED <<inc, used>> BY <1>3, Zenon
<1>4. ASSUME NEW a \in Agents, AgentStep(a) PROVE CrashInv'
  BY <1>1, <1>2, <1>3, <1>4, Zenon DEF AgentStep, AgentConnect, AgentDrop, AgentStop
<1>5. ASSUME NEW t \in Topics, WillPublish(t) PROVE CrashInv'
  BY <1>3, <1>5, Zenon DEF WillPublish, avars
<1>6. CASE ServerReceive \/ ServerHandle \/ ServerConnect
  BY <1>3, <1>6, Zenon DEF ServerReceive, ServerHandle, ServerConnect, avars
<1>7. CASE ServerDrop \/ ServerCrash
  BY <1>1, <1>7, Zenon DEF ServerDrop, ServerCrash, avars
<1>8. CASE UNCHANGED regVars BY <1>3, <1>8, Zenon DEF regVars, avars
<1> QED BY <1>4, <1>5, <1>6, <1>7, <1>8, Zenon DEF RegNext

\* The topic of a running process is one of Topics.
LEMMA TopicType == CrashInv => \A a \in Agents : Topic(a) \in Topics
PROOF
<1> SUFFICES ASSUME CrashInv, NEW a \in Agents PROVE Topic(a) \in Topics BY Zenon
<1>1. inc[a] \in 0..MaxFaults BY IncBound, Zenon
<1> QED BY <1>1, Zenon DEF Topic, Topics

\* Every message that comes or is handled is one of a topic of the site.
LEMMA QueueStep == QueueInv /\ CrashInv /\ [RegNext]_regVars => QueueInv'
PROOF
<1> SUFFICES ASSUME QueueInv, CrashInv, [RegNext]_regVars PROVE QueueInv' BY Zenon
<1> DEFINE M == Topics \X {"online", "offline"}
<1> USE DEF QueueInv
<1>1. \A t \in Topics, st \in {"online", "offline"} :
        Publish(t, st) => inbox' \in Seq(M) /\ retained' \in [Topics -> {"none", "online", "offline"}]
  BY DEF Publish
<1>2. \A a \in Agents : Topic(a) \in Topics
  BY TopicType, Zenon
<1>3. ASSUME NEW t \in Topics, WillPublish(t) PROVE QueueInv'
  BY <1>1, <1>3, Zenon DEF WillPublish
<1>4. ASSUME NEW a \in Agents, AgentStep(a) PROVE QueueInv'
  <2>1. CASE AgentConnect(a) BY <1>1, <1>2, <2>1, Zenon DEF AgentConnect
  <2>2. CASE AgentDrop(a) BY <2>2, Zenon DEF AgentDrop, svars
  <2>3. CASE AgentCrash(a) BY <2>3, Zenon DEF AgentCrash, svars
  <2>4. CASE AgentStop(a) BY <1>1, <1>2, <2>4, Zenon DEF AgentStop
  <2> QED BY <1>4, <2>1, <2>2, <2>3, <2>4, Zenon DEF AgentStep
<1>5. CASE ServerReceive
  <2>1. Head(inbox) \in M /\ Tail(inbox) \in Seq(M) BY <1>5 DEF ServerReceive
  <2>2. retained' \in [Topics -> {"none", "online", "offline"}] BY <1>5, Zenon DEF ServerReceive
  <2> QED BY <1>5, <2>1, <2>2 DEF ServerReceive
<1>6. CASE ServerHandle
  <2>1. Tail(work) \in Seq(M) BY <1>6 DEF ServerHandle
  <2> QED BY <1>6, <2>1, Zenon DEF ServerHandle, bvars
<1>7. CASE ServerDrop BY <1>7 DEF ServerDrop, bvars
<1>8. CASE ServerConnect
  <2> DEFINE S == {<<t, retained[t]>> : t \in {x \in Topics : retained[x] # "none"}}
  <2>1. S \in SUBSET M
    OBVIOUS
  <2>2. IsFiniteSet({"online", "offline"})
    <3>1. IsFiniteSet({"online"} \cup {"offline"}) BY FS_Singleton, FS_AddElement, Zenon
    <3>2. {"online"} \cup {"offline"} = {"online", "offline"} BY Zenon
    <3> QED BY <3>1, <3>2, Zenon
  <2>3. IsFiniteSet(M) BY <2>2, TopicsFinite, FS_Product, Zenon
  <2>4. inbox' \in Bijection(1..Cardinality(S), S) BY <1>8, Zenon DEF ServerConnect
  <2>5. inbox' \in Seq(M) BY <2>1, <2>3, <2>4, SeqOfSet, Zenon
  <2> QED BY <1>8, <2>5, Zenon DEF ServerConnect, bvars
<1>9. CASE ServerCrash BY <1>9 DEF ServerCrash, bvars
<1>10. CASE UNCHANGED regVars BY <1>10, Zenon DEF regVars, svars, bvars
<1> QED BY <1>3, <1>4, <1>5, <1>6, <1>7, <1>8, <1>9, <1>10, Zenon DEF RegNext

\* The connections keep their types.
LEMMA LinkStep == LinkInv /\ CrashInv /\ [RegNext]_regVars => LinkInv'
PROOF
<1> SUFFICES ASSUME LinkInv, CrashInv, [RegNext]_regVars PROVE LinkInv' BY Zenon
<1> USE DEF LinkInv
<1>1. ASSUME NEW t \in Topics, WillPublish(t) PROVE LinkInv'
  BY <1>1, Zenon DEF WillPublish, avars
<1>2. ASSUME NEW a \in Agents, AgentStep(a) PROVE LinkInv'
  BY <1>2, TopicType, Zenon DEF AgentStep, AgentConnect, AgentDrop, AgentCrash, AgentStop, svars
<1>3. CASE ServerReceive \/ ServerHandle \/ ServerDrop \/ ServerConnect \/ ServerCrash
  BY <1>3, Zenon DEF ServerReceive, ServerHandle, ServerDrop, ServerConnect, ServerCrash, avars, bvars
<1>4. CASE UNCHANGED regVars BY <1>4, Zenon DEF regVars, avars, bvars, svars
<1> QED BY <1>1, <1>2, <1>3, <1>4, Zenon DEF RegNext

\* Only the handler and a restart change the graph.
LEMMA GraphStep == GraphInv /\ QueueInv /\ [RegNext]_regVars => GraphInv'
PROOF
<1> SUFFICES ASSUME GraphInv, QueueInv, [RegNext]_regVars PROVE GraphInv' BY Zenon
<1>1. CASE UNCHANGED gvars
  BY <1>1, Zenon DEF gvars, GraphInv, GTypeOK, WellFormed
<1>2. CASE ServerHandle
  <2>1. Head(work) \in Topics \X {"online", "offline"} BY <1>2 DEF ServerHandle, QueueInv
  <2>2. Head(work)[1][1] \in Agents BY <2>1, Zenon DEF Topics
  <2>3. ModulesOf[Head(work)[1][1]] \in SUBSET Modules BY <2>2, RegistrationConstants, Zenon
  <2>4. AddModules(ModulesOf[Head(work)[1][1]]) \/ DelModules(ModulesOf[Head(work)[1][1]])
    BY <1>2, Zenon DEF ServerHandle
  <2> QED BY <2>3, <2>4, AddKeeps, DelKeeps, Zenon
<1>3. CASE ServerCrash
  <2>1. GInit' BY <1>3, Zenon DEF ServerCrash, GInit
  <2>2. GInit' => GraphInv' BY GraphConstants, SMTT(30) DEF GInit, GraphInv, GTypeOK, WellFormed, Modules
  <2> QED BY <2>1, <2>2, Zenon
<1>4. ASSUME NEW t \in Topics, WillPublish(t) PROVE GraphInv'
  BY <1>1, <1>4, Zenon DEF WillPublish
<1>5. ASSUME NEW a \in Agents, AgentStep(a) PROVE GraphInv'
  BY <1>1, <1>5, Zenon DEF AgentStep, AgentConnect, AgentDrop, AgentCrash, AgentStop
<1>6. CASE ServerReceive \/ ServerDrop \/ ServerConnect
  BY <1>1, <1>6, Zenon DEF ServerReceive, ServerDrop, ServerConnect
<1>7. CASE UNCHANGED regVars BY <1>1, <1>7, Zenon DEF regVars
<1> QED BY <1>2, <1>3, <1>4, <1>5, <1>6, <1>7, Zenon DEF RegNext

\* All of it holds at the start.
LEMMA RInit == RegInit => RInv
PROOF
<1> SUFFICES ASSUME RegInit PROVE RInv BY Zenon
<1>1. GraphInv BY EmptyGraph, Zenon DEF RegInit
<1>2. CrashInv BY RegistrationConstants, SMTT(30) DEF RegInit, CrashInv, Faults
<1>3. QueueInv BY DEF RegInit, QueueInv
<1>4. LinkInv BY Zenon DEF RegInit, LinkInv
<1> QED BY <1>1, <1>2, <1>3, <1>4, Zenon DEF RInv

\* Any number of agents coming, leaving and restarting, of messages lost with a
\* connection and of server restarts keeps the types, ...
THEOREM RegistrationTyped == RegSpec => []RegTypeOK
PROOF
<1>1. RInv /\ [RegNext]_regVars => RInv'
  BY CrashStep, QueueStep, LinkStep, GraphStep, Zenon DEF RInv
<1>2. RInv => RegTypeOK
  <2> SUFFICES ASSUME RInv PROVE RegTypeOK BY Zenon
  <2>1. inc \in [Agents -> 0..MaxFaults] BY IncBound, Zenon DEF RInv
  <2> QED BY <2>1, Zenon DEF RInv, RegTypeOK, GraphInv, QueueInv, LinkInv, CrashInv
<1> QED BY RInit, <1>1, <1>2, PTL DEF RegSpec

\* ... and the resource graph well formed: the edges that add_modules and
\* del_modules leave fit the nodes, for any site.
THEOREM GraphWellFormed == RegSpec => []WellFormed
PROOF
<1>1. RInv /\ [RegNext]_regVars => RInv'
  BY CrashStep, QueueStep, LinkStep, GraphStep, Zenon DEF RInv
<1>2. RInv => WellFormed
  BY Zenon DEF RInv, GraphInv
<1> QED BY RInit, <1>1, <1>2, PTL DEF RegSpec

\* The lists that the portal reads agree with each other in a well-formed graph.
THEOREM ListsFromGraph == RegSpec => []ListsAgree
PROOF
<1>1. GraphInv => ListsAgree
  <2> SUFFICES ASSUME GraphInv PROVE ListsAgree BY Zenon
  <2>1. ActiveDtns = dtns BY Zenon DEF GraphInv, GTypeOK, WellFormed, ActiveDtns
  <2>2. ASSUME NEW s \in ActiveStorages PROVE \E d \in ActiveDtns : s \in Topology[d]
    <3>1. PICK d \in dtns : <<s, d>> \in link BY <2>2, Zenon DEF ActiveStorages
    <3>2. s \in Storages BY <2>2, Zenon DEF ActiveStorages, GraphInv, GTypeOK
    <3> QED BY <2>1, <3>1, <3>2, Zenon DEF Topology
  <2>3. ASSUME NEW s \in Storages PROVE ConnectedDtns(s) \subseteq ActiveDtns
    BY <2>1, Zenon DEF ConnectedDtns, GraphInv, WellFormed
  <2> QED BY <2>1, <2>2, <2>3, Zenon DEF ListsAgree
<1>2. RInv /\ [RegNext]_regVars => RInv'
  BY CrashStep, QueueStep, LinkStep, GraphStep, Zenon DEF RInv
<1>3. RInv => ListsAgree BY <1>1, Zenon DEF RInv
<1> QED BY RInit, <1>2, <1>3, PTL DEF RegSpec

-----------------------------------------------------------------------------
(* No module of an agent that is gone stays in the graph                   *)

Messages == Topics \X {"online", "offline"}

\* A message about module m; a queue all of whose messages about m say s; and one whose
\* last message about m says s
For(x, m) == m \in ModulesOf[x[1][1]]
Only(q, m, s) == \A j \in DOMAIN q : For(q[j], m) => q[j][2] = s
Sets(q, m, s) ==
  \E k \in DOMAIN q :
    For(q[k], m) /\ q[k][2] = s /\ \A j \in DOMAIN q : j > k /\ For(q[j], m) => q[j][2] = s

\* Once the server has received and handled everything that is on its way, m is
\* registered (s = "online") or not
Outcome(m, s) ==
  \/ Sets(inbox, m, s)
  \/ Only(inbox, m, s) /\ (Sets(work, m, s) \/ (Only(work, m, s) /\ (m \in Registered <=> s = "online")))

\* The broker will say s of m when the server connects.
Kept(m, s) == server = "off" /\ \E t \in Topics : m \in ModulesOf[t[1]] /\ retained[t] = s

\* The broker has yet to hear of the end of a connection, or of the end of a process
Live(t) == t \in will \/ (agent[t[1]] = "on" /\ t[2] = inc[t[1]])
Open(t) == t \in will \/ (agent[t[1]] # "stopped" /\ t[2] = inc[t[1]])
Dead(m) == \A t \in Topics : m \in ModulesOf[t[1]] => ~Live(t)

\* A retained registration is that of a connection; topics are numbered from 0.
BrokerInv ==
  /\ \A t \in Topics : retained[t] = "online" => Live(t)
  /\ \A t \in Topics : t[2] > inc[t[1]] => retained[t] = "none" /\ t \notin will
  /\ \A j \in DOMAIN inbox : inbox[j][1][2] <= inc[inbox[j][1][1]]
  /\ server = "off" => inbox = <<>>

\* Without lost connections of agents a topic is taken off once, and what the server
\* misses is retained.
OnceOffInv ==
  used["drop"] = 0 =>
    /\ \A t \in will : t[2] < inc[t[1]]
    /\ \A t \in Topics : Open(t) => retained[t] # "offline"
    /\ \A j \in DOMAIN inbox : inbox[j][2] = "offline" => retained[inbox[j][1]] = "offline"
    /\ \A i, j \in DOMAIN inbox : i # j /\ inbox[i][2] = "offline" => inbox[j] # inbox[i]

DeadInv ==
  ~BothLost => \A m \in Modules : Dead(m) => Outcome(m, "offline") \/ Kept(m, "offline")

\* A queue after one more message
LEMMA QueueAppend ==
  ASSUME NEW q \in Seq(Messages), NEW x \in Messages, NEW m, NEW s
  PROVE  /\ For(x, m) /\ x[2] = s => Sets(Append(q, x), m, s)
         /\ Only(q, m, s) /\ ~For(x, m) => Only(Append(q, x), m, s)
         /\ Sets(q, m, s) /\ ~For(x, m) => Sets(Append(q, x), m, s)
<1> HIDE DEF Messages
<1>1. PICK r : r = Append(q, x)
  BY Zenon
<1>2. PICK n : n = Len(q)
  BY Zenon
<1>3. /\ n \in Nat /\ DOMAIN q = 1..n /\ DOMAIN r = 1..(n + 1)
      /\ \A j \in 1..n : r[j] = q[j]
      /\ r[n + 1] = x
  BY <1>1, <1>2
<1>4. ASSUME For(x, m), x[2] = s PROVE Sets(r, m, s)
  BY <1>3, <1>4 DEF Sets
<1>5. ASSUME Only(q, m, s), ~For(x, m) PROVE Only(r, m, s)
  BY <1>3, <1>5 DEF Only
<1>6. ASSUME Sets(q, m, s), ~For(x, m) PROVE Sets(r, m, s)
  BY <1>3, <1>6 DEF Sets
<1> QED BY <1>1, <1>4, <1>5, <1>6, Zenon

\* A queue after its first message was taken
LEMMA QueueTail ==
  ASSUME NEW q \in Seq(Messages), q # <<>>, NEW m, NEW s
  PROVE  /\ Only(q, m, s) => Only(Tail(q), m, s) /\ (For(Head(q), m) => Head(q)[2] = s)
         /\ Sets(q, m, s) => Sets(Tail(q), m, s) \/ (For(Head(q), m) /\ Head(q)[2] = s /\ Only(Tail(q), m, s))
<1> HIDE DEF Messages
<1>1. PICK r : r = Tail(q)
  BY Zenon
<1>2. PICK n : n = Len(q)
  BY Zenon
<1>3. /\ n \in Nat \ {0} /\ DOMAIN q = 1..n /\ DOMAIN r = 1..(n - 1)
      /\ \A j \in 1..(n - 1) : r[j] = q[j + 1]
      /\ Head(q) = q[1]
  BY <1>1, <1>2
<1>4. ASSUME Only(q, m, s) PROVE Only(r, m, s) /\ (For(q[1], m) => q[1][2] = s)
  BY <1>3, <1>4, SMTT(30) DEF Only
<1>5. ASSUME Sets(q, m, s) PROVE Sets(r, m, s) \/ (For(q[1], m) /\ q[1][2] = s /\ Only(r, m, s))
  <2>1. PICK k \in 1..n : For(q[k], m) /\ q[k][2] = s /\ \A j \in 1..n : j > k /\ For(q[j], m) => q[j][2] = s
    BY <1>3, <1>5, Zenon DEF Sets
  <2>2. CASE k = 1
    BY <1>3, <2>1, <2>2 DEF Only
  <2>3. CASE k # 1
    <3>1. k - 1 \in 1..(n - 1) /\ r[k - 1] = q[k]
      BY <1>3, <2>3
    <3>2. \A j \in 1..(n - 1) : j > k - 1 /\ For(r[j], m) => r[j][2] = s
      BY <1>3, <2>1, <2>3
    <3> QED BY <1>3, <2>1, <3>1, <3>2, Zenon DEF Sets
  <2> QED BY <2>2, <2>3, Zenon
<1> QED BY <1>1, <1>3, <1>4, <1>5, Zenon

\* Topics are pairs of an agent and a number.
LEMMA TopicParts ==
  ASSUME CrashInv
  PROVE  /\ \A t \in Topics : t[1] \in Agents /\ t[2] \in Nat /\ inc[t[1]] \in Nat /\ t = <<t[1], t[2]>>
         /\ \A a \in Agents : Topic(a) \in Topics /\ Topic(a)[1] = a /\ Topic(a)[2] = inc[a] /\ inc[a] \in Nat
PROOF
<1>1. inc \in [Agents -> Nat] /\ MaxFaults \in Nat
  <2>1. inc \in [Agents -> 0..MaxFaults] /\ MaxFaults \in Nat
    BY IncBound, RegistrationConstants, Zenon
  <2> QED BY <2>1
<1>2. \A a \in Agents : Topic(a) \in Topics
  BY TopicType, Zenon
<1> QED BY <1>1, <1>2 DEF Topics, Topic

\* What a new subscriber is sent: each retained message once
LEMMA Delivered ==
  ASSUME QueueInv, ServerConnect
  PROVE  /\ \A j \in DOMAIN inbox' : /\ inbox'[j][1] \in Topics /\ retained[inbox'[j][1]] # "none"
                                     /\ inbox'[j][2] = retained[inbox'[j][1]]
         /\ \A i, j \in DOMAIN inbox' : i # j => inbox'[i] # inbox'[j]
         /\ \A t \in Topics : retained[t] # "none" => \E j \in DOMAIN inbox' : inbox'[j] = <<t, retained[t]>>
PROOF
<1> DEFINE S == {<<t, retained[t]>> : t \in {x \in Topics : retained[x] # "none"}}
<1>1. inbox' \in Bijection(1..Cardinality(S), S)
  BY Zenon DEF ServerConnect
<1>2. PICK D : D = 1..Cardinality(S)
  BY Zenon
<1>3. /\ inbox' \in [D -> S]
      /\ \A i, j \in D : inbox'[i] = inbox'[j] => i = j
      /\ \A x \in S : \E j \in D : inbox'[j] = x
  BY <1>1, <1>2, Zenon DEF Bijection, Injection, Surjection, IsInjective
<1>4. DOMAIN inbox' = D
  BY <1>3, Zenon
<1>5. \A j \in D : /\ inbox'[j][1] \in Topics /\ retained[inbox'[j][1]] # "none"
                   /\ inbox'[j][2] = retained[inbox'[j][1]]
  <2> SUFFICES ASSUME NEW j \in D
               PROVE  /\ inbox'[j][1] \in Topics /\ retained[inbox'[j][1]] # "none"
                      /\ inbox'[j][2] = retained[inbox'[j][1]]
    BY Zenon
  <2>0. inbox'[j] \in S
    BY <1>3, Zenon
  <2>1. PICK t \in {x \in Topics : retained[x] # "none"} : inbox'[j] = <<t, retained[t]>>
    BY <2>0
  <2> QED BY <2>1
<1>6. \A t \in Topics : retained[t] # "none" => <<t, retained[t]>> \in S
  BY Zenon
<1> QED BY <1>3, <1>4, <1>5, <1>6, Zenon

\* The messages of a queue are messages of topics.
LEMMA QueueMessages ==
  ASSUME QueueInv
  PROVE  /\ \A j \in DOMAIN inbox : inbox[j] \in Messages /\ inbox[j][1] \in Topics
         /\ inbox # <<>> => Head(inbox) \in Messages /\ Head(inbox) = inbox[1] /\ 1 \in DOMAIN inbox /\ Head(inbox)[1] \in Topics
         /\ work # <<>> => Head(work) \in Messages /\ Head(work)[1] \in Topics
BY SMTT(30) DEF QueueInv, Messages

\* Retained registrations are of connections, and topics are used in turn.
LEMMA BrokerStep == RInv /\ BrokerInv /\ [RegNext]_regVars => BrokerInv'
PROOF
<1> SUFFICES ASSUME RInv, BrokerInv, [RegNext]_regVars PROVE BrokerInv' BY Zenon
<1>0. CrashInv /\ QueueInv /\ LinkInv BY Zenon DEF RInv
<1>1. /\ \A t \in Topics : t[1] \in Agents /\ t[2] \in Nat /\ inc[t[1]] \in Nat /\ t = <<t[1], t[2]>>
      /\ \A a \in Agents : Topic(a) \in Topics /\ Topic(a)[1] = a /\ Topic(a)[2] = inc[a] /\ inc[a] \in Nat
  BY <1>0, TopicParts, Zenon
<1>2. ASSUME NEW t \in Topics, t[2] <= inc[t[1]], NEW s \in {"online", "offline"}, Publish(t, s),
             UNCHANGED <<server, inc>>
      PROVE  /\ \A j \in DOMAIN inbox' : inbox'[j][1][2] <= inc'[inbox'[j][1][1]]
             /\ server' = "off" => inbox' = <<>>
             /\ retained'[t] = s
             /\ \A x \in Topics : x # t => retained'[x] = retained[x]
  <2>1. CASE server = "on"
    <3>1. inbox' = Append(inbox, <<t, s>>)
      BY <1>2, <2>1, Zenon DEF Publish
    <3>2. \A j \in DOMAIN inbox' : inbox'[j] = <<t, s>> \/ (j \in DOMAIN inbox /\ inbox'[j] = inbox[j])
      BY <1>0, <3>1 DEF QueueInv
    <3>3. \A j \in DOMAIN inbox' : inbox'[j][1][2] <= inc[inbox'[j][1][1]]
      BY <1>2, <3>2 DEF BrokerInv
    <3> QED BY <1>0, <1>2, <2>1, <3>3 DEF Publish, QueueInv
  <2>2. CASE server # "on"
    BY <1>0, <1>2, <2>2 DEF Publish, QueueInv, BrokerInv
  <2> QED BY <2>1, <2>2, Zenon
<1>3. ASSUME NEW t \in Topics, WillPublish(t) PROVE BrokerInv'
  <2>1. t[2] <= inc[t[1]]
    BY <1>1, <1>3 DEF BrokerInv, WillPublish
  <2>2. Publish(t, "offline") /\ UNCHANGED <<server, inc, agent>> /\ will' = will \ {t}
    BY <1>3, Zenon DEF WillPublish, avars
  <2>3. /\ \A j \in DOMAIN inbox' : inbox'[j][1][2] <= inc'[inbox'[j][1][1]]
        /\ server' = "off" => inbox' = <<>>
        /\ retained'[t] = "offline"
        /\ \A x \in Topics : x # t => retained'[x] = retained[x]
    BY <1>2, <2>1, <2>2, Zenon
  <2>4. \A x \in Topics : retained'[x] = "online" => Live(x)'
    BY <2>2, <2>3, Zenon DEF BrokerInv, Live
  <2>5. \A x \in Topics : x[2] > inc'[x[1]] => retained'[x] = "none" /\ x \notin will'
    BY <1>1, <2>1, <2>2, <2>3 DEF BrokerInv
  <2> QED BY <2>3, <2>4, <2>5, Zenon DEF BrokerInv
<1>4. ASSUME NEW a \in Agents, AgentConnect(a) PROVE BrokerInv'
  <2>0. PICK t \in Topics : t = Topic(a) /\ t[1] = a /\ t[2] = inc[a] /\ t[2] <= inc[t[1]]
    BY <1>1
  <2>2. Publish(t, "online") /\ UNCHANGED <<server, inc, will>> /\ agent' = [agent EXCEPT ![a] = "on"]
    BY <1>4, <2>0, Zenon DEF AgentConnect
  <2>3. /\ \A j \in DOMAIN inbox' : inbox'[j][1][2] <= inc'[inbox'[j][1][1]]
        /\ server' = "off" => inbox' = <<>>
        /\ retained'[t] = "online"
        /\ \A x \in Topics : x # t => retained'[x] = retained[x]
    BY <1>2, <2>0, <2>2, Zenon
  <2>4. \A x \in Topics : retained'[x] = "online" => Live(x)'
    BY <1>0, <1>1, <2>0, <2>2, <2>3 DEF BrokerInv, Live, LinkInv
  <2>5. \A x \in Topics : x[2] > inc'[x[1]] => retained'[x] = "none" /\ x \notin will'
    BY <1>1, <2>0, <2>2, <2>3 DEF BrokerInv
  <2> QED BY <2>3, <2>4, <2>5, Zenon DEF BrokerInv
<1>5. ASSUME NEW a \in Agents, AgentStop(a) PROVE BrokerInv'
  <2>0. PICK t \in Topics : t = Topic(a) /\ t[1] = a /\ t[2] = inc[a] /\ t[2] <= inc[t[1]]
    BY <1>1
  <2>2. Publish(t, "offline") /\ UNCHANGED <<server, inc, will>> /\ agent' = [agent EXCEPT ![a] = "stopped"]
    BY <1>5, <2>0, Zenon DEF AgentStop
  <2>3. /\ \A j \in DOMAIN inbox' : inbox'[j][1][2] <= inc'[inbox'[j][1][1]]
        /\ server' = "off" => inbox' = <<>>
        /\ retained'[t] = "offline"
        /\ \A x \in Topics : x # t => retained'[x] = retained[x]
    BY <1>2, <2>0, <2>2, Zenon
  <2>4. \A x \in Topics : retained'[x] = "online" => Live(x)'
    BY <1>0, <1>1, <2>0, <2>2, <2>3 DEF BrokerInv, Live, LinkInv
  <2>5. \A x \in Topics : x[2] > inc'[x[1]] => retained'[x] = "none" /\ x \notin will'
    BY <1>1, <2>0, <2>2, <2>3 DEF BrokerInv
  <2> QED BY <2>3, <2>4, <2>5, Zenon DEF BrokerInv
<1>6. ASSUME NEW a \in Agents, AgentDrop(a) PROVE BrokerInv'
  <2>1. /\ UNCHANGED <<inc, retained, server, inbox>>
        /\ agent' = [agent EXCEPT ![a] = "off"] /\ will' = will \cup {Topic(a)}
    BY <1>6, Zenon DEF AgentDrop, svars
  <2> QED BY <1>0, <1>1, <2>1 DEF BrokerInv, Live, LinkInv
<1>7. ASSUME NEW a \in Agents, AgentCrash(a) PROVE BrokerInv'
  <2>1. /\ UNCHANGED <<retained, server, inbox>> /\ inc' = [inc EXCEPT ![a] = inc[a] + 1]
        /\ agent' = [agent EXCEPT ![a] = "off"]
        /\ will' = IF agent[a] = "on" THEN will \cup {Topic(a)} ELSE will
    BY <1>7, Zenon DEF AgentCrash, svars
  <2>2. \A b \in Agents : inc'[b] \in Nat /\ inc[b] <= inc'[b]
    BY <1>0, <1>1, <2>1 DEF CrashInv
  <2>3. \A x \in Topics : retained'[x] = "online" => Live(x)'
    <3> SUFFICES ASSUME NEW x \in Topics, retained[x] = "online" PROVE x \in will' \/ (agent'[x[1]] = "on" /\ x[2] = inc'[x[1]])
      BY <2>1, Zenon DEF Live
    <3>1. x \in will \/ (agent[x[1]] = "on" /\ x[2] = inc[x[1]])
      BY Zenon DEF BrokerInv, Live
    <3>2. CASE x \in will BY <2>1, <3>2, Zenon
    <3>3. CASE x[1] = a /\ agent[a] = "on" /\ x[2] = inc[a]
      BY <1>1, <2>1, <3>3, Zenon DEF Topic
    <3>4. CASE x[1] # a /\ agent[x[1]] = "on" /\ x[2] = inc[x[1]]
      BY <1>0, <1>1, <2>1, <3>4, Zenon DEF LinkInv, CrashInv
    <3> QED BY <3>1, <3>2, <3>3, <3>4, Zenon
  <2>4. \A x \in Topics : x[2] > inc'[x[1]] => retained'[x] = "none" /\ x \notin will'
    <3> SUFFICES ASSUME NEW x \in Topics, x[2] > inc'[x[1]] PROVE retained[x] = "none" /\ x \notin will'
      BY <2>1, Zenon
    <3>1. x[2] > inc[x[1]]
      BY <1>1, <2>2
    <3>2. x # Topic(a)
      BY <1>1, <3>1
    <3> QED BY <2>1, <3>1, <3>2, Zenon DEF BrokerInv
  <2>5. \A j \in DOMAIN inbox : inbox[j][1][2] <= inc'[inbox[j][1][1]]
    <3>1. \A j \in DOMAIN inbox : inbox[j][1] \in Topics
      BY <1>0, QueueMessages, Zenon
    <3> QED BY <1>1, <2>2, <3>1 DEF BrokerInv
  <2> QED BY <2>1, <2>3, <2>4, <2>5, Zenon DEF BrokerInv
<1>8. CASE ServerReceive
  <2>1. /\ UNCHANGED <<inc, agent, will, server>> /\ server = "on" /\ inbox # <<>> /\ inbox' = Tail(inbox)
        /\ retained' = IF Head(inbox)[2] = "offline" THEN [retained EXCEPT ![Head(inbox)[1]] = "none"] ELSE retained
    BY <1>8, Zenon DEF ServerReceive, avars
  <2>2. \A t \in Topics : retained'[t] = "none" \/ retained'[t] = retained[t]
    BY <1>0, <2>1, Zenon DEF QueueInv
  <2>3. \A j \in DOMAIN inbox' : j + 1 \in DOMAIN inbox /\ inbox'[j] = inbox[j + 1]
    BY <1>0, <2>1 DEF QueueInv
  <2>4. \A j \in DOMAIN inbox' : inbox'[j][1][2] <= inc[inbox'[j][1][1]]
    BY <2>3, Zenon DEF BrokerInv
  <2>5. \A x \in Topics : retained'[x] = "online" => Live(x)'
    BY <2>1, <2>2, Zenon DEF BrokerInv, Live
  <2> QED BY <2>1, <2>2, <2>4, <2>5, Zenon DEF BrokerInv
<1>9. CASE ServerHandle \/ UNCHANGED regVars
  BY <1>9, Zenon DEF ServerHandle, BrokerInv, Live, avars, bvars, svars, regVars
<1>10. CASE ServerDrop \/ ServerCrash
  <2>1. UNCHANGED <<inc, agent, will, retained>> /\ server' = "off" /\ inbox' = <<>>
    BY <1>10, Zenon DEF ServerDrop, ServerCrash, avars, bvars
  <2> QED BY <2>1 DEF BrokerInv, Live
<1>11. CASE ServerConnect
  <2>1. UNCHANGED <<inc, agent, will, retained>> /\ server' = "on"
    BY <1>11, Zenon DEF ServerConnect, avars, bvars
  <2>2. \A j \in DOMAIN inbox' : inbox'[j][1] \in Topics /\ retained[inbox'[j][1]] # "none"
    BY <1>0, <1>11, Delivered, Zenon
  <2>3. \A j \in DOMAIN inbox' : inbox'[j][1][2] <= inc'[inbox'[j][1][1]]
    BY <1>1, <2>1, <2>2 DEF BrokerInv
  <2> QED BY <2>1, <2>3, Zenon DEF BrokerInv, Live
<1> QED BY <1>3, <1>4, <1>5, <1>6, <1>7, <1>8, <1>9, <1>10, <1>11, Zenon DEF RegNext, AgentStep

\* Faults are only counted up.
LEMMA FaultCounts ==
  ASSUME CrashInv, [RegNext]_regVars
  PROVE  /\ \A f \in Faults : used[f] \in Nat /\ used'[f] \in Nat /\ used[f] <= used'[f]
         /\ (\E a \in Agents : AgentDrop(a)) => used'["drop"] > 0
         /\ ServerDrop => used'["sdrop"] > 0
         /\ ServerCrash => used'["scrash"] > 0
PROOF
<1>1. {"drop", "crash", "stop", "sdrop", "scrash"} \subseteq Faults /\ used \in [Faults -> Nat]
  BY Zenon DEF Faults, CrashInv
<1>2. ASSUME NEW f \in Faults, Fault(f)
      PROVE  used'[f] > 0 /\ \A g \in Faults : used[g] \in Nat /\ used'[g] \in Nat /\ used[g] <= used'[g]
  BY <1>1, <1>2 DEF Fault
<1>3. UNCHANGED used \/ \E f \in Faults : Fault(f)
  BY <1>1, Zenon DEF RegNext, AgentStep, WillPublish, AgentConnect, AgentDrop, AgentCrash, AgentStop,
    ServerReceive, ServerHandle, ServerDrop, ServerConnect, ServerCrash, regVars
<1>4. \A f \in Faults : used[f] \in Nat /\ used[f] <= used[f]
  BY <1>1
<1>5. \A f \in Faults : used[f] \in Nat /\ used'[f] \in Nat /\ used[f] <= used'[f]
  BY <1>2, <1>3, <1>4, Zenon
<1> QED BY <1>1, <1>2, <1>5, Zenon DEF AgentDrop, ServerDrop, ServerCrash

\* As long as no agent loses its connection, each "offline" under way is retained.
LEMMA OnceOffStep == RInv /\ BrokerInv /\ OnceOffInv /\ [RegNext]_regVars => OnceOffInv'
PROOF
<1> SUFFICES ASSUME RInv, BrokerInv, OnceOffInv, [RegNext]_regVars, used'["drop"] = 0 PROVE OnceOffInv'
  BY Zenon DEF OnceOffInv
<1>0. CrashInv /\ QueueInv /\ LinkInv BY Zenon DEF RInv
<1>1. /\ \A t \in Topics : t[1] \in Agents /\ t[2] \in Nat /\ inc[t[1]] \in Nat /\ t = <<t[1], t[2]>>
      /\ \A a \in Agents : Topic(a) \in Topics /\ Topic(a)[1] = a /\ Topic(a)[2] = inc[a] /\ inc[a] \in Nat
  BY <1>0, TopicParts, Zenon
<1>2. used["drop"] = 0 /\ ~\E a \in Agents : AgentDrop(a)
  <2>1. "drop" \in Faults BY Zenon DEF Faults
  <2>2. used["drop"] \in Nat /\ used["drop"] <= used'["drop"] /\ ((\E a \in Agents : AgentDrop(a)) => used'["drop"] > 0)
    BY <1>0, <2>1, FaultCounts, Zenon
  <2> QED BY <2>2
<1>3. /\ \A t \in will : t[2] < inc[t[1]]
      /\ \A t \in Topics : Open(t) => retained[t] # "offline"
      /\ \A j \in DOMAIN inbox : inbox[j][2] = "offline" => retained[inbox[j][1]] = "offline"
      /\ \A i, j \in DOMAIN inbox : i # j /\ inbox[i][2] = "offline" => inbox[j] # inbox[i]
  BY <1>2, Zenon DEF OnceOffInv
<1> DEFINE Kept3 ==
      /\ \A j \in DOMAIN inbox' : inbox'[j][2] = "offline" => retained'[inbox'[j][1]] = "offline"
      /\ \A i, j \in DOMAIN inbox' : i # j /\ inbox'[i][2] = "offline" => inbox'[j] # inbox'[i]
<1>4. ASSUME NEW t \in Topics, Open(t), NEW s \in {"online", "offline"}, Publish(t, s)
      PROVE  Kept3 /\ retained'[t] = s /\ \A x \in Topics : x # t => retained'[x] = retained[x]
  <2>1. retained[t] # "offline"
    BY <1>3, <1>4, Zenon
  <2>2. \A j \in DOMAIN inbox : inbox[j] # <<t, "offline">> /\ (inbox[j][2] = "offline" => inbox[j][1] # t)
    BY <1>3, <2>1
  <2>3. retained'[t] = s /\ \A x \in Topics : x # t => retained'[x] = retained[x]
    BY <1>0, <1>4, Zenon DEF Publish, QueueInv
  <2>4. \A j \in DOMAIN inbox : inbox[j][1] \in Topics
    BY <1>0, QueueMessages, Zenon
  <2>5. CASE server = "on"
    <3>0. inbox' = Append(inbox, <<t, s>>)
      BY <1>4, <2>5, Zenon DEF Publish
    <3>1. PICK n : n = Len(inbox)
      BY Zenon
    <3>2. /\ n \in Nat /\ DOMAIN inbox = 1..n /\ DOMAIN inbox' = 1..(n + 1)
          /\ inbox'[n + 1] = <<t, s>> /\ \A j \in 1..n : inbox'[j] = inbox[j]
      BY <1>0, <3>0, <3>1 DEF QueueInv
    <3>3. \A j \in 1..(n + 1) : j \in 1..n \/ j = n + 1
      BY <3>2
    <3>4. \A j \in DOMAIN inbox' : inbox'[j][2] = "offline" => retained'[inbox'[j][1]] = "offline"
      BY <1>3, <2>2, <2>3, <2>4, <3>2, <3>3
    <3>5. \A i, j \in DOMAIN inbox' : i # j /\ inbox'[i][2] = "offline" => inbox'[j] # inbox'[i]
      BY <1>3, <2>2, <3>2, <3>3
    <3> QED BY <2>3, <3>4, <3>5, Zenon
  <2>6. CASE server # "on"
    <3>1. inbox' = inbox
      BY <1>4, <2>6, Zenon DEF Publish
    <3> QED BY <1>3, <2>2, <2>3, <2>4, <3>1, ZenonT(40)
  <2> QED BY <2>5, <2>6, Zenon
<1> HIDE DEF Kept3
<1>5. ASSUME NEW t \in Topics, WillPublish(t) PROVE OnceOffInv'
  <2>1. t \in will /\ Publish(t, "offline") /\ UNCHANGED <<inc, agent>> /\ will' = will \ {t}
    BY <1>5, Zenon DEF WillPublish, avars
  <2>2. Open(t) /\ t[2] < inc[t[1]]
    BY <1>3, <2>1, Zenon DEF Open
  <2>3. Kept3 /\ retained'[t] = "offline" /\ \A x \in Topics : x # t => retained'[x] = retained[x]
    BY <1>4, <2>1, <2>2, Zenon
  <2>4. t[2] # inc[t[1]]
    BY <1>1, <2>2
  <2>5. \A x \in Topics : Open(x)' => retained'[x] # "offline"
    BY <1>3, <2>1, <2>3, <2>4, Zenon DEF Open
  <2>6. \A x \in will' : x[2] < inc'[x[1]]
    BY <1>3, <2>1, Zenon
  <2> QED BY <2>3, <2>5, <2>6, Zenon DEF OnceOffInv, Kept3
<1>6. ASSUME NEW a \in Agents, AgentConnect(a) \/ AgentStop(a) PROVE OnceOffInv'
  <2>0. PICK t \in Topics : t = Topic(a) /\ t[1] = a /\ t[2] = inc[a]
    BY <1>1, Zenon
  <2>1. PICK s \in {"online", "offline"} :
          /\ Publish(t, s) /\ UNCHANGED <<inc, will>> /\ agent[a] # "stopped"
          /\ s = "online" => agent' = [agent EXCEPT ![a] = "on"]
          /\ s = "offline" => agent' = [agent EXCEPT ![a] = "stopped"]
    BY <1>6, <2>0 DEF AgentConnect, AgentStop
  <2>2. Open(t)
    BY <2>0, <2>1, Zenon DEF Open
  <2>3. Kept3 /\ retained'[t] = s /\ \A x \in Topics : x # t => retained'[x] = retained[x]
    BY <1>4, <2>1, <2>2, Zenon
  <2>4. t \notin will
    BY <1>1, <1>3, <2>0
  <2>5. \A x \in Topics : Open(x)' => retained'[x] # "offline"
    <3> SUFFICES ASSUME NEW x \in Topics, Open(x)' PROVE retained'[x] # "offline"
      BY Zenon
    <3>1. CASE s = "online"
      <4>1. CASE x = t BY <2>3, <3>1, <4>1
      <4>2. CASE x # t
        BY <1>0, <1>1, <1>3, <2>0, <2>1, <2>3, <3>1, <4>2, SMTT(30) DEF Open, LinkInv
      <4> QED BY <4>1, <4>2, Zenon
    <3>2. CASE s = "offline"
      BY <1>0, <1>1, <1>3, <2>0, <2>1, <2>3, <2>4, <3>2 DEF Open, LinkInv
    <3> QED BY <3>1, <3>2, Zenon
  <2>6. \A x \in will' : x[2] < inc'[x[1]]
    BY <1>3, <2>1, Zenon
  <2> QED BY <2>3, <2>5, <2>6, Zenon DEF OnceOffInv, Kept3
<1>7. ASSUME NEW a \in Agents, AgentCrash(a) PROVE OnceOffInv'
  <2>1. /\ UNCHANGED <<retained, inbox>> /\ inc' = [inc EXCEPT ![a] = inc[a] + 1] /\ agent[a] # "stopped"
        /\ agent' = [agent EXCEPT ![a] = "off"]
        /\ will' = IF agent[a] = "on" THEN will \cup {Topic(a)} ELSE will
    BY <1>7, Zenon DEF AgentCrash, svars
  <2>2. inc'[a] = inc[a] + 1 /\ \A b \in Agents : b # a => inc'[b] = inc[b] /\ agent'[b] = agent[b]
    BY <1>0, <2>1, Zenon DEF CrashInv, LinkInv
  <2>3. \A x \in will' : x[2] < inc'[x[1]]
    <3> SUFFICES ASSUME NEW x \in will' PROVE x[2] < inc'[x[1]]
      BY Zenon
    <3>1. CASE x = Topic(a) BY <1>1, <2>2, <3>1
    <3>2. CASE x \in will
      <4>1. x \in Topics /\ x[2] < inc[x[1]] BY <1>0, <1>3, <3>2, Zenon DEF LinkInv
      <4> QED BY <1>1, <2>2, <4>1
    <3> QED BY <2>1, <3>1, <3>2, Zenon
  <2>4. \A x \in Topics : Open(x)' => retained'[x] # "offline"
    <3> SUFFICES ASSUME NEW x \in Topics, x \in will' \/ (agent'[x[1]] # "stopped" /\ x[2] = inc'[x[1]])
                 PROVE  retained[x] # "offline"
      BY <2>1, Zenon DEF Open
    <3>1. CASE x \in will \/ x = Topic(a)
      <4>1. Open(x)
        BY <1>1, <2>1, <3>1 DEF Open
      <4> QED BY <1>3, <4>1, Zenon
    <3>2. CASE x[1] # a /\ agent'[x[1]] # "stopped" /\ x[2] = inc'[x[1]]
      <4>1. Open(x)
        BY <1>1, <2>2, <3>2 DEF Open
      <4> QED BY <1>3, <4>1, Zenon
    <3>3. CASE x[1] = a /\ x[2] = inc'[a]
      BY <1>1, <2>2, <3>3 DEF BrokerInv
    <3> QED BY <2>1, <3>1, <3>2, <3>3, Zenon
  <2> QED BY <1>3, <2>1, <2>3, <2>4, Zenon DEF OnceOffInv
<1>8. CASE ServerReceive
  <2>1. /\ UNCHANGED <<inc, agent, will>> /\ inbox # <<>> /\ inbox' = Tail(inbox)
        /\ retained' = IF Head(inbox)[2] = "offline" THEN [retained EXCEPT ![Head(inbox)[1]] = "none"] ELSE retained
    BY <1>8, Zenon DEF ServerReceive, avars
  <2>2. PICK h \in Messages : h = Head(inbox) /\ h = inbox[1] /\ 1 \in DOMAIN inbox /\ h[1] \in Topics
    BY <1>0, <2>1, QueueMessages, Zenon
  <2>3. \A j \in DOMAIN inbox' : j + 1 \in DOMAIN inbox /\ j + 1 # 1 /\ inbox'[j] = inbox[j + 1] /\ j \in Nat
    BY <1>0, <2>1 DEF QueueInv
  <2>4. \A t \in Topics : retained'[t] = retained[t] \/ (retained'[t] = "none" /\ h[2] = "offline" /\ t = h[1])
    BY <1>0, <2>1, <2>2, Zenon DEF QueueInv
  <2>5. \A j \in DOMAIN inbox' : inbox'[j][2] = "offline" => retained'[inbox'[j][1]] = "offline"
    <3> SUFFICES ASSUME NEW j \in DOMAIN inbox', inbox'[j][2] = "offline" PROVE retained'[inbox'[j][1]] = "offline"
      BY Zenon
    <3>1. PICK x \in Messages : x = inbox'[j] /\ x = inbox[j + 1] /\ x[1] \in Topics
      BY <1>0, <2>3, QueueMessages, Zenon
    <3>2. x # h \/ h[2] # "offline"
      BY <1>3, <2>2, <2>3, <3>1, SMTT(30)
    <3>3. h[2] = "offline" => x[1] # h[1]
      BY <3>1, <3>2 DEF Messages
    <3>4. retained[x[1]] = "offline"
      BY <1>3, <2>3, <3>1, ZenonT(40)
    <3> QED BY <2>4, <3>1, <3>3, <3>4, Zenon
  <2>6. \A i, j \in DOMAIN inbox' : i # j /\ inbox'[i][2] = "offline" => inbox'[j] # inbox'[i]
    BY <1>3, <2>3
  <2>7. \A x \in Topics : Open(x)' => retained'[x] # "offline"
    BY <1>3, <2>1, <2>4 DEF Open
  <2>8. \A x \in will' : x[2] < inc'[x[1]]
    BY <1>3, <2>1, Zenon
  <2> QED BY <2>5, <2>6, <2>7, <2>8, Zenon DEF OnceOffInv
<1>9. CASE ServerHandle \/ UNCHANGED regVars
  BY <1>3, <1>9, Zenon DEF ServerHandle, OnceOffInv, Open, avars, bvars, svars, regVars
<1>10. CASE ServerDrop \/ ServerCrash
  <2>1. UNCHANGED <<inc, agent, will, retained>> /\ inbox' = <<>>
    BY <1>10, Zenon DEF ServerDrop, ServerCrash, avars, bvars
  <2>2. Kept3 BY <2>1 DEF Kept3
  <2>3. \A x \in Topics : Open(x)' => retained'[x] # "offline"
    BY <1>3, <2>1, Zenon DEF Open
  <2> QED BY <1>3, <2>1, <2>2, <2>3, Zenon DEF OnceOffInv, Kept3
<1>11. CASE ServerConnect
  <2>1. UNCHANGED <<inc, agent, will, retained>>
    BY <1>11, Zenon DEF ServerConnect, avars, bvars
  <2>2. Kept3
    BY <1>0, <1>11, <2>1, Delivered, Zenon DEF Kept3
  <2>3. \A x \in Topics : Open(x)' => retained'[x] # "offline"
    BY <1>3, <2>1, Zenon DEF Open
  <2> QED BY <1>3, <2>1, <2>2, <2>3, Zenon DEF OnceOffInv, Kept3
<1> QED BY <1>2, <1>5, <1>6, <1>7, <1>8, <1>9, <1>10, <1>11, Zenon DEF RegNext, AgentStep

\* What the strand does with the first handler, ...
LEMMA HandleOutcome ==
  ASSUME QueueInv, ServerHandle, NEW m, NEW s, Outcome(m, s),
         For(Head(work), m) /\ Head(work)[2] = s => (m \in Registered' <=> s = "online"),
         ~For(Head(work), m) /\ (m \in Registered <=> s = "online") => (m \in Registered' <=> s = "online")
  PROVE  Outcome(m, s)'
PROOF
<1>1. work # <<>> /\ work' = Tail(work) /\ inbox' = inbox
  BY Zenon DEF ServerHandle
<1>2. work \in Seq(Messages)
  BY Zenon DEF QueueInv, Messages
<1>3. /\ Only(work, m, s) => Only(work', m, s) /\ (For(Head(work), m) => Head(work)[2] = s)
      /\ Sets(work, m, s) => Sets(work', m, s) \/ (For(Head(work), m) /\ Head(work)[2] = s /\ Only(work', m, s))
  BY <1>1, <1>2, QueueTail, Zenon
<1> QED BY <1>1, <1>3, Zenon DEF Outcome

\* ... the receipt of a message, ...
LEMMA ReceiveOutcome ==
  ASSUME QueueInv, ServerReceive, NEW m, NEW s, Outcome(m, s)
  PROVE  Outcome(m, s)'
PROOF
<1>1. inbox # <<>> /\ inbox' = Tail(inbox) /\ work' = Append(work, Head(inbox)) /\ Registered' = Registered
  BY Zenon DEF ServerReceive, gvars, Registered
<1>2. inbox \in Seq(Messages) /\ work \in Seq(Messages)
  BY Zenon DEF QueueInv, Messages
<1>3. PICK h \in Messages : h = Head(inbox)
  BY <1>1, QueueMessages, Zenon
<1>4. /\ Only(inbox, m, s) => Only(inbox', m, s) /\ (For(h, m) => h[2] = s)
      /\ Sets(inbox, m, s) => Sets(inbox', m, s) \/ (For(h, m) /\ h[2] = s /\ Only(inbox', m, s))
  BY <1>1, <1>2, <1>3, QueueTail, Zenon
<1>5. /\ For(h, m) /\ h[2] = s => Sets(work', m, s)
      /\ Only(work, m, s) /\ ~For(h, m) => Only(work', m, s)
      /\ Sets(work, m, s) /\ ~For(h, m) => Sets(work', m, s)
  BY <1>1, <1>2, <1>3, QueueAppend, Zenon
<1> QED BY <1>1, <1>4, <1>5, Zenon DEF Outcome

\* ... and a publication mean for the outcome.
LEMMA PublishOutcome ==
  ASSUME QueueInv, NEW t \in Topics, NEW z \in {"online", "offline"}, Publish(t, z),
         UNCHANGED <<gvars, work>>, NEW m, NEW s
  PROVE  /\ m \in ModulesOf[t[1]] /\ z = s /\ server = "on" => Outcome(m, s)'
         /\ (m \notin ModulesOf[t[1]] \/ server # "on") /\ Outcome(m, s) => Outcome(m, s)'
PROOF
<1>1. inbox \in Seq(Messages)
  BY Zenon DEF QueueInv, Messages
<1>2. PICK x \in Messages : x = <<t, z>> /\ x[1] = t /\ x[2] = z
  <2>1. <<t, z>> \in Messages /\ <<t, z>>[1] = t /\ <<t, z>>[2] = z
    BY DEF Messages
  <2> QED BY <2>1, Zenon
<1>3. For(x, m) <=> m \in ModulesOf[t[1]]
  BY <1>2, Zenon DEF For
<1>4. work' = work /\ Registered' = Registered
  BY Zenon DEF Registered, gvars
<1>5. CASE server = "on"
  <2>1. inbox' = Append(inbox, x)
    BY <1>2, <1>5, Zenon DEF Publish
  <2>2. /\ For(x, m) /\ x[2] = s => Sets(inbox', m, s)
        /\ Only(inbox, m, s) /\ ~For(x, m) => Only(inbox', m, s)
        /\ Sets(inbox, m, s) /\ ~For(x, m) => Sets(inbox', m, s)
    BY <1>1, <2>1, QueueAppend, Zenon
  <2> QED BY <1>2, <1>3, <1>4, <1>5, <2>2, Zenon DEF Outcome
<1>6. CASE server # "on"
  <2>1. inbox' = inbox
    BY <1>6, Zenon DEF Publish
  <2> QED BY <1>4, <1>6, <2>1, Zenon DEF Outcome
<1> QED BY <1>5, <1>6, Zenon

\* What a handler does to one module of the graph
LEMMA HandlerEffect ==
  ASSUME GraphInv, NEW ms \in SUBSET Modules, NEW m \in Modules
  PROVE  /\ DelModules(ms) => (m \in Registered' <=> m \in Registered /\ m \notin ms)
         /\ AddModules(ms) /\ m \in Registered' => m \in Registered \/ m \in ms
         /\ AddModules(ms) /\ m \in ms /\ m \in Dtns \cup Storages => m \in Registered'
PROOF
<1>1. NoNode \notin Modules /\ m # NoNode
  BY GraphConstants, Zenon
<1>2. launcher \in Launchers \cup {NoNode} /\ sdn \in Sdns \cup {NoNode} /\ NoNode \notin ms
  BY <1>1, Zenon DEF GraphInv, GTypeOK
<1>3. DelModules(ms) => (m \in Registered' <=> m \in Registered /\ m \notin ms)
  BY <1>1, <1>2, ZenonT(40) DEF DelModules, Registered
<1>4. AddModules(ms) /\ m \in Registered' => m \in Registered \/ m \in ms
  BY <1>1, <1>2, Zenon DEF AddModules, Replace, Registered
<1>5. AddModules(ms) /\ m \in ms /\ m \in Dtns \cup Storages => m \in Registered'
  BY Zenon DEF AddModules, Registered
<1> QED BY <1>3, <1>4, <1>5, Zenon

\* A module none of whose agents is connected is out of the graph once all is
\* handled, unless the server has yet to connect.
LEMMA DeadStep == RInv /\ BrokerInv /\ OnceOffInv /\ DeadInv /\ [RegNext]_regVars => DeadInv'
PROOF
<1> SUFFICES ASSUME RInv, BrokerInv, OnceOffInv, DeadInv, [RegNext]_regVars, ~BothLost',
                    NEW m \in Modules, Dead(m)'
             PROVE  Outcome(m, "offline")' \/ Kept(m, "offline")'
  BY Zenon DEF DeadInv
<1>0. GraphInv /\ CrashInv /\ QueueInv /\ LinkInv BY Zenon DEF RInv
<1>1. /\ \A t \in Topics : t[1] \in Agents /\ t[2] \in Nat /\ inc[t[1]] \in Nat /\ t = <<t[1], t[2]>>
      /\ \A a \in Agents : Topic(a) \in Topics /\ Topic(a)[1] = a /\ Topic(a)[2] = inc[a] /\ inc[a] \in Nat
  BY <1>0, TopicParts, Zenon
<1>2. /\ ~BothLost
      /\ ServerDrop \/ ServerCrash => used["drop"] = 0
  <2>1. {"drop", "sdrop", "scrash"} \subseteq Faults
    BY Zenon DEF Faults
  <2>2. /\ \A f \in Faults : used[f] \in Nat /\ used'[f] \in Nat /\ used[f] <= used'[f]
        /\ ServerDrop => used'["sdrop"] > 0
        /\ ServerCrash => used'["scrash"] > 0
    BY <1>0, FaultCounts, Zenon
  <2> QED BY <2>1, <2>2 DEF BothLost
<1>3. Dead(m) => Outcome(m, "offline") \/ Kept(m, "offline")
  BY <1>2, Zenon DEF DeadInv
<1>4. ASSUME NEW t \in Topics, NEW z \in {"online", "offline"}, Publish(t, z), UNCHANGED <<gvars, work, server>>,
             m \in ModulesOf[t[1]] => z = "offline", m \notin ModulesOf[t[1]] => Dead(m)
      PROVE  Outcome(m, "offline")' \/ Kept(m, "offline")'
  <2>1. /\ m \in ModulesOf[t[1]] /\ z = "offline" /\ server = "on" => Outcome(m, "offline")'
        /\ m \notin ModulesOf[t[1]] /\ Outcome(m, "offline") => Outcome(m, "offline")'
    BY <1>0, <1>4, PublishOutcome, Zenon
  <2>2. retained'[t] = z /\ \A x \in Topics : x # t => retained'[x] = retained[x]
    BY <1>0, <1>4, Zenon DEF Publish, QueueInv
  <2>3. m \in ModulesOf[t[1]] /\ server = "off" => Kept(m, "offline")'
    BY <1>4, <2>2, Zenon DEF Kept
  <2>4. m \notin ModulesOf[t[1]] /\ Kept(m, "offline") => Kept(m, "offline")'
    BY <1>4, <2>2, Zenon DEF Kept
  <2>5. server = "on" \/ server = "off"
    BY <1>0, Zenon DEF LinkInv
  <2> QED BY <1>3, <1>4, <2>1, <2>3, <2>4, <2>5, Zenon
<1>5. ASSUME UNCHANGED <<gvars, work, inbox, server, retained>>, Dead(m)
      PROVE  Outcome(m, "offline")' \/ Kept(m, "offline")'
  BY <1>3, <1>5, Zenon DEF Outcome, Kept, Registered, gvars
<1>6. ASSUME NEW t \in Topics, WillPublish(t) PROVE Outcome(m, "offline")' \/ Kept(m, "offline")'
  <2>1. Publish(t, "offline") /\ UNCHANGED <<gvars, work, server, agent, inc>> /\ will' = will \ {t}
    BY <1>6, Zenon DEF WillPublish, avars
  <2>2. m \notin ModulesOf[t[1]] => Dead(m)
    BY <2>1, Zenon DEF Dead, Live
  <2> QED BY <1>4, <2>1, <2>2, Zenon
<1>7. ASSUME NEW a \in Agents, AgentConnect(a) PROVE Outcome(m, "offline")' \/ Kept(m, "offline")'
  <2>0. PICK t \in Topics : t = Topic(a) /\ t[1] = a /\ t[2] = inc[a]
    BY <1>1, Zenon
  <2>1. Publish(t, "online") /\ UNCHANGED <<gvars, work, server, will, inc>> /\ agent' = [agent EXCEPT ![a] = "on"]
    BY <1>7, <2>0, Zenon DEF AgentConnect
  <2>2. agent'[a] = "on" /\ \A b \in Agents : b # a => agent'[b] = agent[b]
    BY <1>0, <2>1, Zenon DEF LinkInv
  <2>3. m \notin ModulesOf[t[1]]
    BY <2>0, <2>1, <2>2, Zenon DEF Dead, Live
  <2>4. Dead(m)
    BY <1>1, <2>0, <2>1, <2>2, <2>3, Zenon DEF Dead, Live
  <2> QED BY <1>4, <2>1, <2>3, <2>4, Zenon
<1>8. ASSUME NEW a \in Agents, AgentStop(a) PROVE Outcome(m, "offline")' \/ Kept(m, "offline")'
  <2>0. PICK t \in Topics : t = Topic(a) /\ t[1] = a /\ t[2] = inc[a]
    BY <1>1, Zenon
  <2>1. Publish(t, "offline") /\ UNCHANGED <<gvars, work, server, will, inc>> /\ agent' = [agent EXCEPT ![a] = "stopped"]
    BY <1>8, <2>0, Zenon DEF AgentStop
  <2>2. \A b \in Agents : b # a => agent'[b] = agent[b]
    BY <1>0, <2>1, Zenon DEF LinkInv
  <2>4. m \notin ModulesOf[t[1]] => Dead(m)
    BY <1>1, <2>0, <2>1, <2>2, Zenon DEF Dead, Live
  <2> QED BY <1>4, <2>1, <2>4, Zenon
<1>9. ASSUME NEW a \in Agents, AgentDrop(a) PROVE Outcome(m, "offline")' \/ Kept(m, "offline")'
  <2>1. /\ UNCHANGED <<gvars, inc, retained, server, inbox, work>>
        /\ agent' = [agent EXCEPT ![a] = "off"] /\ will' = will \cup {Topic(a)}
    BY <1>9, Zenon DEF AgentDrop, svars
  <2>2. \A b \in Agents : b # a => agent'[b] = agent[b]
    BY <1>0, <2>1, Zenon DEF LinkInv
  <2>3. m \notin ModulesOf[a]
    BY <1>1, <2>1, Zenon DEF Dead, Live
  <2>4. Dead(m)
    BY <1>1, <2>1, <2>2, <2>3, Zenon DEF Dead, Live
  <2> QED BY <1>5, <2>1, <2>4, Zenon
<1>10. ASSUME NEW a \in Agents, AgentCrash(a) PROVE Outcome(m, "offline")' \/ Kept(m, "offline")'
  <2>1. /\ UNCHANGED <<gvars, retained, server, inbox, work>> /\ inc' = [inc EXCEPT ![a] = inc[a] + 1]
        /\ agent' = [agent EXCEPT ![a] = "off"]
        /\ will' = IF agent[a] = "on" THEN will \cup {Topic(a)} ELSE will
    BY <1>10, Zenon DEF AgentCrash, svars
  <2>2. \A b \in Agents : b # a => agent'[b] = agent[b] /\ inc'[b] = inc[b]
    BY <1>0, <2>1, Zenon DEF LinkInv, CrashInv
  <2>3. agent[a] = "on" => m \notin ModulesOf[a]
    BY <1>1, <2>1, Zenon DEF Dead, Live
  <2>4. Dead(m)
    BY <1>1, <2>1, <2>2, <2>3, Zenon DEF Dead, Live
  <2> QED BY <1>5, <2>1, <2>4, Zenon
<1>11. CASE UNCHANGED regVars
  <2>1. UNCHANGED <<gvars, agent, inc, will, retained, server, inbox, work>>
    BY <1>11, Zenon DEF regVars, avars, bvars, svars
  <2>2. Dead(m)
    BY <2>1, Zenon DEF Dead, Live
  <2> QED BY <1>5, <2>1, <2>2, Zenon
<1>12. ASSUME UNCHANGED <<agent, inc, will>> PROVE Dead(m)
  BY <1>12, Zenon DEF Dead, Live
<1>13. CASE ServerReceive
  <2>1. Dead(m) /\ server = "on"
    BY <1>12, <1>13, Zenon DEF ServerReceive, avars
  <2>2. Outcome(m, "offline")
    BY <1>3, <2>1 DEF Kept
  <2> QED BY <1>0, <1>13, <2>2, ReceiveOutcome, Zenon
<1>14. CASE ServerHandle
  <2>1. Dead(m) /\ UNCHANGED <<server, retained>>
    BY <1>12, <1>14, Zenon DEF ServerHandle, avars, bvars
  <2>2. CASE Kept(m, "offline")
    BY <2>1, <2>2, Zenon DEF Kept
  <2>3. CASE Outcome(m, "offline")
    <3>0. PICK h \in Messages : h = Head(work) /\ h[1] \in Topics /\ h[1][1] \in Agents
      BY <1>0, <1>1, <1>14, QueueMessages, Zenon DEF ServerHandle
    <3>1. PICK ms \in SUBSET Modules : ms = ModulesOf[h[1][1]]
      BY <3>0, RegistrationConstants, Zenon
    <3>2. /\ For(h, m) <=> m \in ms
          /\ IF h[2] = "online" THEN AddModules(ms) ELSE DelModules(ms)
      BY <1>14, <3>0, <3>1, Zenon DEF ServerHandle, For
    <3>3. /\ DelModules(ms) => (m \in Registered' <=> m \in Registered /\ m \notin ms)
          /\ AddModules(ms) /\ m \in Registered' => m \in Registered \/ m \in ms
      BY <1>0, HandlerEffect, Zenon
    <3>4. "offline" # "online"
      OBVIOUS
    <3>5. For(h, m) /\ h[2] = "offline" => (m \in Registered' <=> "offline" = "online")
      BY <3>2, <3>3, <3>4, Zenon
    <3>6. ~For(h, m) /\ (m \in Registered <=> "offline" = "online") => (m \in Registered' <=> "offline" = "online")
      BY <3>2, <3>3, <3>4, Zenon
    <3> QED BY <1>0, <1>14, <2>3, <3>0, <3>5, <3>6, HandleOutcome, Zenon
  <2> QED BY <1>3, <2>1, <2>2, <2>3, Zenon
<1>15. CASE ServerDrop
  <2>1. /\ Dead(m) /\ server = "on" /\ server' = "off" /\ inbox' = <<>>
        /\ UNCHANGED <<gvars, retained, work>>
    BY <1>12, <1>15, Zenon DEF ServerDrop, avars, bvars
  <2>2. Outcome(m, "offline")
    BY <1>3, <2>1 DEF Kept
  <2>3. CASE Sets(inbox, m, "offline")
    <3>1. PICK k \in DOMAIN inbox : m \in ModulesOf[inbox[k][1][1]] /\ inbox[k][2] = "offline"
      BY <2>3, Zenon DEF Sets, For
    <3>2. inbox[k][1] \in Topics /\ retained[inbox[k][1]] = "offline"
      BY <1>0, <1>2, <1>15, <3>1, QueueMessages, Zenon DEF OnceOffInv
    <3> QED BY <2>1, <3>1, <3>2, Zenon DEF Kept
  <2>4. CASE ~Sets(inbox, m, "offline")
    <3>1. Only(inbox', m, "offline")
      BY <2>1 DEF Only
    <3>2. UNCHANGED Registered
      BY <2>1, Zenon DEF gvars, Registered
    <3> QED BY <2>1, <2>2, <2>4, <3>1, <3>2, Zenon DEF Outcome
  <2> QED BY <2>3, <2>4, Zenon
<1>16. CASE ServerCrash
  <2>1. inbox' = <<>> /\ work' = <<>> /\ dtns' = {} /\ storages' = {} /\ launcher' = NoNode /\ sdn' = NoNode
    BY <1>16, Zenon DEF ServerCrash
  <2>2. Only(inbox', m, "offline") /\ Only(work', m, "offline")
    BY <2>1 DEF Only
  <2>3. m \notin Registered'
    BY <2>1, Zenon DEF Registered
  <2> QED BY <2>2, <2>3 DEF Outcome
<1>17. CASE ServerConnect
  <2>1. Dead(m) /\ UNCHANGED <<gvars, retained, work>> /\ server = "off"
    BY <1>12, <1>17, Zenon DEF ServerConnect, avars, bvars
  <2>2. \A j \in DOMAIN inbox' : /\ inbox'[j][1] \in Topics /\ retained[inbox'[j][1]] # "none"
                                 /\ inbox'[j][2] = retained[inbox'[j][1]]
    BY <1>0, <1>17, Delivered, Zenon
  <2>3. \A t \in Topics : m \in ModulesOf[t[1]] => retained[t] # "online" /\ retained[t] \in {"none", "online", "offline"}
    BY <1>0, <2>1, Zenon DEF BrokerInv, Dead, QueueInv
  <2>4. Only(inbox', m, "offline")
    BY <2>2, <2>3, Zenon DEF Only, For
  <2>5. CASE Kept(m, "offline")
    <3>1. PICK t \in Topics : m \in ModulesOf[t[1]] /\ retained[t] = "offline"
      BY <2>5, Zenon DEF Kept
    <3>2. PICK k \in DOMAIN inbox' : inbox'[k] = <<t, "offline">>
      BY <1>0, <1>17, <3>1, Delivered
    <3>3. For(inbox'[k], m) /\ inbox'[k][2] = "offline"
      BY <3>1, <3>2 DEF For
    <3>4. Sets(inbox', m, "offline")
      BY <2>4, <3>3, Zenon DEF Sets, Only
    <3> QED BY <3>4, Zenon DEF Outcome
  <2>6. CASE Outcome(m, "offline")
    <3>1. inbox = <<>>
      BY <2>1, Zenon DEF BrokerInv
    <3>2. ~Sets(inbox, m, "offline")
      BY <3>1 DEF Sets
    <3>3. UNCHANGED Registered
      BY <2>1, Zenon DEF gvars, Registered
    <3> QED BY <2>1, <2>4, <2>6, <3>2, <3>3, Zenon DEF Outcome
  <2> QED BY <1>3, <2>1, <2>5, <2>6, Zenon
<1> QED BY <1>6, <1>7, <1>8, <1>9, <1>10, <1>11, <1>13, <1>14, <1>15, <1>16, <1>17, Zenon DEF RegNext, AgentStep

GhostInv == RInv /\ BrokerInv /\ OnceOffInv /\ DeadInv

\* The broker starts with nothing to say, and the graph empty.
LEMMA GhostInit == RegInit => GhostInv
PROOF
<1> SUFFICES ASSUME RegInit PROVE GhostInv BY Zenon
<1>1. RInv BY RInit, Zenon
<1>2. BrokerInv
  BY DEF RegInit, BrokerInv
<1>3. OnceOffInv
  BY DEF RegInit, OnceOffInv
<1>4. \A m \in Modules : Outcome(m, "offline")
  <2>1. inbox = <<>> /\ work = <<>> /\ Registered = {}
    BY Zenon DEF RegInit, GInit, Registered
  <2> QED BY <2>1 DEF Outcome, Only
<1> QED BY <1>1, <1>2, <1>3, <1>4, Zenon DEF GhostInv, DeadInv

\* When nothing is under way, what the invariant says of a module that nobody reports.
LEMMA QuietNoGhost == GhostInv => NoGhost
PROOF
<1> SUFFICES ASSUME GhostInv, Quiet, ~BothLost, NEW m \in Registered, m \notin Present PROVE FALSE
  BY Zenon DEF NoGhost
<1>1. /\ server = "on" /\ inbox = <<>> /\ work = <<>> /\ will = {}
      /\ \A a \in Agents : agent[a] # "off"
  BY Zenon DEF Quiet
<1>2. m \in Modules
  BY Zenon DEF GhostInv, RInv, GraphInv, GTypeOK, Registered, Modules
<1>3. \A a \in Agents : m \in ModulesOf[a] => agent[a] # "on"
  BY Zenon DEF Present
<1>4. Dead(m)
  BY <1>1, <1>3, TopicParts, Zenon DEF Dead, Live, GhostInv, RInv
<1>5. ~Kept(m, "offline")
  BY <1>1 DEF Kept
<1>6. Outcome(m, "offline")
  BY <1>2, <1>4, <1>5, Zenon DEF GhostInv, DeadInv
<1>7. ~Sets(inbox, m, "offline") /\ ~Sets(work, m, "offline")
  BY <1>1 DEF Sets
<1> QED BY <1>6, <1>7 DEF Outcome

\* Once the server has handled every message the graph has no module of an agent
\* that is gone, unless an agent and the server both lost connections: the broker
\* published the will that the agent left with it, and the handler of registrations
\* took the modules it names out of the graph.
THEOREM NoGhostStays == RegSpec => []NoGhost
PROOF
<1>1. RInv /\ [RegNext]_regVars => RInv'
  BY CrashStep, QueueStep, LinkStep, GraphStep, Zenon DEF RInv
<1>2. GhostInv /\ [RegNext]_regVars => GhostInv'
  BY <1>1, BrokerStep, OnceOffStep, DeadStep, Zenon DEF GhostInv
<1> QED BY <1>2, QuietNoGhost, GhostInit, PTL DEF RegSpec

-----------------------------------------------------------------------------
(* The modules of every connected agent come to be in the graph            *)

\* The modules of an agent are its own, and a site has one launching and one SDN module.
OwnModules ==
  /\ \A a, b \in Agents : a # b => ModulesOf[a] \cap ModulesOf[b] = {}
  /\ \A a, b \in Agents : \A x \in ModulesOf[a], y \in ModulesOf[b] :
       {x, y} \subseteq Launchers \/ {x, y} \subseteq Sdns => x = y

\* What a server that connects will be told of the agents that are connected
ToldInv ==
  /\ \A a \in Agents : agent[a] = "on" => Topic(a) \notin will
  /\ ~BothLost /\ (server = "off" \/ used["drop"] = 0) =>
       \A a \in Agents : agent[a] = "on" => retained[Topic(a)] = "online"

AliveInv ==
  ~BothLost /\ used["crash"] = 0 /\ server = "on" =>
    \A a \in Agents : agent[a] = "on" => \A m \in ModulesOf[a] : Outcome(m, "online")

\* The broker retains the registration of every connected agent, up to the first
\* loss of a connection of an agent after the server came.
LEMMA ToldStep == RInv /\ BrokerInv /\ OnceOffInv /\ ToldInv /\ [RegNext]_regVars => ToldInv'
PROOF
<1> SUFFICES ASSUME RInv, BrokerInv, OnceOffInv, ToldInv, [RegNext]_regVars PROVE ToldInv' BY Zenon
<1>0. CrashInv /\ QueueInv /\ LinkInv BY Zenon DEF RInv
<1>1. /\ \A t \in Topics : t[1] \in Agents /\ t[2] \in Nat /\ inc[t[1]] \in Nat /\ t = <<t[1], t[2]>>
      /\ \A a \in Agents : Topic(a) \in Topics /\ Topic(a)[1] = a /\ Topic(a)[2] = inc[a] /\ inc[a] \in Nat
  BY <1>0, TopicParts, Zenon
<1>2. /\ ~BothLost' => ~BothLost
      /\ used'["drop"] = 0 => used["drop"] = 0
      /\ ServerDrop \/ ServerCrash => (~BothLost' => used["drop"] = 0)
  <2>1. {"drop", "sdrop", "scrash"} \subseteq Faults
    BY Zenon DEF Faults
  <2>2. /\ \A f \in Faults : used[f] \in Nat /\ used'[f] \in Nat /\ used[f] <= used'[f]
        /\ ServerDrop => used'["sdrop"] > 0
        /\ ServerCrash => used'["scrash"] > 0
    BY <1>0, FaultCounts, Zenon
  <2> QED BY <2>1, <2>2 DEF BothLost
<1> DEFINE Told == ~BothLost /\ (server = "off" \/ used["drop"] = 0)
<1>3. ASSUME UNCHANGED server, Told' PROVE Told
  BY <1>2, <1>3, Zenon
<1>4. Told => \A a \in Agents : agent[a] = "on" => retained[Topic(a)] = "online"
  BY Zenon DEF ToldInv
<1> HIDE DEF Told
<1>5. ASSUME NEW t \in Topics, WillPublish(t) PROVE ToldInv'
  <2>1. t \in will /\ Publish(t, "offline") /\ UNCHANGED <<inc, agent, server>> /\ will' = will \ {t}
    BY <1>5, Zenon DEF WillPublish, avars
  <2>2. \A x \in Topics : x # t => retained'[x] = retained[x]
    BY <1>0, <2>1, Zenon DEF Publish, QueueInv
  <2>3. \A a \in Agents : agent'[a] = "on" => Topic(a)' \notin will' /\ Topic(a)' = Topic(a) /\ Topic(a) # t
    BY <2>1, Zenon DEF ToldInv, Topic
  <2>4. Told' => \A a \in Agents : agent'[a] = "on" => retained'[Topic(a)'] = "online"
    <3> SUFFICES ASSUME Told', NEW a \in Agents, agent'[a] = "on" PROVE retained'[Topic(a)'] = "online"
      BY Zenon
    <3>1. Told /\ Topic(a) \in Topics /\ agent[a] = "on"
      BY <1>1, <1>3, <2>1, Zenon
    <3>2. retained[Topic(a)] = "online" /\ retained'[Topic(a)] = retained[Topic(a)]
      BY <1>4, <2>2, <2>3, <3>1, Zenon
    <3> QED BY <2>3, <3>2, Zenon
  <2> QED BY <2>3, <2>4, Zenon DEF ToldInv, Told
<1>6. ASSUME NEW a \in Agents, AgentConnect(a) \/ AgentStop(a) PROVE ToldInv'
  <2>0. PICK t \in Topics : t = Topic(a) /\ t[1] = a /\ t[2] = inc[a]
    BY <1>1, Zenon
  <2>1. PICK s \in {"online", "offline"} :
          /\ Publish(t, s) /\ UNCHANGED <<inc, will, server>> /\ t \notin will
          /\ s = "online" => agent' = [agent EXCEPT ![a] = "on"]
          /\ s = "offline" => agent' = [agent EXCEPT ![a] = "stopped"]
    BY <1>6, <2>0 DEF AgentConnect, AgentStop, ToldInv
  <2>2. retained'[t] = s /\ \A x \in Topics : x # t => retained'[x] = retained[x]
    BY <1>0, <2>1, Zenon DEF Publish, QueueInv
  <2>3. /\ s = "offline" => agent'[a] # "on"
        /\ \A b \in Agents : b # a => agent'[b] = agent[b] /\ Topic(b) # t
        /\ \A b \in Agents : Topic(b)' = Topic(b)
    BY <1>0, <1>1, <2>0, <2>1 DEF LinkInv, Topic
  <2>4. \A b \in Agents : agent'[b] = "on" => Topic(b)' \notin will'
    BY <2>0, <2>1, <2>3, Zenon DEF ToldInv
  <2>5. Told' => \A b \in Agents : agent'[b] = "on" => retained'[Topic(b)'] = "online"
    <3> SUFFICES ASSUME Told', NEW b \in Agents, agent'[b] = "on" PROVE retained'[Topic(b)] = "online"
      BY <2>3, Zenon
    <3>1. Told
      BY <1>3, <2>1, Zenon
    <3>2. CASE b = a
      BY <2>0, <2>1, <2>2, <2>3, <3>2
    <3>3. CASE b # a
      <4>1. retained[Topic(b)] = "online" /\ Topic(b) \in Topics /\ Topic(b) # t
        BY <1>1, <1>4, <2>3, <3>1, <3>3, Zenon
      <4> QED BY <2>2, <4>1, Zenon
    <3> QED BY <3>2, <3>3, Zenon
  <2> QED BY <2>4, <2>5, Zenon DEF ToldInv, Told
<1>7. ASSUME NEW a \in Agents, AgentDrop(a) \/ AgentCrash(a) PROVE ToldInv'
  <2>1. /\ UNCHANGED <<retained, server>> /\ agent' = [agent EXCEPT ![a] = "off"]
        /\ will' \subseteq will \cup {Topic(a)}
        /\ \A b \in Agents : b # a => inc'[b] = inc[b]
    BY <1>0, <1>7, Zenon DEF AgentDrop, AgentCrash, svars, CrashInv
  <2>2. agent'[a] # "on" /\ \A b \in Agents : b # a => agent'[b] = agent[b] /\ Topic(b)' = Topic(b) /\ Topic(b) # Topic(a)
    BY <1>0, <1>1, <2>1 DEF LinkInv, Topic
  <2>3. \A b \in Agents : agent'[b] = "on" => Topic(b)' \notin will'
    BY <2>1, <2>2, Zenon DEF ToldInv
  <2>4. Told' => \A b \in Agents : agent'[b] = "on" => retained'[Topic(b)'] = "online"
    BY <1>3, <1>4, <2>1, <2>2, Zenon
  <2> QED BY <2>3, <2>4, Zenon DEF ToldInv, Told
<1>8. ASSUME UNCHANGED <<inc, agent, will>>, Told' => (Told /\ \A a \in Agents : agent[a] = "on" => retained'[Topic(a)] = retained[Topic(a)])
      PROVE ToldInv'
  <2>1. \A b \in Agents : agent'[b] = agent[b] /\ Topic(b)' = Topic(b)
    BY <1>8, Zenon DEF Topic
  <2>2. \A b \in Agents : agent'[b] = "on" => Topic(b)' \notin will'
    BY <1>8, <2>1, Zenon DEF ToldInv
  <2>3. Told' => \A b \in Agents : agent'[b] = "on" => retained'[Topic(b)'] = "online"
    BY <1>4, <1>8, <2>1, Zenon
  <2> QED BY <2>2, <2>3, Zenon DEF ToldInv, Told
<1>9. CASE ServerReceive
  <2>1. /\ UNCHANGED <<inc, agent, will, server>> /\ server = "on" /\ inbox # <<>>
        /\ retained' = IF Head(inbox)[2] = "offline" THEN [retained EXCEPT ![Head(inbox)[1]] = "none"] ELSE retained
    BY <1>9, Zenon DEF ServerReceive, avars
  <2>2. PICK h \in Messages : h = Head(inbox) /\ h = inbox[1] /\ 1 \in DOMAIN inbox /\ h[1] \in Topics
    BY <1>0, <2>1, QueueMessages, Zenon
  <2>3. ASSUME Told', NEW a \in Agents, agent[a] = "on" PROVE retained'[Topic(a)] = retained[Topic(a)]
    <3>1. Told /\ retained[Topic(a)] = "online"
      BY <1>3, <1>4, <2>1, <2>3, Zenon
    <3>2. used["drop"] = 0
      BY <2>1, <3>1 DEF Told
    <3>3. h[2] = "offline" => retained[h[1]] = "offline"
      BY <2>2, <3>2, Zenon DEF OnceOffInv
    <3>4. h[2] = "offline" => h[1] # Topic(a)
      BY <3>1, <3>3
    <3> QED BY <1>0, <1>1, <2>1, <2>2, <3>4, Zenon DEF QueueInv
  <2> QED BY <1>3, <1>8, <2>1, <2>3, Zenon
<1>10. CASE ServerHandle \/ UNCHANGED regVars
  <2>1. UNCHANGED <<inc, agent, will, server, retained>>
    BY <1>10, Zenon DEF ServerHandle, avars, bvars, svars, regVars
  <2> QED BY <1>3, <1>8, <2>1, Zenon
<1>11. CASE ServerDrop \/ ServerCrash
  <2>1. UNCHANGED <<inc, agent, will, retained>>
    BY <1>11, Zenon DEF ServerDrop, ServerCrash, avars, bvars
  <2>2. Told' => Told
    BY <1>2, <1>11, Zenon DEF Told
  <2> QED BY <1>8, <2>1, <2>2, Zenon
<1>12. CASE ServerConnect
  <2>1. UNCHANGED <<inc, agent, will, retained, used>> /\ server = "off"
    BY <1>12, Zenon DEF ServerConnect, avars, bvars
  <2>2. Told' => Told
    BY <1>2, <2>1, Zenon DEF Told
  <2> QED BY <1>8, <2>1, <2>2, Zenon
<1> QED BY <1>5, <1>6, <1>7, <1>9, <1>10, <1>11, <1>12, Zenon DEF RegNext, AgentStep

\* A handler with modules of one agent leaves those of the others.
LEMMA OwnEffect ==
  ASSUME OwnModules, GraphInv, NEW a \in Agents, NEW b \in Agents, NEW m \in ModulesOf[a], NEW ms, ms = ModulesOf[b]
  PROVE  /\ m \in Modules
         /\ m \in ms => a = b
         /\ AddModules(ms) /\ m \in ms => m \in Registered'
         /\ AddModules(ms) \/ DelModules(ms) => (m \notin ms /\ m \in Registered => m \in Registered')
PROOF
<1>1. ms \in SUBSET Modules /\ m \in Modules
  BY RegistrationConstants, Zenon
<1>2. NoNode \notin Modules /\ m # NoNode
  BY <1>1, GraphConstants, Zenon
<1>3. m \in ms => a = b
  BY Zenon DEF OwnModules
<1>4. \A y \in ms : {m, y} \subseteq Launchers \/ {m, y} \subseteq Sdns => m = y
  BY DEF OwnModules
<1>5. launcher \in Launchers \cup {NoNode} /\ sdn \in Sdns \cup {NoNode}
  BY Zenon DEF GraphInv, GTypeOK
<1>6. ASSUME AddModules(ms), m \in ms PROVE m \in Registered'
  <2>1. CASE m \in Dtns \cup Storages
    BY <1>6, <2>1, Zenon DEF AddModules, Registered
  <2>2. CASE m \in Launchers
    <3>1. launcher' \in ms \cap Launchers
      BY <1>6, <2>2, Zenon DEF AddModules, Replace
    <3>2. m = launcher'
      BY <1>4, <2>2, <3>1, Zenon
    <3> QED BY <1>2, <3>2, Zenon DEF Registered
  <2>3. CASE m \in Sdns
    <3>1. sdn' \in ms \cap Sdns
      BY <1>6, <2>3, Zenon DEF AddModules, Replace
    <3>2. m = sdn'
      BY <1>4, <2>3, <3>1, Zenon
    <3> QED BY <1>2, <3>2, Zenon DEF Registered
  <2> QED BY <1>1, <2>1, <2>2, <2>3, Zenon DEF Modules
<1>7. ASSUME AddModules(ms), m \notin ms, m \in Registered PROVE m \in Registered'
  <2>1. CASE m \in dtns \cup storages
    BY <1>7, <2>1, Zenon DEF AddModules, Registered
  <2>2. CASE m = launcher
    <3>1. m \in Launchers
      BY <1>2, <1>5, <2>2, Zenon
    <3>2. launcher' = launcher
      BY <1>4, <1>7, <3>1, Zenon DEF AddModules, Replace
    <3> QED BY <1>2, <2>2, <3>2, Zenon DEF Registered
  <2>3. CASE m = sdn
    <3>1. m \in Sdns
      BY <1>2, <1>5, <2>3, Zenon
    <3>2. sdn' = sdn
      BY <1>4, <1>7, <3>1, Zenon DEF AddModules, Replace
    <3> QED BY <1>2, <2>3, <3>2, Zenon DEF Registered
  <2> QED BY <1>7, <2>1, <2>2, <2>3, Zenon DEF Registered
<1>8. DelModules(ms) /\ m \notin ms /\ m \in Registered => m \in Registered'
  BY <1>1, HandlerEffect, Zenon
<1> QED BY <1>1, <1>3, <1>6, <1>7, <1>8, Zenon

\* A module of a connected agent is in the graph once all is handled.
LEMMA AliveStep ==
  OwnModules => (RInv /\ BrokerInv /\ ToldInv /\ AliveInv /\ [RegNext]_regVars => AliveInv')
PROOF
<1> SUFFICES ASSUME OwnModules, RInv, BrokerInv, ToldInv, AliveInv, [RegNext]_regVars,
                    ~BothLost', used'["crash"] = 0, server' = "on",
                    NEW a \in Agents, agent'[a] = "on", NEW m \in ModulesOf[a]
             PROVE  Outcome(m, "online")'
  BY Zenon DEF AliveInv
<1>0. GraphInv /\ CrashInv /\ QueueInv /\ LinkInv BY Zenon DEF RInv
<1>1. /\ \A t \in Topics : t[1] \in Agents /\ t[2] \in Nat /\ inc[t[1]] \in Nat /\ t = <<t[1], t[2]>>
      /\ \A b \in Agents : Topic(b) \in Topics /\ Topic(b)[1] = b /\ Topic(b)[2] = inc[b] /\ inc[b] \in Nat
  BY <1>0, TopicParts, Zenon
<1>2. ~BothLost /\ used["crash"] = 0 /\ ~\E b \in Agents : AgentCrash(b)
  <2>1. {"drop", "sdrop", "scrash", "crash"} \subseteq Faults
    BY Zenon DEF Faults
  <2>2. \A f \in Faults : used[f] \in Nat /\ used'[f] \in Nat /\ used[f] <= used'[f]
    BY <1>0, FaultCounts, Zenon
  <2>3. \A b \in Agents : AgentCrash(b) => used'["crash"] = used["crash"] + 1
    BY <1>0, <2>1 DEF AgentCrash, Fault, CrashInv
  <2> QED BY <2>1, <2>2, <2>3 DEF BothLost
<1>3. agent[a] = "on" /\ server = "on" => Outcome(m, "online")
  BY <1>2, Zenon DEF AliveInv
<1>4. \A b \in Agents : inc[b] = 0
  BY <1>0, <1>2 DEF CrashInv
\* without restarts every topic in use is that of the process that runs
<1>5. \A t \in Topics : retained[t] # "none" \/ t \in will => t = Topic(t[1])
  <2> SUFFICES ASSUME NEW t \in Topics, retained[t] # "none" \/ t \in will PROVE t = Topic(t[1])
    BY Zenon
  <2>1. ~(t[2] > inc[t[1]])
    BY Zenon DEF BrokerInv
  <2>2. t[2] = inc[t[1]]
    BY <1>1, <1>4, <2>1
  <2> QED BY <1>1, <2>2, Zenon DEF Topic
<1>6. \A b \in Agents : m \in ModulesOf[b] => b = a
  BY Zenon DEF OwnModules
<1>7. ASSUME NEW b \in Agents, b # a, NEW z \in {"online", "offline"}, NEW t \in Topics, t[1] = b, Publish(t, z),
             UNCHANGED <<gvars, work, server>>, agent[a] = "on"
      PROVE  Outcome(m, "online")'
  BY <1>0, <1>3, <1>6, <1>7, PublishOutcome, Zenon
<1>8. ASSUME NEW t \in Topics, WillPublish(t) PROVE Outcome(m, "online")'
  <2>1. t \in will /\ Publish(t, "offline") /\ UNCHANGED <<gvars, work, server, agent>>
    BY <1>8, Zenon DEF WillPublish, avars
  <2>2. t[1] # a
    BY <1>5, <2>1, Zenon DEF ToldInv
  <2> QED BY <1>1, <1>7, <2>1, <2>2, Zenon
<1>9. ASSUME NEW b \in Agents, AgentConnect(b) PROVE Outcome(m, "online")'
  <2>0. PICK t \in Topics : t = Topic(b) /\ t[1] = b
    BY <1>1, Zenon
  <2>1. Publish(t, "online") /\ UNCHANGED <<gvars, work, server>> /\ agent' = [agent EXCEPT ![b] = "on"]
    BY <1>9, <2>0, Zenon DEF AgentConnect
  <2>2. CASE b = a
    BY <1>0, <2>0, <2>1, <2>2, PublishOutcome, Zenon
  <2>3. CASE b # a
    <3>1. agent[a] = "on"
      BY <1>0, <2>1, <2>3, Zenon DEF LinkInv
    <3> QED BY <1>7, <2>0, <2>1, <2>3, <3>1, Zenon
  <2> QED BY <2>2, <2>3, Zenon
<1>10. ASSUME NEW b \in Agents, AgentStop(b) PROVE Outcome(m, "online")'
  <2>0. PICK t \in Topics : t = Topic(b) /\ t[1] = b
    BY <1>1, Zenon
  <2>1. Publish(t, "offline") /\ UNCHANGED <<gvars, work, server>> /\ agent' = [agent EXCEPT ![b] = "stopped"]
    BY <1>10, <2>0, Zenon DEF AgentStop
  <2>2. b # a /\ agent[a] = "on"
    BY <1>0, <2>1 DEF LinkInv
  <2> QED BY <1>7, <2>0, <2>1, <2>2, Zenon
<1>11. ASSUME UNCHANGED <<gvars, work, inbox, server>>, agent[a] = "on" PROVE Outcome(m, "online")'
  BY <1>3, <1>11, Zenon DEF Outcome, Registered, gvars
<1>12. ASSUME NEW b \in Agents, AgentDrop(b) PROVE Outcome(m, "online")'
  <2>1. UNCHANGED <<gvars, work, inbox, server>> /\ agent' = [agent EXCEPT ![b] = "off"]
    BY <1>12, Zenon DEF AgentDrop, svars
  <2>2. agent[a] = "on"
    BY <1>0, <2>1 DEF LinkInv
  <2> QED BY <1>11, <2>1, <2>2, Zenon
<1>13. CASE UNCHANGED regVars
  BY <1>11, <1>13, Zenon DEF regVars, avars, bvars, svars
<1>14. CASE ServerReceive
  BY <1>0, <1>3, <1>14, ReceiveOutcome, Zenon DEF ServerReceive, avars
<1>15. CASE ServerHandle
  <2>1. Outcome(m, "online")
    BY <1>3, <1>15, Zenon DEF ServerHandle, avars, bvars
  <2>2. PICK h \in Messages, b \in Agents : h = Head(work) /\ h[1] \in Topics /\ b = h[1][1]
    BY <1>0, <1>1, <1>15, QueueMessages, Zenon DEF ServerHandle
  <2>3. PICK ms : ms = ModulesOf[b]
    BY Zenon
  <2>4. /\ For(h, m) <=> m \in ms
        /\ IF h[2] = "online" THEN AddModules(ms) ELSE DelModules(ms)
    BY <1>15, <2>2, <2>3, Zenon DEF ServerHandle, For
  <2>5. /\ AddModules(ms) /\ m \in ms => m \in Registered'
        /\ AddModules(ms) \/ DelModules(ms) => (m \notin ms /\ m \in Registered => m \in Registered')
    BY <1>0, <2>3, OwnEffect, Zenon
  <2>6. For(h, m) /\ h[2] = "online" => (m \in Registered' <=> "online" = "online")
    BY <2>4, <2>5, Zenon
  <2>7. ~For(h, m) /\ (m \in Registered <=> "online" = "online") => (m \in Registered' <=> "online" = "online")
    BY <2>4, <2>5, Zenon
  <2> QED BY <1>0, <1>15, <2>1, <2>2, <2>6, <2>7, HandleOutcome, Zenon
<1>16. ~ServerDrop /\ ~ServerCrash
  BY DEF ServerDrop, ServerCrash
<1>17. CASE ServerConnect
  <2>1. UNCHANGED <<agent, inc, retained>> /\ server = "off"
    BY <1>17, Zenon DEF ServerConnect, avars, bvars
  <2>2. retained[Topic(a)] = "online"
    BY <1>2, <2>1, Zenon DEF ToldInv
  <2>3. Only(inbox', m, "online")
    <3>1. \A j \in DOMAIN inbox' : /\ inbox'[j][1] \in Topics /\ retained[inbox'[j][1]] # "none"
                                   /\ inbox'[j][2] = retained[inbox'[j][1]]
      BY <1>0, <1>17, Delivered, Zenon
    <3> SUFFICES ASSUME NEW j \in DOMAIN inbox', m \in ModulesOf[inbox'[j][1][1]] PROVE inbox'[j][2] = "online"
      BY Zenon DEF Only, For
    <3>2. PICK x \in Topics : x = inbox'[j][1] /\ retained[x] # "none"
      BY <3>1, Zenon
    <3>3. x[1] = a /\ x = Topic(x[1])
      BY <1>1, <1>5, <1>6, <3>2, Zenon
    <3> QED BY <2>2, <3>1, <3>2, <3>3, Zenon
  <2>4. PICK k \in DOMAIN inbox' : inbox'[k] = <<Topic(a), "online">>
    BY <1>0, <1>1, <1>17, <2>2, Delivered
  <2>5. For(inbox'[k], m) /\ inbox'[k][2] = "online"
    BY <1>1, <2>4 DEF For
  <2>6. Sets(inbox', m, "online")
    BY <2>3, <2>5, Zenon DEF Sets, Only
  <2> QED BY <2>6, Zenon DEF Outcome
<1> QED BY <1>2, <1>8, <1>9, <1>10, <1>12, <1>13, <1>14, <1>15, <1>16, <1>17, ZenonT(40) DEF RegNext, AgentStep

\* Once the server has handled every message the graph has exactly the modules of the
\* connected agents, with the same exception, when no agent restarted and no two agents
\* report the same module: registrations are retained, and a server that subscribes
\* again gets them again.
THEOREM GraphConverges == OwnModules => (RegSpec => []Converged)
PROOF
<1> SUFFICES ASSUME OwnModules PROVE RegSpec => []Converged BY Zenon
<1> DEFINE SiteInv2 == GhostInv /\ ToldInv /\ AliveInv
<1>1. RInv /\ [RegNext]_regVars => RInv'
  BY CrashStep, QueueStep, LinkStep, GraphStep, Zenon DEF RInv
<1>2. SiteInv2 /\ [RegNext]_regVars => SiteInv2'
  BY <1>1, BrokerStep, OnceOffStep, DeadStep, ToldStep, AliveStep, Zenon DEF GhostInv
<1>3. RegInit => SiteInv2
  <2>1. RegInit => ToldInv /\ AliveInv
    BY DEF RegInit, ToldInv, AliveInv
  <2> QED BY <2>1, GhostInit, Zenon
<1>4. SiteInv2 => Converged
  <2> SUFFICES ASSUME SiteInv2, Quiet, ~BothLost, used["crash"] = 0 PROVE Registered = Present
    BY Zenon DEF Converged
  <2>1. Registered \subseteq Present
    BY QuietNoGhost, Zenon DEF NoGhost
  <2>2. /\ server = "on" /\ inbox = <<>> /\ work = <<>>
    BY Zenon DEF Quiet
  <2>3. ASSUME NEW m \in Present PROVE m \in Registered
    <3>1. PICK a \in Agents : agent[a] = "on" /\ m \in ModulesOf[a]
      BY <2>3, Zenon DEF Present
    <3>2. Outcome(m, "online")
      BY <2>2, <3>1, Zenon DEF AliveInv
    <3>3. ~Sets(inbox, m, "online") /\ ~Sets(work, m, "online")
      BY <2>2 DEF Sets
    <3> QED BY <3>2, <3>3, Zenon DEF Outcome
  <2> QED BY <2>1, <2>3, Zenon
<1> HIDE DEF SiteInv2
<1> QED BY <1>2, <1>3, <1>4, PTL DEF RegSpec
=============================================================================
