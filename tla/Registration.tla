---------------------------- MODULE Registration ----------------------------
(***************************************************************************)
(* How the resource graph follows the agents of a site: the agent manager  *)
(* (agentmanager.cc) publishes a retained "online" message when it gets a  *)
(* connection and leaves a retained last will "offline" with the broker;   *)
(* the server (main.cc) hands each message to one strand of the scheduler, *)
(* which changes the graph, and clears the retained message of an agent    *)
(* that left; Mqtt::loop of either side reconnects and subscribes again.   *)
(*                                                                         *)
(* The topic of an agent process is its client id, made anew by every      *)
(* process; the ids of its modules are properties of the host.             *)
(***************************************************************************)
EXTENDS ResourceGraph, FiniteSets, Sequences, Functions

CONSTANTS Agents,     \* agent processes of the site
          ModulesOf,  \* the modules of each
          MaxFaults   \* lost connections, restarts and stops together

ASSUME RegistrationConstants ==
  /\ IsFiniteSet(Agents)
  /\ ModulesOf \in [Agents -> SUBSET Modules]
  /\ MaxFaults \in Nat

Topics == Agents \X (0..MaxFaults)

VARIABLES inc,       \* which process of an agent runs: part of its topic
          agent,     \* its connection: "on", "off", "stopped"
          will,      \* topics whose last will the broker has yet to publish
          retained,  \* the retained message of each topic
          server,    \* the connection of the server: "on", "off"
          inbox,     \* messages under way to the server
          work,      \* handlers posted to the strand "resource"
          used       \* how often each fault happened

avars == <<inc, agent>>
bvars == <<will, retained>>
svars == <<server, inbox, work>>
regVars == <<gvars, avars, bvars, svars, used>>

\* Lost connections of agents and of the server, restarts of their processes, and
\* agents stopped for good.
Faults == {"drop", "crash", "stop", "sdrop", "scrash"}

Fault(f) ==
  /\ used["drop"] + used["crash"] + used["stop"] + used["sdrop"] + used["scrash"] < MaxFaults
  /\ used' = [used EXCEPT ![f] = @ + 1]

Topic(a) == <<a, inc[a]>>

RegInit ==
  /\ GInit
  /\ inc = [a \in Agents |-> 0]
  /\ agent = [a \in Agents |-> "off"]
  /\ will = {}
  /\ retained = [t \in Topics |-> "none"]
  /\ server = "off"
  /\ inbox = <<>> /\ work = <<>>
  /\ used = [f \in Faults |-> 0]

-----------------------------------------------------------------------------
(* The broker                                                              *)

\* A retained publish: kept for later subscribers, forwarded to present ones.
Publish(t, state) ==
  /\ retained' = [retained EXCEPT ![t] = state]
  /\ inbox' = IF server = "on" THEN Append(inbox, <<t, state>>) ELSE inbox

\* Mutant: the will is not retained.
WillPublishPassing(t) ==
  /\ t \in will
  /\ inbox' = IF server = "on" THEN Append(inbox, <<t, "offline">>) ELSE inbox
  /\ will' = will \ {t}
  /\ UNCHANGED <<gvars, avars, retained, server, work, used>>

\* The last will of a connection that broke.
WillPublish(t) ==
  /\ t \in will
  /\ Publish(t, "offline")
  /\ will' = will \ {t}
  /\ UNCHANGED <<gvars, avars, server, work, used>>

-----------------------------------------------------------------------------
(* The agent manager                                                       *)

\* Mutant: the registration is not published again after a reconnect.
AgentConnectSilent(a) ==
  /\ agent[a] = "off" /\ Topic(a) \notin will
  /\ agent' = [agent EXCEPT ![a] = "on"]
  /\ IF retained[Topic(a)] = "none" THEN Publish(Topic(a), "online")
     ELSE UNCHANGED <<retained, inbox>>
  /\ UNCHANGED <<gvars, inc, will, server, work, used>>

\* on_mqtt_conn.  The broker ends a broken connection with the same client id,
\* and publishes its will, before it accepts a new one.
AgentConnect(a) ==
  /\ agent[a] = "off" /\ Topic(a) \notin will
  /\ agent' = [agent EXCEPT ![a] = "on"]
  /\ Publish(Topic(a), "online")
  /\ UNCHANGED <<gvars, inc, will, server, work, used>>

AgentDrop(a) ==
  /\ agent[a] = "on"
  /\ Fault("drop")
  /\ agent' = [agent EXCEPT ![a] = "off"]
  /\ will' = will \cup {Topic(a)}
  /\ UNCHANGED <<gvars, inc, retained, svars>>

\* The process ends and is started again, under a new client id.
AgentCrash(a) ==
  /\ agent[a] # "stopped"
  /\ Fault("crash")
  /\ inc' = [inc EXCEPT ![a] = @ + 1]
  /\ agent' = [agent EXCEPT ![a] = "off"]
  /\ will' = IF agent[a] = "on" THEN will \cup {Topic(a)} ELSE will
  /\ UNCHANGED <<gvars, retained, svars>>

\* The end of AgentManager::run: it deregisters itself and disconnects.
AgentStop(a) ==
  /\ agent[a] = "on"
  /\ Fault("stop")
  /\ agent' = [agent EXCEPT ![a] = "stopped"]
  /\ Publish(Topic(a), "offline")
  /\ UNCHANGED <<gvars, inc, will, server, work>>

-----------------------------------------------------------------------------
(* The server                                                              *)

\* Main::on_msg: post a handler, and clear the topic of an agent that left.
ServerReceive ==
  /\ server = "on" /\ inbox # <<>>
  /\ LET m == Head(inbox)
     IN  retained' = IF m[2] = "offline" THEN [retained EXCEPT ![m[1]] = "none"] ELSE retained
  /\ work' = Append(work, Head(inbox))
  /\ inbox' = Tail(inbox)
  /\ UNCHANGED <<gvars, avars, will, server, used>>

\* Mutant: a handler posted behind another one is never run.
ServerHandleOne ==
  /\ Len(work) = 1
  /\ LET ms == ModulesOf[Head(work)[1][1]]
     IN  IF Head(work)[2] = "online" THEN AddModules(ms) ELSE DelModules(ms)
  /\ work' = Tail(work)
  /\ UNCHANGED <<avars, bvars, server, inbox, used>>

\* The handler of Scheduler::resource_construct.
ServerHandle ==
  /\ work # <<>>
  /\ LET ms == ModulesOf[Head(work)[1][1]]
     IN  IF Head(work)[2] = "online" THEN AddModules(ms) ELSE DelModules(ms)
  /\ work' = Tail(work)
  /\ UNCHANGED <<avars, bvars, server, inbox, used>>

ServerDrop ==
  /\ server = "on"
  /\ Fault("sdrop")
  /\ server' = "off" /\ inbox' = <<>>
  /\ UNCHANGED <<gvars, avars, bvars, work>>

\* (Re)connect and subscribe: the broker sends what it retains, topics in any
\* order.
ServerConnect ==
  /\ server = "off"
  /\ server' = "on"
  /\ LET kept == {<<t, retained[t]>> : t \in {x \in Topics : retained[x] # "none"}}
     IN  inbox' \in Bijection(1..Cardinality(kept), kept)
  /\ UNCHANGED <<gvars, avars, bvars, work, used>>

\* The process ends and is started again with an empty graph.
ServerCrash ==
  /\ Fault("scrash")
  /\ server' = "off" /\ inbox' = <<>> /\ work' = <<>>
  /\ dtns' = {} /\ storages' = {} /\ launcher' = NoNode /\ sdn' = NoNode
  /\ link' = {} /\ gateway' = [d \in Dtns |-> 0] /\ pdtn' = [s \in Storages |-> NoNode]
  /\ UNCHANGED <<avars, bvars>>

AgentStep(a) == AgentConnect(a) \/ AgentDrop(a) \/ AgentCrash(a) \/ AgentStop(a)

RegNext ==
  \/ \E t \in Topics : WillPublish(t)
  \/ \E a \in Agents : AgentStep(a)
  \/ ServerReceive \/ ServerHandle \/ ServerDrop \/ ServerConnect \/ ServerCrash

RegSpec == RegInit /\ [][RegNext]_regVars

\* Mqtt::loop reconnects for ever, the broker publishes wills and delivers, and
\* the worker threads run.
RegFairSpec ==
  /\ RegSpec
  /\ \A t \in Topics : WF_regVars(WillPublish(t))
  /\ \A a \in Agents : WF_regVars(AgentConnect(a))
  /\ WF_regVars(ServerReceive) /\ WF_regVars(ServerHandle) /\ WF_regVars(ServerConnect)

-----------------------------------------------------------------------------
(* Properties                                                              *)

\* Types of the agents, the broker and the server.
RegTypeOK ==
  /\ GTypeOK
  /\ inc \in [Agents -> 0..MaxFaults]
  /\ agent \in [Agents -> {"on", "off", "stopped"}]
  /\ will \subseteq Topics
  /\ retained \in [Topics -> {"none", "online", "offline"}]
  /\ server \in {"on", "off"}
  /\ inbox \in Seq(Topics \X {"online", "offline"})
  /\ work \in Seq(Topics \X {"online", "offline"})
  /\ used \in [Faults -> Nat]

Present == UNION {ModulesOf[a] : a \in {x \in Agents : agent[x] = "on"}}
Registered == dtns \cup storages \cup ({launcher, sdn} \ {NoNode})

\* Nothing is under way between agents, broker and server.
Quiet ==
  /\ server = "on" /\ inbox = <<>> /\ work = <<>> /\ will = {}
  /\ \A a \in Agents : agent[a] # "off"

\* An agent that reconnects while the server has lost its connection or restarts:
\* the server may have cleared the registration that it then misses.
BothLost == used["drop"] > 0 /\ used["sdrop"] + used["scrash"] > 0

\* When nothing is under way, the graph has exactly the modules of the agents
\* that are connected: wills, retained messages and resubscription together make
\* up for what was missed.  (Not so after a restart of an agent, whose last will
\* may come after the registration of the new process.)
Converged == Quiet /\ ~BothLost /\ used["crash"] = 0 => Registered = Present

\* No module of an agent that is gone stays in the graph, also when agents and
\* the server end and start again.
NoGhost == Quiet /\ ~BothLost => Registered \subseteq Present

\* The graph comes to have the modules of the connected agents and stays so.
EventuallyRegistered == <>[](Registered = Present \/ BothLost \/ used["crash"] > 0)
=============================================================================
