--------------------------- MODULE ResourceGraph ---------------------------
(***************************************************************************)
(* The resource graph of a server (resourcegraph.cc) under the two         *)
(* operations of the resource manager that change it: add_modules for an   *)
(* agent that comes online and del_modules for one that leaves.            *)
(*                                                                         *)
(* A node is in the graph or not; an edge from a storage to a DTN exists   *)
(* once at most, since add_edge looks for it.  An edge from a DTN to the   *)
(* gateway is counted: add_edge looks for it under the key of the gateway  *)
(* in the map, has_edge compares names of nodes, and so never finds it.    *)
(***************************************************************************)
EXTENDS Integers

CONSTANTS Dtns, Storages, Launchers, Sdns,   \* module ids by type
          Attached,                          \* the storages each DTN reports
          NoNode,                            \* a null pointer
          Dangling                           \* a pointer to a node erased since

Modules == Dtns \cup Storages \cup Launchers \cup Sdns

ASSUME GraphConstants ==
  /\ Attached \in [Dtns -> SUBSET Storages]
  /\ Dtns \cap Storages = {} /\ Dtns \cap Launchers = {} /\ Dtns \cap Sdns = {}
  /\ Storages \cap Launchers = {} /\ Storages \cap Sdns = {} /\ Launchers \cap Sdns = {}
  /\ NoNode \notin Modules
  /\ Dangling \notin Modules \cup {NoNode}

VARIABLES dtns,      \* dtn_nodes
          storages,  \* s_nodes
          launcher,  \* the general node of the launching agent
          sdn,       \* the general node of the SDN agent
          link,      \* edges from storages to DTNs
          gateway,   \* edges from each DTN to the gateway
          pdtn       \* the DTN pointer of each storage node (p_dtn)

gvars == <<dtns, storages, launcher, sdn, link, gateway, pdtn>>

\* Constructor of the resource manager: reset, then the gateway.
GInit ==
  /\ dtns = {} /\ storages = {}
  /\ launcher = NoNode /\ sdn = NoNode
  /\ link = {}
  /\ gateway = [d \in Dtns |-> 0]
  /\ pdtn = [s \in Storages |-> NoNode]

\* Links that iteration 2 of add_modules asks for.  An attached storage that is
\* not registered makes add_edge throw, which is caught.
NewLinks(ms) == {p \in storages' \X (ms \cap Dtns) : p[1] \in Attached[p[2]]}

\* set_one_dtn_node of every linked storage; the last DTN of the message wins.
PointStorages(ms) ==
  \E choice \in [Storages -> Dtns \cup {NoNode}] :
    /\ \A s \in Storages :
         LET ds == {d \in ms \cap Dtns : <<s, d>> \in NewLinks(ms)}
         IN  IF ds = {} THEN choice[s] = NoNode ELSE choice[s] \in ds
    /\ pdtn' = [s \in Storages |-> IF choice[s] = NoNode THEN pdtn[s] ELSE choice[s]]

\* One general node of a kind: a new one replaces the registered one.
Replace(ms, kind, current, next) ==
  IF ms \cap kind = {} THEN next = current ELSE next \in ms \cap kind

AddModules(ms) ==
  /\ dtns' = dtns \cup (ms \cap Dtns)
  /\ storages' = storages \cup (ms \cap Storages)
  /\ Replace(ms, Launchers, launcher, launcher')
  /\ Replace(ms, Sdns, sdn, sdn')
  /\ gateway' = [d \in Dtns |-> IF d \in ms THEN gateway[d] + 1 ELSE gateway[d]]
  /\ link' = link \cup NewLinks(ms)
  /\ PointStorages(ms)

\* Mutant: a node is erased with its own edge lists only.
DelModulesKeepLinks(ms) ==
  /\ dtns' = dtns \ ms
  /\ storages' = storages \ ms
  /\ launcher' = (IF launcher \in ms THEN NoNode ELSE launcher)
  /\ sdn' = (IF sdn \in ms THEN NoNode ELSE sdn)
  /\ gateway' = [d \in Dtns |-> IF d \in ms THEN 0 ELSE gateway[d]]
  /\ link' = {p \in link : p[1] \notin ms}
  /\ pdtn' = [s \in Storages |-> IF s \in ms THEN NoNode ELSE pdtn[s]]

\* del_node for every module of the message.  The edges go with their nodes; a
\* pointer of a storage node to an erased DTN node stays as it is.
DelModules(ms) ==
  /\ dtns' = dtns \ ms
  /\ storages' = storages \ ms
  /\ launcher' = (IF launcher \in ms THEN NoNode ELSE launcher)
  /\ sdn' = (IF sdn \in ms THEN NoNode ELSE sdn)
  /\ gateway' = [d \in Dtns |-> IF d \in ms THEN 0 ELSE gateway[d]]
  /\ link' = {p \in link : p[1] \notin ms /\ p[2] \notin ms}
  /\ pdtn' = [s \in Storages |->
       IF s \in ms THEN NoNode ELSE IF pdtn[s] \in ms THEN Dangling ELSE pdtn[s]]

GNext == \E ms \in SUBSET Modules : AddModules(ms) \/ DelModules(ms)

GSpec == GInit /\ [][GNext]_gvars

-----------------------------------------------------------------------------
(* What the server reads from the graph                                    *)

\* get_active_storage_list
ActiveStorages == {s \in storages : \E d \in dtns : <<s, d>> \in link}

\* get_active_dtn_list
ActiveDtns == {d \in dtns : gateway[d] > 0}

\* get_storage_connected_dtns
ConnectedDtns(s) == {d \in Dtns : <<s, d>> \in link}

\* get_active_dtn_topology: each active DTN with the storages linked to it.
Topology == [d \in ActiveDtns |-> {s \in Storages : <<s, d>> \in link}]

-----------------------------------------------------------------------------
(* Properties                                                              *)

\* Types of the graph.
GTypeOK ==
  /\ dtns \subseteq Dtns /\ storages \subseteq Storages
  /\ launcher \in Launchers \cup {NoNode} /\ sdn \in Sdns \cup {NoNode}
  /\ link \subseteq Storages \X Dtns
  /\ gateway \in [Dtns -> Nat]
  /\ pdtn \in [Storages -> Dtns \cup {NoNode, Dangling}]

\* The edges and pointers that add_modules and del_modules leave behind fit the
\* nodes: an edge joins registered nodes that were reported as attached, exactly
\* the registered DTNs reach the gateway, and a storage never points to a DTN it
\* has no edge to.
WellFormed ==
  /\ \A p \in link : p[1] \in storages /\ p[2] \in dtns /\ p[1] \in Attached[p[2]]
  /\ \A d \in Dtns : gateway[d] > 0 <=> d \in dtns
  /\ \A s \in Storages : pdtn[s] \in Dtns => <<s, pdtn[s]>> \in link

\* The lists given to the portal agree: every active storage is listed with an
\* active DTN in the topology, and every active DTN is a registered one.
ListsAgree ==
  /\ ActiveDtns = dtns
  /\ \A s \in ActiveStorages : \E d \in ActiveDtns : s \in Topology[d]
  /\ \A s \in Storages : ConnectedDtns(s) \subseteq ActiveDtns
=============================================================================
