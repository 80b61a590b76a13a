---------------------------- MODULE NetworkPath ----------------------------
(***************************************************************************)
(* The network path of an sjob between two private DTNs: how schedule()    *)
(* sets it up (network_handling, setup_wan_path, setup_sdn_path,           *)
(* verify_path), how any thread tears it down (teardown_sdn_path,          *)
(* teardown_wan_path), what the server of each site does with the SDN      *)
(* requests (sdn_reserve_request, sdn_release_request), and the WAN client *)
(* (wan.cc).  A path is up to three things in three places: a WAN service, *)
(* and at each site an SDN path with the DTN's route and neighbor entry.   *)
(*                                                                         *)
(* All sjobs here use one pair of DTNs, the case in which they can disturb *)
(* each other.  The WAN orchestrator and the SDN agents are external.      *)
(***************************************************************************)
EXTENDS Integers, FiniteSets

CONSTANTS Jobs,       \* the sjobs
          NoJob,      \* a thread at rest
          Enders,     \* threads of poll_rate and mld_status that end a transfer
          WanKinds,   \* what the configuration has: "static", "dynamic", "missing"
          SdnSites,   \* the sites whose DTN is in the LAN configuration
          SdnTries,   \* attempts of setup_sdn_path: 3 in the code
          WanTries,   \* attempts of release, terminate, del: 4 in the code
          PingTries,  \* attempts of verify_path: 5, or 30 over a dynamic WAN
          MaxLost     \* how many requests go wrong without an orderly refusal

Sites == {"src", "dst"}
Threads == {"schedule"} \cup Enders

ASSUME NetworkConstants ==
  /\ NoJob \notin Jobs
  /\ "schedule" \notin Enders
  /\ WanKinds \subseteq {"static", "dynamic", "missing"}
  /\ SdnSites \subseteq Sites
  /\ SdnTries \in Nat \ {0} /\ WanTries \in Nat \ {0} /\ PingTries \in Nat \ {0}
  /\ MaxLost \in Nat

VARIABLES
  phase,   \* of the sjob: new, setup, active, ended
  pc,      \* the code a thread runs next
  my,      \* the sjob it works on
  tries,   \* attempts made in the loop it is in
  uuid,    \* the server knows a WAN service of the sjob ("wan_uuid")
  id,      \* "path_id" of each side: none (-1), route (0: no SDN), sdn (> 0)
  wan,     \* the WAN service at the orchestrator
  held,    \* the SDN path with the known id is installed
  orphan,  \* SDN paths installed without the server knowing their id
  route,   \* per site: the DTN has a route and a neighbor entry for its peer
  torn,    \* a teardown of the sjob's path has been gone through
  lost     \* requests gone wrong so far

vars == <<phase, pc, my, tries, uuid, id, wan, held, orphan, route, torn, lost>>
known == <<uuid, id>>
places == <<wan, held, orphan, route>>

SetupPC == {"plan", "create", "reserve", "commit", "undo", "src", "dst", "verify"}
TearPC == {"release_src", "release_dst", "wan_release", "wan_terminate", "wan_delete"}
WanState == {"none", "created", "reserved", "committed", "released", "terminated", "deleted"}

Init ==
  /\ phase = [j \in Jobs |-> "new"]
  /\ pc = [t \in Threads |-> "idle"]
  /\ my = [t \in Threads |-> NoJob]
  /\ tries = [t \in Threads |-> 0]
  /\ uuid = [j \in Jobs |-> FALSE]
  /\ id = [j \in Jobs |-> [w \in Sites |-> "none"]]
  /\ wan = [j \in Jobs |-> "none"]
  /\ held = [j \in Jobs |-> [w \in Sites |-> FALSE]]
  /\ orphan = [j \in Jobs |-> [w \in Sites |-> 0]]
  /\ route = [w \in Sites |-> FALSE]
  /\ torn = [j \in Jobs |-> FALSE]
  /\ lost = 0

-----------------------------------------------------------------------------
(* Shared pieces                                                           *)

At(t, label) == pc[t] = label

\* On to other code; its loop starts counting anew.
Goto(t, label) ==
  /\ pc' = [pc EXCEPT ![t] = label]
  /\ tries' = [tries EXCEPT ![t] = 0]
  /\ UNCHANGED my

\* Mutant: the last attempt starts the count anew instead of leaving the loop.
AgainForever(t, n, label) ==
  /\ tries' = [tries EXCEPT ![t] = (@ + 1) % n]
  /\ UNCHANGED <<pc, my>>

\* One more attempt of a loop of at most n, or what follows the last.
Again(t, n, label) ==
  IF tries[t] + 1 < n
  THEN tries' = [tries EXCEPT ![t] = @ + 1] /\ UNCHANGED <<pc, my>>
  ELSE Goto(t, label)

Orderly == UNCHANGED lost
GoesWrong == lost < MaxLost /\ lost' = lost + 1

\* Where schedule() goes after an error: schedule_clean_up tears down whatever
\* the ids name.
CleanUp == "release_src"

-----------------------------------------------------------------------------
(* Set-up, by schedule(), one sjob at a time                               *)

\* Mutant: an sjob that has ended is taken up again.
BeginAgain(j) ==
  /\ At("schedule", "idle")
  /\ phase[j] \in {"new", "ended"}
  /\ phase' = [phase EXCEPT ![j] = "setup"]
  /\ pc' = [pc EXCEPT !["schedule"] = "plan"]
  /\ my' = [my EXCEPT !["schedule"] = j]
  /\ UNCHANGED <<tries, known, places, torn, lost>>

Begin(j) ==
  /\ At("schedule", "idle")
  /\ phase[j] = "new"
  /\ phase' = [phase EXCEPT ![j] = "setup"]
  /\ pc' = [pc EXCEPT !["schedule"] = "plan"]
  /\ my' = [my EXCEPT !["schedule"] = j]
  /\ UNCHANGED <<tries, known, places, torn, lost>>

\* network_handling: a static WAN path first, a dynamic one else.
Plan ==
  /\ At("schedule", "plan")
  /\ \/ "static" \in WanKinds /\ Goto("schedule", "src")
     \/ "dynamic" \in WanKinds /\ Goto("schedule", "create")
     \/ "missing" \in WanKinds /\ Goto("schedule", CleanUp)
  /\ UNCHANGED <<phase, known, places, torn, lost>>

\* One request of setup_wan_path: it is done, it is refused, or it is done and
\* the server sees an error.
WanStep(from, to, next, onError) ==
  LET j == my["schedule"]
  IN  /\ At("schedule", from)
      /\ \/ wan' = [wan EXCEPT ![j] = to] /\ Goto("schedule", next) /\ Orderly
         \/ UNCHANGED wan /\ Goto("schedule", onError) /\ Orderly
         \/ wan' = [wan EXCEPT ![j] = to] /\ Goto("schedule", onError) /\ GoesWrong
      /\ UNCHANGED <<phase, held, orphan, route, torn>>

WanCreate == WanStep("create", "created", "reserve", CleanUp) /\ UNCHANGED known

\* Mutant: a failed reservation returns without wan.del (451).
WanReserveNoUndo == WanStep("reserve", "reserved", "commit", CleanUp) /\ UNCHANGED known

WanReserve == WanStep("reserve", "reserved", "commit", "undo") /\ UNCHANGED known

WanCommit ==
  /\ WanStep("commit", "committed", "src", "undo")
  /\ uuid' = [uuid EXCEPT ![my["schedule"]] = pc'["schedule"] = "src"]
  /\ UNCHANGED id

\* wan.del after a failed reserve or commit; its result is not looked at.
WanUndo ==
  LET j == my["schedule"]
  IN  /\ At("schedule", "undo")
      /\ \/ wan' = [wan EXCEPT ![j] = "deleted"] /\ Goto("schedule", CleanUp) /\ Orderly
         \/ UNCHANGED wan /\ Again("schedule", WanTries, CleanUp) /\ GoesWrong
      /\ UNCHANGED <<phase, known, held, orphan, route, torn>>

\* sdn_reserve_request at site w: the route is set before the SDN agent is
\* asked, and results of setting it are not looked at.  An answer without a
\* path id is a failed attempt, whatever happened at the site.
Refused(j, w) == UNCHANGED <<held, orphan, route, id>> /\ Orderly

RefusedBySdn(j, w) ==
  /\ w \in SdnSites
  /\ route' = [route EXCEPT ![w] = TRUE]
  /\ UNCHANGED <<held, orphan, id>>
  /\ Orderly

Installed(j, w) ==
  /\ route' = [route EXCEPT ![w] = TRUE]
  /\ id' = [id EXCEPT ![j][w] = IF w \in SdnSites THEN "sdn" ELSE "route"]
  /\ held' = [held EXCEPT ![j][w] = w \in SdnSites]
  /\ UNCHANGED orphan
  /\ Orderly

AnswerLost(j, w) ==
  /\ route' = [route EXCEPT ![w] = TRUE]
  /\ orphan' = [orphan EXCEPT ![j][w] = IF w \in SdnSites THEN @ + 1 ELSE @]
  /\ UNCHANGED <<held, id>>
  /\ GoesWrong

\* Mutant: after the last attempt the set-up goes on.
SdnReserveIgnored(w, next) ==
  LET j == my["schedule"]
  IN  /\ At("schedule", w)
      /\ \/ Installed(j, w) /\ Goto("schedule", next)
         \/ Refused(j, w) /\ Again("schedule", SdnTries, next)
      /\ UNCHANGED <<phase, uuid, wan, torn>>

\* setup_sdn_path, one attempt at one site.
SdnReserve(w, next) ==
  LET j == my["schedule"]
  IN  /\ At("schedule", w)
      /\ \/ Installed(j, w) /\ Goto("schedule", next)
         \/ /\ Refused(j, w) \/ RefusedBySdn(j, w) \/ AnswerLost(j, w)
            /\ Again("schedule", SdnTries, CleanUp)
      /\ UNCHANGED <<phase, uuid, wan, torn>>

\* verify_path: an answer without a code, for one that never came, passes.
Verify ==
  LET j == my["schedule"]
  IN  /\ At("schedule", "verify")
      /\ \/ /\ phase' = [phase EXCEPT ![j] = "active"]
            /\ pc' = [pc EXCEPT !["schedule"] = "idle"]
            /\ my' = [my EXCEPT !["schedule"] = NoJob]
            /\ tries' = [tries EXCEPT !["schedule"] = 0]
         \/ Again("schedule", PingTries, CleanUp) /\ UNCHANGED phase
      /\ UNCHANGED <<known, places, torn, lost>>

Setup ==
  \/ \E j \in Jobs : Begin(j)
  \/ Plan \/ WanCreate \/ WanReserve \/ WanCommit \/ WanUndo
  \/ SdnReserve("src", "dst") \/ SdnReserve("dst", "verify")
  \/ Verify

-----------------------------------------------------------------------------
(* Teardown, by any thread                                                 *)

\* A thread of poll_rate or mld_status ends the transfer.  Two may do so for
\* the same sjob, and the second may come late.
End(t, j) ==
  /\ t \in Enders
  /\ At(t, "idle")
  /\ phase[j] \in {"active", "ended"}
  /\ pc' = [pc EXCEPT ![t] = "release_src"]
  /\ my' = [my EXCEPT ![t] = j]
  /\ UNCHANGED <<phase, tries, known, places, torn, lost>>

\* sdn_release_request at site w: the SDN path first, then the route, which is
\* left when the SDN agent or the DTN is offline.
Unreached == UNCHANGED <<held, route>> /\ GoesWrong

Released(j, w) ==
  /\ held' = [held EXCEPT ![j][w] = FALSE]
  /\ \/ route' = [route EXCEPT ![w] = FALSE] /\ Orderly
     \/ UNCHANGED route /\ GoesWrong

\* teardown_sdn_path at one site; the answer is not looked at.
SdnRelease(t, w, label, next) ==
  LET j == my[t]
  IN  /\ At(t, label)
      /\ IF id[j][w] = "none" THEN UNCHANGED <<held, route, lost>>
         ELSE Released(j, w) \/ Unreached
      /\ Goto(t, next)
      /\ UNCHANGED <<phase, known, wan, orphan, torn>>

\* The thread is done: the sjob is set to error or finished.
Done(t) ==
  /\ phase' = [phase EXCEPT ![my[t]] = "ended"]
  /\ torn' = [torn EXCEPT ![my[t]] = TRUE]
  /\ pc' = [pc EXCEPT ![t] = IF t = "schedule" THEN "idle" ELSE "done"]
  /\ my' = [my EXCEPT ![t] = NoJob]
  /\ tries' = [tries EXCEPT ![t] = 0]

\* One attempt of a WAN request of teardown_wan_path: the orchestrator takes it
\* from the state before; when all attempts fail the rest is skipped.
WanGiveBack(t, label, from, to, next) ==
  LET j == my[t]
  IN  /\ At(t, label)
      /\ uuid[j]
      /\ \/ /\ wan[j] = from
            /\ wan' = [wan EXCEPT ![j] = to]
            /\ IF next = "done" THEN Done(t) ELSE Goto(t, next) /\ UNCHANGED <<phase, torn>>
            /\ Orderly
         \/ /\ UNCHANGED wan
            /\ IF tries[t] + 1 < WanTries
               THEN tries' = [tries EXCEPT ![t] = @ + 1] /\ UNCHANGED <<pc, my, phase, torn>>
               ELSE Done(t)
            /\ IF wan[j] = from THEN GoesWrong ELSE Orderly
      /\ UNCHANGED <<known, held, orphan, route>>

\* No WAN service to give back.
NoWan(t) ==
  /\ At(t, "wan_release")
  /\ ~uuid[my[t]]
  /\ Done(t)
  /\ UNCHANGED <<known, places, lost>>

TearDown(t) ==
  \/ \E j \in Jobs : End(t, j)
  \/ SdnRelease(t, "src", "release_src", "release_dst")
  \/ SdnRelease(t, "dst", "release_dst", "wan_release")
  \/ NoWan(t)
  \/ WanGiveBack(t, "wan_release", "committed", "released", "wan_terminate")
  \/ WanGiveBack(t, "wan_terminate", "released", "terminated", "wan_delete")
  \/ WanGiveBack(t, "wan_delete", "terminated", "deleted", "done")

Next == Setup \/ \E t \in Threads : TearDown(t)

Spec == Init /\ [][Next]_vars

FairSpec == Spec /\ WF_vars(Setup) /\ \A t \in Threads : WF_vars(TearDown(t))
-----------------------------------------------------------------------------
(* Properties                                                              *)

\* Types of the state: documents, places and thread counters.
TypeOK ==
  /\ phase \in [Jobs -> {"new", "setup", "active", "ended"}]
  /\ pc \in [Threads -> {"idle", "done"} \cup SetupPC \cup TearPC]
  /\ my \in [Threads -> Jobs \cup {NoJob}]
  /\ tries \in [Threads -> Nat]
  /\ uuid \in [Jobs -> BOOLEAN]
  /\ id \in [Jobs -> [Sites -> {"none", "route", "sdn"}]]
  /\ wan \in [Jobs -> WanState]
  /\ held \in [Jobs -> [Sites -> BOOLEAN]]
  /\ orphan \in [Jobs -> [Sites -> Nat]]
  /\ route \in [Sites -> BOOLEAN]
  /\ torn \in [Jobs -> BOOLEAN]
  /\ lost \in 0..MaxLost

Busy(j) == \E t \in Threads : my[t] = j
Over(j) == phase[j] = "ended" /\ ~Busy(j)

\* What sjobs that are over do leave behind is bounded by the requests that went
\* wrong: one lost request costs at most one WAN service or one SDN path.
LeftIsLost ==
  (\A j \in Jobs : phase[j] = "new" \/ Over(j)) =>
    LET Services == {j \in Jobs : wan[j] \notin {"none", "deleted"}}
        Paths == {p \in Jobs \X Sites : held[p[1]][p[2]] \/ orphan[p[1]][p[2]] > 0}
    IN  Cardinality(Services) + Cardinality(Paths) <= lost

\* An sjob whose transfer is running and that no thread works on has all of its
\* path: a complete WAN service when the server knows one, and the SDN path of
\* each site that has an SDN (schedule() goes on only after verify_path).
ActiveIsComplete ==
  \A j \in Jobs : phase[j] = "active" /\ ~Busy(j) =>
    /\ wan[j] = IF uuid[j] THEN "committed" ELSE "none"
    /\ \A w \in Sites : held[j][w] <=> w \in SdnSites

\* A set-up under way ends, with a running transfer or a torn-down path, and a
\* teardown that was begun is gone through: every loop of schedule() is bounded, so
\* one sjob cannot stop the others.
PathWorkEnds ==
  /\ \A j \in Jobs : phase[j] = "setup" ~> phase[j] \in {"active", "ended"}
  /\ \A t \in Threads : pc[t] \in TearPC ~> pc[t] \in {"idle", "done"}

\* The path as PathLifecycle sees it: held once the server has a handle on any
\* part of it, released once a teardown is through.
PathOf(j) ==
  IF ~uuid[j] /\ \A w \in Sites : id[j][w] = "none" THEN "none"
  ELSE IF torn[j] THEN "released" ELSE "held"

Lifecycle == INSTANCE PathLifecycle WITH
  Owners <- Jobs, path <- [j \in Jobs |-> PathOf(j)]

\* The reservations implement the life cycle that TransferJob relies on: the
\* path of an sjob is acquired once and is never revived after its teardown.
ImplementsLifecycle == Lifecycle!PathSpec
=============================================================================
