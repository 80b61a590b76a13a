-------------------------- MODULE NetworkPath_proofs ------------------------
(***************************************************************************)
(* For any sjobs, threads, requests gone wrong and attempts: the network   *)
(* paths that the server sets up and tears down.                           *)
(***************************************************************************)
EXTENDS NetworkPath, FiniteSetTheorems, TLAPS

-----------------------------------------------------------------------------
(* The network paths                                                       *)

Labels == {"idle", "done"} \cup SetupPC \cup TearPC

\* Who works on what: schedule() on an sjob in set-up, the other threads on one that
\* is active or ended, and the end of a teardown ends the sjob.
WorkOK ==
  /\ \A t \in Enders : pc[t] \notin SetupPC
  /\ \A t \in Threads : pc[t] \in {"idle", "done"} <=> my[t] = NoJob
  /\ my["schedule"] # NoJob => phase[my["schedule"]] = "setup"
  /\ \A t \in Enders : my[t] # NoJob => phase[my[t]] \in {"active", "ended"}
  /\ \A j \in Jobs : torn[j] <=> phase[j] = "ended"

NoSdn(j) == \A w \in Sites : id[j][w] = "none" /\ ~held[j][w]
Bare(j) == ~uuid[j] /\ wan[j] = "none" /\ NoSdn(j)
WanWhole(j) == wan[j] = IF uuid[j] THEN "committed" ELSE "none"
SdnWhole(j, w) == held[j][w] <=> w \in SdnSites

\* How much of the path there is at each stage of the set-up.
StageOK ==
  /\ \A j \in Jobs : phase[j] = "new" => Bare(j)
  /\ LET j == my["schedule"]
         at == pc["schedule"]
     IN  /\ at \in {"plan", "create"} => Bare(j)
         /\ at = "reserve" => NoSdn(j) /\ ~uuid[j] /\ wan[j] = "created"
         /\ at = "commit" => NoSdn(j) /\ ~uuid[j] /\ wan[j] = "reserved"
         /\ at \in {"src", "dst", "verify"} => WanWhole(j)
         /\ at = "src" => NoSdn(j)
         /\ at \in {"dst", "verify"} => SdnWhole(j, "src")
         /\ at = "verify" => SdnWhole(j, "dst")

PathInv == TypeOK /\ WorkOK /\ StageOK /\ ActiveIsComplete

\* The initial state has no path and no work.
LEMMA PathInitInv == Init => PathInv
<1> SUFFICES ASSUME Init PROVE PathInv
  BY Zenon
<1>1. TypeOK
  BY NetworkConstants DEF Init, TypeOK, SetupPC, TearPC, WanState, Sites, Threads
<1>2. WorkOK
  BY NetworkConstants, Zenon DEF Init, WorkOK, SetupPC, Threads
<1>3. StageOK
  BY Zenon DEF Init, StageOK, Bare, NoSdn, Threads, Sites
<1>4. ActiveIsComplete
  BY Zenon DEF Init, ActiveIsComplete
<1> QED BY <1>1, <1>2, <1>3, <1>4, Zenon DEF PathInv

\* "schedule" is a thread of its own.
LEMMA ScheduleThread == "schedule" \in Threads /\ Enders \subseteq Threads /\ "schedule" \notin Enders
  BY NetworkConstants, Zenon DEF Threads

ThreadTypes ==
  /\ pc \in [Threads -> Labels]
  /\ my \in [Threads -> Jobs \cup {NoJob}]
  /\ tries \in [Threads -> Nat]

\* A thread that goes elsewhere stays typed.
LEMMA GotoTypes ==
  ASSUME ThreadTypes, NEW t \in Threads, NEW label \in Labels, Goto(t, label)
  PROVE  ThreadTypes'
  BY Zenon DEF ThreadTypes, Goto

\* One more attempt, or what follows the last, stays typed.
LEMMA AgainTypes ==
  ASSUME ThreadTypes, NEW t \in Threads, NEW label \in Labels, NEW n, Again(t, n, label)
  PROVE  ThreadTypes'
<1>1. CASE tries[t] + 1 < n
  BY <1>1 DEF ThreadTypes, Again
<1>2. CASE ~(tries[t] + 1 < n)
  BY <1>2, GotoTypes, Zenon DEF Again
<1> QED BY <1>1, <1>2, Zenon

\* Documents and places, as TypeOK has them.
DocTypes ==
  /\ phase \in [Jobs -> {"new", "setup", "active", "ended"}]
  /\ uuid \in [Jobs -> BOOLEAN]
  /\ torn \in [Jobs -> BOOLEAN]

PlaceTypes ==
  /\ id \in [Jobs -> [Sites -> {"none", "route", "sdn"}]]
  /\ wan \in [Jobs -> WanState]
  /\ held \in [Jobs -> [Sites -> BOOLEAN]]
  /\ orphan \in [Jobs -> [Sites -> Nat]]
  /\ route \in [Sites -> BOOLEAN]
  /\ lost \in 0..MaxLost

\* Every step of the set-up keeps the types.
LEMMA SetupTypes == TypeOK /\ WorkOK /\ Setup => TypeOK'
<1> SUFFICES ASSUME ThreadTypes, DocTypes, PlaceTypes, WorkOK, Setup
             PROVE  ThreadTypes' /\ DocTypes' /\ PlaceTypes'
  BY Zenon DEF TypeOK, ThreadTypes, DocTypes, PlaceTypes, Labels
<1> USE ScheduleThread
<1> DEFINE j == my["schedule"]
<1>0. pc["schedule"] \in SetupPC => j \in Jobs
  BY Zenon DEF WorkOK, ThreadTypes, SetupPC
<1>a. {"src", "dst", "verify", "create", "reserve", "commit", "undo", CleanUp, "idle", "plan"} \subseteq Labels
  BY Zenon DEF Labels, SetupPC, TearPC, CleanUp
<1>b. "src" \in Sites /\ "dst" \in Sites
  BY Zenon DEF Sites
<1>c. MaxLost \in Nat
  BY NetworkConstants, Zenon
<1>1. ASSUME NEW k \in Jobs, Begin(k) PROVE ThreadTypes' /\ DocTypes' /\ PlaceTypes'
  BY <1>1, <1>a, Zenon DEF Begin, ThreadTypes, DocTypes, PlaceTypes, known, places
<1>2. CASE Plan
  <2>1. ThreadTypes'
    BY <1>2, <1>a, GotoTypes, Zenon DEF Plan
  <2> QED BY <1>2, <2>1, Zenon DEF Plan, DocTypes, PlaceTypes, known, places
<1>3. ASSUME NEW from, NEW to \in WanState, NEW next \in Labels, NEW onError \in Labels,
             from \in SetupPC, WanStep(from, to, next, onError)
      PROVE  /\ ThreadTypes'
             /\ UNCHANGED <<phase, torn, held, orphan, route>>
             /\ wan' \in [Jobs -> WanState] /\ lost' \in 0..MaxLost
  <2>1. ThreadTypes'
    BY <1>3, GotoTypes, Zenon DEF WanStep
  <2>2. j \in Jobs
    BY <1>0, <1>3, Zenon DEF WanStep, At
  <2>3. wan' \in [Jobs -> WanState]
    BY <1>3, <2>2, Zenon DEF WanStep, PlaceTypes
  <2>4. lost' \in 0..MaxLost
    BY <1>3, <1>c DEF WanStep, PlaceTypes, Orderly, GoesWrong
  <2> QED BY <1>3, <2>1, <2>3, <2>4, Zenon DEF WanStep
<1>d. {"created", "reserved", "committed", "deleted"} \subseteq WanState /\ {"create", "reserve", "commit"} \subseteq SetupPC
  BY Zenon DEF WanState, SetupPC
<1>4. CASE WanCreate
  BY <1>3, <1>4, <1>a, <1>d, Zenon DEF WanCreate, known, DocTypes, PlaceTypes
<1>5. CASE WanReserve
  BY <1>3, <1>5, <1>a, <1>d, Zenon DEF WanReserve, known, DocTypes, PlaceTypes
<1>6. CASE WanCommit
  <2>1. uuid' \in [Jobs -> BOOLEAN]
    BY <1>6, Zenon DEF WanCommit, DocTypes
  <2>2. WanStep("commit", "committed", "src", "undo") /\ UNCHANGED id
    BY <1>6, Zenon DEF WanCommit
  <2> QED BY <1>3, <2>1, <2>2, <1>a, <1>d, Zenon DEF DocTypes, PlaceTypes
<1>7. CASE WanUndo
  <2>1. ThreadTypes'
    BY <1>7, <1>a, GotoTypes, AgainTypes, Zenon DEF WanUndo
  <2>2. wan' \in [Jobs -> WanState]
    BY <1>7, <1>d, Zenon DEF WanUndo, PlaceTypes
  <2>3. lost' \in 0..MaxLost
    BY <1>7, <1>c DEF WanUndo, PlaceTypes, Orderly, GoesWrong
  <2> QED BY <1>7, <2>1, <2>2, <2>3, Zenon DEF WanUndo, known, DocTypes, PlaceTypes
<1>8. ASSUME NEW w \in Sites, w \in SetupPC, NEW next \in Labels, SdnReserve(w, next)
      PROVE  ThreadTypes' /\ DocTypes' /\ PlaceTypes'
  <2>1. ThreadTypes'
    BY <1>8, <1>a, GotoTypes, AgainTypes, Zenon DEF SdnReserve
  <2>2. j \in Jobs
    BY <1>0, <1>8, Zenon DEF SdnReserve, At
  <2>3. /\ id' \in [Jobs -> [Sites -> {"none", "route", "sdn"}]]
        /\ held' \in [Jobs -> [Sites -> BOOLEAN]]
        /\ orphan' \in [Jobs -> [Sites -> Nat]]
    <3>1. CASE Installed(j, w)
      <4>1. (w \in SdnSites) \in BOOLEAN /\ (IF w \in SdnSites THEN "sdn" ELSE "route") \in {"none", "route", "sdn"}
        OBVIOUS
      <4> QED BY <2>2, <3>1, <4>1, Zenon DEF Installed, PlaceTypes
    <3>2. CASE AnswerLost(j, w)
      BY <2>2, <3>2 DEF AnswerLost, PlaceTypes
    <3>3. CASE Refused(j, w) \/ RefusedBySdn(j, w)
      BY <3>3, Zenon DEF Refused, RefusedBySdn, PlaceTypes
    <3> QED BY <1>8, <3>1, <3>2, <3>3, Zenon DEF SdnReserve
  <2>4. route' \in [Sites -> BOOLEAN]
    BY <1>8, Zenon DEF SdnReserve, Installed, Refused, RefusedBySdn, AnswerLost, PlaceTypes
  <2>5. lost' \in 0..MaxLost
    BY <1>8, <1>c DEF SdnReserve, Installed, Refused, RefusedBySdn, AnswerLost, PlaceTypes, Orderly, GoesWrong
  <2> QED BY <1>8, <2>1, <2>3, <2>4, <2>5, Zenon DEF SdnReserve, DocTypes, PlaceTypes
<1>9. CASE Verify
  <2>1. ThreadTypes'
    <3>1. CASE Again("schedule", PingTries, CleanUp)
      BY <1>a, <3>1, AgainTypes, Zenon
    <3>2. CASE ~Again("schedule", PingTries, CleanUp)
      BY <1>9, <3>2, <1>a DEF Verify, ThreadTypes
    <3> QED BY <3>1, <3>2, Zenon
  <2> QED BY <1>9, <2>1, Zenon DEF Verify, known, places, DocTypes, PlaceTypes
<1>e. {"src", "dst"} \subseteq SetupPC
  BY Zenon DEF SetupPC
<1> QED BY <1>1, <1>2, <1>4, <1>5, <1>6, <1>7, <1>8, <1>9, <1>a, <1>b, <1>e, Zenon DEF Setup

-----------------------------------------------------------------------------
\* Every step of a teardown keeps the types.
LEMMA TearTypes == ASSUME NEW t \in Threads PROVE TypeOK /\ WorkOK /\ TearDown(t) => TypeOK'
<1> SUFFICES ASSUME ThreadTypes, DocTypes, PlaceTypes, WorkOK, TearDown(t)
             PROVE  ThreadTypes' /\ DocTypes' /\ PlaceTypes'
  BY Zenon DEF TypeOK, ThreadTypes, DocTypes, PlaceTypes, Labels
<1> DEFINE j == my[t]
<1>0. pc[t] \in TearPC => j \in Jobs
  BY Zenon DEF WorkOK, ThreadTypes, TearPC
<1>a. TearPC \cup {"idle", "done"} \subseteq Labels
  BY Zenon DEF Labels
<1>b. {"released", "terminated", "deleted"} \subseteq WanState
  BY Zenon DEF WanState
<1>c. MaxLost \in Nat
  BY NetworkConstants, Zenon
<1>1. ASSUME NEW k \in Jobs, End(t, k) PROVE ThreadTypes' /\ DocTypes' /\ PlaceTypes'
  <2>1. "release_src" \in Labels
    BY <1>a, Zenon DEF TearPC
  <2> QED BY <1>1, <2>1, Zenon DEF End, ThreadTypes, DocTypes, PlaceTypes, known, places
<1>2. ASSUME NEW w \in Sites, NEW label \in TearPC, NEW next \in TearPC, SdnRelease(t, w, label, next)
      PROVE  ThreadTypes' /\ DocTypes' /\ PlaceTypes'
  <2>1. ThreadTypes'
    BY <1>2, <1>a, GotoTypes, Zenon DEF SdnRelease
  <2>2. j \in Jobs
    BY <1>0, <1>2, Zenon DEF SdnRelease, At
  <2>3. held' \in [Jobs -> [Sites -> BOOLEAN]] /\ route' \in [Sites -> BOOLEAN]
    <3>1. CASE UNCHANGED <<held, route>>
      BY <3>1, Zenon DEF PlaceTypes
    <3>2. CASE Released(j, w)
      BY <2>2, <3>2, Zenon DEF Released, PlaceTypes
    <3> QED BY <1>2, <3>1, <3>2, Zenon DEF SdnRelease, Unreached
  <2>4. lost' \in 0..MaxLost
    BY <1>2, <1>c DEF SdnRelease, Released, Unreached, PlaceTypes, Orderly, GoesWrong
  <2> QED BY <1>2, <2>1, <2>3, <2>4, Zenon DEF SdnRelease, known, DocTypes, PlaceTypes
<1>3. ASSUME Done(t) PROVE ThreadTypes' /\ phase' \in [Jobs -> {"new", "setup", "active", "ended"}] /\ torn' \in [Jobs -> BOOLEAN]
  <2>1. ThreadTypes'
    <3>1. (IF t = "schedule" THEN "idle" ELSE "done") \in Labels
      BY <1>a, Zenon
    <3> QED BY <1>3, <3>1, Zenon DEF Done, ThreadTypes
  <2> QED BY <1>3, <2>1, Zenon DEF Done, DocTypes
<1>4. CASE NoWan(t)
  BY <1>3, <1>4, Zenon DEF NoWan, known, places, DocTypes, PlaceTypes
<1>5. ASSUME NEW label \in TearPC, NEW from, NEW to \in WanState, NEW next \in TearPC \cup {"done"},
             WanGiveBack(t, label, from, to, next)
      PROVE  ThreadTypes' /\ DocTypes' /\ PlaceTypes'
  <2>1. ThreadTypes' /\ phase' \in [Jobs -> {"new", "setup", "active", "ended"}] /\ torn' \in [Jobs -> BOOLEAN]
    <3>1. CASE Done(t)
      BY <1>3, <3>1, Zenon
    <3>2. CASE Goto(t, next) /\ UNCHANGED <<phase, torn>>
      BY <1>a, <3>2, GotoTypes, Zenon DEF DocTypes
    <3>3. CASE tries' = [tries EXCEPT ![t] = @ + 1] /\ UNCHANGED <<pc, my, phase, torn>>
      BY <3>3 DEF ThreadTypes, DocTypes
    <3> QED BY <1>5, <3>1, <3>2, <3>3, Zenon DEF WanGiveBack
  <2>2. wan' \in [Jobs -> WanState]
    BY <1>5, Zenon DEF WanGiveBack, PlaceTypes
  <2>3. lost' \in 0..MaxLost
    BY <1>5, <1>c DEF WanGiveBack, PlaceTypes, Orderly, GoesWrong
  <2> QED BY <1>5, <2>1, <2>2, <2>3, Zenon DEF WanGiveBack, known, DocTypes, PlaceTypes
<1>6. {"src", "dst"} \subseteq Sites /\ {"release_src", "release_dst", "wan_release", "wan_terminate", "wan_delete"} = TearPC
  BY Zenon DEF Sites, TearPC
<1> QED BY <1>1, <1>2, <1>4, <1>5, <1>6, <1>b, Zenon DEF TearDown

-----------------------------------------------------------------------------
\* What a thread does to its own place, in both kinds of moves.
LEMMA Moves ==
  ASSUME TypeOK, NEW t \in Threads, NEW label, NEW n, Goto(t, label) \/ Again(t, n, label)
  PROVE  my' = my /\ \A u \in Threads : pc'[u] = IF u = t /\ pc' # pc THEN label ELSE pc[u]
  BY ZenonT(30) DEF TypeOK, Goto, Again

\* The set-up keeps to its own sjob.
LEMMA SetupWork == TypeOK /\ WorkOK /\ Setup => WorkOK'
<1> SUFFICES ASSUME TypeOK, WorkOK, Setup PROVE WorkOK'
  BY Zenon
<1> USE ScheduleThread
<1>1. ASSUME NEW k \in Jobs, Begin(k) PROVE WorkOK'
  BY <1>1, NetworkConstants DEF Begin, WorkOK, TypeOK, SetupPC, At
<1>2. ASSUME pc["schedule"] \in SetupPC, NEW label \in (SetupPC \cup TearPC), NEW n,
             Goto("schedule", label) \/ Again("schedule", n, label), UNCHANGED <<phase, torn>>
      PROVE  WorkOK'
  <2>1. my' = my /\ \A u \in Threads : pc'[u] = IF u = "schedule" /\ pc' # pc THEN label ELSE pc[u]
    BY <1>2, Moves, Zenon
  <2>2. my["schedule"] # NoJob /\ label \notin {"idle", "done"}
    BY <1>2, Zenon DEF WorkOK, SetupPC, TearPC
  <2> QED BY <1>2, <2>1, <2>2, ZenonT(30) DEF WorkOK, SetupPC
<1>a. {"src", "dst", "verify", "create", "reserve", "commit", "undo", CleanUp, "plan"} \subseteq SetupPC \cup TearPC
  BY Zenon DEF SetupPC, TearPC, CleanUp
<1>b. {"src", "dst", "verify", "create", "reserve", "commit", "undo", "plan"} = SetupPC
  BY Zenon DEF SetupPC
<1>3. CASE Plan
  BY <1>2, <1>3, <1>a, <1>b, Zenon DEF Plan, At
<1>4. CASE WanCreate
  BY <1>2, <1>4, <1>a, <1>b, Zenon DEF WanCreate, WanStep, At
<1>5. CASE WanReserve
  BY <1>2, <1>5, <1>a, <1>b, Zenon DEF WanReserve, WanStep, At
<1>6. CASE WanCommit
  BY <1>2, <1>6, <1>a, <1>b, Zenon DEF WanCommit, WanStep, At
<1>7. CASE WanUndo
  BY <1>2, <1>7, <1>a, <1>b, Zenon DEF WanUndo, At
<1>8. CASE SdnReserve("src", "dst")
  BY <1>2, <1>8, <1>a, <1>b, Zenon DEF SdnReserve, At
<1>9. CASE SdnReserve("dst", "verify")
  BY <1>2, <1>9, <1>a, <1>b, Zenon DEF SdnReserve, At
<1>10. CASE Verify
  <2>1. CASE Again("schedule", PingTries, CleanUp) /\ UNCHANGED phase
    BY <1>2, <1>10, <1>a, <1>b, <2>1, Zenon DEF Verify, At
  <2>2. CASE ~(Again("schedule", PingTries, CleanUp) /\ UNCHANGED phase)
    <3> DEFINE j == my["schedule"]
    <3>1. j \in Jobs /\ phase[j] = "setup"
      BY <1>10, Zenon DEF Verify, WorkOK, TypeOK, At
    <3>2. /\ phase' = [phase EXCEPT ![j] = "active"] /\ UNCHANGED torn
          /\ pc' = [pc EXCEPT !["schedule"] = "idle"] /\ my' = [my EXCEPT !["schedule"] = NoJob]
      BY <1>10, <2>2, Zenon DEF Verify
    <3>3. \A k \in Jobs : phase'[k] = IF k = j THEN "active" ELSE phase[k]
      BY <3>2, Zenon DEF TypeOK
    <3>4. \A u \in Threads : pc'[u] = (IF u = "schedule" THEN "idle" ELSE pc[u]) /\ my'[u] = (IF u = "schedule" THEN NoJob ELSE my[u])
      BY <3>2, Zenon DEF TypeOK
    <3>5. \A u \in Enders : my[u] # NoJob => my[u] \in Jobs
      BY Zenon DEF TypeOK
    <3> QED BY <3>1, <3>2, <3>3, <3>4, <3>5 DEF WorkOK, SetupPC
  <2> QED BY <2>1, <2>2, Zenon
<1> QED BY <1>1, <1>3, <1>4, <1>5, <1>6, <1>7, <1>8, <1>9, <1>10, Zenon DEF Setup

\* A teardown ends its sjob, which is not the one in set-up by another thread.
LEMMA TearWork == ASSUME NEW t \in Threads PROVE TypeOK /\ WorkOK /\ TearDown(t) => WorkOK'
<1> SUFFICES ASSUME TypeOK, WorkOK, TearDown(t) PROVE WorkOK'
  BY Zenon
<1> USE ScheduleThread
<1>1. ASSUME NEW k \in Jobs, End(t, k) PROVE WorkOK'
  BY <1>1, NetworkConstants DEF End, WorkOK, TypeOK, SetupPC, At
<1>2. ASSUME pc[t] \in TearPC, NEW label \in TearPC, Goto(t, label), UNCHANGED <<phase, torn>> PROVE WorkOK'
  <2>1. my[t] # NoJob /\ label \notin {"idle", "done"} /\ label \notin SetupPC
    BY <1>2, Zenon DEF WorkOK, SetupPC, TearPC
  <2> QED BY <1>2, <2>1, ZenonT(30) DEF WorkOK, Goto, TypeOK
<1>3. ASSUME pc[t] \in TearPC, Done(t) PROVE WorkOK'
  <2>1. my[t] \in Jobs
    BY <1>3, Zenon DEF WorkOK, TypeOK, TearPC
  <2> DEFINE j == my[t]
  <2>2. \A k \in Jobs : phase'[k] = (IF k = j THEN "ended" ELSE phase[k]) /\ torn'[k] = (IF k = j THEN TRUE ELSE torn[k])
    BY <1>3, Zenon DEF Done, TypeOK
  <2>3. \A u \in Threads : /\ my'[u] = IF u = t THEN NoJob ELSE my[u]
                           /\ pc'[u] = IF u = t THEN (IF t = "schedule" THEN "idle" ELSE "done") ELSE pc[u]
    BY <1>3, Zenon DEF Done, TypeOK
  <2>4. \A u \in Threads : my[u] # NoJob => my[u] \in Jobs
    BY Zenon DEF TypeOK
  <2>5. t # "schedule" => t \in Enders
    BY Zenon DEF Threads
  <2>6. my'["schedule"] # NoJob => phase'[my'["schedule"]] = "setup"
    <3> SUFFICES ASSUME my'["schedule"] # NoJob PROVE phase'[my'["schedule"]] = "setup"
      BY Zenon
    <3>1. t # "schedule" /\ my'["schedule"] = my["schedule"] /\ my["schedule"] \in Jobs /\ phase[my["schedule"]] = "setup"
      BY <2>3, <2>4, Zenon DEF WorkOK
    <3>2. j # NoJob /\ phase[j] \in {"active", "ended"}
      BY <2>1, <2>5, <3>1, NetworkConstants, ZenonT(30) DEF WorkOK
    <3> QED BY <2>2, <3>1, <3>2, Zenon
  <2>7. \A u \in Enders : my'[u] # NoJob => phase'[my'[u]] \in {"active", "ended"}
    <3> SUFFICES ASSUME NEW u \in Enders, my'[u] # NoJob PROVE phase'[my'[u]] \in {"active", "ended"}
      BY Zenon
    <3>1. u # t /\ my'[u] = my[u] /\ my[u] \in Jobs /\ phase[my[u]] \in {"active", "ended"}
      BY <2>3, <2>4, Zenon DEF WorkOK
    <3> QED BY <2>2, <3>1, Zenon
  <2>8. \A u \in Enders : pc'[u] \notin SetupPC
    BY <2>3, ZenonT(30) DEF WorkOK, SetupPC
  <2>9. \A u \in Threads : pc'[u] \in {"idle", "done"} <=> my'[u] = NoJob
    BY <2>3, ZenonT(40) DEF WorkOK
  <2>10. \A k \in Jobs : torn'[k] <=> phase'[k] = "ended"
    BY <2>2, ZenonT(30) DEF WorkOK
  <2> QED BY <2>6, <2>7, <2>8, <2>9, <2>10, Zenon DEF WorkOK
<1>4. {"release_src", "release_dst", "wan_release", "wan_terminate", "wan_delete"} = TearPC
  BY Zenon DEF TearPC
<1>5. CASE SdnRelease(t, "src", "release_src", "release_dst") \/ SdnRelease(t, "dst", "release_dst", "wan_release")
  BY <1>2, <1>4, <1>5, Zenon DEF SdnRelease, At
<1>6. CASE NoWan(t)
  BY <1>3, <1>4, <1>6, Zenon DEF NoWan, At
<1>7. ASSUME NEW label \in TearPC, NEW from, NEW to, NEW next \in TearPC \cup {"done"},
             WanGiveBack(t, label, from, to, next)
      PROVE  WorkOK'
  <2>1. CASE Done(t)
    BY <1>3, <1>7, <2>1, Zenon DEF WanGiveBack, At
  <2>2. CASE next # "done" /\ Goto(t, next) /\ UNCHANGED <<phase, torn>>
    BY <1>2, <1>7, <2>2, Zenon DEF WanGiveBack, At
  <2>3. CASE UNCHANGED <<pc, my, phase, torn>>
    BY <2>3, Zenon DEF WorkOK
  <2> QED BY <1>7, <2>1, <2>2, <2>3, Zenon DEF WanGiveBack
<1> QED BY <1>1, <1>4, <1>5, <1>6, <1>7, Zenon DEF TearDown

-----------------------------------------------------------------------------
\* The set-up installs a path piece by piece.
LEMMA SetupStage == TypeOK /\ WorkOK /\ StageOK /\ Setup => StageOK'
<1> SUFFICES ASSUME TypeOK, WorkOK, StageOK, Setup PROVE StageOK'
  BY Zenon
<1> USE ScheduleThread
<1> DEFINE j == my["schedule"]
<1>0. pc["schedule"] \in SetupPC => j \in Jobs /\ phase[j] = "setup"
  BY ZenonT(30) DEF WorkOK, TypeOK, SetupPC
<1>1. ASSUME NEW k \in Jobs, Begin(k) PROVE StageOK'
  <2>1. Bare(k)'
    BY <1>1, Zenon DEF Begin, StageOK, Bare, NoSdn, known, places
  <2>2. pc'["schedule"] = "plan" /\ my'["schedule"] = k
    BY <1>1, Zenon DEF Begin, TypeOK
  <2>3. \A i \in Jobs : phase'[i] = "new" => Bare(i)'
    BY <1>1, Zenon DEF Begin, StageOK, Bare, NoSdn, known, places, TypeOK
  <2> QED BY <2>1, <2>2, <2>3, Zenon DEF StageOK
\* the sjobs not yet begun are not touched
<1>2. ASSUME pc["schedule"] \in SetupPC, UNCHANGED phase,
             \A i \in Jobs \ {j} : uuid'[i] = uuid[i] /\ wan'[i] = wan[i] /\ id'[i] = id[i] /\ held'[i] = held[i]
      PROVE  \A i \in Jobs : phase'[i] = "new" => Bare(i)'
  BY <1>0, <1>2 DEF StageOK, Bare, NoSdn
<1>3. CASE Plan
  <2>1. pc["schedule"] \in SetupPC /\ my' = my /\ pc'["schedule"] \in {"src", "create", CleanUp} /\ Bare(j)
    BY <1>3, ZenonT(30) DEF Plan, At, Goto, TypeOK, SetupPC, StageOK
  <2>2. Bare(j)' /\ WanWhole(j)' /\ NoSdn(j)'
    BY <1>3, <2>1, Zenon DEF Plan, known, places, Bare, NoSdn, WanWhole
  <2>3. \A i \in Jobs : phase'[i] = "new" => Bare(i)'
    BY <1>2, <1>3, <2>1, Zenon DEF Plan, known, places
  <2> QED BY <2>1, <2>2, <2>3, Zenon DEF StageOK, CleanUp
<1>4. ASSUME NEW from \in SetupPC, NEW to, NEW next, NEW onError, WanStep(from, to, next, onError)
      PROVE  /\ pc["schedule"] = from /\ my' = my
             /\ \/ pc'["schedule"] = next /\ wan'[j] = to
                \/ pc'["schedule"] = onError
             /\ \A i \in Jobs \ {j} : wan'[i] = wan[i] /\ held'[i] = held[i]
             /\ UNCHANGED <<phase, held>>
  BY <1>0, <1>4, ZenonT(30) DEF WanStep, At, Goto, TypeOK
<1>5. CASE WanCreate
  <2>1. WanStep("create", "created", "reserve", CleanUp) /\ UNCHANGED <<uuid, id>> /\ "create" \in SetupPC
    BY <1>5, Zenon DEF WanCreate, known, SetupPC
  <2>2. NoSdn(j) /\ ~uuid[j]
    BY <2>1, <1>4, Zenon DEF StageOK, Bare
  <2>3. NoSdn(j)' /\ ~uuid'[j]
    BY <1>4, <2>1, <2>2, Zenon DEF NoSdn
  <2>4. \A i \in Jobs : phase'[i] = "new" => Bare(i)'
    BY <1>2, <1>4, <2>1, Zenon
  <2> QED BY <1>4, <2>1, <2>3, <2>4 DEF StageOK, CleanUp
<1>6. CASE WanReserve
  <2>1. WanStep("reserve", "reserved", "commit", "undo") /\ UNCHANGED <<uuid, id>> /\ "reserve" \in SetupPC
    BY <1>6, Zenon DEF WanReserve, known, SetupPC
  <2>2. NoSdn(j) /\ ~uuid[j]
    BY <2>1, <1>4, Zenon DEF StageOK
  <2>3. NoSdn(j)' /\ ~uuid'[j]
    BY <1>4, <2>1, <2>2, Zenon DEF NoSdn
  <2>4. \A i \in Jobs : phase'[i] = "new" => Bare(i)'
    BY <1>2, <1>4, <2>1, Zenon
  <2> QED BY <1>4, <2>1, <2>3, <2>4 DEF StageOK
<1>7. CASE WanCommit
  <2>1. WanStep("commit", "committed", "src", "undo") /\ UNCHANGED id /\ "commit" \in SetupPC
    BY <1>7, Zenon DEF WanCommit, SetupPC
  <2>2. j \in Jobs /\ NoSdn(j)
    BY <1>0, <2>1, <1>4, Zenon DEF StageOK
  <2>3. NoSdn(j)' /\ (\A i \in Jobs \ {j} : uuid'[i] = uuid[i]) /\ (pc'["schedule"] = "src" => uuid'[j])
    BY <1>4, <1>7, <2>1, <2>2, ZenonT(30) DEF NoSdn, WanCommit, TypeOK
  <2>4. \A i \in Jobs : phase'[i] = "new" => Bare(i)'
    BY <1>2, <1>4, <2>1, <2>3, Zenon
  <2> QED BY <1>4, <2>1, <2>3, <2>4 DEF StageOK, WanWhole
<1>8. CASE WanUndo
  <2>1. pc["schedule"] = "undo" /\ pc["schedule"] \in SetupPC /\ my' = my /\ pc'["schedule"] \in {"undo", CleanUp}
    BY <1>8, ZenonT(30) DEF WanUndo, At, Goto, Again, TypeOK, SetupPC
  <2>2. \A i \in Jobs \ {j} : uuid'[i] = uuid[i] /\ wan'[i] = wan[i] /\ id'[i] = id[i] /\ held'[i] = held[i]
    BY <1>8, Zenon DEF WanUndo, TypeOK, known
  <2>3. \A i \in Jobs : phase'[i] = "new" => Bare(i)'
    BY <1>2, <1>8, <2>1, <2>2, Zenon DEF WanUndo
  <2> QED BY <2>1, <2>3, Zenon DEF StageOK, CleanUp
<1>9. ASSUME NEW w \in Sites, w \in SetupPC, NEW next, SdnReserve(w, next)
      PROVE  /\ pc["schedule"] = w /\ my' = my /\ UNCHANGED <<phase, uuid, wan>>
             /\ \/ /\ pc'["schedule"] = next /\ SdnWhole(j, w)'
                   /\ \A v \in Sites \ {w} : held'[j][v] = held[j][v] /\ id'[j][v] = id[j][v]
                \/ pc'["schedule"] \in {w, CleanUp} /\ UNCHANGED <<held, id>>
             /\ \A i \in Jobs \ {j} : id'[i] = id[i] /\ held'[i] = held[i]
  <2>1. j \in Jobs /\ pc["schedule"] = w
    BY <1>0, <1>9, Zenon DEF SdnReserve, At
  <2>2. CASE Installed(j, w) /\ Goto("schedule", next)
    <3>1. held'[j][w] = (w \in SdnSites)
      BY <2>1, <2>2, Zenon DEF Installed, TypeOK
    <3>2. \A i \in Jobs \ {j} : id'[i] = id[i] /\ held'[i] = held[i]
      BY <2>1, <2>2, Zenon DEF Installed, TypeOK
    <3>3. \A v \in Sites \ {w} : held'[j][v] = held[j][v] /\ id'[j][v] = id[j][v]
      BY <2>1, <2>2, Zenon DEF Installed, TypeOK
    <3>4. pc'["schedule"] = next /\ my' = my
      BY <2>2, Zenon DEF Goto, TypeOK
    <3> QED BY <1>9, <2>1, <3>1, <3>2, <3>3, <3>4, Zenon DEF SdnReserve, SdnWhole
  <2>3. CASE UNCHANGED <<held, id>> /\ Again("schedule", SdnTries, CleanUp)
    <3>1. my' = my /\ pc'["schedule"] \in {w, CleanUp}
      BY <2>1, <2>3, Zenon DEF Again, Goto, TypeOK
    <3> QED BY <1>9, <2>1, <2>3, <3>1, Zenon DEF SdnReserve
  <2> QED BY <1>9, <2>2, <2>3, Zenon DEF SdnReserve, Refused, RefusedBySdn, AnswerLost
<1>a. {"src", "dst"} \subseteq Sites /\ {"src", "dst"} \subseteq SetupPC
  BY Zenon DEF Sites, SetupPC
<1>10. CASE SdnReserve("src", "dst")
  <2>1. \A i \in Jobs : phase'[i] = "new" => Bare(i)'
    BY <1>2, <1>9, <1>10, <1>a, Zenon
  <2>2. WanWhole(j)'
    BY <1>9, <1>10, <1>a, Zenon DEF StageOK, WanWhole
  <2>3. pc'["schedule"] = "dst" => SdnWhole(j, "src")'
    BY <1>9, <1>10, <1>a, Zenon DEF CleanUp
  <2>4. pc'["schedule"] = "src" => NoSdn(j)'
    BY <1>9, <1>10, <1>a DEF StageOK, NoSdn, CleanUp
  <2>5. my' = my /\ pc'["schedule"] \in {"src", "dst", CleanUp}
    BY <1>9, <1>10, <1>a, Zenon
  <2> QED BY <2>1, <2>2, <2>3, <2>4, <2>5, Zenon DEF StageOK, CleanUp
<1>11. CASE SdnReserve("dst", "verify")
  <2>1. \A i \in Jobs : phase'[i] = "new" => Bare(i)'
    BY <1>2, <1>9, <1>11, <1>a, Zenon
  <2>2. WanWhole(j)'
    BY <1>9, <1>11, <1>a, Zenon DEF StageOK, WanWhole
  <2>3. pc'["schedule"] = "verify" => SdnWhole(j, "dst")'
    BY <1>9, <1>11, <1>a, Zenon DEF CleanUp
  <2>4. pc'["schedule"] \in {"dst", "verify"} => SdnWhole(j, "src")'
    BY <1>9, <1>11, <1>a DEF StageOK, SdnWhole, CleanUp
  <2>5. my' = my /\ pc'["schedule"] \in {"dst", "verify", CleanUp}
    BY <1>9, <1>11, <1>a, Zenon
  <2> QED BY <2>1, <2>2, <2>3, <2>4, <2>5, Zenon DEF StageOK, CleanUp
<1>12. CASE Verify
  <2>1. pc["schedule"] = "verify" /\ pc["schedule"] \in SetupPC /\ j \in Jobs /\ UNCHANGED <<uuid, id, wan, held>>
    BY <1>0, <1>12, Zenon DEF Verify, At, SetupPC, known, places
  <2>2. \A i \in Jobs : phase'[i] = "new" => phase[i] = "new"
    BY <1>12, <2>1, Zenon DEF Verify, TypeOK
  <2>3. \A i \in Jobs : phase'[i] = "new" => Bare(i)'
    BY <2>1, <2>2, Zenon DEF StageOK, Bare, NoSdn
  <2>4. pc'["schedule"] \in {"idle", CleanUp} \/ (my' = my /\ pc'["schedule"] = "verify")
    BY <1>12, <2>1, Zenon DEF Verify, Again, Goto, TypeOK
  <2>5. my' = my => WanWhole(j)' /\ SdnWhole(j, "src")' /\ SdnWhole(j, "dst")'
    <3>1. WanWhole(j) /\ SdnWhole(j, "src") /\ SdnWhole(j, "dst")
      BY <2>1, Zenon DEF StageOK
    <3> QED BY <2>1, <3>1, Zenon DEF WanWhole, SdnWhole
  <2> QED BY <2>3, <2>4, <2>5, Zenon DEF StageOK, CleanUp
<1> QED BY <1>1, <1>3, <1>5, <1>6, <1>7, <1>8, <1>10, <1>11, <1>12, Zenon DEF Setup

\* What a step of a teardown leaves alone: all sjobs but its own, and the ids.
TearLeaves(t) ==
  /\ UNCHANGED <<uuid, id>>
  /\ \A i \in Jobs : i # my[t] =>
       wan'[i] = wan[i] /\ held'[i] = held[i] /\ phase'[i] = phase[i] /\ torn'[i] = torn[i]
  /\ \A u \in Threads \ {t} : pc'[u] = pc[u] /\ my'[u] = my[u]
  /\ pc'[t] \in TearPC \cup {"idle", "done"}
  /\ \/ UNCHANGED <<phase, torn, my>> /\ pc[t] \in TearPC
     \/ /\ \E k \in Jobs : End(t, k)
        /\ UNCHANGED <<phase, torn, wan, held>>
     \/ pc[t] \in TearPC /\ Done(t)

\* Every step of a teardown is of that kind.
LEMMA TearFrame ==
  ASSUME TypeOK, NEW t \in Threads, TearDown(t) PROVE TearLeaves(t)
<1>1. ASSUME NEW k \in Jobs, End(t, k) PROVE TearLeaves(t)
  BY <1>1, Zenon DEF End, known, places, TypeOK, TearPC, TearLeaves
<1>2. ASSUME NEW w \in Sites, NEW label \in TearPC, NEW next \in TearPC, SdnRelease(t, w, label, next) PROVE TearLeaves(t)
  <2>1. \A i \in Jobs : i # my[t] => held'[i] = held[i]
    BY <1>2, Zenon DEF SdnRelease, Released, Unreached, TypeOK
  <2>2. my' = my /\ pc'[t] = next /\ \A u \in Threads \ {t} : pc'[u] = pc[u]
    BY <1>2, Zenon DEF SdnRelease, Goto, TypeOK
  <2> QED BY <1>2, <2>1, <2>2, Zenon DEF SdnRelease, At, known, TearLeaves
<1>3. ASSUME Done(t), pc[t] \in TearPC, UNCHANGED <<uuid, id, held>>, \A i \in Jobs : i # my[t] => wan'[i] = wan[i]
      PROVE  TearLeaves(t)
  BY <1>3, Zenon DEF Done, TypeOK, TearLeaves
<1>4. CASE NoWan(t)
  BY <1>3, <1>4, Zenon DEF NoWan, At, TearPC, known, places
<1>5. ASSUME NEW label \in TearPC, NEW from, NEW to, NEW next \in TearPC \cup {"done"},
             WanGiveBack(t, label, from, to, next)
      PROVE  TearLeaves(t)
  <2>1. pc[t] \in TearPC /\ UNCHANGED <<uuid, id, held>> /\ \A i \in Jobs : i # my[t] => wan'[i] = wan[i]
    BY <1>5, Zenon DEF WanGiveBack, At, known, TypeOK
  <2>2. CASE Done(t)
    BY <1>3, <2>1, <2>2, Zenon
  <2>3. CASE Goto(t, next) /\ UNCHANGED <<phase, torn>>
    BY <2>1, <2>3, Zenon DEF Goto, TypeOK, TearLeaves
  <2>4. CASE UNCHANGED <<pc, my, phase, torn>>
    BY <2>1, <2>4, Zenon DEF TearLeaves
  <2> QED BY <1>5, <2>2, <2>3, <2>4, Zenon DEF WanGiveBack
<1>6. {"src", "dst"} \subseteq Sites /\ {"release_src", "release_dst", "wan_release", "wan_terminate", "wan_delete"} = TearPC
  BY Zenon DEF Sites, TearPC
<1> QED BY <1>1, <1>2, <1>4, <1>5, <1>6, Zenon DEF TearDown

\* A teardown touches neither the sjobs not yet begun nor the one in set-up.
LEMMA TearStage == ASSUME NEW t \in Threads PROVE TypeOK /\ WorkOK /\ StageOK /\ TearDown(t) => StageOK'
<1> SUFFICES ASSUME TypeOK, WorkOK, StageOK, TearDown(t) PROVE StageOK'
  BY Zenon
<1> USE ScheduleThread
<1>1. TearLeaves(t)
  BY TearFrame, Zenon
<1>2. \A i \in Jobs : phase[i] = "new" => i # my[t]
  BY NetworkConstants DEF WorkOK, Threads
<1>3. \A i \in Jobs : phase'[i] = "new" => phase[i] = "new"
  <2>1. CASE UNCHANGED phase
    BY <2>1, Zenon
  <2>2. CASE Done(t)
    BY <2>2, Zenon DEF Done, TypeOK
  <2> QED BY <1>1, <2>1, <2>2, Zenon DEF TearLeaves
<1>4. \A i \in Jobs : phase'[i] = "new" => Bare(i)'
  BY <1>1, <1>2, <1>3 DEF TearLeaves, StageOK, Bare, NoSdn
<1>5. CASE t = "schedule"
  <2>1. pc'["schedule"] \notin SetupPC
    BY <1>1, <1>5, Zenon DEF TearLeaves, TearPC, SetupPC
  <2> QED BY <1>4, <2>1, Zenon DEF StageOK, SetupPC
<1>6. CASE t # "schedule"
  <2> DEFINE j == my["schedule"]
  <2>1. pc'["schedule"] = pc["schedule"] /\ my'["schedule"] = j
    BY <1>1, <1>6, Zenon DEF TearLeaves
  <2>2. CASE pc["schedule"] \notin SetupPC
    BY <1>4, <2>1, <2>2, Zenon DEF StageOK, SetupPC
  <2>3. CASE pc["schedule"] \in SetupPC
    <3>1. j \in Jobs /\ phase[j] = "setup" /\ t \in Enders
      BY <1>6, <2>3, ZenonT(30) DEF WorkOK, TypeOK, SetupPC, Threads
    <3>2. j # my[t]
      BY <3>1, NetworkConstants DEF WorkOK
    <3>3. wan'[j] = wan[j] /\ held'[j] = held[j] /\ uuid' = uuid /\ id' = id
      BY <1>1, <3>1, <3>2, Zenon DEF TearLeaves
    <3> QED BY <1>4, <2>1, <3>3 DEF StageOK, Bare, NoSdn, WanWhole, SdnWhole
  <2> QED BY <2>2, <2>3, Zenon
<1> QED BY <1>5, <1>6, Zenon

-----------------------------------------------------------------------------
\* An active sjob nobody works on: complete when verify_path lets it start, and left
\* alone until a thread takes it up to end it.
LEMMA SetupActive == TypeOK /\ WorkOK /\ StageOK /\ ActiveIsComplete /\ Setup => ActiveIsComplete'
<1> SUFFICES ASSUME TypeOK, WorkOK, StageOK, ActiveIsComplete, Setup,
                    NEW k \in Jobs, phase'[k] = "active", ~Busy(k)'
             PROVE  WanWhole(k)' /\ \A w \in Sites : SdnWhole(k, w)'
  BY Zenon DEF ActiveIsComplete, WanWhole, SdnWhole
<1> USE ScheduleThread
<1> DEFINE j == my["schedule"]
<1>0. pc["schedule"] \in SetupPC => j \in Jobs /\ phase[j] = "setup"
  BY ZenonT(30) DEF WorkOK, TypeOK, SetupPC
<1>1. CASE phase[k] = "active" /\ ~Busy(k)
  <2>1. WanWhole(k) /\ \A w \in Sites : SdnWhole(k, w)
    BY <1>1, Zenon DEF ActiveIsComplete, WanWhole, SdnWhole
  <2>2. uuid'[k] = uuid[k] /\ wan'[k] = wan[k] /\ held'[k] = held[k]
    <3>1. CASE \E i \in Jobs : Begin(i)
      BY <3>1, Zenon DEF Begin, known, places
    <3>2. CASE Plan \/ Verify
      BY <3>2, Zenon DEF Plan, Verify, known, places
    <3>3. j # k
      BY <1>1, Zenon DEF Busy
    <3>4. CASE WanCreate \/ WanReserve \/ WanCommit \/ WanUndo
      BY <3>3, <3>4, Zenon DEF WanCreate, WanReserve, WanCommit, WanUndo, WanStep, known, TypeOK
    <3>5. CASE SdnReserve("src", "dst") \/ SdnReserve("dst", "verify")
      BY <3>3, <3>5, Zenon DEF SdnReserve, Installed, Refused, RefusedBySdn, AnswerLost, TypeOK
    <3> QED BY <3>1, <3>2, <3>4, <3>5, Zenon DEF Setup
  <2> QED BY <2>1, <2>2, Zenon DEF WanWhole, SdnWhole
<1>2. CASE ~(phase[k] = "active" /\ ~Busy(k))
  <2>1. Verify /\ k = j
    <3>1. CASE \E i \in Jobs : Begin(i)
      <4>1. PICK i \in Jobs : Begin(i)
        BY <3>1, Zenon
      <4>2. phase[k] = "active"
        BY <4>1, Zenon DEF Begin, TypeOK
      <4>3. PICK t \in Threads : my[t] = k
        BY <1>2, <4>2, Zenon DEF Busy
      <4>4. t # "schedule"
        BY <4>1, <4>3, NetworkConstants, Zenon DEF Begin, At, WorkOK
      <4>5. my'[t] = k
        BY <4>1, <4>3, <4>4, Zenon DEF Begin, TypeOK
      <4> QED BY <4>5, Zenon DEF Busy
    <3>2. CASE UNCHANGED <<phase, my>>
      BY <1>2, <3>2, Zenon DEF Busy
    <3>3. CASE Verify
      <4>1. CASE k = j
        BY <3>3, <4>1, Zenon
      <4>2. CASE k # j
        <5>1. phase[k] = "active"
          BY <3>3, <4>2, Zenon DEF Verify, TypeOK
        <5>2. PICK t \in Threads : my[t] = k
          BY <1>2, <5>1, Zenon DEF Busy
        <5>3. my'[t] = k
          BY <3>3, <4>2, <5>2, Zenon DEF Verify, Again, Goto, TypeOK
        <5> QED BY <5>3, Zenon DEF Busy
      <4> QED BY <4>1, <4>2, Zenon
    <3>4. CASE ~Verify /\ ~(\E i \in Jobs : Begin(i))
      BY <3>2, <3>4, Zenon DEF Setup, Plan, WanCreate, WanReserve, WanCommit, WanUndo, WanStep, SdnReserve, Goto, Again
    <3> QED BY <3>1, <3>3, <3>4, Zenon
  <2>2. WanWhole(k) /\ SdnWhole(k, "src") /\ SdnWhole(k, "dst")
    BY <2>1, Zenon DEF Verify, At, StageOK
  <2> QED BY <2>1, <2>2, Zenon DEF Verify, known, places, WanWhole, SdnWhole, Sites
<1> QED BY <1>1, <1>2, Zenon

\* A teardown leaves an active sjob alone, or has taken it up before.
LEMMA TearActive ==
  ASSUME NEW t \in Threads PROVE TypeOK /\ WorkOK /\ ActiveIsComplete /\ TearDown(t) => ActiveIsComplete'
<1> SUFFICES ASSUME TypeOK, WorkOK, ActiveIsComplete, TearDown(t),
                    NEW k \in Jobs, phase'[k] = "active", ~Busy(k)'
             PROVE  WanWhole(k)' /\ \A w \in Sites : SdnWhole(k, w)'
  BY Zenon DEF ActiveIsComplete, WanWhole, SdnWhole
<1>1. TearLeaves(t)
  BY TearFrame, Zenon
<1>2. phase[k] = "active" /\ (k = my[t] => ~Done(t))
  BY <1>1, Zenon DEF TearLeaves, Done, TypeOK
<1>3. k # my[t]
  <2> SUFFICES ASSUME k = my[t] PROVE FALSE
    BY Zenon
  <2>1. my[t] # NoJob
    BY NetworkConstants, Zenon
  <2>2. my' = my
    BY <1>1, <1>2, <2>1, Zenon DEF TearLeaves, End, At, WorkOK
  <2> QED BY <2>2, Zenon DEF Busy
<1>4. ~Busy(k)
  BY <1>1, <1>3, Zenon DEF TearLeaves, Busy
<1>5. WanWhole(k) /\ \A w \in Sites : SdnWhole(k, w)
  BY <1>2, <1>4, Zenon DEF ActiveIsComplete, WanWhole, SdnWhole
<1> QED BY <1>1, <1>3, <1>5, Zenon DEF TearLeaves, WanWhole, SdnWhole

\* Every step keeps the invariant.
LEMMA PathStep == PathInv /\ [Next]_vars => PathInv'
<1> SUFFICES ASSUME PathInv, [Next]_vars PROVE PathInv'
  BY Zenon
<1>1. CASE Setup
  BY <1>1, SetupTypes, SetupWork, SetupStage, SetupActive, Zenon DEF PathInv
<1>2. ASSUME NEW t \in Threads, TearDown(t) PROVE PathInv'
  BY <1>2, TearTypes, TearWork, TearStage, TearActive, Zenon DEF PathInv
<1>3. CASE UNCHANGED vars
  <2>1. TypeOK' /\ WorkOK'
    BY <1>3, Zenon DEF PathInv, vars, TypeOK, WorkOK
  <2>2. StageOK'
    BY <1>3, Zenon DEF PathInv, vars, StageOK, Bare, NoSdn, WanWhole, SdnWhole
  <2>3. ActiveIsComplete'
    BY <1>3, Zenon DEF PathInv, vars, ActiveIsComplete, Busy
  <2> QED BY <2>1, <2>2, <2>3, Zenon DEF PathInv
<1> QED BY <1>1, <1>2, <1>3, Zenon DEF Next

\* The state stays typed, for any number of sjobs, threads, attempts and losses.
THEOREM PathTyped == Spec => []TypeOK
<1>1. PathInv => TypeOK
  BY Zenon DEF PathInv
<1> QED BY <1>1, PathInitInv, PathStep, PTL DEF Spec

\* A transfer that runs, and that no thread is about to end, has its whole path.
THEOREM ActivePathWhole == Spec => []ActiveIsComplete
<1>1. PathInv => ActiveIsComplete
  BY Zenon DEF PathInv
<1> QED BY <1>1, PathInitInv, PathStep, PTL DEF Spec

-----------------------------------------------------------------------------
(* The refinement: every step is a step of PathLifecycle, or none.         *)

PathMap == [j \in Jobs |-> PathOf(j)]

\* Without a change of the handles or of the end of the teardown the path stays.
LEMMA PathKept ==
  ASSUME NEW i \in Jobs, uuid'[i] = uuid[i], id'[i] = id[i], torn'[i] = torn[i]
  PROVE  PathOf(i)' = PathOf(i)
  BY Zenon DEF PathOf

\* One path that goes from none to held, or from held to released, is a step.
LEMMA OnePathMoves ==
  ASSUME NEW j \in Jobs, \A i \in Jobs \ {j} : PathOf(i)' = PathOf(i),
         \/ PathOf(j)' = PathOf(j)
         \/ PathOf(j) = "none" /\ PathOf(j)' = "held"
         \/ PathOf(j) = "held" /\ PathOf(j)' = "released"
  PROVE  Lifecycle!PathNext \/ UNCHANGED PathMap
<1>1. CASE PathOf(j)' = PathOf(j)
  BY <1>1, Zenon DEF PathMap
<1>2. CASE PathOf(j) = "none" /\ PathOf(j)' = "held"
  <2>1. \A i \in Jobs : PathOf(i)' = IF i = j THEN "held" ELSE PathOf(i)
    BY <1>2, Zenon
  <2>2. Lifecycle!Hold(j)
    <3>1. PathMap' = [PathMap EXCEPT ![j] = "held"]
      BY <2>1, Zenon DEF PathMap
    <3>2. PathMap[j] = "none"
      BY <1>2, Zenon DEF PathMap
    <3> QED BY <3>1, <3>2, Zenon DEF Lifecycle!Hold, PathMap
  <2> QED BY <2>2, Zenon DEF Lifecycle!PathNext
<1>3. CASE PathOf(j) = "held" /\ PathOf(j)' = "released"
  <2>1. Lifecycle!GiveBack(j)
    BY <1>3, Zenon DEF Lifecycle!GiveBack
  <2> QED BY <2>1, Zenon DEF Lifecycle!PathNext
<1> QED BY <1>1, <1>2, <1>3, Zenon

\* A step that changes no handle and ends no teardown moves no path.
LEMMA NoPathMoves ==
  ASSUME UNCHANGED <<uuid, id, torn>> PROVE UNCHANGED PathMap
  BY Zenon DEF PathMap, PathOf

\* The set-up acquires, the end of a teardown gives back.
LEMMA PathRefines == PathInv /\ [Next]_vars => Lifecycle!PathNext \/ UNCHANGED PathMap
<1> SUFFICES ASSUME PathInv, [Next]_vars PROVE Lifecycle!PathNext \/ UNCHANGED PathMap
  BY Zenon
<1> USE ScheduleThread DEF PathInv
<1>1. CASE UNCHANGED <<uuid, id, torn>>
  BY <1>1, NoPathMoves, Zenon
<1>2. CASE WanCommit
  <2> DEFINE j == my["schedule"]
  <2>1. pc["schedule"] = "commit" /\ UNCHANGED <<id, torn>>
    BY <1>2, Zenon DEF WanCommit, WanStep, At
  <2>2. j \in Jobs /\ phase[j] = "setup" /\ ~torn[j] /\ NoSdn(j) /\ ~uuid[j]
    BY <2>1, Zenon DEF WorkOK, StageOK, TypeOK
  <2>3. \A i \in Jobs \ {j} : uuid'[i] = uuid[i]
    BY <1>2, Zenon DEF WanCommit, TypeOK
  <2>4. PathOf(j) = "none"
    BY <2>2, Zenon DEF PathOf, NoSdn
  <2>5. \A i \in Jobs \ {j} : PathOf(i)' = PathOf(i)
    BY <2>1, <2>3, PathKept, Zenon
  <2>6. PICK k \in Jobs : k = j
    BY <2>2, Zenon
  <2>7. PathOf(k)' \in {"none", "held"}
    BY <2>1, <2>2, <2>6, Zenon DEF PathOf
  <2> QED BY <2>4, <2>5, <2>6, <2>7, OnePathMoves, Zenon
<1>3. ASSUME NEW w \in Sites, w \in SetupPC, NEW next, SdnReserve(w, next) PROVE Lifecycle!PathNext \/ UNCHANGED PathMap
  <2>1. PICK k \in Jobs : k = my["schedule"] /\ phase[k] = "setup" /\ ~torn[k]
    BY <1>3, ZenonT(30) DEF SdnReserve, At, WorkOK, TypeOK, SetupPC
  <2>2. CASE Installed(k, w)
    <3>1. UNCHANGED <<uuid, torn>> /\ \A i \in Jobs \ {k} : id'[i] = id[i]
      BY <1>3, <2>2, Zenon DEF SdnReserve, Installed, TypeOK
    <3>2. id'[k][w] # "none" /\ ~torn'[k]
      BY <2>1, <2>2, <3>1, ZenonT(30) DEF Installed, TypeOK
    <3>3. PathOf(k)' = "held"
      BY <3>2, Zenon DEF PathOf
    <3>4. PathOf(k) \in {"none", "held"}
      BY <2>1, Zenon DEF PathOf
    <3>5. \A i \in Jobs \ {k} : PathOf(i)' = PathOf(i)
      BY <3>1, PathKept, Zenon
    <3> QED BY <3>3, <3>4, <3>5, OnePathMoves, Zenon
  <2>3. CASE ~Installed(k, w)
    BY <1>1, <1>3, <2>1, <2>3, Zenon DEF SdnReserve, Refused, RefusedBySdn, AnswerLost
  <2> QED BY <2>2, <2>3, Zenon
<1>4. ASSUME NEW t \in Threads, pc[t] \in TearPC, Done(t), UNCHANGED <<uuid, id>>
      PROVE  Lifecycle!PathNext \/ UNCHANGED PathMap
  <2>1. PICK k \in Jobs : k = my[t]
    BY <1>4, Zenon DEF WorkOK, TypeOK, TearPC
  <2>2. torn'[k] /\ \A i \in Jobs \ {k} : torn'[i] = torn[i]
    BY <1>4, <2>1, Zenon DEF Done, TypeOK
  <2>3. \A i \in Jobs \ {k} : PathOf(i)' = PathOf(i)
    BY <1>4, <2>2, PathKept, Zenon
  <2>4. PathOf(k)' = IF PathOf(k) = "none" THEN "none" ELSE "released"
    <3>1. CASE ~uuid[k] /\ \A w \in Sites : id[k][w] = "none"
      BY <1>4, <3>1, Zenon DEF PathOf
    <3>2. CASE ~(~uuid[k] /\ \A w \in Sites : id[k][w] = "none")
      <4>1. PathOf(k)' = "released"
        BY <1>4, <2>2, <3>2, Zenon DEF PathOf
      <4>2. PathOf(k) # "none"
        BY <3>2, Zenon DEF PathOf
      <4> QED BY <4>1, <4>2, Zenon
    <3> QED BY <3>1, <3>2, Zenon
  <2>5. PathOf(k) \in {"none", "held", "released"}
    BY Zenon DEF PathOf
  <2> QED BY <2>3, <2>4, <2>5, OnePathMoves, Zenon
<1>5. ASSUME NEW t \in Threads, TearDown(t) PROVE Lifecycle!PathNext \/ UNCHANGED PathMap
  <2>1. TearLeaves(t)
    BY <1>5, TearFrame, Zenon
  <2> QED BY <1>1, <1>4, <2>1, Zenon DEF TearLeaves
<1>6. CASE Setup
  <2>1. {"src", "dst"} \subseteq Sites /\ {"src", "dst"} \subseteq SetupPC
    BY Zenon DEF Sites, SetupPC
  <2>2. CASE SdnReserve("src", "dst") \/ SdnReserve("dst", "verify")
    BY <1>3, <2>1, <2>2, Zenon
  <2>3. CASE ~(SdnReserve("src", "dst") \/ SdnReserve("dst", "verify") \/ WanCommit)
    <3>1. UNCHANGED <<uuid, id, torn>>
      BY <1>6, <2>3, Zenon DEF Setup, Begin, Plan, WanCreate, WanReserve, WanUndo, Verify, WanStep, known
    <3> QED BY <1>1, <3>1, Zenon
  <2> QED BY <1>2, <2>2, <2>3, Zenon
<1>7. CASE UNCHANGED vars
  BY <1>1, <1>7, Zenon DEF vars
<1> QED BY <1>5, <1>6, <1>7, Zenon DEF Next

\* For any sjobs, threads, attempts and losses: the reservations implement the life
\* cycle of a path, acquired at most once and never revived after its teardown.
THEOREM PathImplements == Spec => ImplementsLifecycle
<1>1. Init => Lifecycle!PathInit
  BY DEF Init, Lifecycle!PathInit, PathOf
<1>2. PathInv /\ [Next]_vars => [Lifecycle!PathNext]_PathMap
  BY PathRefines, Zenon
<1>3. PathMap = [j \in Jobs |-> PathOf(j)]
  BY Zenon DEF PathMap
<1> QED BY <1>1, <1>2, PathInitInv, PathStep, PTL DEF Spec, ImplementsLifecycle, Lifecycle!PathSpec, PathMap

-----------------------------------------------------------------------------
(* What a path leaves behind was lost                                      *)

\* A thread that still has to give back the WAN service of an sjob.
OwnsWan(t, j) ==
  /\ my[t] = j
  /\ \/ pc[t] \in {"reserve", "commit", "undo"}
     \/ uuid[j] /\ wan[j] = "committed" /\ pc[t] \in {"src", "dst", "verify", "release_src", "release_dst", "wan_release"}
     \/ wan[j] = "released" /\ pc[t] = "wan_terminate"
     \/ wan[j] = "terminated" /\ pc[t] = "wan_delete"

\* A thread that still has to release the SDN path of an sjob at a site.
OwnsPath(t, j, w) ==
  my[t] = j /\ pc[t] \in SetupPC \cup {"release_src"} \cup (IF w = "dst" THEN {"release_dst"} ELSE {})

\* A transfer that runs, and that nobody ends yet.
Runs(j) == phase[j] = "active" /\ ~Busy(j)

\* A WAN service, and an SDN path, that nobody will give back.
StuckWan(j) == wan[j] \notin {"none", "deleted"} /\ ~Runs(j) /\ \A t \in Threads : ~OwnsWan(t, j)
StuckPath(j, w) ==
  orphan[j][w] > 0 \/ (held[j][w] /\ ~Runs(j) /\ \A t \in Threads : ~OwnsPath(t, j, w))

StuckWans == {j \in Jobs : StuckWan(j)}
StuckPaths == {p \in Jobs \X Sites : StuckPath(p[1], p[2])}

\* The server has the id of a path that it holds, and each stuck service and path was
\* a request gone wrong.
KnownHeld == \A j \in Jobs, w \in Sites : held[j][w] => id[j][w] # "none"
StuckInv ==
  /\ KnownHeld
  /\ IsFiniteSet(StuckWans) /\ IsFiniteSet(StuckPaths)
  /\ Cardinality(StuckWans) + Cardinality(StuckPaths) <= lost

\* What a thread's step may add to what is stuck: nothing, or the one service or the one
\* path that a request gone wrong costs.
Costs(k) ==
  LET wanSame == StuckWan(k)' => StuckWan(k)
      pathSame(w) == StuckPath(k, w)' => StuckPath(k, w)
  IN  \/ lost' >= lost /\ wanSame /\ \A w \in Sites : pathSame(w)
      \/ lost' = lost + 1 /\ \A w \in Sites : pathSame(w)
      \/ lost' = lost + 1 /\ wanSame /\ \E w \in Sites : \A v \in Sites \ {w} : pathSame(v)

\* What a step of a thread on sjob k leaves alone: the other threads and the other sjobs.
WorksOn(t, k) ==
  /\ my[t] \in {k, NoJob} /\ my'[t] \in {k, NoJob}
  /\ \A u \in Threads \ {t} : pc'[u] = pc[u] /\ my'[u] = my[u]
  /\ \A i \in Jobs \ {k} :
       /\ phase'[i] = phase[i] /\ uuid'[i] = uuid[i] /\ wan'[i] = wan[i]
       /\ held'[i] = held[i] /\ orphan'[i] = orphan[i]

\* What is stuck of another sjob stays stuck, and nothing else becomes so.
LEMMA OthersStuck ==
  ASSUME NEW t \in Threads, NEW k \in Jobs, WorksOn(t, k), NEW i \in Jobs, i # k
  PROVE  (StuckWan(i)' <=> StuckWan(i)) /\ \A w \in Sites : StuckPath(i, w)' <=> StuckPath(i, w)
PROOF
<1>1. i # NoJob
  BY NetworkConstants, Zenon
<1>2. /\ phase'[i] = phase[i] /\ uuid'[i] = uuid[i] /\ wan'[i] = wan[i]
      /\ held'[i] = held[i] /\ orphan'[i] = orphan[i]
  BY Zenon DEF WorksOn
<1>3. \A u \in Threads : (my'[u] = i <=> my[u] = i) /\ (my[u] = i => pc'[u] = pc[u])
  BY <1>1, Zenon DEF WorksOn
<1>4. Runs(i)' <=> Runs(i)
  BY <1>2, <1>3, Zenon DEF Runs, Busy
<1>5. \A u \in Threads : OwnsWan(u, i)' <=> OwnsWan(u, i)
  BY <1>2, <1>3, Zenon DEF OwnsWan
<1>6. \A u \in Threads, w \in Sites : OwnsPath(u, i, w)' <=> OwnsPath(u, i, w)
  BY <1>3, Zenon DEF OwnsPath
<1>7. StuckWan(i)' <=> StuckWan(i)
  BY <1>2, <1>4, <1>5, Zenon DEF StuckWan
<1>8. \A w \in Sites : StuckPath(i, w)' <=> StuckPath(i, w)
  BY <1>2, <1>4, <1>6, Zenon DEF StuckPath
<1> QED BY <1>7, <1>8, Zenon

\* The cardinality of a finite set is a number, and one more element is one more.
LEMMA OneMore ==
  ASSUME NEW S, IsFiniteSet(S), NEW T, NEW x, T \subseteq S \cup {x}
  PROVE  /\ IsFiniteSet(T) /\ Cardinality(T) \in Nat /\ Cardinality(S) \in Nat
         /\ Cardinality(T) <= Cardinality(S) + 1
         /\ T \subseteq S => Cardinality(T) <= Cardinality(S)
PROOF
<1>1. IsFiniteSet(S \cup {x}) /\ Cardinality(S \cup {x}) <= Cardinality(S) + 1 /\ Cardinality(S) \in Nat
  BY FS_AddElement, FS_CardinalityType, SMTT(30)
<1>2. IsFiniteSet(T) /\ Cardinality(T) <= Cardinality(S \cup {x}) /\ Cardinality(T) \in Nat /\ Cardinality(S \cup {x}) \in Nat
  BY <1>1, FS_Subset, FS_CardinalityType
<1>3. T \subseteq S => Cardinality(T) <= Cardinality(S)
  BY FS_Subset
<1> QED BY <1>1, <1>2, <1>3

\* Then the count of what is stuck stays within the requests gone wrong.
LEMMA StuckCount ==
  ASSUME TypeOK, TypeOK', StuckInv, NEW t \in Threads, NEW k \in Jobs, WorksOn(t, k), Costs(k), KnownHeld'
  PROVE  StuckInv'
PROOF
<1>1. lost \in Nat /\ lost' \in Nat
  BY NetworkConstants DEF TypeOK
<1>2. \A i \in Jobs : i # k => (StuckWan(i)' <=> StuckWan(i))
  BY OthersStuck, Zenon
<1>3. \A p \in Jobs \X Sites : p[1] # k => (StuckPath(p[1], p[2])' <=> StuckPath(p[1], p[2]))
  <2> TAKE p \in Jobs \X Sites
  <2>1. p[1] \in Jobs /\ p[2] \in Sites
    BY Zenon
  <2>2. PICK i \in Jobs : i = p[1]
    BY <2>1, Zenon
  <2> QED BY <2>1, <2>2, OthersStuck, Zenon
<1>4. StuckWans' \subseteq StuckWans \cup {k}
  BY <1>2, Zenon DEF StuckWans
<1>5. (StuckWan(k)' => StuckWan(k)) => StuckWans' \subseteq StuckWans
  BY <1>2, Zenon DEF StuckWans
<1>6. ASSUME NEW w \in Sites, \A v \in Sites \ {w} : StuckPath(k, v)' => StuckPath(k, v)
      PROVE  StuckPaths' \subseteq StuckPaths \cup {<<k, w>>}
  BY <1>3, <1>6 DEF StuckPaths
<1>7. ASSUME \A v \in Sites : StuckPath(k, v)' => StuckPath(k, v)
      PROVE  StuckPaths' \subseteq StuckPaths
  BY <1>3, <1>7 DEF StuckPaths
<1>8. IsFiniteSet(StuckWans) /\ IsFiniteSet(StuckPaths) /\ Cardinality(StuckWans) + Cardinality(StuckPaths) <= lost
  BY Zenon DEF StuckInv
<1>9. /\ IsFiniteSet(StuckWans') /\ Cardinality(StuckWans') \in Nat /\ Cardinality(StuckWans) \in Nat
      /\ Cardinality(StuckWans') <= Cardinality(StuckWans) + 1
      /\ (StuckWan(k)' => StuckWan(k)) => Cardinality(StuckWans') <= Cardinality(StuckWans)
  BY <1>4, <1>5, <1>8, OneMore, Zenon
<1>10. ASSUME NEW w \in Sites, \A v \in Sites \ {w} : StuckPath(k, v)' => StuckPath(k, v)
       PROVE  /\ IsFiniteSet(StuckPaths') /\ Cardinality(StuckPaths') \in Nat /\ Cardinality(StuckPaths) \in Nat
              /\ Cardinality(StuckPaths') <= Cardinality(StuckPaths) + 1
  BY <1>6, <1>8, <1>10, OneMore, Zenon
<1>11. ASSUME \A v \in Sites : StuckPath(k, v)' => StuckPath(k, v)
       PROVE  /\ IsFiniteSet(StuckPaths') /\ Cardinality(StuckPaths') \in Nat /\ Cardinality(StuckPaths) \in Nat
              /\ Cardinality(StuckPaths') <= Cardinality(StuckPaths)
  BY <1>7, <1>8, <1>11, OneMore, Zenon
<1> DEFINE Fits == IsFiniteSet(StuckPaths') /\ Cardinality(StuckWans') + Cardinality(StuckPaths') <= lost'
<1>12. CASE lost' >= lost /\ (StuckWan(k)' => StuckWan(k)) /\ \A w \in Sites : StuckPath(k, w)' => StuckPath(k, w)
  <2>1. Fits
    BY <1>1, <1>8, <1>9, <1>11, <1>12, SMTT(30)
  <2> QED BY <1>9, <2>1, Zenon DEF StuckInv
<1>13. CASE lost' = lost + 1 /\ \A w \in Sites : StuckPath(k, w)' => StuckPath(k, w)
  <2>1. Fits
    BY <1>1, <1>8, <1>9, <1>11, <1>13, SMTT(30)
  <2> QED BY <1>9, <2>1, Zenon DEF StuckInv
<1>14. CASE lost' = lost + 1 /\ (StuckWan(k)' => StuckWan(k)) /\ \E w \in Sites : \A v \in Sites \ {w} : StuckPath(k, v)' => StuckPath(k, v)
  <2>1. Fits
    BY <1>1, <1>8, <1>9, <1>10, <1>14, SMTT(30)
  <2> QED BY <1>9, <2>1, Zenon DEF StuckInv
<1> QED BY <1>12, <1>13, <1>14, Zenon DEF Costs

\* A set-up whose thread stays on the sjob owns its SDN paths.
LEMMA SetupOwns ==
  ASSUME NEW k \in Jobs, my'["schedule"] = k, pc'["schedule"] \in SetupPC \cup {"release_src"},
         NEW w \in Sites, StuckPath(k, w)'
  PROVE  orphan'[k][w] > 0
PROOF
<1>1. OwnsPath("schedule", k, w)'
  BY Zenon DEF OwnsPath
<1> QED BY <1>1, ScheduleThread, Zenon DEF StuckPath

\* The set-up leaves a service behind only when a request went wrong, and a path only
\* when the answer to its reservation was lost.
LEMMA SetupCosts ==
  ASSUME PathInv, TypeOK', StuckInv, Setup
  PROVE  KnownHeld' /\ \E k \in Jobs : WorksOn("schedule", k) /\ Costs(k)
PROOF
<1> USE ScheduleThread
<1>j. PICK j : j = my["schedule"]
  BY Zenon
<1> USE <1>j
<1>0. /\ pc \in [Threads -> Labels] /\ my \in [Threads -> Jobs \cup {NoJob}]
      /\ phase \in [Jobs -> {"new", "setup", "active", "ended"}] /\ uuid \in [Jobs -> BOOLEAN]
      /\ wan \in [Jobs -> WanState] /\ id \in [Jobs -> [Sites -> {"none", "route", "sdn"}]]
      /\ held \in [Jobs -> [Sites -> BOOLEAN]] /\ orphan \in [Jobs -> [Sites -> Nat]] /\ lost \in Nat /\ lost' \in Nat
  BY NetworkConstants DEF PathInv, TypeOK, Labels
<1>1. pc["schedule"] \in SetupPC => j \in Jobs /\ phase[j] = "setup"
  BY Zenon DEF PathInv, WorkOK, TypeOK, SetupPC
<1>2. KnownHeld
  BY Zenon DEF StuckInv
<1>3. ASSUME UNCHANGED <<id, held>> PROVE KnownHeld'
  BY <1>2, <1>3, Zenon DEF KnownHeld
<1>4. ASSUME NEW label, NEW n, Goto("schedule", label) \/ Again("schedule", n, label)
      PROVE  /\ my' = my /\ \A u \in Threads \ {"schedule"} : pc'[u] = pc[u]
             /\ pc'["schedule"] \in {label, pc["schedule"]}
  BY <1>4, Moves, Zenon DEF PathInv
\* A path stays as it is with the set-up.
<1>5. ASSUME j \in Jobs, my' = my, pc'["schedule"] \in SetupPC \cup {"release_src"}, NEW w \in Sites,
             orphan'[j][w] = orphan[j][w]
      PROVE  StuckPath(j, w)' => StuckPath(j, w)
  BY <1>5, SetupOwns, Zenon DEF StuckPath
<1>6. ASSUME NEW k \in Jobs, Begin(k) PROVE KnownHeld' /\ WorksOn("schedule", k) /\ Costs(k)
  <2>1. j = NoJob /\ Bare(k)
    BY <1>6, Zenon DEF Begin, At, PathInv, WorkOK, StageOK
  <2>2. my'["schedule"] = k /\ pc'["schedule"] = "plan" /\ UNCHANGED <<id, wan, held, orphan, uuid, lost>>
    BY <1>0, <1>6, Zenon DEF Begin, known, places
  <2>3. WorksOn("schedule", k)
    BY <1>0, <1>6, <2>1, <2>2, Zenon DEF Begin, WorksOn
  <2>4. ~StuckWan(k)'
    BY <2>1, <2>2, Zenon DEF Bare, StuckWan
  <2>5. \A w \in Sites : StuckPath(k, w)' => StuckPath(k, w)
    BY <2>2, SetupOwns, Zenon DEF StuckPath, SetupPC
  <2>6. lost' >= lost
    BY <1>0, <2>2
  <2> QED BY <1>3, <2>2, <2>3, <2>4, <2>5, <2>6, Zenon DEF Costs
<1>7. ASSUME pc["schedule"] \in SetupPC, my' = my, \A u \in Threads \ {"schedule"} : pc'[u] = pc[u],
             \A i \in Jobs \ {j} : /\ phase'[i] = phase[i] /\ uuid'[i] = uuid[i] /\ wan'[i] = wan[i]
                                   /\ held'[i] = held[i] /\ orphan'[i] = orphan[i]
      PROVE  WorksOn("schedule", j)
  BY <1>7, Zenon DEF WorksOn
<1>8. CASE Plan
  <2>1. j \in Jobs /\ pc["schedule"] \in SetupPC /\ Bare(j)
    BY <1>1, <1>8, Zenon DEF Plan, At, SetupPC, PathInv, StageOK
  <2>2. my' = my /\ (\A u \in Threads \ {"schedule"} : pc'[u] = pc[u]) /\ pc'["schedule"] \in SetupPC \cup {"release_src"}
    BY <1>4, <1>8, Zenon DEF Plan, At, SetupPC, CleanUp
  <2>3. UNCHANGED <<phase, uuid, id, wan, held, orphan, lost>>
    BY <1>8, Zenon DEF Plan, known, places
  <2>4. ~StuckWan(j)'
    BY <2>1, <2>3, Zenon DEF Bare, StuckWan
  <2>5. lost' >= lost
    BY <1>0, <2>3
  <2>6. Costs(j)
    BY <1>5, <2>1, <2>2, <2>3, <2>4, <2>5, Zenon DEF Costs
  <2> QED BY <1>3, <1>7, <2>1, <2>2, <2>3, <2>6, Zenon
\* A request of setup_wan_path.
<1>9. ASSUME NEW from \in {"create", "reserve", "commit"}, NEW to, NEW next \in SetupPC, NEW onError \in {"undo", "release_src"},
             WanStep(from, to, next, onError), UNCHANGED id,
             \A i \in Jobs \ {j} : uuid'[i] = uuid[i]
      PROVE  /\ j \in Jobs /\ KnownHeld' /\ WorksOn("schedule", j)
             /\ my' = my /\ pc'["schedule"] \in {next, onError}
             /\ wan'[j] = (IF wan' = wan THEN wan[j] ELSE to)
             /\ \A w \in Sites : StuckPath(j, w)' => StuckPath(j, w)
             /\ lost' >= lost
             /\ (StuckWan(j)' => StuckWan(j)) \/ lost' = lost + 1 => Costs(j)
  <2>1. j \in Jobs /\ pc["schedule"] \in SetupPC
    BY <1>1, <1>9, Zenon DEF WanStep, At, SetupPC
  <2>2. my' = my /\ (\A u \in Threads \ {"schedule"} : pc'[u] = pc[u]) /\ pc'["schedule"] \in {next, onError}
    BY <1>0, <1>9, Zenon DEF WanStep, Goto
  <2>3. UNCHANGED <<phase, id, held, orphan>>
    BY <1>9, Zenon DEF WanStep
  <2>4. wan'[j] = (IF wan' = wan THEN wan[j] ELSE to) /\ \A i \in Jobs \ {j} : wan'[i] = wan[i]
    BY <1>0, <1>9, <2>1, Zenon DEF WanStep
  <2>5. lost' >= lost
    BY <1>0, <1>9 DEF WanStep, Orderly, GoesWrong
  <2>6. \A w \in Sites : StuckPath(j, w)' => StuckPath(j, w)
    BY <1>5, <1>9, <2>1, <2>2, <2>3, Zenon DEF SetupPC
  <2>7. WorksOn("schedule", j)
    BY <1>7, <1>9, <2>1, <2>2, <2>3, <2>4, Zenon
  <2>8. (StuckWan(j)' => StuckWan(j)) \/ lost' = lost + 1 => Costs(j)
    BY <2>5, <2>6, Zenon DEF Costs
  <2> QED BY <1>3, <2>1, <2>2, <2>3, <2>4, <2>5, <2>6, <2>7, <2>8, Zenon
<1>10. CASE WanCreate
  <2>1. WanStep("create", "created", "reserve", "release_src") /\ UNCHANGED <<uuid, id>>
    BY <1>10, Zenon DEF WanCreate, known, CleanUp
  <2>2. /\ j \in Jobs /\ KnownHeld' /\ WorksOn("schedule", j) /\ my' = my
        /\ wan'[j] = (IF wan' = wan THEN wan[j] ELSE "created")
        /\ (StuckWan(j)' => StuckWan(j)) \/ lost' = lost + 1 => Costs(j)
    BY <1>9, <2>1, Zenon DEF SetupPC
  <2>3. wan[j] = "none"
    BY <2>1, Zenon DEF WanStep, At, PathInv, StageOK, Bare
  <2>4. pc'["schedule"] = "reserve" \/ wan' = wan \/ lost' = lost + 1
    BY <1>0, <2>1, Zenon DEF WanStep, Goto, GoesWrong
  <2>5. CASE pc'["schedule"] = "reserve"
    <3>1. OwnsWan("schedule", j)'
      BY <2>2, <2>5, Zenon DEF OwnsWan
    <3> QED BY <2>2, <3>1, Zenon DEF StuckWan
  <2>6. CASE wan' = wan
    BY <2>2, <2>3, <2>6, Zenon DEF StuckWan
  <2> QED BY <2>2, <2>4, <2>5, <2>6, Zenon
<1>11. CASE WanReserve
  <2>1. WanStep("reserve", "reserved", "commit", "undo") /\ UNCHANGED <<uuid, id>>
    BY <1>11, Zenon DEF WanReserve, known
  <2>2. /\ j \in Jobs /\ KnownHeld' /\ WorksOn("schedule", j) /\ my' = my /\ pc'["schedule"] \in {"commit", "undo"}
        /\ (StuckWan(j)' => StuckWan(j)) => Costs(j)
    BY <1>9, <2>1, Zenon DEF SetupPC
  <2>3. OwnsWan("schedule", j)'
    BY <2>2, Zenon DEF OwnsWan
  <2> QED BY <2>2, <2>3, Zenon DEF StuckWan
<1>12. CASE WanCommit
  <2>1. WanStep("commit", "committed", "src", "undo") /\ UNCHANGED id
    BY <1>12, Zenon DEF WanCommit
  <2>2. j \in Jobs
    BY <1>1, <2>1, Zenon DEF WanStep, At, SetupPC
  <2>3. (\A i \in Jobs \ {j} : uuid'[i] = uuid[i]) /\ (pc'["schedule"] = "src" => uuid'[j])
    BY <1>0, <1>12, <2>2, Zenon DEF WanCommit
  <2>4. /\ KnownHeld' /\ WorksOn("schedule", j) /\ my' = my /\ pc'["schedule"] \in {"src", "undo"}
        /\ (StuckWan(j)' => StuckWan(j)) => Costs(j)
    BY <1>9, <2>1, <2>3, Zenon DEF SetupPC
  <2>5. pc'["schedule"] = "src" => wan'[j] = "committed"
    BY <1>0, <2>1, <2>2, Zenon DEF WanStep, Goto
  <2>6. OwnsWan("schedule", j)'
    BY <2>3, <2>4, <2>5, Zenon DEF OwnsWan
  <2> QED BY <2>2, <2>4, <2>6, Zenon DEF StuckWan
<1>13. CASE WanUndo
  <2>1. j \in Jobs /\ pc["schedule"] = "undo" /\ pc["schedule"] \in SetupPC
    BY <1>1, <1>13, Zenon DEF WanUndo, At, SetupPC
  <2>2. /\ my' = my /\ (\A u \in Threads \ {"schedule"} : pc'[u] = pc[u])
        /\ pc'["schedule"] \in {"undo", "release_src"}
    BY <1>4, <1>13, <2>1, Zenon DEF WanUndo, CleanUp
  <2>3. UNCHANGED <<phase, uuid, id, held, orphan>>
    BY <1>13, Zenon DEF WanUndo, known
  <2>4. \A i \in Jobs \ {j} : wan'[i] = wan[i]
    BY <1>0, <1>13, Zenon DEF WanUndo
  <2>5. KnownHeld' /\ WorksOn("schedule", j) /\ \A w \in Sites : StuckPath(j, w)' => StuckPath(j, w)
    BY <1>3, <1>5, <1>7, <2>1, <2>2, <2>3, <2>4, Zenon DEF SetupPC
  <2>6. CASE wan' = [wan EXCEPT ![j] = "deleted"] /\ Orderly
    <3>1. ~StuckWan(j)' /\ lost' = lost
      BY <1>0, <2>1, <2>6, Zenon DEF StuckWan, Orderly
    <3>2. lost' >= lost
      BY <1>0, <3>1
    <3> QED BY <2>1, <2>5, <3>1, <3>2, Zenon DEF Costs
  <2>7. CASE GoesWrong
    BY <2>1, <2>5, <2>7, Zenon DEF Costs, GoesWrong
  <2> QED BY <1>13, <2>6, <2>7, Zenon DEF WanUndo
\* The service of a set-up past its WAN part is complete, and owned.
<1>14. ASSUME pc["schedule"] \in {"src", "dst", "verify"}, j \in Jobs, my' = my, UNCHANGED <<uuid, wan>>,
              pc'["schedule"] \in {"src", "dst", "verify", "release_src"}
       PROVE  ~StuckWan(j)'
  <2>1. WanWhole(j)
    BY <1>14, Zenon DEF PathInv, StageOK
  <2>2. CASE uuid[j]
    <3>1. OwnsWan("schedule", j)'
      BY <1>14, <2>1, <2>2, Zenon DEF OwnsWan, WanWhole
    <3> QED BY <3>1, Zenon DEF StuckWan
  <2>3. CASE ~uuid[j]
    BY <1>14, <2>1, <2>3, Zenon DEF StuckWan, WanWhole
  <2> QED BY <2>2, <2>3, Zenon
<1>15. ASSUME NEW w \in {"src", "dst"}, NEW next \in {"dst", "verify"}, SdnReserve(w, next)
       PROVE  j \in Jobs /\ KnownHeld' /\ WorksOn("schedule", j) /\ Costs(j)
  <2>1. j \in Jobs /\ pc["schedule"] = w /\ pc["schedule"] \in SetupPC /\ w \in Sites
    BY <1>1, <1>15, Zenon DEF SdnReserve, At, SetupPC, Sites
  <2>2. /\ my' = my /\ (\A u \in Threads \ {"schedule"} : pc'[u] = pc[u])
        /\ pc'["schedule"] \in {w, next, "release_src"}
    BY <1>4, <1>15, <2>1, Zenon DEF SdnReserve, CleanUp
  <2>3. UNCHANGED <<phase, uuid, wan>>
    BY <1>15, Zenon DEF SdnReserve
  <2>4. ~StuckWan(j)'
    BY <1>14, <2>1, <2>2, <2>3, Zenon
  <2>5. Installed(j, w) \/ Refused(j, w) \/ RefusedBySdn(j, w) \/ AnswerLost(j, w)
    BY <1>15, Zenon DEF SdnReserve
  <2>6. \A i \in Jobs \ {j} : held'[i] = held[i] /\ orphan'[i] = orphan[i]
    BY <1>0, <2>1, <2>5, Zenon DEF Installed, Refused, RefusedBySdn, AnswerLost
  <2>7. WorksOn("schedule", j)
    BY <1>7, <2>1, <2>2, <2>3, <2>6, Zenon
  <2>8. KnownHeld'
    <3>1. CASE Installed(j, w)
      <4>1. (IF w \in SdnSites THEN "sdn" ELSE "route") # "none"
        BY Zenon
      <4>2. \A i \in Jobs, v \in Sites :
              \/ held'[i][v] = held[i][v] /\ id'[i][v] = id[i][v]
              \/ id'[i][v] # "none"
        BY <1>0, <2>1, <3>1, <4>1, Zenon DEF Installed
      <4> QED BY <1>2, <4>2, Zenon DEF KnownHeld
    <3>2. CASE UNCHANGED <<held, id>>
      BY <1>3, <3>2, Zenon
    <3> QED BY <2>5, <3>1, <3>2, Zenon DEF Refused, RefusedBySdn, AnswerLost
  <2>9. \A v \in Sites : orphan'[j][v] = orphan[j][v] => (StuckPath(j, v)' => StuckPath(j, v))
    BY <1>5, <2>1, <2>2, Zenon DEF SetupPC
  <2>10. CASE orphan' = orphan /\ lost' = lost
    <3>1. lost' >= lost
      BY <1>0, <2>10
    <3> QED BY <2>1, <2>4, <2>7, <2>8, <2>9, <2>10, <3>1, Zenon DEF Costs
  <2>11. CASE AnswerLost(j, w)
    <3>1. lost' = lost + 1 /\ \A v \in Sites \ {w} : orphan'[j][v] = orphan[j][v]
      BY <1>0, <2>1, <2>11, Zenon DEF AnswerLost, GoesWrong
    <3>2. \A v \in Sites \ {w} : StuckPath(j, v)' => StuckPath(j, v)
      BY <2>9, <3>1, Zenon
    <3>3. Costs(j)
      BY <2>1, <2>4, <3>1, <3>2, Zenon DEF Costs
    <3> QED BY <2>1, <2>7, <2>8, <3>3, Zenon
  <2> QED BY <2>5, <2>10, <2>11, Zenon DEF Installed, Refused, RefusedBySdn, Orderly
<1>16. CASE Verify
  <2>1. j \in Jobs /\ phase[j] = "setup" /\ pc["schedule"] = "verify" /\ pc["schedule"] \in SetupPC
    BY <1>1, <1>16, Zenon DEF Verify, At, SetupPC
  <2>2. UNCHANGED <<uuid, id, wan, held, orphan, lost>>
    BY <1>16, Zenon DEF Verify, known, places
  <2>3. lost' >= lost /\ KnownHeld'
    BY <1>0, <1>3, <2>2
  <2>4. CASE Again("schedule", PingTries, CleanUp) /\ UNCHANGED phase
    <3>1. /\ my' = my /\ (\A u \in Threads \ {"schedule"} : pc'[u] = pc[u])
          /\ pc'["schedule"] \in {"verify", "release_src"}
      BY <1>4, <2>1, <2>4, Zenon DEF CleanUp
    <3>2. WorksOn("schedule", j)
      BY <1>7, <2>1, <2>2, <2>4, <3>1, Zenon
    <3>3. ~StuckWan(j)'
      BY <1>14, <2>1, <2>2, <3>1, Zenon
    <3>4. \A v \in Sites : StuckPath(j, v)' => StuckPath(j, v)
      BY <1>5, <2>1, <2>2, <3>1, Zenon DEF SetupPC
    <3>5. Costs(j)
      BY <2>3, <3>3, <3>4, Zenon DEF Costs
    <3> QED BY <2>1, <2>3, <3>2, <3>5, Zenon
  <2>5. CASE /\ phase' = [phase EXCEPT ![j] = "active"] /\ pc' = [pc EXCEPT !["schedule"] = "idle"]
             /\ my' = [my EXCEPT !["schedule"] = NoJob]
    <3>1. phase'[j] = "active" /\ (\A i \in Jobs \ {j} : phase'[i] = phase[i])
      BY <1>0, <2>1, <2>5, Zenon
    <3>2. my'["schedule"] = NoJob /\ \A u \in Threads \ {"schedule"} : pc'[u] = pc[u] /\ my'[u] = my[u]
      BY <1>0, <2>5, Zenon
    <3>3. WorksOn("schedule", j)
      BY <2>2, <3>1, <3>2, Zenon DEF WorksOn
    <3>4. \A u \in Threads : my'[u] # j
      <4>1. j # NoJob /\ \A u \in Enders : my[u] # NoJob => phase[my[u]] \in {"active", "ended"}
        BY <2>1, NetworkConstants, Zenon DEF PathInv, WorkOK
      <4>2. \A u \in Enders : my[u] # j
        BY <2>1, <4>1
      <4> QED BY <3>2, <4>1, <4>2, Zenon DEF Threads
    <3>5. Runs(j)'
      BY <3>1, <3>4, Zenon DEF Runs, Busy
    <3>6. ~StuckWan(j)' /\ \A v \in Sites : StuckPath(j, v)' => StuckPath(j, v)
      BY <2>2, <3>5, Zenon DEF StuckWan, StuckPath
    <3>7. Costs(j)
      BY <2>3, <3>6, Zenon DEF Costs
    <3> QED BY <2>1, <2>3, <3>3, <3>7, Zenon
  <2> QED BY <1>16, <2>4, <2>5, Zenon DEF Verify
<1> QED BY <1>6, <1>8, <1>10, <1>11, <1>12, <1>13, <1>15, <1>16, Zenon DEF Setup

\* A teardown leaves a service or a path behind only when a request went wrong.
LEMMA TearCosts ==
  ASSUME PathInv, TypeOK', StuckInv, NEW t \in Threads, TearDown(t)
  PROVE  KnownHeld' /\ \E k \in Jobs : WorksOn(t, k) /\ Costs(k)
PROOF
<1>j. PICK j : j = my[t]
  BY Zenon
<1> USE <1>j
<1>0. /\ pc \in [Threads -> Labels] /\ my \in [Threads -> Jobs \cup {NoJob}]
      /\ phase \in [Jobs -> {"new", "setup", "active", "ended"}] /\ uuid \in [Jobs -> BOOLEAN]
      /\ wan \in [Jobs -> WanState] /\ id \in [Jobs -> [Sites -> {"none", "route", "sdn"}]]
      /\ held \in [Jobs -> [Sites -> BOOLEAN]] /\ orphan \in [Jobs -> [Sites -> Nat]] /\ lost \in Nat /\ lost' \in Nat
  BY NetworkConstants DEF PathInv, TypeOK, Labels
<1>1. pc[t] \in TearPC => j \in Jobs
  BY Zenon DEF PathInv, WorkOK, TypeOK, TearPC
<1>2. KnownHeld
  BY Zenon DEF StuckInv
<1>3. ASSUME NEW k \in Jobs, End(t, k) PROVE KnownHeld' /\ WorksOn(t, k) /\ Costs(k)
  <2>1. UNCHANGED <<phase, uuid, id, wan, held, orphan, lost>> /\ j = NoJob
    BY <1>3, Zenon DEF End, At, known, places, PathInv, WorkOK
  <2>2. /\ my'[t] = k /\ pc'[t] = "release_src"
        /\ \A u \in Threads \ {t} : pc'[u] = pc[u] /\ my'[u] = my[u]
    BY <1>0, <1>3, Zenon DEF End
  <2>3. KnownHeld' /\ WorksOn(t, k)
    BY <1>2, <2>1, <2>2, Zenon DEF KnownHeld, WorksOn
  <2>4. \A w \in Sites : StuckPath(k, w)' => StuckPath(k, w)
    <3>1. \A w \in Sites : OwnsPath(t, k, w)'
      BY <2>2, Zenon DEF OwnsPath
    <3> QED BY <2>1, <3>1, Zenon DEF StuckPath
  <2>5. StuckWan(k)' => StuckWan(k)
    <3> SUFFICES ASSUME StuckWan(k)' PROVE StuckWan(k)
      BY Zenon
    <3>1. wan[k] \notin {"none", "deleted"} /\ \A u \in Threads : ~OwnsWan(u, k)'
      BY <2>1, Zenon DEF StuckWan
    <3>2. ~(uuid[k] /\ wan[k] = "committed")
      BY <2>1, <2>2, <3>1, Zenon DEF OwnsWan
    <3>3. ~Runs(k)
      BY <3>1, <3>2, Zenon DEF Runs, PathInv, ActiveIsComplete
    <3>4. k # NoJob
      BY NetworkConstants, Zenon
    <3>5. \A u \in Threads : OwnsWan(u, k) => OwnsWan(u, k)'
      BY <2>1, <2>2, <3>4, Zenon DEF OwnsWan
    <3> QED BY <3>1, <3>3, <3>5, Zenon DEF StuckWan
  <2>6. lost' >= lost
    BY <1>0, <2>1
  <2> QED BY <2>3, <2>4, <2>5, <2>6, Zenon DEF Costs
\* A thread that ends, or goes on to later code, does not change who else owns what.
<1>4. ASSUME j \in Jobs, \A u \in Threads \ {t} : pc'[u] = pc[u] /\ my'[u] = my[u],
             UNCHANGED <<uuid, wan>>, ~OwnsWan(t, j) \/ OwnsWan(t, j)'
      PROVE  StuckWan(j)' => StuckWan(j)
  <2>1. ~Runs(j)
    BY <1>4, Zenon DEF Runs, Busy
  <2>2. \A u \in Threads : OwnsWan(u, j) => OwnsWan(u, j)'
    BY <1>4, Zenon DEF OwnsWan
  <2> QED BY <1>4, <2>1, <2>2, Zenon DEF StuckWan
<1>5. ASSUME j \in Jobs, \A u \in Threads \ {t} : pc'[u] = pc[u] /\ my'[u] = my[u], NEW w \in Sites,
             held'[j][w] = held[j][w], orphan'[j][w] = orphan[j][w], ~OwnsPath(t, j, w) \/ OwnsPath(t, j, w)'
      PROVE  StuckPath(j, w)' => StuckPath(j, w)
  <2>1. ~Runs(j)
    BY <1>5, Zenon DEF Runs, Busy
  <2>2. \A u \in Threads : OwnsPath(u, j, w) => OwnsPath(u, j, w)'
    BY <1>5, Zenon DEF OwnsPath
  <2> QED BY <1>5, <2>1, <2>2, Zenon DEF StuckPath
<1>6. ASSUME NEW w \in Sites, NEW label, NEW next,
             SdnRelease(t, w, label, next),
             <<w, label, next>> \in {<<"src", "release_src", "release_dst">>, <<"dst", "release_dst", "wan_release">>}
      PROVE  j \in Jobs /\ KnownHeld' /\ WorksOn(t, j) /\ Costs(j)
  <2>0. \/ w = "src" /\ label = "release_src" /\ next = "release_dst"
        \/ w = "dst" /\ label = "release_dst" /\ next = "wan_release"
    BY <1>6
  <2>1. j \in Jobs /\ pc[t] = label
    BY <1>1, <1>6, <2>0, Zenon DEF SdnRelease, At, TearPC
  <2>2. /\ my' = my /\ pc'[t] = next
        /\ \A u \in Threads \ {t} : pc'[u] = pc[u] /\ my'[u] = my[u]
    BY <1>0, <1>6, Zenon DEF SdnRelease, Goto
  <2>3. UNCHANGED <<phase, uuid, id, wan, orphan>>
    BY <1>6, Zenon DEF SdnRelease, known
  <2>4. /\ id[j][w] = "none" => held' = held /\ lost' = lost
        /\ id[j][w] # "none" => Released(j, w) \/ Unreached
    BY <1>6, Zenon DEF SdnRelease
  <2>a. ASSUME Released(j, w)
        PROVE  ~held'[j][w] /\ \A i \in Jobs, v \in Sites : i # j \/ v # w => held'[i][v] = held[i][v]
    <3>1. held' = [held EXCEPT ![j][w] = FALSE]
      BY <2>a, Zenon DEF Released
    <3> QED BY <1>0, <1>6, <2>1, <3>1, Zenon
  <2>5. \A i \in Jobs, v \in Sites : held'[i][v] = held[i][v] \/ (i = j /\ v = w /\ ~held'[i][v])
    <3>1. CASE held' = held
      BY <3>1, Zenon
    <3>2. CASE Released(j, w)
      BY <2>a, <3>2, Zenon
    <3> QED BY <2>4, <3>1, <3>2, Zenon DEF Unreached
  <2>6. \A i \in Jobs \ {j} : held'[i] = held[i]
    BY <1>0, <2>1, <2>4, Zenon DEF Released, Unreached
  <2>7. KnownHeld' /\ WorksOn(t, j)
    BY <1>2, <2>2, <2>3, <2>5, <2>6, Zenon DEF KnownHeld, WorksOn
  <2>8. StuckWan(j)' => StuckWan(j)
    <3>1. OwnsWan(t, j) => OwnsWan(t, j)'
      BY <2>0, <2>1, <2>2, <2>3 DEF OwnsWan
    <3> QED BY <1>4, <2>1, <2>2, <2>3, <3>1, Zenon
  <2>9. \A v \in Sites \ {w} : StuckPath(j, v)' => StuckPath(j, v)
    <3> TAKE v \in Sites \ {w}
    <3>1. ~OwnsPath(t, j, v) \/ OwnsPath(t, j, v)'
      BY <2>0, <2>1, <2>2 DEF OwnsPath, Sites, SetupPC
    <3> QED BY <1>5, <2>1, <2>2, <2>3, <2>5, <3>1, Zenon
  <2>10. CASE lost' = lost + 1
    BY <1>6, <2>1, <2>7, <2>8, <2>9, <2>10, Zenon DEF Costs
  <2>11. CASE lost' # lost + 1
    <3>1. lost' = lost
      BY <2>4, <2>11, Zenon DEF Released, Unreached, Orderly, GoesWrong
    <3>2. ~held'[j][w]
      BY <1>2, <2>1, <2>4, <2>a, <2>11, Zenon DEF KnownHeld, Unreached, GoesWrong
    <3>3. StuckPath(j, w)' => StuckPath(j, w)
      BY <2>3, <3>2, Zenon DEF StuckPath
    <3>4. lost' >= lost
      BY <1>0, <3>1
    <3> QED BY <2>1, <2>7, <2>8, <2>9, <3>3, <3>4, Zenon DEF Costs
  <2> QED BY <2>10, <2>11, Zenon
\* The end of the teardown.
<1>7. ASSUME j \in Jobs, Done(t), pc[t] \in {"wan_release", "wan_terminate", "wan_delete"},
             UNCHANGED <<uuid, id, held, orphan>>, \A i \in Jobs \ {j} : wan'[i] = wan[i]
      PROVE  /\ KnownHeld' /\ WorksOn(t, j)
             /\ \A w \in Sites : StuckPath(j, w)' => StuckPath(j, w)
             /\ \A u \in Threads \ {t} : pc'[u] = pc[u] /\ my'[u] = my[u]
  <2>1. /\ my'[t] = NoJob /\ \A u \in Threads \ {t} : pc'[u] = pc[u] /\ my'[u] = my[u]
        /\ \A i \in Jobs \ {j} : phase'[i] = phase[i]
    BY <1>0, <1>7, Zenon DEF Done
  <2>2. KnownHeld' /\ WorksOn(t, j)
    BY <1>2, <1>7, <2>1, Zenon DEF KnownHeld, WorksOn
  <2>3. \A w \in Sites : ~OwnsPath(t, j, w)
    BY <1>7 DEF OwnsPath, SetupPC
  <2>4. \A w \in Sites : StuckPath(j, w)' => StuckPath(j, w)
    BY <1>5, <1>7, <2>1, <2>3, Zenon
  <2> QED BY <2>1, <2>2, <2>4, Zenon
<1>8. CASE NoWan(t)
  <2>1. j \in Jobs /\ pc[t] = "wan_release" /\ ~uuid[j] /\ Done(t) /\ UNCHANGED <<uuid, id, wan, held, orphan, lost>>
    BY <1>1, <1>8, Zenon DEF NoWan, At, TearPC, known, places
  <2>2. ~OwnsWan(t, j)
    BY <2>1 DEF OwnsWan
  <2>3. lost' >= lost
    BY <1>0, <2>1
  <2>4. /\ KnownHeld' /\ WorksOn(t, j)
        /\ \A w \in Sites : StuckPath(j, w)' => StuckPath(j, w)
        /\ \A u \in Threads \ {t} : pc'[u] = pc[u] /\ my'[u] = my[u]
    BY <1>7, <2>1, Zenon
  <2>5. StuckWan(j)' => StuckWan(j)
    BY <1>4, <2>1, <2>2, <2>4, Zenon
  <2> QED BY <2>1, <2>3, <2>4, <2>5, Zenon DEF Costs
<1>9. ASSUME NEW label, NEW from, NEW to, NEW next, WanGiveBack(t, label, from, to, next),
             \/ label = "wan_release" /\ from = "committed" /\ to = "released" /\ next = "wan_terminate"
             \/ label = "wan_terminate" /\ from = "released" /\ to = "terminated" /\ next = "wan_delete"
             \/ label = "wan_delete" /\ from = "terminated" /\ to = "deleted" /\ next = "done"
      PROVE  j \in Jobs /\ KnownHeld' /\ WorksOn(t, j) /\ Costs(j)
  <2>1. j \in Jobs /\ pc[t] = label /\ label \in {"wan_release", "wan_terminate", "wan_delete"}
    BY <1>1, <1>9, Zenon DEF WanGiveBack, At, TearPC
  <2>2. UNCHANGED <<uuid, id, held, orphan>> /\ \A i \in Jobs \ {j} : wan'[i] = wan[i]
    BY <1>0, <1>9, Zenon DEF WanGiveBack, known
  <2>3. lost' >= lost
    BY <1>0, <1>9 DEF WanGiveBack, Orderly, GoesWrong
\* Whatever the thread does next, its sjob's paths are past its hands.
  <2>4. ~Done(t) => /\ my' = my /\ UNCHANGED phase
                    /\ \A u \in Threads \ {t} : pc'[u] = pc[u] /\ my'[u] = my[u]
    BY <1>0, <1>9, Zenon DEF WanGiveBack, Goto
  <2>5. /\ KnownHeld' /\ WorksOn(t, j)
        /\ \A w \in Sites : StuckPath(j, w)' => StuckPath(j, w)
        /\ \A u \in Threads \ {t} : pc'[u] = pc[u] /\ my'[u] = my[u]
    <3>1. CASE Done(t)
      BY <1>7, <2>1, <2>2, <3>1, Zenon
    <3>2. CASE ~Done(t)
      <4>1. KnownHeld' /\ WorksOn(t, j)
        BY <1>2, <2>2, <2>4, <3>2, Zenon DEF KnownHeld, WorksOn
      <4>2. \A w \in Sites : ~OwnsPath(t, j, w)
        BY <2>1 DEF OwnsPath, SetupPC
      <4> QED BY <1>5, <2>1, <2>2, <2>4, <3>2, <4>1, <4>2, Zenon
    <3> QED BY <3>1, <3>2, Zenon
  <2>6. CASE wan' = [wan EXCEPT ![j] = to] /\ IF next = "done" THEN Done(t) ELSE Goto(t, next)
    <3>1. wan'[j] = to
      BY <1>0, <2>1, <2>6, Zenon
    <3>2. ~StuckWan(j)'
      <4>1. CASE next = "done"
        BY <1>9, <3>1, <4>1 DEF StuckWan
      <4>2. CASE next # "done"
        <5>1. my'[t] = j /\ pc'[t] = next
          BY <1>0, <2>6, <4>2, Zenon DEF Goto
        <5>2. OwnsWan(t, j)'
          BY <1>9, <3>1, <4>2, <5>1 DEF OwnsWan
        <5> QED BY <5>2, Zenon DEF StuckWan
      <4> QED BY <4>1, <4>2, Zenon
    <3> QED BY <2>1, <2>3, <2>5, <3>2, Zenon DEF Costs
  <2>7. CASE wan[j] = from /\ GoesWrong
    BY <2>1, <2>5, <2>7, Zenon DEF Costs, GoesWrong
  <2>8. CASE wan[j] # from /\ UNCHANGED wan
    <3>1. ~OwnsWan(t, j)
      BY <1>9, <2>1, <2>8 DEF OwnsWan
    <3>2. StuckWan(j)' => StuckWan(j)
      BY <1>4, <2>1, <2>2, <2>5, <2>8, <3>1, Zenon
    <3> QED BY <2>1, <2>3, <2>5, <3>2, Zenon DEF Costs
  <2> QED BY <1>9, <2>6, <2>7, <2>8, Zenon DEF WanGiveBack
<1>10. CASE SdnRelease(t, "src", "release_src", "release_dst")
  BY <1>6, <1>10 DEF Sites
<1>11. CASE SdnRelease(t, "dst", "release_dst", "wan_release")
  BY <1>6, <1>11 DEF Sites
<1>12. CASE \/ WanGiveBack(t, "wan_release", "committed", "released", "wan_terminate")
            \/ WanGiveBack(t, "wan_terminate", "released", "terminated", "wan_delete")
            \/ WanGiveBack(t, "wan_delete", "terminated", "deleted", "done")
  BY <1>9, <1>12, Zenon
<1> QED BY <1>3, <1>8, <1>10, <1>11, <1>12, Zenon DEF TearDown

\* Every step keeps the count.
LEMMA StuckStep == PathInv /\ StuckInv /\ [Next]_vars => StuckInv'
<1> SUFFICES ASSUME PathInv, StuckInv, [Next]_vars PROVE StuckInv'
  BY Zenon
<1>1. TypeOK /\ TypeOK'
  BY PathStep, Zenon DEF PathInv
<1>2. CASE Setup
  BY <1>1, <1>2, SetupCosts, StuckCount, ScheduleThread, Zenon
<1>3. ASSUME NEW t \in Threads, TearDown(t) PROVE StuckInv'
  BY <1>1, <1>3, TearCosts, StuckCount, Zenon
<1>4. CASE UNCHANGED vars
  <2>1. StuckWans' = StuckWans
    BY <1>4, ZenonT(40) DEF vars, StuckWans, StuckWan, Runs, Busy, OwnsWan
  <2>2. StuckPaths' = StuckPaths
    BY <1>4, Zenon DEF vars, StuckPaths, StuckPath, Runs, Busy, OwnsPath
  <2>3. KnownHeld' /\ lost' = lost
    BY <1>4, Zenon DEF vars, StuckInv, KnownHeld
  <2> QED BY <2>1, <2>2, <2>3, Zenon DEF StuckInv
<1> QED BY <1>2, <1>3, <1>4, Zenon DEF Next

\* At first nothing is stuck.
LEMMA StuckStart == Init => StuckInv
<1> SUFFICES ASSUME Init PROVE StuckInv
  BY Zenon
<1>1. StuckWans = {}
  BY Zenon DEF Init, StuckWans, StuckWan
<1>2. \A j \in Jobs, w \in Sites : ~held[j][w] /\ ~(orphan[j][w] > 0)
  BY SMTT(30) DEF Init
<1>3. StuckPaths = {}
  BY <1>2 DEF StuckPaths, StuckPath
<1>4. KnownHeld
  BY <1>2, Zenon DEF KnownHeld
<1> QED BY <1>1, <1>3, <1>4, FS_EmptySet DEF StuckInv, Init

\* What the sjobs that are over leave at the orchestrator and at the sites is at most one
\* WAN service or one SDN path for each request that went wrong, for any number of sjobs,
\* of threads that tear down the same path and of attempts (teardown_sdn_path,
\* teardown_wan_path, the undo in setup_wan_path).
THEOREM LeftBehindIsLost == Spec => []LeftIsLost
<1>1. PathInv /\ StuckInv => LeftIsLost
  <2> SUFFICES ASSUME PathInv, StuckInv, \A j \in Jobs : phase[j] = "new" \/ Over(j)
               PROVE  Cardinality({j \in Jobs : wan[j] \notin {"none", "deleted"}})
                      + Cardinality({p \in Jobs \X Sites : held[p[1]][p[2]] \/ orphan[p[1]][p[2]] > 0}) <= lost
    BY Zenon DEF LeftIsLost
  <2>1. \A j \in Jobs : wan[j] \notin {"none", "deleted"} \/ (\E w \in Sites : held[j][w]) => Over(j)
    BY Zenon DEF PathInv, StageOK, Bare, NoSdn
  <2>2. \A j \in Jobs : Over(j) => ~Runs(j) /\ \A t \in Threads : ~OwnsWan(t, j) /\ \A w \in Sites : ~OwnsPath(t, j, w)
    BY Zenon DEF Over, Runs, Busy, OwnsWan, OwnsPath
  <2>3. {j \in Jobs : wan[j] \notin {"none", "deleted"}} = StuckWans
    BY <2>1, <2>2, Zenon DEF StuckWans, StuckWan
  <2>4. \A j \in Jobs, w \in Sites : StuckPath(j, w) <=> held[j][w] \/ orphan[j][w] > 0
    BY <2>1, <2>2, Zenon DEF StuckPath
  <2>5. {p \in Jobs \X Sites : held[p[1]][p[2]] \/ orphan[p[1]][p[2]] > 0} = StuckPaths
    BY <2>4 DEF StuckPaths
  <2> QED BY <2>3, <2>5, Zenon DEF StuckInv
<1> QED BY <1>1, PathInitInv, PathStep, StuckStart, StuckStep, PTL DEF Spec
=============================================================================
