--------------------------- MODULE Requests_proofs --------------------------
(***************************************************************************)
(* For any callers, threads, requests, agents and faults: the answers of   *)
(* RpcClient::call and the table behind them (RpcCall), the answers of     *)
(* run_ping() while supervise_process() collects any child (Supervisor),   *)
(* the replies of a DTN agent about its host (HostCommands), the requests  *)
(* of the server to the portal (PortalClient), and the commands of the     *)
(* portal while agents register and leave (SiteCommands).                  *)
(***************************************************************************)
EXTENDS RpcCall, Supervisor, HostCommands, PortalClient, SiteCommands, TLAPS

-----------------------------------------------------------------------------
(* Remote calls                                                            *)

\* Types of the caller threads, the table, the messages and the server.
RpcTypeOK ==
  /\ pc \in [Callers -> {"idle", "waiting", "expired"}]
  /\ made \in [Callers -> 0..MaxCalls]
  /\ kind \in [Calls -> Kinds \cup {"none"}]
  /\ result \in [Calls -> {"none", "answer", "timeout", "thrown"}]
  /\ promises \subseteq Calls /\ ready \subseteq Calls
  /\ at \in {"idle", "found", "set"} /\ iter \in Calls \cup {NoCall}
  /\ requests \subseteq Calls /\ answers \subseteq Calls
  /\ listener \in Calls \cup {NoCall} /\ posted \subseteq Calls /\ running \subseteq Calls
  /\ executed \in [Calls -> Nat]
  /\ faults \in [dup : 0..MaxDup, lost : 0..MaxLost]
  /\ undefined \in BOOLEAN

\* The correlation ids that are in use are those of the calls made so far.
Fresh(i) == kind[i] = "none"
IdsMade ==
  /\ \A i \in Calls : Fresh(i) <=> i[2] > made[i[1]]
  /\ \A c \in Callers : pc[c] # "idle" => made[c] > 0
  /\ \A i \in promises \cup ready \cup requests \cup answers \cup posted \cup running : ~Fresh(i)
  /\ listener # NoCall => ~Fresh(listener)

\* Whatever stands for an answer of a call comes from its command: the reply under
\* way, the entry that on_msg has found, the value of the promise, the result.
Served(i) == executed[i] > 0 \/ kind[i] = "unknown"
AnswersServed ==
  /\ \A i \in answers \cup ready : Served(i)
  /\ at # "idle" => iter \in Calls /\ ~Fresh(iter) /\ Served(iter)
  /\ \A i \in Calls : result[i] = "answer" => Served(i)

\* A promise with a value is still in the table only while on_msg is between
\* set_value and erase.
ReadyIsErased == \A i \in ready \cap promises : at = "set" /\ iter = i

\* What TableIsPending says, whether or not an iterator was used after an erase.
PendingInv ==
  \A i \in promises :
    \/ pc[i[1]] # "idle" /\ Current(i[1]) = i
    \/ at # "idle" /\ iter = i
    \/ kind[i] = "empty"

RpcInv == RpcTypeOK /\ IdsMade /\ AnswersServed /\ ReadyIsErased /\ PendingInv

\* The invariant holds before the first call.
LEMMA RpcInitInv == Init => RpcInv
<1> SUFFICES ASSUME Init PROVE RpcInv
  BY Zenon
<1>1. RpcTypeOK
  <2>1. faults \in [dup : 0..MaxDup, lost : 0..MaxLost]
    BY RpcConstants DEF Init
  <2>2. made \in [Callers -> 0..MaxCalls] /\ executed \in [Calls -> Nat]
    BY RpcConstants DEF Init
  <2> QED BY <2>1, <2>2, Zenon DEF Init, RpcTypeOK
<1>2. IdsMade
  BY RpcConstants DEF Init, IdsMade, Fresh, Calls
<1>3. AnswersServed /\ ReadyIsErased /\ PendingInv
  BY Zenon DEF Init, AnswersServed, ReadyIsErased, PendingInv
<1> QED BY <1>1, <1>2, <1>3, Zenon DEF RpcInv

\* A call takes an id that nothing in the client or the server stands for yet.
LEMMA CallInv == ASSUME RpcInv, NEW c \in Callers, NEW k \in Kinds, Call(c, k) PROVE RpcInv'
<1> DEFINE i == <<c, made[c] + 1>>
<1>1. i \in Calls /\ Fresh(i) /\ k # "none" /\ made[c] \in Nat /\ made[c] < MaxCalls
  BY RpcConstants DEF RpcInv, RpcTypeOK, IdsMade, Call, Calls, Fresh
<1>2. RpcTypeOK'
  <2>1. made' \in [Callers -> 0..MaxCalls]
    BY <1>1, RpcConstants DEF RpcInv, RpcTypeOK, Call
  <2>2. kind' \in [Calls -> Kinds \cup {"none"}] /\ promises' \subseteq Calls /\ requests' \subseteq Calls
    BY <1>1, Zenon DEF RpcInv, RpcTypeOK, Call
  <2>3. result' \in [Calls -> {"none", "answer", "timeout", "thrown"}]
    BY <1>1, Zenon DEF RpcInv, RpcTypeOK, Call
  <2>4. pc' \in [Callers -> {"idle", "waiting", "expired"}]
    BY Zenon DEF RpcInv, RpcTypeOK, Call
  <2> QED BY <2>1, <2>2, <2>3, <2>4, Zenon DEF RpcInv, RpcTypeOK, Call, workVars
<1>3. \A j \in Calls : j # i => kind'[j] = kind[j] /\ (j[1] # c \/ j[2] # made[c] + 1)
  BY <1>1 DEF RpcInv, RpcTypeOK, Call, Calls
<1>4. \A j \in Calls : Served(j) => Served(j)' /\ (~Fresh(j) => ~Fresh(j)')
  BY <1>1, <1>3, ZenonT(40) DEF RpcInv, RpcTypeOK, Call, Served, Fresh, workVars
<1>5. IdsMade'
  <2>1. \A j \in Calls : Fresh(j)' <=> j[2] > made'[j[1]]
    <3> SUFFICES ASSUME NEW j \in Calls PROVE Fresh(j)' <=> j[2] > made'[j[1]]
      BY Zenon
    <3>1. j = <<j[1], j[2]>> /\ j[1] \in Callers /\ j[2] \in Nat
      BY RpcConstants DEF Calls
    <3>2. made'[j[1]] = IF j[1] = c THEN made[c] + 1 ELSE made[j[1]]
      BY <3>1, Zenon DEF RpcInv, RpcTypeOK, Call
    <3>3. made[j[1]] \in Nat /\ (kind[j] = "none" <=> j[2] > made[j[1]])
      BY <3>1, RpcConstants, SMTT(30) DEF RpcInv, RpcTypeOK, IdsMade, Fresh
    <3>4. CASE j = i
      BY <1>1, <3>2, <3>4 DEF RpcInv, RpcTypeOK, Call, Fresh
    <3>5. CASE j # i
      BY <1>1, <1>3, <3>1, <3>2, <3>3, <3>5 DEF Fresh
    <3> QED BY <3>4, <3>5, Zenon
  <2> QED
    BY <1>1, <1>2, <1>3, <2>1 DEF RpcInv, RpcTypeOK, IdsMade, Call, Fresh, workVars
<1>6. AnswersServed'
  <2>1. /\ UNCHANGED <<answers, ready, at, iter>> /\ answers \cup ready \subseteq Calls
        /\ \A j \in Calls : result'[j] = "answer" => result[j] = "answer"
    <3>1. result' = result \/ result' = [result EXCEPT ![i] = "thrown"]
      BY Zenon DEF Call
    <3>2. \A j \in Calls : result'[j] = result[j] \/ result'[j] = "thrown"
      BY <1>1, <3>1, Zenon DEF RpcInv, RpcTypeOK
    <3>3. "thrown" # "answer"
      OBVIOUS
    <3> QED BY <3>2, <3>3, Zenon DEF RpcInv, RpcTypeOK, Call
  <2> HIDE DEF i
  <2>2. AnswersServed
    BY Zenon DEF RpcInv
  <2>3. \A j \in answers \cup ready : Served(j)'
    BY <1>4, <2>1, <2>2, Zenon DEF AnswersServed
  <2>4. at # "idle" => iter \in Calls /\ ~Fresh(iter)' /\ Served(iter)'
    BY <1>4, <2>1, <2>2, Zenon DEF AnswersServed
  <2>5. \A j \in Calls : result'[j] = "answer" => Served(j)'
    BY <1>4, <2>1, <2>2, Zenon DEF AnswersServed
  <2> QED BY <2>1, <2>3, <2>4, <2>5, Zenon DEF AnswersServed, Fresh, Served
<1>7. ReadyIsErased'
  BY <1>1, ZenonT(40) DEF RpcInv, RpcTypeOK, ReadyIsErased, IdsMade, Call
<1>8. PendingInv'
  BY <1>1, <1>2, <1>3 DEF RpcInv, RpcTypeOK, IdsMade, PendingInv, Call, Current, Calls
<1> QED BY <1>2, <1>5, <1>6, <1>7, <1>8, Zenon DEF RpcInv

\* The three ways out of wait_for, and the end of a call that timed out.
LEMMA WaitInv == ASSUME RpcInv, NEW c \in Callers, Return(c) \/ Expire(c) \/ TimeOut(c) PROVE RpcInv'
<1>1. pc[c] # "idle" /\ Current(c) \in Calls
  BY RpcConstants DEF RpcInv, RpcTypeOK, IdsMade, Return, Expire, TimeOut, Current, Calls
<1>2. CASE Return(c)
  <2>1. RpcTypeOK' /\ IdsMade'
    BY <1>1, <1>2, ZenonT(30) DEF RpcInv, RpcTypeOK, IdsMade, Return, tvars, nvars, workVars, Fresh
  <2>2. AnswersServed' /\ ReadyIsErased'
    BY <1>1, <1>2, Zenon DEF RpcInv, RpcTypeOK, AnswersServed, ReadyIsErased, Return, tvars, nvars, workVars, Fresh, Served
  <2>3. PendingInv'
    BY <1>1, <1>2, SMTT(30) DEF RpcInv, RpcTypeOK, ReadyIsErased, PendingInv, Return, tvars, Current, Calls
  <2> QED BY <2>1, <2>2, <2>3, Zenon DEF RpcInv
<1>3. CASE Expire(c)
  BY <1>1, <1>3, SMTT(30) DEF RpcInv, RpcTypeOK, IdsMade, AnswersServed, ReadyIsErased, PendingInv, Expire,
       tvars, nvars, workVars, Fresh, Served, Current
<1>4. CASE TimeOut(c)
  <2>1. RpcTypeOK' /\ IdsMade'
    BY <1>1, <1>4 DEF RpcInv, RpcTypeOK, IdsMade, TimeOut, nvars, workVars, Fresh
  <2>2. AnswersServed' /\ ReadyIsErased'
    BY <1>1, <1>4, Zenon DEF RpcInv, RpcTypeOK, AnswersServed, ReadyIsErased, TimeOut, nvars, workVars, Fresh, Served
  <2>3. PendingInv'
    BY <1>1, <1>4, ZenonT(30) DEF RpcInv, RpcTypeOK, PendingInv, TimeOut, Current, Calls
  <2> QED BY <2>1, <2>2, <2>3, Zenon DEF RpcInv
<1> QED BY <1>2, <1>3, <1>4, Zenon

\* The MQTT thread of the client: the reply it takes is of a command that was run.
LEMMA ListenInv == ASSUME RpcInv, Listen PROVE RpcInv'
<1>1. CASE \E i \in Calls : Find(i)
  BY <1>1 DEF RpcInv, RpcTypeOK, IdsMade, AnswersServed, ReadyIsErased, PendingInv, Find, cvars, workVars, Fresh, Served, Current
<1>2. CASE SetValue
  BY <1>2, SMTT(30) DEF RpcInv, RpcTypeOK, IdsMade, AnswersServed, ReadyIsErased, PendingInv, SetValue, cvars, nvars, workVars, Fresh, Served, Current
<1>3. CASE Erase
  BY <1>3 DEF RpcInv, RpcTypeOK, IdsMade, AnswersServed, ReadyIsErased, PendingInv, Erase, cvars, nvars, workVars, Fresh, Served, Current
<1> QED BY <1>1, <1>2, <1>3, Zenon DEF Listen

\* The server: a reply is published when the command was carried out, or is unknown.
LEMMA ServeInv == ASSUME RpcInv, Serve PROVE RpcInv'
<1>1. CASE \E i \in Calls : Handle(i)
  BY <1>1, SMTT(30) DEF RpcInv, RpcTypeOK, IdsMade, AnswersServed, ReadyIsErased, PendingInv, Handle, cvars, tvars, Fresh, Served, Current
<1>2. CASE \E i \in Calls : Work(i)
  BY <1>2, SMTT(30) DEF RpcInv, RpcTypeOK, IdsMade, AnswersServed, ReadyIsErased, PendingInv, Work, cvars, tvars, nvars, Fresh, Served, Current
<1>3. CASE AnswerHere
  <2>1. listener \in Calls /\ ~Fresh(listener)
    BY <1>3, Zenon DEF RpcInv, RpcTypeOK, IdsMade, AnswerHere
  <2> QED
    BY <1>3, <2>1 DEF RpcInv, RpcTypeOK, IdsMade, AnswersServed, ReadyIsErased, PendingInv, AnswerHere, Answer, cvars, tvars, Fresh, Served, Current
<1>4. CASE \E i \in Calls : WorkDone(i)
  BY <1>4 DEF RpcInv, RpcTypeOK, IdsMade, AnswersServed, ReadyIsErased, PendingInv, WorkDone, Answer, cvars, tvars, Fresh, Served, Current
<1> QED BY <1>1, <1>2, <1>3, <1>4, Zenon DEF Serve

\* Messages delivered twice or lost.
LEMMA NetworkInv == ASSUME RpcInv, NEW i \in Calls, Duplicate(i) \/ Lose(i) PROVE RpcInv'
<1>1. CASE Duplicate(i)
  BY <1>1, RpcConstants, SMTT(30) DEF RpcInv, RpcTypeOK, IdsMade, AnswersServed, ReadyIsErased, PendingInv, Duplicate, cvars, tvars, workVars, Fresh, Served, Current
<1>2. CASE Lose(i)
  BY <1>2, RpcConstants DEF RpcInv, RpcTypeOK, IdsMade, AnswersServed, ReadyIsErased, PendingInv, Lose, cvars, tvars, workVars, Fresh, Served, Current
<1> QED BY <1>1, <1>2, Zenon

\* The table of promises holds no more than the calls that wait: whatever answers
\* are late, repeated or lost, and whichever thread erases an entry.
THEOREM RpcInductive == Spec => []RpcInv
<1>1. RpcInv /\ [Next]_vars => RpcInv'
  <2> SUFFICES ASSUME RpcInv, [Next]_vars PROVE RpcInv'
    BY Zenon
  <2>1. CASE Next
    BY <2>1, CallInv, WaitInv, ListenInv, ServeInv, NetworkInv, Zenon DEF Next, Client
  <2>2. CASE UNCHANGED vars
    BY <2>2, ZenonT(30) DEF RpcInv, RpcTypeOK, IdsMade, AnswersServed, ReadyIsErased, PendingInv, vars, cvars, tvars, nvars, workVars, Fresh, Served, Current
  <2> QED BY <2>1, <2>2, Zenon
<1> QED BY <1>1, RpcInitInv, PTL DEF Spec

\* The table of RpcClient does not grow: every entry is of a call that waits, that
\* on_msg is about to erase, or that was given no target.
THEOREM TableBounded == Spec => []TableIsPending
<1>1. RpcInv => TableIsPending
  BY Zenon DEF RpcInv, PendingInv, TableIsPending
<1> QED BY <1>1, RpcInductive, PTL

\* RpcClient::call returns an answer only for a command that the server has carried
\* out or does not know, never the late or repeated reply of another call.
THEOREM AnswersAreTrue == Spec => []AnsweredWasRun
<1>1. RpcInv => AnsweredWasRun
  BY Zenon DEF RpcInv, AnswersServed, AnsweredWasRun, Served
<1> QED BY <1>1, RpcInductive, PTL

-----------------------------------------------------------------------------
(* Child processes                                                         *)

CallType ==
  [pc : {"idle", "read", "close"}, by : {"none", "run_process", "run_ping"},
   proc : {"none", "running", "zombie"}, good : BOOLEAN,
   text : {"none", "printed", "taken", "read"}, code : {"none", "ok", "failed"}]

\* A caller has an answer only between two commands, when the child of the last one
\* is gone; what it answers is what that child said.
SupInv ==
  /\ call \in [PingCallers -> CallType]
  /\ \A t \in PingCallers :
       /\ call[t].pc # "idle" => call[t].code = "none"
       /\ call[t].proc # "none" => call[t].pc # "idle"
       /\ call[t].code = "ok" => call[t].good

SupSpec == SupInit /\ [][SupNext]_supVars

\* The invariant holds when the agent starts.
LEMMA SupInitInv == SupInit => SupInv
  BY DEF SupInit, SupInv, CallType, NoPing

\* A command and its caller: popen(), the child, fgets(), pclose().
LEMMA CommandInv ==
  ASSUME SupInv, NEW t \in PingCallers,
         \/ \E f \in {"run_process", "run_ping"} : CallBegin(t, f)
         \/ \E g \in BOOLEAN : CommandEnds(t, g)
         \/ SupReapCommand(t) \/ StaleRead(t) \/ CallRead(t) \/ CallClose(t)
  PROVE  SupInv'
<1>1. CASE \E f \in {"run_process", "run_ping"} : CallBegin(t, f)
  <2>1. \/ call' = [call EXCEPT ![t].code = "failed"]
        \/ \E f \in {"run_process", "run_ping"} :
             call' = [call EXCEPT ![t] = [pc |-> "read", by |-> f, proc |-> "running", good |-> FALSE,
                                          text |-> "none", code |-> "none"]]
    BY <1>1, ZenonT(30) DEF CallBegin, NoPing
  <2>2. call[t] \in CallType /\ call[t].pc = "idle" /\ call[t].proc = "none" /\ call \in [PingCallers -> CallType]
    BY <1>1, Zenon DEF SupInv, CallBegin
  <2>3. CASE call' = [call EXCEPT ![t].code = "failed"]
    <3>1. call'[t] = [call[t] EXCEPT !.code = "failed"]
      BY <2>2, <2>3, Zenon
    <3>2. call'[t] \in CallType /\ call'[t].code = "failed" /\ call'[t].pc = "idle" /\ call'[t].proc = "none"
      BY <2>2, <3>1, Zenon DEF CallType
    <3> QED BY <2>2, <2>3, <3>2, Zenon DEF SupInv
  <2>4. CASE call' # [call EXCEPT ![t].code = "failed"]
    <3>1. PICK f \in {"run_process", "run_ping"} :
             call' = [call EXCEPT ![t] = [pc |-> "read", by |-> f, proc |-> "running", good |-> FALSE,
                                          text |-> "none", code |-> "none"]]
      BY <2>1, <2>4, Zenon
    <3>2. call'[t] \in CallType /\ call'[t].code = "none" /\ call'[t].pc = "read"
      BY <2>2, <3>1, Zenon DEF CallType
    <3> QED BY <2>2, <3>1, <3>2, Zenon DEF SupInv
  <2> QED BY <2>3, <2>4, Zenon
<1>2. CASE \E g \in BOOLEAN : CommandEnds(t, g)
  <2>1. PICK g \in BOOLEAN : CommandEnds(t, g)
    BY <1>2, Zenon
  <2>2. call' = [call EXCEPT ![t] = [call[t] EXCEPT !.proc = "zombie", !.good = g, !.text = "printed"]]
    BY <2>1, Zenon DEF CommandEnds, SupInv, CallType
  <2>3. call[t] \in CallType /\ call'[t] = [call[t] EXCEPT !.proc = "zombie", !.good = g, !.text = "printed"]
    BY <2>2, Zenon DEF SupInv
  <2>4. call'[t] \in CallType /\ call'[t].pc = call[t].pc /\ call'[t].code = call[t].code
    BY <2>3, Zenon DEF CallType
  <2>5. call[t].proc = "running"
    BY <2>1, Zenon DEF CommandEnds
  <2>6. call'[t].pc # "idle" /\ call'[t].code = "none"
    BY <2>4, <2>5, Zenon DEF SupInv
  <2>7. call' \in [PingCallers -> CallType] /\ \A u \in PingCallers : u # t => call'[u] = call[u]
    BY <2>2, <2>4, Zenon DEF SupInv
  <2> QED BY <2>6, <2>7, Zenon DEF SupInv
<1>3. CASE SupReapCommand(t)
  BY <1>3 DEF SupInv, CallType, SupReapCommand
<1>4. CASE StaleRead(t)
  BY <1>4 DEF SupInv, CallType, StaleRead
<1>5. CASE CallRead(t)
  <2> DEFINE x == IF call[t].text = "printed" THEN "read" ELSE call[t].text
  <2>1. call' = [call EXCEPT ![t] = [call[t] EXCEPT !.pc = "close", !.text = x]]
    BY <1>5, Zenon DEF SupInv, CallRead
  <2>2. call[t] \in CallType /\ call'[t] = [call[t] EXCEPT !.pc = "close", !.text = x]
    BY <2>1, Zenon DEF SupInv
  <2>3. call'[t] \in CallType /\ call'[t].code = call[t].code /\ call'[t].good = call[t].good /\ call'[t].pc = "close"
    BY <2>2, Zenon DEF CallType
  <2> QED BY <1>5, <2>1, <2>3 DEF SupInv, CallRead
<1>6. CASE CallClose(t)
  <2>1. Result(call[t]) \in {"ok", "failed"} /\ (Result(call[t]) = "ok" => call[t].good)
    BY Zenon DEF Result
  <2> QED BY <1>6, <2>1, ZenonT(30) DEF SupInv, CallType, CallClose, NoPing
<1> QED BY <1>1, <1>2, <1>3, <1>4, <1>5, <1>6, Zenon

\* run_ping() reports a host as reachable only if its own ping said so: whoever
\* collects the child or takes its output, in every order with supervise_process(),
\* the program it restarts and the end of the agent.
THEOREM PingsAreTrue == SupSpec => []PingTruth
<1>1. SupInv /\ [SupNext]_supVars => SupInv'
  <2> SUFFICES ASSUME SupInv, [SupNext]_supVars PROVE SupInv'
    BY Zenon
  <2>1. CASE \E t \in PingCallers :
                \/ \E f \in {"run_process", "run_ping"} : CallBegin(t, f)
                \/ \E g \in BOOLEAN : CommandEnds(t, g)
                \/ SupReapCommand(t) \/ StaleRead(t) \/ CallRead(t) \/ CallClose(t)
    BY <2>1, CommandInv, Zenon
  <2>2. CASE ProcessStop
    BY <2>2 DEF SupInv, CallType, ProcessStop
  <2>3. CASE AgentExits
    BY <2>3, Zenon DEF SupInv, CallType, AgentExits, NoPing
  <2>4. CASE UNCHANGED call
    BY <2>4, Zenon DEF SupInv
  <2> QED
    BY <2>1, <2>2, <2>3, <2>4, Zenon DEF SupNext, supVars, SupStart, SupStartFails, SupReapProg, SupReapHelper,
         SupSeesStop, SupNoChild, SupDecide, SupAgain, ProgEnds, ProgStops, ProgContinues, ProgForks, HelperEnds
<1>2. SupInv => PingTruth
  BY Zenon DEF SupInv, PingTruth
<1> QED BY <1>1, <1>2, SupInitInv, PTL DEF SupSpec

-----------------------------------------------------------------------------
(* Host commands                                                           *)

\* A thread of the agent has one place; nothing listens without a pong thread; a
\* directory that exists has an owner.
HostInv ==
  /\ DOMAIN hpc = HostThreads /\ hpc = [t \in HostThreads |-> hpc[t]]
  /\ DOMAIN hostReply = HostThreads /\ hostReply = [t \in HostThreads |-> hostReply[t]]
  /\ hostCmds \in Nat
  /\ dirOwner = [d \in DOMAIN dirOwner |-> dirOwner[d]]
  /\ pong \in [joinable : BOOLEAN, thread : {"none", "starting", "serving", "ending", "ended"},
               listening : BOOLEAN, stopped : BOOLEAN]
  /\ pong.listening => pong.thread \in {"serving", "ending"}
  /\ ~pong.joinable => pong.thread = "none"

\* A thread that answers, or goes on, leaves the others alone.
LEMMA OneThread ==
  ASSUME HostInv, NEW t \in HostThreads, NEW u \in HostThreads, NEW said, NEW code, NEW r
  PROVE  /\ Returns(t, said, code) => hostReply'[t] = [cmd |-> said, code |-> code]
         /\ Returns(t, said, code) /\ u # t => hpc'[u] = hpc[u] /\ hostReply'[u] = hostReply[u]
         /\ Goes(t, r) /\ u # t => hpc'[u] = hpc[u] /\ hostReply'[u] = hostReply[u]
PROOF
<1>1. PICK x : x = [cmd |-> said, code |-> code]
  BY Zenon
<1>2. hpc = [v \in HostThreads |-> hpc[v]] /\ hostReply = [v \in HostThreads |-> hostReply[v]]
  BY Zenon DEF HostInv
<1>3. Returns(t, said, code) => hpc' = [hpc EXCEPT ![t] = IdleThread] /\ hostReply' = [hostReply EXCEPT ![t] = x]
  BY <1>1, Zenon DEF Returns
<1>4. Returns(t, said, code) =>
        hostReply'[t] = x /\ (u # t => hpc'[u] = hpc[u] /\ hostReply'[u] = hostReply[u])
  BY <1>2, <1>3
<1>5. Goes(t, r) /\ u # t => hpc'[u] = hpc[u] /\ hostReply'[u] = hostReply[u]
  BY <1>2 DEF Goes
<1> QED BY <1>1, <1>4, <1>5, Zenon

\* The threads and their replies stay functions of the threads.
LEMMA ThreadsTyped ==
  ASSUME HostInv, NEW t \in HostThreads, NEW said, NEW code, NEW r
  PROVE  Returns(t, said, code) \/ Goes(t, r) \/ UNCHANGED <<hpc, hostReply>> =>
           /\ DOMAIN hpc' = HostThreads /\ hpc' = [v \in HostThreads |-> hpc'[v]]
           /\ DOMAIN hostReply' = HostThreads /\ hostReply' = [v \in HostThreads |-> hostReply'[v]]
PROOF
<1>1. PICK x : x = [cmd |-> said, code |-> code]
  BY Zenon
<1>2. Returns(t, said, code) => hpc' = [hpc EXCEPT ![t] = IdleThread] /\ hostReply' = [hostReply EXCEPT ![t] = x]
  BY <1>1, Zenon DEF Returns
<1>3. Goes(t, r) => hpc' = [hpc EXCEPT ![t] = r] /\ UNCHANGED hostReply
  BY Zenon DEF Goes
<1> QED BY <1>2, <1>3 DEF HostInv

\* Every command and every step of the pong thread keeps this.
LEMMA HostStep == HostInv /\ [HostNext]_hostVars => HostInv'
PROOF
<1> SUFFICES ASSUME HostInv, [HostNext]_hostVars PROVE HostInv' BY Zenon
<1> DEFINE Places ==
      /\ DOMAIN hpc' = HostThreads /\ hpc' = [v \in HostThreads |-> hpc'[v]]
      /\ DOMAIN hostReply' = HostThreads /\ hostReply' = [v \in HostThreads |-> hostReply'[v]]
<1> DEFINE Pong ==
      /\ pong' \in [joinable : BOOLEAN, thread : {"none", "starting", "serving", "ending", "ended"},
                    listening : BOOLEAN, stopped : BOOLEAN]
      /\ pong'.listening => pong'.thread \in {"serving", "ending"}
      /\ ~pong'.joinable => pong'.thread = "none"
<1> DEFINE Owners == dirOwner' = [d \in DOMAIN dirOwner' |-> dirOwner'[d]]
<1>1. ASSUME NEW t \in HostThreads PROVE
        /\ \A said, code : Returns(t, said, code) => Places
        /\ \A r : Goes(t, r) => Places
  BY ThreadsTyped, Zenon
<1>2. UNCHANGED <<hpc, hostReply>> => Places
  BY Zenon DEF HostInv
<1>3. (Counted \/ UNCHANGED hostCmds) => hostCmds' \in Nat
  BY DEF HostInv, Counted
<1>4. UNCHANGED pong => Pong
  BY Zenon DEF HostInv
<1>5. UNCHANGED dirOwner => Owners
  BY Zenon DEF HostInv
<1> HIDE DEF Places, Pong, Owners
<1>6. ASSUME Places, Pong, Owners, Counted \/ UNCHANGED hostCmds PROVE HostInv'
  BY <1>3, <1>6, Zenon DEF HostInv, Places, Pong, Owners
<1>7. Terminates => Places /\ Pong /\ Owners
  BY <1>2, <1>4, <1>5, Zenon DEF Terminates
<1>8. CASE PongListen
  <2>1. CASE Terminates
    BY <1>6, <1>7, <1>8, <2>1, Zenon DEF PongListen
  <2>2. CASE ~Terminates
    <3>1. UNCHANGED <<hpc, hostReply, dirOwner, hostCmds>>
      BY <1>8, <2>2, Zenon DEF PongListen
    <3>2. Pong
      BY <1>8, <2>2, Zenon DEF PongListen, HostInv, Pong
    <3> QED BY <1>2, <1>5, <1>6, <3>1, <3>2, Zenon
  <2> QED BY <2>1, <2>2, Zenon
<1>9. CASE PongEnd
  <2>1. UNCHANGED <<hpc, hostReply, dirOwner, hostCmds>>
    BY <1>9, Zenon DEF PongEnd
  <2>2. Pong
    BY <1>9, Zenon DEF PongEnd, HostInv, Pong
  <2> QED BY <1>2, <1>5, <1>6, <2>1, <2>2, Zenon
<1>10. ASSUME NEW t \in HostThreads, StartPong(t) \/ MkdirUnknown(t) \/ PingConnect(t) PROVE HostInv'
  <2>1. Counted /\ UNCHANGED <<pong, dirOwner>>
    BY <1>10, Zenon DEF StartPong, MkdirUnknown, PingConnect, pongVars
  <2>2. Places
    BY <1>1, <1>10, Zenon DEF StartPong, MkdirUnknown, PingConnect
  <2> QED BY <1>4, <1>5, <1>6, <2>1, <2>2, Zenon
<1>11. ASSUME NEW t \in HostThreads, PongAccept(t) \/ PongEcho(t) \/ PingWrite(t) \/ PingRead(t) PROVE HostInv'
  <2>1. UNCHANGED <<pong, dirOwner, hostCmds>>
    BY <1>11, Zenon DEF PongAccept, PongEcho, PingWrite, PingRead, pongVars
  <2>2. Places
    BY <1>1, <1>2, <1>11, Zenon DEF PongAccept, PongEcho, PingWrite, PingRead
  <2> QED BY <1>4, <1>5, <1>6, <2>1, <2>2, Zenon
<1>12. ASSUME NEW t \in HostThreads, AssignPong(t) \/ JoinPong(t) PROVE HostInv'
  <2>1. CASE Terminates
    BY <1>6, <1>7, <1>12, <2>1, Zenon DEF AssignPong, JoinPong
  <2>2. CASE ~Terminates
    <3>1. UNCHANGED <<dirOwner, hostCmds>>
      BY <1>12, <2>2, Zenon DEF AssignPong, JoinPong
    <3>2. Places
      BY <1>1, <1>12, <2>2, Zenon DEF AssignPong, JoinPong
    <3>3. \/ UNCHANGED pong
          \/ pong' = [pong EXCEPT !.joinable = TRUE, !.thread = "starting"] /\ ~pong.joinable
          \/ pong' = [pong EXCEPT !.joinable = FALSE, !.thread = "none"] /\ pong.thread = "ended"
      BY <1>12, <2>2, Zenon DEF AssignPong, JoinPong, pongVars
    <3>4. Pong
      <4>1. CASE pong' = [pong EXCEPT !.joinable = TRUE, !.thread = "starting"] /\ ~pong.joinable
        BY <4>1, Zenon DEF HostInv, Pong
      <4>2. CASE pong' = [pong EXCEPT !.joinable = FALSE, !.thread = "none"] /\ pong.thread = "ended"
        BY <4>2, Zenon DEF HostInv, Pong
      <4> QED BY <1>4, <3>3, <4>1, <4>2, Zenon
    <3> QED BY <1>5, <1>6, <3>1, <3>2, <3>4, Zenon
  <2> QED BY <2>1, <2>2, Zenon
<1>13. ASSUME NEW t \in HostThreads, StopPong(t) PROVE HostInv'
  <2>1. Counted /\ UNCHANGED dirOwner
    BY <1>13, Zenon DEF StopPong
  <2>2. Places
    BY <1>1, <1>13, Zenon DEF StopPong
  <2>3. Pong
    BY <1>13, Zenon DEF StopPong, HostInv, Pong
  <2> QED BY <1>5, <1>6, <2>1, <2>2, <2>3, Zenon
<1>14. ASSUME NEW t \in HostThreads, Chown(t) PROVE HostInv'
  <2>1. UNCHANGED <<pong, hostCmds>>
    BY <1>14, Zenon DEF Chown, pongVars
  <2>2. Places
    BY <1>1, <1>14, Zenon DEF Chown
  <2>3. Owners
    BY <1>14 DEF Chown, HostInv, Owners
  <2> QED BY <1>4, <1>6, <2>1, <2>2, <2>3, Zenon
<1>15. ASSUME NEW t \in HostThreads, NEW d, NEW u, Mkdir(t, d, u) PROVE HostInv'
  <2>1. Counted /\ UNCHANGED pong
    BY <1>15, Zenon DEF Mkdir, pongVars
  <2>2. Places
    BY <1>1, <1>15, Zenon DEF Mkdir
  <2>3. UNCHANGED dirOwner \/ dirOwner' = [x \in DOMAIN dirOwner \cup {d} |-> IF x = d THEN NoUser ELSE dirOwner[x]]
    BY <1>15, Zenon DEF Mkdir
  <2>4. Owners
    BY <1>5, <2>3 DEF Owners
  <2> QED BY <1>4, <1>6, <2>1, <2>2, <2>4, Zenon
<1>16. ASSUME NEW t \in HostThreads, NEW op, NEW what, NEW key, TableCommand(t, op, what, key) PROVE HostInv'
  <2>1. Counted /\ UNCHANGED <<pong, dirOwner>>
    BY <1>16, Zenon DEF TableCommand, pongVars
  <2>2. Places
    BY <1>1, <1>16, Zenon DEF TableCommand
  <2> QED BY <1>4, <1>5, <1>6, <2>1, <2>2, Zenon
<1>17. CASE UNCHANGED hostVars
  BY <1>2, <1>4, <1>5, <1>6, <1>17, Zenon DEF hostVars
<1> QED BY <1>8, <1>9, <1>10, <1>11, <1>12, <1>13, <1>14, <1>15, <1>16, <1>17, Zenon DEF HostNext

\* The host as it starts
LEMMA HostStart == HostInit => HostInv
<1> SUFFICES ASSUME HostInit PROVE HostInv BY Zenon
<1>1. dirOwner = [d \in DOMAIN dirOwner |-> dirOwner[d]]
  <2>1. dirOwner = <<>> /\ DOMAIN dirOwner = {}
    BY DEF HostInit
  <2> QED BY <2>1
<1>2. hostCmds \in Nat
  BY DEF HostInit
<1>3. /\ pong \in [joinable : BOOLEAN, thread : {"none", "starting", "serving", "ending", "ended"},
                   listening : BOOLEAN, stopped : BOOLEAN]
      /\ pong.listening => pong.thread \in {"serving", "ending"}
      /\ ~pong.joinable => pong.thread = "none"
  BY DEF HostInit
<1>4. /\ DOMAIN hpc = HostThreads /\ hpc = [t \in HostThreads |-> hpc[t]]
      /\ DOMAIN hostReply = HostThreads /\ hostReply = [t \in HostThreads |-> hostReply[t]]
  BY DEF HostInit
<1> QED BY <1>1, <1>2, <1>3, <1>4, Zenon DEF HostInv

\* A reply of another thread, and one that a thread had before, say nothing new; what a
\* step that answers changes is what the answer says.
LEMMA HostReplyStep ==
  HostInv /\ [HostNext]_hostVars =>
    [\A t \in HostThreads : TableReplyTrue(t) /\ StopReplyTrue(t) /\ MkdirReplyTrue(t)]_hostVars
PROOF
<1> SUFFICES ASSUME HostInv, HostNext, NEW t \in HostThreads
             PROVE  TableReplyTrue(t) /\ StopReplyTrue(t) /\ MkdirReplyTrue(t)
  BY Zenon
\* a step in which the thread neither answers nor comes from a join or a chown
<1>1. ASSUME hostReply'[t] = hostReply[t], hpc'[t] = hpc[t] PROVE TableReplyTrue(t) /\ StopReplyTrue(t) /\ MkdirReplyTrue(t)
  BY <1>1 DEF TableReplyTrue, StopReplyTrue, MkdirReplyTrue
<1>2. ASSUME hostReply'[t] = hostReply[t], hpc[t].at \notin {"join", "chown"}
      PROVE TableReplyTrue(t) /\ StopReplyTrue(t) /\ MkdirReplyTrue(t)
  BY <1>2 DEF TableReplyTrue, StopReplyTrue, MkdirReplyTrue
<1>3. ASSUME NEW c, NEW code, hostReply'[t] = [cmd |-> c, code |-> code],
             \A op \in {"add", "delete"} : \A a, b : c # <<op, a, b>>, hpc[t].at \notin {"join", "chown"}
      PROVE TableReplyTrue(t) /\ StopReplyTrue(t) /\ MkdirReplyTrue(t)
  BY <1>3 DEF TableReplyTrue, StopReplyTrue, MkdirReplyTrue
<1> DEFINE Tells == TableReplyTrue(t) /\ StopReplyTrue(t) /\ MkdirReplyTrue(t)
<1> HIDE DEF Tells
<1>4. ASSUME NEW v \in HostThreads, v # t, NEW c, NEW code, NEW r,
             Returns(v, c, code) \/ Goes(v, r) \/ UNCHANGED <<hpc, hostReply>>
      PROVE  Tells
  <2>1. hpc'[t] = hpc[t] /\ hostReply'[t] = hostReply[t]
    BY <1>4, OneThread, Zenon
  <2> QED BY <1>1, <2>1, Zenon DEF Tells
<1>5. UNCHANGED <<hpc, hostReply>> => Tells
  BY <1>1, Zenon DEF Tells
<1>6. ASSUME NEW r, Goes(t, r), hpc[t].at \notin {"join", "chown"} PROVE Tells
  <2>1. hostReply'[t] = hostReply[t]
    BY <1>6, Zenon DEF Goes
  <2> QED BY <1>2, <1>6, <2>1, Zenon DEF Tells
<1>7. ASSUME NEW c, NEW code, Returns(t, c, code), \A op \in {"add", "delete"} : \A a, b : c # <<op, a, b>>,
             hpc[t].at \notin {"join", "chown"}
      PROVE Tells
  <2>1. hostReply'[t] = [cmd |-> c, code |-> code]
    BY <1>7, OneThread
  <2> QED BY <1>3, <1>7, <2>1, Zenon DEF Tells
<1>8. \A op \in {"add", "delete"} : \A a, b :
        /\ <<"start_pong">> # <<op, a, b>> /\ <<"stop_pong">> # <<op, a, b>> /\ <<"send_ping">> # <<op, a, b>>
        /\ <<"mkdir">> # <<op, a, b>>
        /\ \A d, u : <<"mkdir", d, u>> # <<op, a, b>>
  OBVIOUS
<1>9. hpc[t].at \in {"idle", "assign", "write", "read"} => hpc[t].at \notin {"join", "chown"}
  OBVIOUS
<1>10. Free(t) => hpc[t].at \notin {"join", "chown"}
  BY DEF Free
<1>11. ASSUME PongListen \/ PongEnd PROVE Tells
  <2>1. UNCHANGED <<hpc, hostReply>>
    BY <1>11 DEF PongListen, PongEnd, Terminates
  <2> QED BY <1>5, <2>1, Zenon
<1>19. ASSUME NEW v \in HostThreads, PongAccept(v) \/ PongEcho(v) PROVE Tells
  <2>1. UNCHANGED <<hpc, hostReply>>
    BY <1>19 DEF PongAccept, PongEcho
  <2> QED BY <1>5, <2>1, Zenon
<1>12. ASSUME NEW v \in HostThreads, StartPong(v) \/ StopPong(v) \/ MkdirUnknown(v) \/ PingConnect(v) PROVE Tells
  <2>1. CASE v # t
    BY <1>4, <1>12, <2>1, Zenon DEF StartPong, StopPong, MkdirUnknown, PingConnect
  <2>2. CASE v = t
    <3>1. /\ hpc[t].at \notin {"join", "chown"}
          /\ (\E r : Goes(t, r)) \/ \E code, c : Returns(t, c, code) /\ c \in {<<"start_pong">>, <<"stop_pong">>, <<"mkdir">>, <<"send_ping">>}
      BY <1>10, <1>12, <2>2, Zenon DEF StartPong, StopPong, MkdirUnknown, PingConnect
    <3> QED BY <1>6, <1>7, <1>8, <3>1, Zenon
  <2> QED BY <2>1, <2>2, Zenon
<1>13. ASSUME NEW v \in HostThreads, AssignPong(v) \/ PingWrite(v) \/ PingRead(v) PROVE Tells
  <2>1. CASE v # t
    BY <1>4, <1>13, <2>1, Zenon DEF AssignPong, PingWrite, PingRead, Terminates
  <2>2. CASE v = t
    <3>1. /\ hpc[t].at \notin {"join", "chown"}
          /\ \/ UNCHANGED <<hpc, hostReply>> \/ \E r : Goes(t, r)
             \/ \E code, c : Returns(t, c, code) /\ c \in {<<"start_pong">>, <<"send_ping">>}
      BY <1>9, <1>13, <2>2, Zenon DEF AssignPong, PingWrite, PingRead, Terminates
    <3> QED BY <1>5, <1>6, <1>7, <1>8, <3>1, Zenon
  <2> QED BY <2>1, <2>2, Zenon
<1>14. ASSUME NEW v \in HostThreads, NEW d, NEW u, Mkdir(v, d, u) PROVE Tells
  <2>1. CASE v # t
    BY <1>4, <1>14, <2>1, Zenon DEF Mkdir
  <2>2. CASE v = t
    <3>1. /\ hpc[t].at \notin {"join", "chown"}
          /\ (\E r : Goes(t, r)) \/ \E code : Returns(t, <<"mkdir", d, u>>, code)
      BY <1>10, <1>14, <2>2, Zenon DEF Mkdir
    <3> QED BY <1>6, <1>7, <1>8, <3>1, Zenon
  <2> QED BY <2>1, <2>2, Zenon
<1>15. ASSUME NEW v \in HostThreads, JoinPong(v) PROVE Tells
  <2>1. CASE v # t
    BY <1>4, <1>15, <2>1, Zenon DEF JoinPong, Terminates
  <2>2. CASE v = t /\ UNCHANGED <<hpc, hostReply>>
    BY <1>5, <2>2, Zenon
  <2>3. CASE v = t /\ ~UNCHANGED <<hpc, hostReply>>
    <3>1. PICK code \in {"ok", "error"} :
            /\ Returns(t, <<"stop_pong">>, code)
            /\ code = "ok" => pong.thread = "ended" /\ pong' = [pong EXCEPT !.joinable = FALSE, !.thread = "none"]
      BY <1>15, <2>3, Zenon DEF JoinPong, Terminates
    <3>2. hostReply'[t] = [cmd |-> <<"stop_pong">>, code |-> code]
      BY <3>1, OneThread
    <3>3. hpc[t].at = "join"
      BY <1>15, <2>3, Zenon DEF JoinPong
    <3>4. code = "ok" => ~pong'.listening /\ pong'.thread = "none"
      BY <3>1, Zenon DEF HostInv
    <3>5. TableReplyTrue(t)
      BY <1>8, <3>2 DEF TableReplyTrue
    <3>6. StopReplyTrue(t) /\ MkdirReplyTrue(t)
      BY <3>2, <3>3, <3>4 DEF StopReplyTrue, MkdirReplyTrue
    <3> QED BY <3>5, <3>6, Zenon DEF Tells
  <2> QED BY <2>1, <2>2, <2>3, Zenon
<1>16. ASSUME NEW v \in HostThreads, Chown(v) PROVE Tells
  <2>1. CASE v # t
    BY <1>4, <1>16, <2>1, Zenon DEF Chown
  <2>2. CASE v = t
    <3>1. PICK d, u, code :
            /\ Returns(t, <<"mkdir", d, u>>, code) /\ hpc[t].at = "chown"
            /\ \/ code = "error"
               \/ d \in DOMAIN dirOwner /\ dirOwner' = [dirOwner EXCEPT ![d] = u]
      BY <1>16, <2>2, Zenon DEF Chown
    <3>2. hostReply'[t] = [cmd |-> <<"mkdir", d, u>>, code |-> code]
      BY <3>1, OneThread
    <3>3. code # "error" => d \in DOMAIN dirOwner' /\ dirOwner'[d] = u
      BY <3>1, SMTT(30) DEF HostInv
    <3>4. TableReplyTrue(t) /\ StopReplyTrue(t)
      BY <1>8, <3>1, <3>2 DEF TableReplyTrue, StopReplyTrue
    <3>5. MkdirReplyTrue(t)
      BY <3>2, <3>3 DEF MkdirReplyTrue
    <3> QED BY <3>4, <3>5, Zenon DEF Tells
  <2> QED BY <2>1, <2>2, Zenon
<1>17. ASSUME NEW v \in HostThreads, NEW op \in {"add", "delete"}, NEW what \in {"route", "arp"},
              NEW key \in RouteKeys \cup {BadKey}, TableCommand(v, op, what, key)
       PROVE  Tells
  <2>1. CASE v # t
    BY <1>4, <1>17, <2>1, Zenon DEF TableCommand
  <2>2. CASE v = t
    <3>1. PICK code \in {"ignored", "error", "ok"} :
            /\ Returns(t, <<op, what, key>>, code)
            /\ code # "ok" => UNCHANGED table
            /\ code = "ok" => table' = IF op = "add" THEN table \cup {<<what, key>>} ELSE table \ {<<what, key>>}
      BY <1>17, <2>2, SMTT(30) DEF TableCommand, Kernel, RouteResult, ArpResult
    <3>2. hostReply'[t] = [cmd |-> <<op, what, key>>, code |-> code]
      BY <3>1, OneThread
    <3>3. TableReplyTrue(t)
      <4> SUFFICES ASSUME NEW o \in {"add", "delete"}, NEW e \in {"route", "arp"} \X (RouteKeys \cup {BadKey}),
                          <<op, what, key>> = <<o, e[1], e[2]>>
                   PROVE  IF code = "ok" THEN (e \in table') = (o = "add") ELSE table' = table
        BY <3>2 DEF TableReplyTrue
      <4>1. o = op /\ e = <<what, key>>
        BY SMTT(30)
      <4> QED BY <3>1, <4>1, SMTT(30)
    <3>4. StopReplyTrue(t) /\ MkdirReplyTrue(t)
      BY <1>10, <1>17, <2>2 DEF StopReplyTrue, MkdirReplyTrue, TableCommand
    <3> QED BY <3>3, <3>4, Zenon DEF Tells
  <2> QED BY <2>1, <2>2, Zenon
<1>18. Tells
  BY <1>11, <1>12, <1>13, <1>14, <1>15, <1>16, <1>17, <1>19, Zenon DEF HostNext
<1> QED BY <1>18, Zenon DEF Tells

\* Whatever commands overlap on any number of threads of the agent, a reply tells what
\* happened on the host.
THEOREM RepliesAreTrue == HostSpec => RepliesTrue
<1> QED BY HostStart, HostStep, HostReplyStep, PTL DEF HostSpec, RepliesTrue

-----------------------------------------------------------------------------
(* The portal client                                                       *)

Requests == (Posters \X Nat) \cup {NoRequest}

Answers == [code : {0, 200}, answer : Requests, shared : BOOLEAN]

Stages == {"idle", "perform", "parse"}

PortalTypes ==
    /\ response \in Seq(Requests) /\ options \in Requests
    /\ posting \in [Posters -> [at : Stages, n : Nat, shared : BOOLEAN]]
    /\ obtained \in [Posters -> Seq(Answers)]

\* A thread that was alone so far: no other request is under way, the options are its
\* own, and the stream holds nothing but its answer.
AloneOK(p) ==
    posting[p].at # "idle" /\ ~posting[p].shared =>
        /\ \A q \in Posters \ {p} : posting[q].at = "idle"
        /\ posting[p].n = Len(obtained[p]) + 1 /\ options = <<p, posting[p].n>>
        /\ posting[p].at = "perform" => response = <<>>
        /\ posting[p].at = "parse" => response = <<options>>

PortalInv ==
    /\ PortalTypes
    /\ PostersBusy = {} => response = <<>>
    /\ \A p \in Posters : AloneOK(p)
    /\ AloneGetsOwn

\* The invariant holds before the first request.
LEMMA PortalInitInv == PortalInit => PortalInv
  BY DEF PortalInit, PortalInv, PortalTypes, AloneOK, AloneGetsOwn, PostersBusy, NotPosting, Requests, Stages

\* The answer that a thread appends is its own, or was obtained together with others.
LEMMA AppendOwn ==
    ASSUME PortalTypes, AloneGetsOwn, NEW p \in Posters,
           NEW got \in Answers,
           ~got.shared => got.code = 0 \/ got.answer = <<p, Len(obtained[p]) + 1>>,
           obtained' = [obtained EXCEPT ![p] = Append(@, got)]
    PROVE  AloneGetsOwn' /\ obtained' \in [Posters -> Seq(Answers)]
<1>0. obtained \in [Posters -> Seq(Answers)]
  BY Zenon DEF PortalTypes
<1>1. obtained' \in [Posters -> Seq(Answers)]
  BY <1>0
<1>2. SUFFICES ASSUME NEW q \in Posters, NEW n \in 1..Len(obtained'[q]), ~obtained'[q][n].shared
               PROVE  obtained'[q][n].code = 0 \/ obtained'[q][n].answer = <<q, n>>
  BY <1>1, Zenon DEF AloneGetsOwn
<1>3. CASE q = p /\ n = Len(obtained[p]) + 1
  <2>1. obtained[p] \in Seq(Answers) /\ obtained'[p] = Append(obtained[p], got)
    BY <1>0, Zenon
  <2>2. obtained'[p][Len(obtained[p]) + 1] = got
    BY <2>1
  <2> QED BY <1>2, <1>3, <2>2, Zenon
<1>4. CASE ~(q = p /\ n = Len(obtained[p]) + 1)
  <2>1. n \in 1..Len(obtained[q]) /\ obtained'[q][n] = obtained[q][n]
    BY <1>0, <1>2, <1>4
  <2> QED BY <1>2, <2>1, Zenon DEF AloneGetsOwn
<1> QED BY <1>3, <1>4, Zenon

\* Every step of a request preserves it.
LEMMA PortalStep == PortalInv /\ [PortalNext]_portalVars => PortalInv'
<1> SUFFICES ASSUME PortalInv, [PortalNext]_portalVars PROVE PortalInv'
  BY Zenon
<1> USE DEF PortalInv, Requests, Stages, NoRequest
<1>1. ASSUME NEW p \in Posters, PostBegin(p) PROVE PortalInv'
  <2>1. PortalTypes'
    <3>1. Len(obtained[p]) + 1 \in Nat
      BY DEF PortalTypes
    <3>2. options' \in Requests
      BY <1>1, <3>1, Zenon DEF PostBegin
    <3>3. ASSUME NEW q \in Posters PROVE posting'[q] \in [at : Stages, n : Nat, shared : BOOLEAN]
      BY <1>1, <3>1, Zenon DEF PostBegin, PortalTypes
    <3>4. posting' \in [Posters -> [at : Stages, n : Nat, shared : BOOLEAN]]
      BY <1>1, <3>3, Zenon DEF PostBegin
    <3> QED BY <1>1, <3>2, <3>4, Zenon DEF PostBegin, PortalTypes
  <2>2. AloneGetsOwn'
    BY <1>1, Zenon DEF PostBegin, AloneGetsOwn
  <2>3. p \in PostersBusy'
    BY <1>1, Zenon DEF PostBegin, PostersBusy, PortalTypes
  <2>4. ASSUME NEW q \in Posters PROVE AloneOK(q)'
    <3>1. CASE q = p
      BY <1>1, <3>1, Zenon DEF PostBegin, AloneOK, PostersBusy, PortalTypes
    <3>2. CASE q # p
      BY <1>1, <3>2 DEF PostBegin, AloneOK, PostersBusy, PortalTypes
    <3> QED BY <3>1, <3>2, Zenon
  <2> QED BY <2>1, <2>2, <2>3, <2>4, Zenon
<1>2. ASSUME NEW p \in Posters, PostFails(p) PROVE PortalInv'
  <2> DEFINE got == [code |-> 0, answer |-> NoRequest, shared |-> posting[p].shared]
  <2>1. AloneGetsOwn' /\ obtained' \in [Posters -> Seq(Answers)]
    <3>1. got \in Answers /\ (~got.shared => got.code = 0)
      BY Zenon DEF PortalTypes, Answers
    <3> QED BY <1>2, <3>1, AppendOwn, Zenon DEF PostFails
  <2>2. PortalTypes'
    BY <1>2, <2>1 DEF PostFails, PortalTypes, NotPosting
  <2>3. ASSUME NEW q \in Posters PROVE AloneOK(q)'
    BY <1>2, Zenon DEF PostFails, AloneOK, PortalTypes, NotPosting
  <2> QED BY <1>2, <2>1, <2>2, <2>3, Zenon DEF PostFails
<1>3. ASSUME NEW p \in Posters, PostArrives(p) PROVE PortalInv'
  <2>1. PortalTypes'
    <3>1. response' \in Seq(Requests)
      <4>1. response \in Seq(Requests) /\ options \in Requests
        BY Zenon DEF PortalTypes
      <4> HIDE DEF Requests
      <4> QED BY <1>3, <4>1 DEF PostArrives
    <3> QED BY <1>3, <3>1, Zenon DEF PostArrives, PortalTypes
  <2>2. AloneGetsOwn'
    BY <1>3, Zenon DEF PostArrives, AloneGetsOwn
  <2>3. p \in PostersBusy'
    BY <1>3, Zenon DEF PostArrives, PostersBusy, PortalTypes
  <2>4. ASSUME NEW q \in Posters PROVE AloneOK(q)'
    <3>1. response = <<>> => response' = <<options>>
      BY <1>3 DEF PostArrives
    <3>2. CASE q = p
      BY <1>3, <3>1, <3>2, ZenonT(30) DEF PostArrives, AloneOK, PortalTypes
    <3>3. CASE q # p
      BY <1>3, <3>3, Zenon DEF PostArrives, AloneOK, PortalTypes
    <3> QED BY <3>2, <3>3, Zenon
  <2> QED BY <2>1, <2>2, <2>3, <2>4, Zenon
<1>4. ASSUME NEW p \in Posters, PostParses(p) PROVE PortalInv'
  <2> DEFINE got == [code |-> 200, answer |-> Parsed(response), shared |-> posting[p].shared]
  <2>1. AloneGetsOwn' /\ obtained' \in [Posters -> Seq(Answers)]
    <3>1. got \in Answers
      BY SMTT(30) DEF PortalTypes, Parsed, Answers
    <3>2. ~got.shared => got.answer = <<p, Len(obtained[p]) + 1>>
      BY <1>4, SMTT(30) DEF PostParses, AloneOK, Parsed, PortalTypes
    <3>3. obtained' = [obtained EXCEPT ![p] = Append(@, got)]
      BY <1>4, Zenon DEF PostParses
    <3> HIDE DEF got
    <3> QED BY <3>1, <3>2, <3>3, AppendOwn, Zenon
  <2>2. PortalTypes'
    BY <1>4, <2>1, SMTT(30) DEF PostParses, PortalTypes, NotPosting
  <2>3. ASSUME NEW q \in Posters PROVE AloneOK(q)'
    BY <1>4, Zenon DEF PostParses, AloneOK, PortalTypes, NotPosting
  <2> QED BY <1>4, <2>1, <2>2, <2>3, Zenon DEF PostParses
<1>5. CASE UNCHANGED portalVars
  BY <1>5, ZenonT(30) DEF portalVars, PortalTypes, PostersBusy, AloneOK, AloneGetsOwn
<1> QED BY <1>1, <1>2, <1>3, <1>4, <1>5, Zenon DEF PortalNext

\* For any threads and any number of requests: a request during which no other thread
\* used the Portal object gets code 0 or its own answer.
THEOREM AloneIsServed == PortalSpec => []AloneGetsOwn
<1>1. PortalInv => AloneGetsOwn
  BY Zenon DEF PortalInv
<1> QED BY <1>1, PortalInitInv, PortalStep, PTL DEF PortalSpec

-----------------------------------------------------------------------------
(* Portal commands while agents register and leave                         *)

\* What the handlers rely on of the graph
NodesOK ==
    /\ dtns \subseteq Dtns /\ storages \subseteq Storages /\ link \subseteq Storages \X Dtns
    /\ gateway \in [Dtns -> Nat] /\ \A d \in Dtns : gateway[d] > 0 <=> d \in dtns

\* A request under way
CmdLocals ==
    [kind : {r.kind : r \in CmdRequests}, arg : {r.arg : r \in CmdRequests}, at : {"begin", "node", "call", "loop", "storage"},
     left : SUBSET Dtns, got : SUBSET Dtns, stale : SUBSET Modules, absent : SUBSET Modules, lost : SUBSET Modules,
     start : SUBSET (Storages \X Dtns)]

\* What was in the graph when the request came is there, or has been lost since
CmdSees(c, nodes, edges) ==
    /\ Modules \ (c.absent \cup c.lost) \subseteq nodes
    /\ c.stale \subseteq c.lost
    /\ \A p \in c.start : p \in edges \/ p[1] \in c.lost \/ p[2] \in c.lost

\* The arguments fit the command
CmdFits(c) ==
    /\ c.kind \in {"list", "mkdir", "info"} => c.arg \in Dtns
    /\ c.kind = "expand" => c.arg \in Dtns \cup Storages
    /\ c.kind \in {"size", "best"} => c.arg \in Storages

\* What a handler has found out so far still holds, or was lost
CmdKnows(c, ds) ==
    /\ c.kind \in {"list", "mkdir"} /\ c.at = "node" => c.arg \in ds \cup c.lost
    /\ c.kind = "publish" /\ c.at = "loop" =>
         c.left \subseteq ds \cup c.lost /\ Dtns \ (c.absent \cup c.lost) \subseteq c.got \cup c.left
    /\ c.kind = "best" /\ c.at = "loop" =>
         \A p \in c.start : p[1] = c.arg => p[2] \in c.lost \cup c.got \cup c.left \/ c.arg \in c.lost

CmdOK(c, ds, ns, edges) ==
    c # NoCommand => c \in CmdLocals /\ CmdSees(c, ds \cup ns, edges) /\ CmdFits(c) /\ CmdKnows(c, ds)

CmdsOK ==
    /\ cmd \in [CmdAllThreads -> CmdLocals \cup {NoCommand}]
    /\ \A t \in CmdAllThreads : CmdOK(cmd[t], dtns, storages, link)

SiteInv == NodesOK /\ CmdsOK /\ EndsForWantOfNode /\ SteadyDtnsServed

\* The invariant holds for a server that nobody has registered with.
LEMMA SiteInitInv == SiteInit => SiteInv
BY DEF SiteInit, GInit, SiteInv, NodesOK, CmdsOK, CmdOK, EndsForWantOfNode, SteadyDtnsServed

\* An agent that registers adds to what the handlers see.
LEMMA NodesGrow ==
    ASSUME NodesOK, NEW ms \in SUBSET Modules, AddModules(ms)
    PROVE  /\ NodesOK' /\ dtns \subseteq dtns' /\ storages \subseteq storages' /\ link \subseteq link'
<1>1. dtns' = dtns \cup (ms \cap Dtns) /\ storages' = storages \cup (ms \cap Storages) /\ link' = link \cup NewLinks(ms)
      /\ gateway' = [d \in Dtns |-> IF d \in ms THEN gateway[d] + 1 ELSE gateway[d]]
  BY Zenon DEF AddModules
<1>2. dtns' \subseteq Dtns /\ storages' \subseteq Storages
  BY <1>1, Zenon DEF NodesOK
<1>3. link' \subseteq Storages \X Dtns
  BY <1>1, <1>2, Zenon DEF NewLinks, NodesOK
<1>4. gateway' \in [Dtns -> Nat] /\ \A d \in Dtns : gateway'[d] > 0 <=> d \in dtns'
  BY <1>1 DEF NodesOK
<1> QED BY <1>1, <1>2, <1>3, <1>4, Zenon DEF NodesOK

\* An agent that leaves takes its nodes and their edges, and no others.
LEMMA NodesLeave ==
    ASSUME NodesOK, NEW ms \in SUBSET Modules, DelModules(ms)
    PROVE  NodesOK' /\ dtns' = dtns \ ms /\ storages' = storages \ ms /\ \A p \in link : p[1] \in ms \/ p[2] \in ms \/ p \in link'
<1>1. dtns' = dtns \ ms /\ storages' = storages \ ms /\ link' = {p \in link : p[1] \notin ms /\ p[2] \notin ms}
      /\ gateway' = [d \in Dtns |-> IF d \in ms THEN 0 ELSE gateway[d]]
  BY Zenon DEF DelModules
<1>2. dtns' \subseteq Dtns /\ storages' \subseteq Storages /\ link' \subseteq Storages \X Dtns
  BY <1>1, Zenon DEF NodesOK
<1>3. gateway' \in [Dtns -> Nat] /\ \A d \in Dtns : gateway'[d] > 0 <=> d \in dtns'
  BY <1>1 DEF NodesOK
<1> QED BY <1>1, <1>2, <1>3, Zenon DEF NodesOK

\* What a handler knows stays true of a larger graph.
LEMMA CmdGrows ==
    ASSUME NEW c, NEW ds, NEW ns, NEW es, NEW ds1, NEW ns1, NEW es1,
           CmdOK(c, ds, ns, es), ds \subseteq ds1, ns \subseteq ns1, es \subseteq es1
    PROVE  CmdOK(c, ds1, ns1, es1)
BY Zenon DEF CmdOK, CmdSees, CmdKnows

\* When nodes leave, a handler counts them as lost, and what it knows stays true.
LEMMA CmdLoses ==
    ASSUME NEW c \in CmdLocals, NEW ds, NEW ns, NEW es, NEW es1, NEW ms \in SUBSET Modules,
           CmdSees(c, ds \cup ns, es), CmdFits(c), CmdKnows(c, ds), \A p \in es : p[1] \in ms \/ p[2] \in ms \/ p \in es1,
           NEW d, d = [c EXCEPT !.lost = @ \cup ms, !.stale = @ \cup ms]
    PROVE  d \in CmdLocals /\ CmdOK(d, ds \ ms, ns \ ms, es1)
<1>2. d \in CmdLocals
  BY Zenon DEF CmdLocals
<1>3. /\ d.lost = c.lost \cup ms /\ d.stale = c.stale \cup ms /\ d.kind = c.kind /\ d.arg = c.arg /\ d.at = c.at
      /\ d.left = c.left /\ d.got = c.got /\ d.absent = c.absent /\ d.start = c.start
  BY Zenon DEF CmdLocals
<1>4. CmdSees(d, (ds \ ms) \cup (ns \ ms), es1)
  BY <1>3, Zenon DEF CmdSees
<1>5. CmdKnows(d, ds \ ms)
  BY <1>3, Zenon DEF CmdKnows
<1>6. CmdFits(d)
  BY <1>3, Zenon DEF CmdFits
<1> QED BY <1>2, <1>4, <1>5, <1>6, Zenon DEF CmdOK

\* Agents that register and leave keep the invariant.
LEMMA SiteChangesStep ==
    ASSUME SiteInv, SiteChanges
    PROVE  SiteInv'
<1> USE DEF SiteInv
<1>1. PICK ms \in SUBSET Modules :
        \/ AddModules(ms) /\ UNCHANGED cmd
        \/ DelModules(ms) /\ cmd' = [t \in CmdAllThreads |-> IF cmd[t].at = "idle" THEN cmd[t]
                                        ELSE [cmd[t] EXCEPT !.lost = @ \cup ms, !.stale = @ \cup ms]]
  BY CommandConstants, Zenon DEF SiteChanges
<1>2. UNCHANGED <<replies, cause>>
  BY Zenon DEF SiteChanges
<1>3. EndsForWantOfNode' /\ SteadyDtnsServed'
  BY <1>2, Zenon DEF EndsForWantOfNode, SteadyDtnsServed
<1>4. CASE AddModules(ms) /\ UNCHANGED cmd
  <2>1. NodesOK' /\ dtns \subseteq dtns' /\ storages \subseteq storages' /\ link \subseteq link'
    BY <1>4, NodesGrow, Zenon
  <2>2. ASSUME NEW t \in CmdAllThreads PROVE CmdOK(cmd'[t], dtns', storages', link')
    BY <1>4, <2>1, CmdGrows, Zenon DEF CmdsOK
  <2> QED BY <1>3, <1>4, <2>1, <2>2, Zenon DEF CmdsOK
<1>5. CASE DelModules(ms) /\ cmd' = [t \in CmdAllThreads |-> IF cmd[t].at = "idle" THEN cmd[t]
                                        ELSE [cmd[t] EXCEPT !.lost = @ \cup ms, !.stale = @ \cup ms]]
  <2>1. NodesOK' /\ dtns' = dtns \ ms /\ storages' = storages \ ms /\ \A p \in link : p[1] \in ms \/ p[2] \in ms \/ p \in link'
    BY <1>5, NodesLeave, Zenon
  <2>2. ASSUME NEW t \in CmdAllThreads PROVE cmd'[t] \in CmdLocals \cup {NoCommand} /\ CmdOK(cmd'[t], dtns', storages', link')
    <3>1. CASE cmd[t] = NoCommand
      BY <1>5, <3>1, Zenon DEF NoCommand, CmdOK
    <3>2. CASE cmd[t] # NoCommand
      <4>1. cmd[t] \in CmdLocals /\ CmdSees(cmd[t], dtns \cup storages, link) /\ CmdFits(cmd[t]) /\ CmdKnows(cmd[t], dtns)
        BY <3>2, Zenon DEF CmdsOK, CmdOK
      <4>2. cmd[t].at # "idle"
        BY <4>1, Zenon DEF CmdLocals
      <4>3. cmd'[t] = [cmd[t] EXCEPT !.lost = @ \cup ms, !.stale = @ \cup ms]
        BY <1>5, <4>2, Zenon
      <4>4. cmd'[t] \in CmdLocals /\ CmdOK(cmd'[t], dtns \ ms, storages \ ms, link')
        BY <2>1, <4>1, <4>3, CmdLoses, Zenon
      <4> QED BY <2>1, <4>4, Zenon
    <3> QED BY <3>1, <3>2, Zenon
  <2>3. cmd' \in [CmdAllThreads -> CmdLocals \cup {NoCommand}]
    BY <1>5, <2>2, Zenon
  <2> QED BY <1>3, <2>1, <2>2, <2>3, Zenon DEF CmdsOK
<1> QED BY <1>1, <1>4, <1>5, Zenon

\* A handler goes on, or ends, and the graph stays.
LEMMA CmdMoves ==
    ASSUME SiteInv, NEW t \in CmdAllThreads, NEW c \in CmdLocals \cup {NoCommand}, CmdOK(c, dtns, storages, link),
           cmd' = [cmd EXCEPT ![t] = c], UNCHANGED gvars
    PROVE  NodesOK' /\ CmdsOK'
<1>1. NodesOK'
  BY Zenon DEF SiteInv, NodesOK, gvars
<1>2. cmd' \in [CmdAllThreads -> CmdLocals \cup {NoCommand}] /\ \A u \in CmdAllThreads : cmd'[u] = IF u = t THEN c ELSE cmd[u]
  BY Zenon DEF SiteInv, CmdsOK
<1>3. \A u \in CmdAllThreads : CmdOK(cmd'[u], dtns', storages', link')
  BY <1>2, Zenon DEF SiteInv, CmdsOK, gvars
<1> QED BY <1>1, <1>2, <1>3, Zenon DEF CmdsOK

\* The locals of a handler that runs
LEMMA CmdLocal ==
    ASSUME SiteInv, NEW t \in CmdAllThreads, CmdRunning(t)
    PROVE  cmd[t] \in CmdLocals /\ CmdSees(cmd[t], dtns \cup storages, link) /\ CmdFits(cmd[t]) /\ CmdKnows(cmd[t], dtns)
BY DEF SiteInv, CmdsOK, CmdOK, CmdRunning, NoCommand

\* An answer ends a handler.
LEMMA ReplyStep ==
    ASSUME SiteInv, NEW t \in CmdAllThreads, NEW code, NEW res, CmdRunning(t), CmdReply(t, code, res),
           cmd[t].kind = "publish" => Dtns \ (cmd[t].absent \cup cmd[t].lost) \subseteq res,
           cmd[t].kind = "best" =>
             \A p \in cmd[t].start : p[1] = cmd[t].arg => p[2] \in cmd[t].lost \cup res \/ cmd[t].arg \in cmd[t].lost
    PROVE  SiteInv'
<1>1. NodesOK' /\ CmdsOK'
  BY CmdMoves, Zenon DEF CmdReply, CmdOK
<1>2. EndsForWantOfNode'
  BY ZenonT(40) DEF CmdReply, SiteInv, EndsForWantOfNode
<1>3. SteadyDtnsServed'
  BY DEF CmdReply, SiteInv, SteadyDtnsServed
<1> QED BY <1>1, <1>2, <1>3, Zenon DEF SiteInv

\* A handler goes to another stage.
LEMMA GoToStep ==
    ASSUME SiteInv, NEW t \in CmdAllThreads, CmdRunning(t), NEW place \in {"begin", "node", "call", "loop", "storage"}, NEW left \in SUBSET Dtns,
           CmdGoTo(t, place, left), NEW d, d = [cmd[t] EXCEPT !.at = place, !.left = left], CmdKnows(d, dtns)
    PROVE  SiteInv'
<1>1. cmd[t] \in CmdLocals /\ CmdSees(cmd[t], dtns \cup storages, link) /\ CmdFits(cmd[t])
  BY CmdLocal, Zenon
<1>2. d \in CmdLocals
  BY <1>1, Zenon DEF CmdLocals
<1>3. d.kind = cmd[t].kind /\ d.arg = cmd[t].arg /\ d.lost = cmd[t].lost /\ d.absent = cmd[t].absent /\ d.stale = cmd[t].stale /\ d.start = cmd[t].start
  BY <1>1, Zenon DEF CmdLocals
<1>4. CmdSees(d, dtns \cup storages, link) /\ CmdFits(d)
  BY <1>1, <1>3, Zenon DEF CmdSees, CmdFits
<1>5. cmd' = [cmd EXCEPT ![t] = d]
  BY Zenon DEF CmdGoTo, SiteInv, CmdsOK
<1>6. CmdOK(d, dtns, storages, link)
  BY <1>2, <1>4, Zenon DEF CmdOK
<1>7. NodesOK' /\ CmdsOK'
  BY <1>2, <1>5, <1>6, CmdMoves, Zenon DEF CmdGoTo
<1>8. EndsForWantOfNode' /\ SteadyDtnsServed'
  BY Zenon DEF CmdGoTo, SiteInv, EndsForWantOfNode, SteadyDtnsServed
<1> QED BY <1>7, <1>8, Zenon DEF SiteInv

\* An exception: the node it is about was lost or absent, or the command is one of
\* those that a registered node does not suffice for.
LEMMA ThrowStep ==
    ASSUME SiteInv, NEW t \in CmdAllThreads, NEW node, CmdRunning(t), CmdThrow(t, node),
           cmd[t].kind \in {"list", "mkdir", "publish"} => node \in cmd[t].lost,
           cmd[t].kind \notin {"size", "probe", "query"} => node \in cmd[t].lost \cup cmd[t].absent
    PROVE  SiteInv'
<1>1. NodesOK'
  BY Zenon DEF CmdThrow, SiteInv, NodesOK, gvars
<1>2. cmd' \in [CmdAllThreads -> CmdLocals \cup {NoCommand}] /\ \A u \in CmdAllThreads : cmd'[u] \in {cmd[u], NoCommand}
  BY Zenon DEF CmdThrow, SiteInv, CmdsOK
<1>3. \A u \in CmdAllThreads : CmdOK(cmd'[u], dtns', storages', link')
  BY <1>2, ZenonT(40) DEF CmdThrow, SiteInv, CmdsOK, gvars, CmdOK
<1>4. EndsForWantOfNode'
  <2>1. PICK why : /\ cause' = cause \cup {[kind |-> cmd[t].kind, why |-> why]}
                   /\ why = IF node \in cmd[t].lost THEN "lost" ELSE IF node \in cmd[t].absent THEN "absent" ELSE "steady"
    BY Zenon DEF CmdThrow
  <2> QED BY <2>1 DEF SiteInv, EndsForWantOfNode
<1>5. SteadyDtnsServed'
  BY Zenon DEF CmdThrow, SiteInv, SteadyDtnsServed
<1> QED BY <1>1, <1>2, <1>3, <1>4, <1>5, Zenon DEF SiteInv, CmdsOK

\* A request comes: all that is registered is not absent.
LEMMA ArriveStep ==
    ASSUME SiteInv, NEW t \in CmdAllThreads, CmdArrives(t)
    PROVE  SiteInv'
<1>1. PICK r \in CmdRequests :
        cmd' = [cmd EXCEPT ![t] = [kind |-> r.kind, arg |-> r.arg, at |-> "begin", left |-> {}, got |-> {}, stale |-> {},
                                   absent |-> Modules \ KnownNodes, lost |-> {}, start |-> link]]
  BY Zenon DEF CmdArrives
<1>2. PICK c : c = [kind |-> r.kind, arg |-> r.arg, at |-> "begin", left |-> {}, got |-> {}, stale |-> {},
                    absent |-> Modules \ KnownNodes, lost |-> {}, start |-> link]
  BY Zenon
<1>3. c \in CmdLocals
  <2>1. link \in SUBSET (Storages \X Dtns) /\ Modules \ KnownNodes \in SUBSET Modules
    BY Zenon DEF SiteInv, NodesOK
  <2>2. r.kind \in {q.kind : q \in CmdRequests} /\ r.arg \in {q.arg : q \in CmdRequests}
    BY Zenon
  <2> QED BY <1>2, <2>1, <2>2, Zenon DEF CmdLocals
<1>4. CmdSees(c, dtns \cup storages, link) /\ CmdKnows(c, dtns)
  BY <1>2, Zenon DEF CmdSees, CmdKnows, KnownNodes
<1>5. CmdFits(c)
  BY <1>2, CommandConstants, Zenon DEF CmdFits
<1>6. NodesOK' /\ CmdsOK'
  BY <1>1, <1>2, <1>3, <1>4, <1>5, CmdMoves, Zenon DEF CmdArrives, CmdOK
<1>7. EndsForWantOfNode' /\ SteadyDtnsServed'
  BY Zenon DEF CmdArrives, SiteInv, EndsForWantOfNode, SteadyDtnsServed
<1> QED BY <1>6, <1>7, Zenon DEF SiteInv

\* A node that the handler misses was lost or absent.
LEMMA Missing ==
    ASSUME SiteInv, NEW t \in CmdAllThreads, CmdRunning(t)
    PROVE  /\ cmd[t].arg \in Dtns /\ cmd[t].arg \notin dtns => cmd[t].arg \in cmd[t].lost \cup cmd[t].absent
           /\ cmd[t].arg \in Storages /\ cmd[t].arg \notin storages => cmd[t].arg \in cmd[t].lost \cup cmd[t].absent
           /\ cmd[t].arg \in Dtns \cup Storages /\ cmd[t].arg \notin KnownNodes => cmd[t].arg \in cmd[t].lost \cup cmd[t].absent
<1>1. Modules \ (cmd[t].absent \cup cmd[t].lost) \subseteq dtns \cup storages
  BY CmdLocal, Zenon DEF CmdSees
<1> QED BY <1>1, GraphConstants, Zenon DEF SiteInv, NodesOK, Modules, KnownNodes

\* The stages that leave no more to know
LEMMA PlainStep ==
    ASSUME SiteInv, NEW t \in CmdAllThreads, CmdRunning(t), NEW place \in {"begin", "call", "storage"}, CmdGoTo(t, place, {})
    PROVE  SiteInv'
<1>1. cmd[t] \in CmdLocals
  BY CmdLocal, Zenon
<1>2. PICK d : d = [cmd[t] EXCEPT !.at = place, !.left = {}]
  BY Zenon
<1>3. d.at = place
  BY <1>1, <1>2, Zenon DEF CmdLocals
<1>4. CmdKnows(d, dtns)
  BY <1>3, Zenon DEF CmdKnows
<1>5. place \in {"begin", "node", "call", "loop", "storage"} /\ {} \in SUBSET Dtns
  BY Zenon
<1> QED BY <1>2, <1>4, <1>5, GoToStep, Zenon

\* get_file_list, create_folder and get_dtn_info: the node was there when they asked for
\* it, so it has been lost when it is missing later.
LEMMA HasDtnStep ==
    ASSUME SiteInv, NEW t \in CmdAllThreads, HasDtn(t)
    PROVE  SiteInv'
<1>0. CmdRunning(t) /\ cmd[t].kind \in {"list", "mkdir", "info"} /\ cmd[t].at = "begin"
  BY Zenon DEF HasDtn, CmdAt
<1>1. cmd[t] \in CmdLocals /\ CmdSees(cmd[t], dtns \cup storages, link) /\ CmdFits(cmd[t]) /\ CmdKnows(cmd[t], dtns)
  BY <1>0, CmdLocal, Zenon
<1>2. CASE cmd[t].arg \in dtns
  <2>1. CmdGoTo(t, "node", {})
    BY <1>2, Zenon DEF HasDtn
  <2>2. PICK d : d = [cmd[t] EXCEPT !.at = "node", !.left = {}]
    BY Zenon
  <2>3. CmdKnows(d, dtns)
    BY <1>0, <1>1, <1>2, <2>2, Zenon DEF CmdKnows, CmdLocals
  <2>4. {} \in SUBSET Dtns
    BY Zenon
  <2> QED BY <1>0, <2>1, <2>2, <2>3, <2>4, GoToStep, Zenon
<1>3. CASE cmd[t].arg \notin dtns /\ cmd[t].kind = "info"
  <2>1. PICK d : d = [cmd[t] EXCEPT !.at = "node"]
    BY Zenon
  <2>2. d \in CmdLocals /\ CmdSees(d, dtns \cup storages, link) /\ CmdFits(d) /\ CmdKnows(d, dtns)
    BY <1>1, <1>3, <2>1, Zenon DEF CmdLocals, CmdSees, CmdFits, CmdKnows
  <2>3. cmd' = [cmd EXCEPT ![t] = d]
    BY <1>3, <2>1, Zenon DEF HasDtn
  <2>4. NodesOK' /\ CmdsOK'
    BY <1>3, <2>2, <2>3, CmdMoves, Zenon DEF HasDtn, CmdOK
  <2>5. EndsForWantOfNode' /\ SteadyDtnsServed'
    BY <1>3 DEF HasDtn, SiteInv, EndsForWantOfNode, SteadyDtnsServed
  <2> QED BY <2>4, <2>5, Zenon DEF SiteInv
<1>4. CASE cmd[t].arg \notin dtns /\ cmd[t].kind # "info"
  <2>1. CmdReply(t, IF cmd[t].kind = "list" THEN 400 ELSE 2, {})
    BY <1>4, Zenon DEF HasDtn
  <2> QED BY <1>0, <2>1, ReplyStep, ZenonT(30)
<1> QED BY <1>2, <1>3, <1>4, Zenon

\* expand_and_group and the calls to the agents.
LEMMA AskStep ==
    ASSUME SiteInv, NEW t \in CmdAllThreads, GetDtn(t) \/ GetQueue(t) \/ Called(t) \/ Lists(t)
    PROVE  SiteInv'
<1>1. CASE GetDtn(t)
  <2>0. CmdRunning(t) /\ cmd[t].kind \in {"list", "mkdir", "info"} /\ cmd[t].at = "node"
    BY <1>1, Zenon DEF GetDtn, CmdAt
  <2>1. CmdFits(cmd[t]) /\ CmdKnows(cmd[t], dtns)
    BY <2>0, CmdLocal, Zenon
  <2>2. CASE cmd[t].arg \in dtns
    BY <1>1, <2>0, <2>2, PlainStep, Zenon DEF GetDtn
  <2>3. CASE cmd[t].arg \notin dtns
    <3>1. cmd[t].arg \in cmd[t].lost \cup cmd[t].absent /\ (cmd[t].kind \in {"list", "mkdir"} => cmd[t].arg \in cmd[t].lost)
      BY <2>0, <2>1, <2>3, Missing, Zenon DEF CmdFits, CmdKnows
    <3>2. CmdThrow(t, cmd[t].arg)
      BY <1>1, <2>3, Zenon DEF GetDtn
    <3> QED BY <2>0, <3>1, <3>2, ThrowStep, Zenon
  <2> QED BY <2>2, <2>3, Zenon
<1>2. CASE GetQueue(t)
  <2>0. CmdRunning(t) /\ cmd[t].kind = "expand"
    BY <1>2, Zenon DEF GetQueue, CmdAt
  <2>1. CmdFits(cmd[t])
    BY <2>0, CmdLocal, Zenon
  <2>2. CASE cmd[t].arg \in KnownNodes
    BY <1>2, <2>0, <2>2, PlainStep, Zenon DEF GetQueue
  <2>3. CASE cmd[t].arg \notin KnownNodes
    <3>1. cmd[t].arg \in cmd[t].lost \cup cmd[t].absent
      BY <2>0, <2>1, <2>3, Missing, Zenon DEF CmdFits
    <3>2. CmdThrow(t, cmd[t].arg)
      BY <1>2, <2>3, Zenon DEF GetQueue
    <3> QED BY <2>0, <3>1, <3>2, ThrowStep, Zenon
  <2> QED BY <2>2, <2>3, Zenon
<1>3. CASE Called(t)
  <2>0. CmdRunning(t) /\ cmd[t].kind \in {"list", "mkdir", "info", "expand"}
    BY <1>3, Zenon DEF Called, CmdAt
  <2>1. PICK code : CmdReply(t, code, {})
    BY <1>3, Zenon DEF Called
  <2> QED BY <2>0, <2>1, ReplyStep, Zenon
<1>4. CASE Lists(t)
  <2>0. CmdRunning(t) /\ cmd[t].kind = "lists" /\ CmdReply(t, 0, ActiveDtns)
    BY <1>4, Zenon DEF Lists, CmdAt
  <2> QED BY <2>0, ReplyStep, Zenon
<1> QED BY <1>1, <1>2, <1>3, <1>4, Zenon

\* get_total_size.
LEMMA SizeStep ==
    ASSUME SiteInv, NEW t \in CmdAllThreads, SizeNext(t) \/ SizeCalled(t)
    PROVE  SiteInv'
<1>0. CmdRunning(t) /\ cmd[t].kind = "size"
  BY Zenon DEF SizeNext, SizeCalled, CmdAt
<1>1. CASE SizeNext(t)
  <2>1. CmdThrow(t, cmd[t].arg) \/ CmdGoTo(t, "call", {})
    BY <1>1, Zenon DEF SizeNext
  <2>2. CASE CmdThrow(t, cmd[t].arg)
    BY <1>0, <2>2, ThrowStep, Zenon
  <2>3. CASE CmdGoTo(t, "call", {})
    BY <1>0, <2>3, PlainStep, Zenon
  <2> QED BY <2>1, <2>2, <2>3, Zenon
<1>2. CASE SizeCalled(t)
  <2>1. CASE CmdGoTo(t, "begin", {})
    BY <1>0, <2>1, PlainStep, Zenon
  <2>2. CASE \E code \in {0, 101} : CmdReply(t, code, {})
    <3>1. PICK code : CmdReply(t, code, {})
      BY <2>2, Zenon
    <3> QED BY <1>0, <3>1, ReplyStep, Zenon
  <2> QED BY <1>2, <2>1, <2>2, Zenon DEF SizeCalled
<1> QED BY <1>1, <1>2, Zenon

\* publish_dtn_user_mapping: the DTNs that it has still to visit are registered, or lost.
LEMMA PublishStep ==
    ASSUME SiteInv, NEW t \in CmdAllThreads, PublishBegin(t) \/ PublishOne(t) \/ PublishEnd(t)
    PROVE  SiteInv'
<1>0. CmdRunning(t) /\ cmd[t].kind = "publish"
  BY Zenon DEF PublishBegin, PublishOne, PublishEnd, CmdAt
<1>1. cmd[t] \in CmdLocals /\ CmdSees(cmd[t], dtns \cup storages, link) /\ CmdFits(cmd[t]) /\ CmdKnows(cmd[t], dtns)
  BY <1>0, CmdLocal, Zenon
<1>2. CASE PublishBegin(t)
  <2>1. CmdGoTo(t, "loop", ActiveDtns)
    BY <1>2, Zenon DEF PublishBegin
  <2>2. ActiveDtns = dtns /\ ActiveDtns \in SUBSET Dtns
    BY Zenon DEF ActiveDtns, SiteInv, NodesOK
  <2>3. PICK d : d = [cmd[t] EXCEPT !.at = "loop", !.left = ActiveDtns]
    BY Zenon
  <2>4. d.kind = "publish" /\ d.left = dtns /\ d.absent = cmd[t].absent /\ d.lost = cmd[t].lost
    BY <1>0, <1>1, <2>2, <2>3, Zenon DEF CmdLocals
  <2>5. Dtns \ (cmd[t].absent \cup cmd[t].lost) \subseteq dtns
    BY <1>1, GraphConstants, Zenon DEF CmdSees, Modules, SiteInv, NodesOK
  <2>6. CmdKnows(d, dtns)
    BY <2>4, <2>5, Zenon DEF CmdKnows
  <2> QED BY <1>0, <2>1, <2>2, <2>3, <2>6, GoToStep, Zenon
<1>3. CASE PublishOne(t)
  <2>0. cmd[t].at = "loop"
    BY <1>3, Zenon DEF PublishOne, CmdAt
  <2>1. PICK e \in cmd[t].left :
          IF e \in dtns
          THEN cmd' = [cmd EXCEPT ![t].left = @ \ {e}, ![t].got = @ \cup {e}] /\ UNCHANGED <<gvars, replies, cause>>
          ELSE CmdThrow(t, e)
    BY <1>3, Zenon DEF PublishOne
  <2>2. CASE e \in dtns
    <3>1. PICK d : d = [cmd[t] EXCEPT !.left = @ \ {e}, !.got = @ \cup {e}]
      BY Zenon
    <3>2. cmd' = [cmd EXCEPT ![t] = d]
      BY <2>1, <2>2, <3>1, Zenon DEF SiteInv, CmdsOK
    <3>3. /\ d \in CmdLocals /\ d.left = cmd[t].left \ {e} /\ d.got = cmd[t].got \cup {e} /\ d.at = "loop" /\ d.kind = "publish"
          /\ d.absent = cmd[t].absent /\ d.lost = cmd[t].lost /\ d.stale = cmd[t].stale /\ d.start = cmd[t].start /\ d.arg = cmd[t].arg
      BY <1>0, <1>1, <2>0, <3>1, ZenonT(30) DEF CmdLocals
    <3>4. CmdSees(d, dtns \cup storages, link) /\ CmdFits(d)
      BY <1>0, <1>1, <3>3, Zenon DEF CmdSees, CmdFits
    <3>5. CmdKnows(d, dtns)
      BY <1>0, <1>1, <2>0, <3>3, Zenon DEF CmdKnows
    <3>6. NodesOK' /\ CmdsOK'
      BY <2>1, <2>2, <3>2, <3>3, <3>4, <3>5, CmdMoves, Zenon DEF CmdOK
    <3>7. EndsForWantOfNode' /\ SteadyDtnsServed'
      BY <2>1, <2>2, Zenon DEF SiteInv, EndsForWantOfNode, SteadyDtnsServed
    <3> QED BY <3>6, <3>7, Zenon DEF SiteInv
  <2>3. CASE e \notin dtns
    <3>1. e \in cmd[t].lost
      BY <1>0, <1>1, <2>0, <2>3, Zenon DEF CmdKnows
    <3> QED BY <1>0, <2>1, <2>3, <3>1, ThrowStep, Zenon
  <2> QED BY <2>2, <2>3, Zenon
<1>4. CASE PublishEnd(t)
  <2>1. CmdReply(t, 0, cmd[t].got) /\ cmd[t].left = {} /\ cmd[t].at = "loop"
    BY <1>4, Zenon DEF PublishEnd, CmdAt
  <2>2. Dtns \ (cmd[t].absent \cup cmd[t].lost) \subseteq cmd[t].got
    BY <1>0, <1>1, <2>1, Zenon DEF CmdKnows
  <2> QED BY <1>0, <2>1, <2>2, ReplyStep, Zenon
<1> QED BY <1>2, <1>3, <1>4, Zenon

\* get_available_best_effort_dtn asks for the queue of the storage,
LEMMA BestBeginStep ==
    ASSUME SiteInv, NEW t \in CmdAllThreads, BestBegin(t)
    PROVE  SiteInv'
<1>0. CmdRunning(t) /\ cmd[t].kind = "best"
  BY Zenon DEF BestBegin, CmdAt
<1>1. CmdFits(cmd[t])
  BY <1>0, CmdLocal, Zenon
<1>2. CASE cmd[t].arg \in KnownNodes
  BY <1>0, <1>2, PlainStep, Zenon DEF BestBegin
<1>3. CASE cmd[t].arg \notin KnownNodes
  <2>1. cmd[t].arg \in cmd[t].lost \cup cmd[t].absent
    BY <1>0, <1>1, <1>3, Missing, Zenon DEF CmdFits
  <2>2. CmdThrow(t, cmd[t].arg)
    BY <1>3, Zenon DEF BestBegin
  <2> QED BY <1>0, <2>1, <2>2, ThrowStep, Zenon
<1> QED BY <1>2, <1>3, Zenon

\* then takes pointers to all the DTNs that are linked to it,
LEMMA BestPointersStep ==
    ASSUME SiteInv, NEW t \in CmdAllThreads, BestPointers(t)
    PROVE  SiteInv'
<1>0. CmdRunning(t) /\ cmd[t].kind = "best"
  BY Zenon DEF BestPointers, CmdAt
<1>1. cmd[t] \in CmdLocals /\ CmdSees(cmd[t], dtns \cup storages, link) /\ CmdFits(cmd[t])
  BY <1>0, CmdLocal, Zenon
<1>2. CASE cmd[t].arg \notin storages
  <2>1. cmd[t].arg \in cmd[t].lost \cup cmd[t].absent
    BY <1>0, <1>1, <1>2, Missing, Zenon DEF CmdFits
  <2>2. CmdThrow(t, cmd[t].arg)
    BY <1>2, Zenon DEF BestPointers
  <2> QED BY <1>0, <2>1, <2>2, ThrowStep, Zenon
<1>3. CASE cmd[t].arg \in storages
  <2>1. PICK d : d = [cmd[t] EXCEPT !.at = "loop", !.left = ConnectedDtns(cmd[t].arg), !.stale = {}]
    BY Zenon
  <2>2. cmd' = [cmd EXCEPT ![t] = d] /\ UNCHANGED <<gvars, replies, cause>>
    BY <1>3, <2>1, Zenon DEF BestPointers, SiteInv, CmdsOK
  <2>3. ConnectedDtns(cmd[t].arg) \in SUBSET Dtns
    BY Zenon DEF ConnectedDtns
  <2>4. /\ d \in CmdLocals /\ d.left = ConnectedDtns(cmd[t].arg) /\ d.stale = {} /\ d.at = "loop" /\ d.kind = "best"
        /\ d.absent = cmd[t].absent /\ d.lost = cmd[t].lost /\ d.start = cmd[t].start /\ d.arg = cmd[t].arg
    BY <1>0, <1>1, <2>1, <2>3, Zenon DEF CmdLocals
  <2>5. CmdSees(d, dtns \cup storages, link) /\ CmdFits(d)
    BY <1>0, <1>1, <2>4, Zenon DEF CmdSees, CmdFits
  <2>6. ASSUME NEW p \in d.start, p[1] = d.arg PROVE p[2] \in d.lost \cup d.got \cup d.left \/ d.arg \in d.lost
    <3>1. p \in Storages \X Dtns /\ p = <<p[1], p[2]>> /\ p[2] \in Dtns
      BY <2>4, <2>6 DEF CmdLocals
    <3>2. p \in link \/ p[1] \in d.lost \/ p[2] \in d.lost
      BY <1>1, <2>4, <2>6, Zenon DEF CmdSees
    <3>3. p \in link => p[2] \in d.left
      BY <2>4, <2>6, <3>1, Zenon DEF ConnectedDtns
    <3> QED BY <2>6, <3>2, <3>3, ZenonT(40)
  <2>7. CmdKnows(d, dtns)
    BY <2>4, <2>6, Zenon DEF CmdKnows
  <2>8. NodesOK' /\ CmdsOK'
    BY <2>2, <2>4, <2>5, <2>7, CmdMoves, Zenon DEF CmdOK
  <2>9. EndsForWantOfNode' /\ SteadyDtnsServed'
    BY <2>2, Zenon DEF SiteInv, EndsForWantOfNode, SteadyDtnsServed
  <2> QED BY <2>8, <2>9, Zenon DEF SiteInv
<1> QED BY <1>2, <1>3, Zenon

\* visits each, and passes over lost ones only,
LEMMA BestOneStep ==
    ASSUME SiteInv, NEW t \in CmdAllThreads, BestOne(t)
    PROVE  SiteInv'
<1>0. CmdRunning(t) /\ cmd[t].kind = "best" /\ cmd[t].at = "loop"
  BY Zenon DEF BestOne, CmdAt
<1>1. cmd[t] \in CmdLocals /\ CmdSees(cmd[t], dtns \cup storages, link) /\ CmdFits(cmd[t]) /\ CmdKnows(cmd[t], dtns)
  BY <1>0, CmdLocal, Zenon
<1>2. PICK e \in cmd[t].left :
        \/ cmd' = [cmd EXCEPT ![t].left = @ \ {e}, ![t].got = @ \cup {e}] /\ UNCHANGED <<gvars, replies, cause>>
        \/ e \in cmd[t].stale /\ CmdThrow(t, e)
        \/ e \in cmd[t].stale /\ CmdGoTo(t, "loop", cmd[t].left \ {e})
  BY Zenon DEF BestOne
<1>3. CASE cmd' = [cmd EXCEPT ![t].left = @ \ {e}, ![t].got = @ \cup {e}] /\ UNCHANGED <<gvars, replies, cause>>
  <2>1. PICK d : d = [cmd[t] EXCEPT !.left = @ \ {e}, !.got = @ \cup {e}]
    BY Zenon
  <2>2. cmd' = [cmd EXCEPT ![t] = d]
    BY <1>3, <2>1, Zenon DEF SiteInv, CmdsOK
  <2>3. /\ d \in CmdLocals /\ d.left = cmd[t].left \ {e} /\ d.got = cmd[t].got \cup {e} /\ d.at = "loop" /\ d.kind = "best"
        /\ d.absent = cmd[t].absent /\ d.lost = cmd[t].lost /\ d.stale = cmd[t].stale /\ d.start = cmd[t].start /\ d.arg = cmd[t].arg
    BY <1>0, <1>1, <2>1, ZenonT(30) DEF CmdLocals
  <2>4. CmdSees(d, dtns \cup storages, link) /\ CmdFits(d)
    BY <1>0, <1>1, <2>3, Zenon DEF CmdSees, CmdFits
  <2>5. CmdKnows(d, dtns)
    BY <1>0, <1>1, <2>3, Zenon DEF CmdKnows
  <2>6. NodesOK' /\ CmdsOK'
    BY <1>3, <2>2, <2>3, <2>4, <2>5, CmdMoves, Zenon DEF CmdOK
  <2>7. EndsForWantOfNode' /\ SteadyDtnsServed'
    BY <1>3, Zenon DEF SiteInv, EndsForWantOfNode, SteadyDtnsServed
  <2> QED BY <2>6, <2>7, Zenon DEF SiteInv
<1>4. CASE e \in cmd[t].stale /\ CmdThrow(t, e)
  <2>1. e \in cmd[t].lost
    BY <1>1, <1>4, Zenon DEF CmdSees
  <2> QED BY <1>0, <1>4, <2>1, ThrowStep, Zenon
<1>5. CASE e \in cmd[t].stale /\ CmdGoTo(t, "loop", cmd[t].left \ {e})
  <2>1. e \in cmd[t].lost
    BY <1>1, <1>5, Zenon DEF CmdSees
  <2>2. PICK left : left = cmd[t].left \ {e}
    BY Zenon
  <2>3. PICK d : d = [cmd[t] EXCEPT !.at = "loop", !.left = left]
    BY Zenon
  <2>4. left \in SUBSET Dtns
    BY <1>1, <2>2, Zenon DEF CmdLocals
  <2>5. d.left = cmd[t].left \ {e} /\ d.got = cmd[t].got /\ d.kind = "best" /\ d.at = "loop" /\ d.lost = cmd[t].lost /\ d.start = cmd[t].start /\ d.arg = cmd[t].arg
    BY <1>0, <1>1, <2>2, <2>3, Zenon DEF CmdLocals
  <2>6. CmdKnows(d, dtns)
    BY <1>0, <1>1, <2>1, <2>5, Zenon DEF CmdKnows
  <2> QED BY <1>0, <1>5, <2>2, <2>3, <2>4, <2>6, GoToStep, Zenon
<1> QED BY <1>2, <1>3, <1>4, <1>5, Zenon

\* and answers with the visited ones.
LEMMA BestEndStep ==
    ASSUME SiteInv, NEW t \in CmdAllThreads, BestEnd(t)
    PROVE  SiteInv'
<1>0. CmdRunning(t) /\ cmd[t].kind = "best" /\ cmd[t].at = "loop" /\ cmd[t].left = {} /\ CmdReply(t, 0, cmd[t].got)
  BY Zenon DEF BestEnd, CmdAt
<1>1. CmdKnows(cmd[t], dtns)
  BY <1>0, CmdLocal, Zenon
<1>2. \A p \in cmd[t].start : p[1] = cmd[t].arg => p[2] \in cmd[t].lost \cup cmd[t].got \/ cmd[t].arg \in cmd[t].lost
  BY <1>0, <1>1, Zenon DEF CmdKnows
<1> QED BY <1>0, <1>2, ReplyStep, Zenon

\* probe_rate and query_path_dtns.
LEMMA RatesStep ==
    ASSUME SiteInv, NEW t \in CmdAllThreads, Rates(t)
    PROVE  SiteInv'
<1>0. CmdRunning(t) /\ cmd[t].kind \in {"probe", "query"}
  BY Zenon DEF Rates, CmdAt
<1>1. (\E s : CmdThrow(t, s)) \/ (\E code, res : CmdReply(t, code, res))
  BY Zenon DEF Rates
<1>2. CASE \E s : CmdThrow(t, s)
  BY <1>0, <1>2, ThrowStep, Zenon
<1>3. CASE \E code, res : CmdReply(t, code, res)
  BY <1>0, <1>3, ReplyStep, Zenon
<1> QED BY <1>1, <1>2, <1>3, Zenon

\* Every step keeps the invariant.
LEMMA SiteStep == SiteInv /\ [SiteNext]_siteVars => SiteInv'
<1> SUFFICES ASSUME SiteInv, [SiteNext]_siteVars PROVE SiteInv'
  BY Zenon
<1>1. CASE SiteChanges
  BY <1>1, SiteChangesStep, Zenon
<1>2. ASSUME NEW t \in CmdAllThreads,
             CmdArrives(t) \/ Lists(t) \/ HasDtn(t) \/ GetDtn(t) \/ GetQueue(t) \/ Called(t) \/ SizeNext(t) \/ SizeCalled(t)
             \/ PublishBegin(t) \/ PublishOne(t) \/ PublishEnd(t)
             \/ BestBegin(t) \/ BestPointers(t) \/ BestOne(t) \/ BestEnd(t) \/ Rates(t)
      PROVE  SiteInv'
  BY <1>2, ArriveStep, HasDtnStep, AskStep, SizeStep, PublishStep, BestBeginStep, BestPointersStep, BestOneStep, BestEndStep, RatesStep, ZenonT(40)
<1>3. CASE UNCHANGED siteVars
  BY <1>3, Zenon DEF siteVars, gvars, SiteInv, NodesOK, CmdsOK, EndsForWantOfNode, SteadyDtnsServed
<1> QED BY <1>1, <1>2, <1>3, Zenon DEF SiteNext

\* Whatever agents register and leave while commands run, on any graph and any number of
\* threads, a command ends the server only for want of a node: get_file_list,
\* create_folder and publish_dtn_user_mapping only when it left while they ran.
THEOREM CommandsEndForWantOfNode == SiteSpec => []EndsForWantOfNode
<1>1. SiteInv => EndsForWantOfNode
  BY Zenon DEF SiteInv
<1> QED BY <1>1, SiteInitInv, SiteStep, PTL DEF SiteSpec

\* The answers of publish_dtn_user_mapping and get_available_best_effort_dtn take in
\* every DTN that was there all the time the handler ran.
THEOREM SteadyDtnsAnswered == SiteSpec => []SteadyDtnsServed
<1>1. SiteInv => SteadyDtnsServed
  BY Zenon DEF SiteInv
<1> QED BY <1>1, SiteInitInv, SiteStep, PTL DEF SiteSpec
=============================================================================
