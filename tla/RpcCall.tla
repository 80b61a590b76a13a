------------------------------ MODULE RpcCall ------------------------------
(***************************************************************************)
(* Remote calls over MQTT: RpcClient::call and on_msg (rpcclient.cc), the  *)
(* RPC server (rpcserver.cc) with the two handlers that use it,            *)
(* Main::rpc_msg_handler (main.cc) and AgentManager::rpc_msg_handler       *)
(* (agentmanager.cc).                                                      *)
(*                                                                         *)
(* The table of promises is a std::map that the calling threads and the    *)
(* MQTT thread of the client use without a lock.  A step is one operation  *)
(* on it.  Using an iterator whose entry another thread erased is          *)
(* undefined: undefined becomes TRUE, and nothing is claimed from then on. *)
(***************************************************************************)
EXTENDS Naturals, FiniteSets

CONSTANTS Callers,      \* threads of the client
          MaxCalls,     \* calls of each thread
          Kinds,        \* of commands: "sync", "posted", "unknown", "empty" (no target)
          Workers,      \* worker threads of the server
          MaxDup,       \* messages delivered twice (QoS 1)
          MaxLost,      \* messages lost with a connection (clean session)
          NoCall

Calls == Callers \X (1..MaxCalls)

ASSUME RpcConstants ==
  /\ MaxCalls \in Nat /\ MaxDup \in Nat /\ MaxLost \in Nat /\ Workers \in Nat \ {0}
  /\ Kinds \subseteq {"sync", "posted", "unknown", "empty"}
  /\ NoCall \notin Calls

VARIABLES pc,        \* of each caller: "idle", "waiting", "expired"
          made,      \* calls each thread made
          kind,      \* the command of each call
          result,    \* of each call: "none", "answer", "timeout", "thrown"
          promises,  \* calls with an entry in the table
          ready,     \* calls whose promise has a value
          at,        \* the MQTT thread of the client: "idle", "found", "set"
          iter,      \* its iterator
          requests, answers,   \* calls whose message is under way
          listener,  \* the call that the MQTT thread of the server handles
          posted,    \* calls posted to its io_service
          running,   \* calls its workers handle
          executed,  \* how often the command of each call was carried out
          faults,    \* messages delivered twice, messages lost
          undefined

cvars == <<pc, made, kind, result>>
tvars == <<promises, ready, at, iter, undefined>>
nvars == <<requests, answers, faults>>
workVars == <<listener, posted, running, executed>>
vars == <<cvars, tvars, nvars, workVars>>

Current(c) == <<c, made[c]>>

Init ==
  /\ pc = [c \in Callers |-> "idle"]
  /\ made = [c \in Callers |-> 0]
  /\ kind = [i \in Calls |-> "none"]
  /\ result = [i \in Calls |-> "none"]
  /\ promises = {} /\ ready = {}
  /\ at = "idle" /\ iter = NoCall
  /\ requests = {} /\ answers = {}
  /\ listener = NoCall /\ posted = {} /\ running = {}
  /\ executed = [i \in Calls |-> 0]
  /\ faults = [dup |-> 0, lost |-> 0]
  /\ undefined = FALSE

-----------------------------------------------------------------------------
(* RpcClient::call                                                         *)

\* Up to the publish.  An empty target throws after the promise was emplaced.
Call(c, k) ==
  LET i == <<c, made[c] + 1>>
  IN  /\ pc[c] = "idle" /\ made[c] < MaxCalls
      /\ made' = [made EXCEPT ![c] = @ + 1]
      /\ kind' = [kind EXCEPT ![i] = k]
      /\ promises' = promises \cup {i}
      /\ IF k = "empty"
         THEN /\ result' = [result EXCEPT ![i] = "thrown"]
              /\ UNCHANGED <<pc, requests>>
         ELSE /\ pc' = [pc EXCEPT ![c] = "waiting"]
              /\ requests' = requests \cup {i}
              /\ UNCHANGED result
      /\ UNCHANGED <<ready, at, iter, undefined, answers, faults, workVars>>

\* wait_for returns ready.
Return(c) ==
  /\ pc[c] = "waiting" /\ Current(c) \in ready
  /\ pc' = [pc EXCEPT ![c] = "idle"]
  /\ result' = [result EXCEPT ![Current(c)] = "answer"]
  /\ UNCHANGED <<made, kind, tvars, nvars, workVars>>

\* wait_for returns at the time-out; the entry is still there.
Expire(c) ==
  /\ pc[c] = "waiting" /\ Current(c) \notin ready
  /\ pc' = [pc EXCEPT ![c] = "expired"]
  /\ UNCHANGED <<made, kind, result, tvars, nvars, workVars>>

\* Mutant: the time-out leaves the promise in the table.
TimeOutKeep(c) ==
  /\ pc[c] = "expired"
  /\ pc' = [pc EXCEPT ![c] = "idle"]
  /\ result' = [result EXCEPT ![Current(c)] = "timeout"]
  /\ UNCHANGED <<made, kind, tvars, nvars, workVars>>

\* Delete the entry and return the time-out reply.
TimeOut(c) ==
  /\ pc[c] = "expired"
  /\ undefined' = (undefined \/ Current(c) \notin promises)
  /\ promises' = promises \ {Current(c)}
  /\ pc' = [pc EXCEPT ![c] = "idle"]
  /\ result' = [result EXCEPT ![Current(c)] = "timeout"]
  /\ UNCHANGED <<made, kind, ready, at, iter, nvars, workVars>>

-----------------------------------------------------------------------------
(* RpcClient::on_msg                                                       *)

\* Find the promise of a reply; none: "invalid correlation id".
Find(i) ==
  /\ at = "idle" /\ i \in answers
  /\ answers' = answers \ {i}
  /\ IF i \in promises THEN at' = "found" /\ iter' = i ELSE UNCHANGED <<at, iter>>
  /\ UNCHANGED <<cvars, promises, ready, undefined, requests, faults, workVars>>

SetValue ==
  /\ at = "found"
  /\ at' = "set"
  /\ undefined' = (undefined \/ iter \notin promises)
  /\ ready' = ready \cup {iter}
  /\ UNCHANGED <<cvars, promises, iter, nvars, workVars>>

Erase ==
  /\ at = "set"
  /\ at' = "idle" /\ iter' = NoCall
  /\ undefined' = (undefined \/ iter \notin promises)
  /\ promises' = promises \ {iter}
  /\ UNCHANGED <<cvars, ready, nvars, workVars>>

-----------------------------------------------------------------------------
(* The server                                                              *)

\* Mutant: a command that finds all workers taken is not posted.
HandleRefused(i) ==
  /\ listener = NoCall /\ i \in requests
  /\ requests' = requests \ {i}
  /\ IF kind[i] = "posted" /\ running = {} THEN posted' = posted \cup {i} ELSE UNCHANGED posted
  /\ IF kind[i] = "sync" THEN listener' = i ELSE UNCHANGED listener
  /\ IF kind[i] = "unknown" THEN answers' = answers \cup {i} ELSE UNCHANGED answers
  /\ UNCHANGED <<cvars, tvars, faults, running, executed>>

\* on_msg and the handler: a command that the scheduler or an agent dispatches is
\* posted, an unknown command or target is answered, another runs right here.
Handle(i) ==
  /\ listener = NoCall /\ i \in requests
  /\ requests' = requests \ {i}
  /\ IF kind[i] = "posted" THEN posted' = posted \cup {i} ELSE UNCHANGED posted
  /\ IF kind[i] = "sync" THEN listener' = i ELSE UNCHANGED listener
  /\ IF kind[i] = "unknown" THEN answers' = answers \cup {i} ELSE UNCHANGED answers
  /\ UNCHANGED <<cvars, tvars, faults, running, executed>>

\* Mutant: a command is answered when it is posted.
WorkEarly(i) ==
  /\ i \in posted /\ Cardinality(running) < Workers
  /\ posted' = posted \ {i}
  /\ running' = running \cup {i}
  /\ answers' = answers \cup {i}
  /\ UNCHANGED <<cvars, tvars, requests, faults, listener, executed>>

\* A worker thread takes a posted command.
Work(i) ==
  /\ i \in posted /\ Cardinality(running) < Workers
  /\ posted' = posted \ {i}
  /\ running' = running \cup {i}
  /\ UNCHANGED <<cvars, tvars, nvars, listener, executed>>

\* The command is carried out and send_response publishes the answer.
Answer(i) ==
  /\ executed' = [executed EXCEPT ![i] = @ + 1]
  /\ answers' = answers \cup {i}
  /\ UNCHANGED <<cvars, tvars, requests, faults, posted>>

AnswerHere == listener # NoCall /\ Answer(listener) /\ listener' = NoCall /\ UNCHANGED running

WorkDone(i) == i \in running /\ Answer(i) /\ running' = running \ {i} /\ UNCHANGED listener

-----------------------------------------------------------------------------
(* The network: QoS 1 and clean sessions                                   *)

Duplicate(i) ==
  /\ faults.dup < MaxDup /\ faults' = [faults EXCEPT !.dup = @ + 1]
  /\ \/ i \notin requests /\ kind[i] \notin {"none", "empty"} /\ requests' = requests \cup {i} /\ UNCHANGED answers
     \/ i \notin answers /\ i \in ready /\ answers' = answers \cup {i} /\ UNCHANGED requests
  /\ UNCHANGED <<cvars, tvars, workVars>>

Lose(i) ==
  /\ faults.lost < MaxLost /\ faults' = [faults EXCEPT !.lost = @ + 1]
  /\ i \in requests \cup answers
  /\ requests' = requests \ {i} /\ answers' = answers \ {i}
  /\ UNCHANGED <<cvars, tvars, workVars>>

Client(c) == (\E k \in Kinds : Call(c, k)) \/ Return(c) \/ Expire(c) \/ TimeOut(c)
Listen == (\E i \in Calls : Find(i)) \/ SetValue \/ Erase
Serve == AnswerHere \/ \E i \in Calls : Handle(i) \/ Work(i) \/ WorkDone(i)

Next ==
  \/ \E c \in Callers : Client(c)
  \/ Listen
  \/ Serve
  \/ \E i \in Calls : Duplicate(i) \/ Lose(i)

Spec == Init /\ [][Next]_vars

\* The threads run and the clock of wait_for advances.
RpcFairness ==
  /\ \A c \in Callers : WF_vars(Return(c) \/ Expire(c) \/ TimeOut(c))
  /\ WF_vars(Listen)
  /\ WF_vars(Serve)

-----------------------------------------------------------------------------
(* Properties                                                              *)

\* The table does not grow: an entry belongs to a call that waits, or that on_msg
\* is about to erase, or to a call with an empty target.
TableIsPending ==
  undefined \/ \A i \in promises :
    \/ pc[i[1]] # "idle" /\ Current(i[1]) = i
    \/ at # "idle" /\ iter = i
    \/ kind[i] = "empty"

\* A call that returns an answer was carried out, or is an unknown command; a
\* late or repeated reply is never taken for the answer of another call.
AnsweredWasRun ==
  undefined \/ \A i \in Calls : result[i] = "answer" => executed[i] > 0 \/ kind[i] = "unknown"

\* Every call ends, with an answer or at its time-out, and every request that is not
\* lost is carried out, also behind commands that hold the MQTT thread of the server
\* and with all workers taken.
CallsComplete ==
  /\ \A c \in Callers : pc[c] # "idle" ~> pc[c] = "idle" \/ undefined
  /\ \A i \in Calls :
       i \in requests ~> executed[i] > 0 \/ kind[i] = "unknown" \/ faults.lost > 0 \/ undefined
=============================================================================
