---------------------------- MODULE PortalClient ----------------------------
(***************************************************************************)
(* utils/portal.cc: HTTP requests through one curl handle and one stream   *)
(* for the response.  The scheduler has one Portal object, which all its   *)
(* worker threads use without a lock.  A request that has the object to    *)
(* itself is modelled step by step; when two overlap, the handle and the   *)
(* stream are shared by accident, and a request may end with whatever of   *)
(* the answers under way.  That an overlap may also crash is left out.     *)
(***************************************************************************)
EXTENDS Integers, Sequences, FiniteSets

CONSTANTS
    Posters,        \* worker threads
    MaxPosts        \* requests of a thread

ASSUME PosterConstants == Posters # {} /\ MaxPosts \in Nat

VARIABLES
    response,       \* the stream ss: a sequence of answers and parts of answers
    options,        \* the request that the options of the handle describe
    posting,        \* [at, n, shared]: what a thread does, its request, whether it was alone
    obtained        \* the answers of finished requests

portalVars == <<response, options, posting, obtained>>

NoRequest == <<"none", 0>>
NotPosting == [at |-> "idle", n |-> 0, shared |-> FALSE]
PostersBusy == {p \in Posters : posting[p].at # "idle"}

\* The value of reader.parse on the text of the stream: an answer when the stream
\* holds exactly one, the null value otherwise
Parsed(text) == IF Len(text) = 1 THEN text[1] ELSE NoRequest

PortalInit ==
    /\ response = <<>> /\ options = NoRequest
    /\ posting = [p \in Posters |-> NotPosting]
    /\ obtained = [p \in Posters |-> <<>>]

\* post, post_form, put, del: header, url and body become options of the handle
PostBegin(p) ==
    /\ posting[p].at = "idle" /\ Len(obtained[p]) < MaxPosts
    /\ options' = <<p, Len(obtained[p]) + 1>>
    /\ posting' = [q \in Posters |->
           IF q = p THEN [at |-> "perform", n |-> Len(obtained[p]) + 1, shared |-> PostersBusy # {}]
           ELSE IF q \in PostersBusy THEN [posting[q] EXCEPT !.shared = TRUE] ELSE posting[q]]
    /\ UNCHANGED <<response, obtained>>

\* A mutant that leaves what arrived before the failure in the stream
PostFailsKeep(p) ==
    /\ posting[p].at = "perform"
    /\ \E part \in {<<>>, <<NoRequest>>} : response' = response \o part
    /\ options' = NoRequest
    /\ obtained' = [obtained EXCEPT ![p] = Append(@, [code |-> 0, answer |-> NoRequest, shared |-> posting[p].shared])]
    /\ posting' = [posting EXCEPT ![p] = NotPosting]

\* perform fails, perhaps after a part of the answer: the stream and the options
\* are cleared, the caller gets code 0
PostFails(p) ==
    /\ posting[p].at = "perform"
    /\ response' = <<>> /\ options' = NoRequest
    /\ obtained' = [obtained EXCEPT ![p] = Append(@, [code |-> 0, answer |-> NoRequest, shared |-> posting[p].shared])]
    /\ posting' = [posting EXCEPT ![p] = NotPosting]

\* perform succeeds: the answer to the request that the options describe by now
PostArrives(p) ==
    /\ posting[p].at = "perform"
    /\ response' = Append(response, options)
    /\ posting' = [posting EXCEPT ![p].at = "parse"]
    /\ UNCHANGED <<options, obtained>>

\* The text is parsed, then stream and options are cleared
PostParses(p) ==
    /\ posting[p].at = "parse"
    /\ obtained' = [obtained EXCEPT ![p] = Append(@, [code |-> 200, answer |-> Parsed(response), shared |-> posting[p].shared])]
    /\ response' = <<>> /\ options' = NoRequest
    /\ posting' = [posting EXCEPT ![p] = NotPosting]

PortalNext ==
    \E p \in Posters : PostBegin(p) \/ PostFails(p) \/ PostArrives(p) \/ PostParses(p)

PortalSpec == PortalInit /\ [][PortalNext]_portalVars

-----------------------------------------------------------------------------
\* A request during which no other thread used the object gets code 0 or its own
\* answer, whatever requests failed, overlapped or mixed their answers before it:
\* every way out of perform clears the stream and the options.
AloneGetsOwn ==
    \A p \in Posters : \A n \in 1..Len(obtained[p]) :
        LET got == obtained[p][n] IN ~got.shared => got.code = 0 \/ got.answer = <<p, n>>
=============================================================================
