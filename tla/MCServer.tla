------------------------------ MODULE MCServer ------------------------------
(***************************************************************************)
(* What the worker threads of a server do beside the documents of a job:   *)
(* network paths, byte counters, submission, portal commands and the       *)
(* portal client.  The components share no state that their models hold;   *)
(* a behaviour is one of the component that "part" names.                  *)
(***************************************************************************)
EXTENDS NetworkPath, TransferBytes, PortalClient, SiteCommands, Submission

VARIABLE part

Parts == {"network", "bytes", "portal", "site", "submit"}

\* Only a submission has more than one initial state.
MCInit ==
    /\ part \in Parts
    /\ Init /\ BytesInit /\ PortalInit /\ SiteInit /\ SubmitInit
    /\ part # "submit" => hasLauncher /\ job = CHOOSE j \in RawJobs : TRUE

MCNext ==
    \/ part = "network" /\ Next /\ UNCHANGED <<part, byteVars, portalVars, siteVars, submitVars>>
    \/ part = "bytes" /\ BytesNext /\ UNCHANGED <<part, vars, portalVars, siteVars, submitVars>>
    \/ part = "portal" /\ PortalNext /\ UNCHANGED <<part, vars, byteVars, siteVars, submitVars>>
    \/ part = "site" /\ SiteNext /\ UNCHANGED <<part, vars, byteVars, portalVars, submitVars>>
    \/ part = "submit" /\ SubmitNext /\ UNCHANGED <<part, vars, byteVars, portalVars, siteVars>>

MCSpec == MCInit /\ [][MCNext]_<<part, vars, byteVars, portalVars, siteVars, submitVars>>

-----------------------------------------------------------------------------
\* An sjob of two blocks, and one of a single block
TwoAndOne == [j \in ByteJobs |-> IF j = "j1" THEN 2 ELSE 1]

\* Two hosts whose DTNs all reach the storage of the first: one faster than its link,
\* one slower, one too slow to count
SiteAttached == [d1 |-> {"s1"}, d2 |-> {"s1"}, d3 |-> {"s1"}]
SiteAgents == {{"d1", "s1"}, {"d2", "d3"}}
SiteRates == [d1 |-> 5, d2 |-> 3, d3 |-> 2]

\* One request of every kind, and rates on both sides of every threshold
SiteRequests ==
    [kind : {"list", "info", "expand"}, arg : {"d1"}] \cup [kind : {"mkdir"}, arg : {"d2"}]
    \cup [kind : {"lists", "publish"}, arg : {"none"}] \cup [kind : {"size", "best"}, arg : {"s1"}]
    \cup [kind : {"probe", "query"}, arg : {"s1"} \X {5, 7, 8, 9, 12}]

\* Raw jobs: whole ones, datasets, a deadline of zero, a path that does not fit, no
\* source, keys that are missing or do not parse
Source(storage, fits) == [storage |-> storage, dtn |-> "d1", fits |-> fits]
RawJob(sources, dataset, deadline, keys, dstOk) ==
    [sources |-> sources, dataset |-> dataset, deadline |-> deadline, keys |-> keys, dstOk |-> dstOk]
ThreeSources == <<Source("s1", TRUE), Source("s2", TRUE), Source("s1", TRUE)>>
OneSource == <<Source("s1", TRUE)>>
SubmittedJobs ==
    {RawJob(ThreeSources, ds, 1, "good", TRUE) : ds \in BOOLEAN}
    \cup {RawJob(OneSource, ds, 0, "good", TRUE) : ds \in BOOLEAN}
    \cup {RawJob(OneSource, FALSE, 1, keys, TRUE) : keys \in {"missing", "bad"}}
    \cup {RawJob(OneSource, FALSE, 1, "good", FALSE), RawJob(<<>>, FALSE, 1, "good", TRUE),
          RawJob(<<Source("s1", TRUE), Source("s2", FALSE)>>, FALSE, 1, "good", TRUE)}
SubmittedGroups == [s1 |-> <<0, 2, 3>>, s2 |-> <<1>>]
SubmittedFiles == [s1 |-> 2, s2 |-> 1]
=============================================================================
