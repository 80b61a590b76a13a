--------------------------- MODULE MCRegistration ---------------------------
(***************************************************************************)
(* A site for TLC.                                                         *)
(***************************************************************************)
EXTENDS Registration

\* Two hosts with a DTN each; both reach the storage of the first.  The second
\* also runs the launching agent.
SiteModules == [a1 |-> {"d1", "s1"}, a2 |-> {"d2", "l"}]
SiteAttached == [d1 |-> {"s1"}, d2 |-> {"s1"}]
=============================================================================
