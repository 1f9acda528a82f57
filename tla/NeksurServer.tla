---------------------------- MODULE NeksurServer ----------------------------
(***************************************************************************)
(* What the server process keeps beside the gateway, the coordination and  *)
(* the policy services: vended credentials, data keys, the license and the *)
(* certificate, the text of policies and queries, and what a policy gets   *)
(* to see of a request.  These components share no state and no lock, so   *)
(* every behaviour of the process projects to one of each; part says which *)
(* one a behaviour here follows, the others resting in an initial state.   *)
(***************************************************************************)
EXTENDS CredentialVending, BatchKeys, HotReload, SqlPipeline, CelFacts

VARIABLE part

vars == << part, vvars, kvars, hvars, svars, fvars >>

\* One choice for a part that rests.
Of(p, S) == IF part = p THEN S ELSE {CHOOSE x \in S : TRUE}

Init ==
    /\ part \in {"vending", "keys", "reload", "sql", "facts"}
    /\ hkind \in Of("reload", {"license", "cert"})
    /\ spolicy \in Of("sql", SPolicies) /\ sengine \in Of("sql", SEngines)
    /\ fcase \in Of("facts", FScenarios) /\ ftext \in Of("facts", fcase.texts)
    /\ VInit /\ KInit /\ HInit /\ SInit /\ FInit

Next ==
    /\ UNCHANGED part
    /\ \/ part = "vending" /\ VNext /\ UNCHANGED << kvars, hvars, svars, fvars >>
       \/ part = "keys" /\ KNext /\ UNCHANGED << vvars, hvars, svars, fvars >>
       \/ part = "reload" /\ HNext /\ UNCHANGED << vvars, kvars, svars, fvars >>
       \/ part = "sql" /\ SNext /\ UNCHANGED << vvars, kvars, hvars, fvars >>
       \/ part = "facts" /\ FNext /\ UNCHANGED << vvars, kvars, hvars, svars >>

Spec == Init /\ [][Next]_vars

\* Goroutines keep running and the ticker keeps ticking; a waiter on a Go mutex
\* is not starved.  Nothing is assumed of events, rotations or the clock.
FairSpec ==
    /\ Spec
    /\ WF_hvars(part = "reload" /\ Watcher /\ UNCHANGED << part, vvars, kvars, svars, fvars >>)
    /\ \A t \in KThreads :
         /\ WF_kvars(part = "keys" /\ KStep(t) /\ UNCHANGED << part, vvars, hvars, svars, fvars >>)
         /\ SF_kvars(part = "keys" /\ KLock(t) /\ UNCHANGED << part, vvars, hvars, svars, fvars >>)
=============================================================================
