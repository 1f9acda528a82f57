--------------------------- MODULE MCProvisioning ---------------------------
(***************************************************************************)
(* Instances of Provisioning for TLC.                                      *)
(***************************************************************************)
EXTENDS Provisioning, TLC

CONSTANTS t1, t2, s1, s2, o1

\* Between them the sessions run every command on t1, each beside one it can
\* disturb; t2, bootstrapped before, is the loop's other tenant.
MCRuns ==
    [s \in Sessions |->
        IF s = s1 THEN ({"create", "apply", "smoke"} \X {t1})
                         \cup {<< "all", NoTenant >>}
                  ELSE {"bootstrap", "one"} \X {t1}]
=============================================================================
