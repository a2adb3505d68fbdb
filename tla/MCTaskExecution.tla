--------------------------- MODULE MCTaskExecution ---------------------------
(* Instances of TaskExecution for model checking: an api that needs a db,    *)
(* declared in the ways that matter, and tasks of every kind.                *)
EXTENDS TaskExecution

CONSTANTS db, api

TwoServices == {db, api}
ApiNeedsDb == [s \in TwoServices |-> IF s = api THEN {db} ELSE {}]
DbFirst == <<db>>
ByName == <<api, db>>

Declared(start, stop, checks, up) == [start |-> start, stop |-> stop, checks |-> checks, up |-> up]

\* Startable with and without a stop command, up on its own, lost, unchecked.
Declarations ==
    {Declared(TRUE, TRUE, TRUE, FALSE), Declared(TRUE, FALSE, TRUE, FALSE),
     Declared(TRUE, FALSE, TRUE, TRUE), Declared(FALSE, FALSE, TRUE, FALSE),
     Declared(TRUE, FALSE, FALSE, FALSE)}

NoServices == [s \in TwoServices |-> Declared(FALSE, FALSE, FALSE, FALSE)]

Claimed(stage, entries, services, policy, n, browser) ==
    [stage |-> stage, entries |-> entries, services |-> services, policy |-> policy,
     commands |-> n, browser |-> browser]

Check(target, needed, capture, mustCapture) ==
    [target |-> target, required |-> needed, capture |-> capture, mustCapture |-> mustCapture]

Checks == {Check(FALSE, TRUE, FALSE, FALSE), Check(TRUE, TRUE, TRUE, TRUE),
           Check(TRUE, FALSE, TRUE, FALSE), Check(TRUE, TRUE, FALSE, FALSE)}

WithServices ==
    {Claimed("automated-execution", {api}, services, policy, 1, <<>>) :
        services \in [TwoServices -> Declarations], policy \in {"always", "on-failure", "never"}}

WithBrowser ==
    {Claimed("automated-execution", {}, NoServices, "always", n, browser) :
        n \in 0..2, browser \in {<<>>} \cup {<<b>> : b \in Checks} \cup {<<b, c>> : b, c \in Checks}}

Preparations ==
    {Claimed(stage, {}, NoServices, "always", n, <<>>) :
        stage \in {"environment-preparation", "other"}, n \in 0..2}

MCInit ==
    /\ \/ task \in WithServices /\ storeMode = "local"
       \/ /\ task \in {t \in WithServices : t.policy = "on-failure" /\ t.services[api].stop}
          /\ storeMode = "remote"
       \/ task \in WithBrowser \cup Preparations /\ storeMode \in StoreMode
    /\ ExecutionInit

Spec == MCInit /\ [][ExecutionNext]_vars /\ ExecutionFairness
=============================================================================
