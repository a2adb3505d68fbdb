----------------------------- MODULE TaskLease -----------------------------
(***************************************************************************)
(* What the platform scheduler promises of leases, apart from rows,        *)
(* snapshots and files: every lease of a task is an attempt of its own,    *)
(* the task knows one attempt as its current one, and only a worker that   *)
(* goes by the id the current lease was given to can write to an attempt,  *)
(* and only to that one.  An attempt that expired is never written again.  *)
(* A worker whose lease expired or was superseded believes in it still,    *)
(* and achieves nothing, unless the lease has gone to its own id.          *)
(***************************************************************************)
EXTENDS Naturals, Sequences

CONSTANTS Task, Worker, Id, IdOf, Free

VARIABLES
    log,        \* the attempts of each task: "open", "reported" or "expired"
    current,    \* the id and attempt a task is leased to, or Free
    believes    \* the task and attempt each worker set out on, or Free

leaseVars == <<log, current, believes>>

Grant(w, t) ==
    /\ believes[w] = Free
    /\ LET n == Len(log[t]) + 1
       IN  /\ believes' = [believes EXCEPT ![w] = <<t, n>>]
           /\ current' = [current EXCEPT ![t] = <<IdOf[w], n>>]
           /\ log' = [log EXCEPT ![t] = Append(@, "open")]

\* A worker takes up a lease that its id has.
Join(w, t) ==
    /\ believes[w] = Free
    /\ \E n \in DOMAIN log[t] :
        /\ current[t] = <<IdOf[w], n>>
        /\ believes' = [believes EXCEPT ![w] = <<t, n>>]
    /\ UNCHANGED <<current, log>>

\* A start and a renewal leave the attempt open and the lease with its id; so does a
\* result that is none.
Write(w) ==
    /\ believes' \in {believes, [believes EXCEPT ![w] = Free]}
    /\ \E t \in Task : \E n \in DOMAIN log[t] :
        /\ \E m \in DOMAIN log[t] : believes[w] = <<t, m>>
        /\ current[t] = <<IdOf[w], n>>
        /\ log[t][n] # "expired"
        /\ \E after \in {Free, current[t]} : current' = [current EXCEPT ![t] = after]
        /\ \E outcome \in {"open", "reported"} : log' = [log EXCEPT ![t][n] = outcome]

GiveUp(w) ==
    /\ believes' = [believes EXCEPT ![w] = Free]
    /\ UNCHANGED <<current, log>>

Held(t) == \E id \in Id : \E n \in DOMAIN log[t] : current[t] = <<id, n>>

\* The leases of some tasks are past their time; an attempt expires once.
Expire ==
    /\ UNCHANGED believes
    /\ \E lapsed \in SUBSET {t \in Task : Held(t)} :
        /\ current' = [t \in Task |-> IF t \in lapsed THEN Free ELSE current[t]]
        /\ \A t \in lapsed : log[t][current[t][2]] # "expired"
        /\ log' = [t \in Task |->
               IF t \in lapsed THEN [log[t] EXCEPT ![current[t][2]] = "expired"] ELSE log[t]]

LeaseInit ==
    /\ \A t \in Task : \A n \in DOMAIN log[t] : log[t][n] # "open"
    /\ current = [t \in Task |-> Free]
    /\ believes = [w \in Worker |-> Free]

LeaseNext ==
    \/ \E w \in Worker : \E t \in Task : Grant(w, t) \/ Join(w, t)
    \/ \E w \in Worker : Write(w) \/ GiveUp(w)
    \/ Expire

LeaseSpec == LeaseInit /\ [][LeaseNext]_leaseVars
=============================================================================
