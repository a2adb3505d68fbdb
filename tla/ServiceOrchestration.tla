------------------------ MODULE ServiceOrchestration ------------------------
(***************************************************************************)
(* The services an automated execution needs                               *)
(* (runtime/service-orchestration-service.ts), under the deadline of its   *)
(* lifecycle guard (runtime/execution-lifecycle-service.ts): each is       *)
(* probed, started if need be and probed again, in startup order; at the   *)
(* end those that were started are stopped in reverse.                     *)
(*                                                                         *)
(* A health check that fails, the 250 ms to the next one and the deadline  *)
(* of the check are steps; what a check answers is free, but nothing       *)
(* answers for a service that does not run.  Abstracted: ports, pids,      *)
(* commands and the kinds of check.  A stop command that exits with 0 is   *)
(* taken to have stopped its service, as the code takes it.                *)
(***************************************************************************)
EXTENDS Naturals, FiniteSets, Sequences, SequencesExt

CONSTANTS
    Service,        \* the services the adapter and the topology name
    DependsOn,      \* dependsOn of both, joined
    StartupOrder,   \* topology.startupOrder
    Alphabetical    \* every service, by name

ASSUME ServiceAssumption ==
    /\ DependsOn \in [Service -> SUBSET Service]
    /\ StartupOrder \in Seq(Service)
    /\ Alphabetical \in Seq(Service) /\ Range(Alphabetical) = Service

VARIABLES
    task,       \* the claim: its stage, inputs, policy and service declarations
    signal,     \* what the lifecycle guard was aborted with
    timedOut,   \* the guard's deadline has passed
    step,       \* where runServiceOrchestration or the teardown loop is
    pos,        \* its position in the startup order
    after,      \* the health wait follows a start
    running,    \* the processes started here that are alive
    summary,    \* DeterministicServiceSummary.status of each service
    managed,    \* managedServices
    gaps        \* repositoryGaps, those of browser checks included

guardVars == <<signal, timedOut>>
serviceVars == <<step, pos, after, running, summary, managed, gaps>>

\* A service may declare a start and a stop command and health checks, and may
\* already be up on its own.
Declaration == [start : BOOLEAN, stop : BOOLEAN, checks : BOOLEAN, up : BOOLEAN]

-----------------------------------------------------------------------------
(* Which services, and in which order.                                      *)

\* Everything reachable from the entry services, in as many rounds as it takes.
CollectDependencies(entries) ==
    LET reached[n \in 0..Cardinality(Service)] ==
            IF n = 0 THEN entries
            ELSE reached[n - 1] \cup UNION {DependsOn[s] : s \in reached[n - 1]}
    IN  reached[Cardinality(Service)]

\* The elements of a list that are in T.
Filtered(list, T) ==
    LET Keep(kept, e) == IF e \in T THEN Append(kept, e) ELSE kept
    IN  FoldLeft(Keep, <<>>, list)

GetStartupOrder(selected) ==
    LET ordered == Filtered(StartupOrder, selected)
    IN  ordered \o Filtered(Alphabetical, selected \ Range(ordered))

Selected == CollectDependencies(task.entries)
Order == GetStartupOrder(Selected)
Current == Order[pos]

-----------------------------------------------------------------------------
(* The lifecycle guard.  A parent signal carries the error of the worker,   *)
(* not an AbortError; the first reason stays.                               *)

Aborted == signal # "none"

GuardTimeout ==
    /\ ~timedOut
    /\ timedOut' = TRUE
    /\ signal' = IF Aborted THEN signal ELSE "timeout"

OnParentAbort ==
    /\ ~Aborted
    /\ signal' = "stopped"
    /\ UNCHANGED timedOut

\* Mutant of ShouldTeardown: only a command that failed counts as a failure.
ShouldTeardownOnFailedCommands(failed) ==
    \/ task.policy = "always"
    \/ task.policy = "on-failure" /\ failed

ShouldTeardown(failed) ==
    \/ task.policy = "always"
    \/ task.policy = "on-failure" /\ (failed \/ gaps # {} \/ Aborted)

-----------------------------------------------------------------------------
(* What becomes of the service at hand.                                     *)

NextService == pos' = pos + 1 /\ step' = "enter" /\ after' = FALSE

Recorded(status, codes) ==
    /\ summary' = [summary EXCEPT ![Current] = status]
    /\ gaps' = gaps \cup {<<c, Current>> : c \in codes}
    /\ NextService

AlreadyHealthy ==
    Recorded("ready", {}) /\ UNCHANGED <<running, managed>>

NoStartCommand ==
    /\ ~task.services[Current].start
    /\ Recorded("failed", {"service-start-command-missing"})
    /\ UNCHANGED <<running, managed>>

GoesToStart ==
    /\ task.services[Current].start
    /\ step' = "spawning"
    /\ UNCHANGED <<pos, after, running, summary, managed, gaps>>

\* Only here does a started service become a managed one.
Started(healthy) ==
    /\ Recorded(IF healthy THEN "started" ELSE "failed",
                IF healthy THEN {} ELSE {"service-health-check-failed"})
    /\ managed' = Append(managed, Current)
    /\ UNCHANGED running

\* The catch around the start and the wait that follows it.
StartFailed ==
    Recorded("failed", {"service-start-command-failed"}) /\ UNCHANGED <<running, managed>>

\* An exception outside that catch: the result is never returned.
OrchestrationLost ==
    /\ step' = "thrown"
    /\ summary' = [s \in Service |-> "none"]
    /\ managed' = <<>>
    /\ gaps' = {}
    /\ UNCHANGED <<pos, after, running>>

WaitReturns(healthy) ==
    IF after THEN Started(healthy)
    ELSE IF healthy THEN AlreadyHealthy
    ELSE NoStartCommand \/ GoesToStart

WaitThrows == IF after THEN StartFailed ELSE OrchestrationLost

-----------------------------------------------------------------------------
(* waitForHealthChecks and startServiceProcess.                             *)

AtService(s) == step = s /\ pos <= Len(Order)

EnterWait ==
    /\ AtService("enter")
    /\ IF ~task.services[Current].checks THEN WaitReturns(TRUE)
       ELSE IF Aborted THEN WaitThrows
       ELSE step' = "checking" /\ UNCHANGED <<pos, after, running, summary, managed, gaps>>

\* The signal is not looked at while the checks run.
CheckHealth ==
    /\ AtService("checking")
    /\ \/ /\ Current \in running \/ task.services[Current].up
          /\ WaitReturns(TRUE)
       \/ IF Aborted THEN WaitThrows
          ELSE step' = "waiting" /\ UNCHANGED <<pos, after, running, summary, managed, gaps>>

PollAgain ==
    /\ AtService("waiting")
    /\ ~Aborted
    /\ step' = "checking"
    /\ UNCHANGED <<pos, after, running, summary, managed, gaps>>

DeadlinePasses ==
    /\ AtService("waiting")
    /\ ~Aborted
    /\ WaitReturns(FALSE)

WaitAborted ==
    /\ AtService("waiting")
    /\ Aborted
    /\ WaitThrows

StartServiceProcess ==
    /\ AtService("spawning")
    /\ \/ /\ running' = running \cup {Current}
          /\ step' = "enter"
          /\ after' = TRUE
          /\ UNCHANGED <<pos, summary, managed, gaps>>
       \/ StartFailed

\* A process may die on its own at any time.
ServiceDies(s) ==
    /\ s \in running
    /\ running' = running \ {s}
    /\ UNCHANGED <<step, pos, after, summary, managed, gaps>>

Orchestrate ==
    \/ EnterWait
    \/ CheckHealth
    \/ PollAgain
    \/ DeadlinePasses
    \/ WaitAborted
    \/ StartServiceProcess

Orchestrated == step = "enter" /\ pos > Len(Order)

-----------------------------------------------------------------------------
(* teardownManagedServices: pos counts the services still to stop.          *)

TeardownOrder(services) == Reverse(services)
ToStop == TeardownOrder(managed)[Len(managed) + 1 - pos]

\* Either a stop command, or SIGTERM and then SIGKILL; a process that exits
\* between the probe and the signal makes the kill throw and counts as failed.
TearDownService ==
    /\ step = "stopping" /\ pos > 0
    /\ \E stopped, alive \in BOOLEAN :
          /\ alive => ToStop \in running
          /\ stopped => ~alive
          /\ ~stopped /\ ~alive => ToStop \in running /\ ~task.services[ToStop].stop
          /\ running' = IF alive THEN running ELSE running \ {ToStop}
          /\ gaps' = IF stopped THEN gaps
                     ELSE gaps \cup {<<"service-teardown-failed", ToStop>>}
    /\ pos' = pos - 1
    /\ UNCHANGED <<step, after, summary, managed>>

ServiceInit ==
    /\ signal = "none" /\ timedOut = FALSE
    /\ step = "enter" /\ pos = 1 /\ after = FALSE
    /\ running = {}
    /\ summary = [s \in Service |-> "none"]
    /\ managed = <<>>
    /\ gaps = {}
=============================================================================
