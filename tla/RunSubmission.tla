---------------------------- MODULE RunSubmission ----------------------------
(***************************************************************************)
(* How runs and projects get into the database: POST /api/runs (platform-  *)
(* control-plane-run-submission-service.ts, platform-run-provisioning-     *)
(* service.ts), POST /api/projects and PATCH adapter-profile (platform-    *)
(* project-service.ts), and init-platform-run, all writing through         *)
(* platform-repository.ts.                                                 *)
(*                                                                         *)
(* Each request is one READ COMMITTED transaction.  What a handler does    *)
(* before its first query is synchronous in one node process, hence one    *)
(* step; every query is a step, and waits for a transaction that holds its *)
(* key.  The git worktree is no part of the transaction.                   *)
(* Abstracted: onboarding documents and the graph they give (valid or      *)
(* not), columns but for the ones the properties tell apart.               *)
(***************************************************************************)
EXTENDS Naturals, Sequences, FiniteSets

CONSTANTS
    Request,        \* the requests that will be made
    Asked,          \* what each asks for
    Run, Repository, Project, Root,
    Token,          \* sanitizeToken of a run id
    Profile,        \* adapter profiles
    NoProfile,      \* the column is null
    Found,          \* the profile discovered in a repository root
    Nothing,        \* no row, no worktree
    MaxRequests,    \* bound: how many of the requests are made
    MaxCrashes,     \* bound: crashes of the server
    MaxCleanups     \* bound: worktrees an operator removes

Kinds == {"submit", "init", "register", "edit"}
Tables == {"repositories", "projects", "runs", "run_workspaces", "tasks", "artifacts", "events"}
RunTables == Tables \ {"repositories", "projects"}
ProjectRow == [repository : Repository, root : Root, profile : Profile \cup {NoProfile}]

ASSUME RequestAssumption ==
    /\ \A r \in Request :
          /\ Asked[r].kind \in Kinds
          /\ Asked[r].repository \in Repository /\ Asked[r].root \in Root
          /\ Asked[r].project \in Project
          /\ Asked[r].runs \subseteq Run                    \* the clock may name any of them
          /\ Asked[r].worktree \in {"managed", "none"}
          /\ Asked[r].profile \in Profile \cup {NoProfile, "omitted"}
    /\ Found \in [Root -> Profile \cup {NoProfile}]
    /\ Nothing \notin Request /\ NoProfile \notin Profile
    /\ MaxRequests \in Nat /\ MaxCrashes \in Nat /\ MaxCleanups \in Nat

VARIABLES
    repositories, projects, runs,   \* the committed rows: a root, a ProjectRow, a request
    rows,           \* the tables that have rows of a run
    worktrees,      \* the request that made the worktree of a token
    phase,          \* where a request is
    run,            \* the run id a request was given
    project,        \* the project row it is going to write
    todo,           \* the tables it has still to write, in order
    wrote,          \* what its open transaction has written, and holds
    crashes, cleanups

tableVars == <<repositories, projects, runs, rows>>
requestVars == <<phase, run, project, todo, wrote>>
vars == <<tableVars, worktrees, requestVars, crashes, cleanups>>

Phases == {"waiting", "writing", "ok", "error", "lost"}

\* The types of the tables, of the worktrees and of the requests.
SubmissionTypeOK ==
    /\ repositories \in [Repository -> Root \cup {Nothing}]
    /\ projects \in [Project -> ProjectRow \cup {Nothing}]
    /\ runs \in [Run -> Request \cup {Nothing}]
    /\ rows \in [Run -> SUBSET Tables]
    /\ worktrees \in [{Token[n] : n \in Run} -> Request \cup {Nothing}]
    /\ phase \in [Request -> Phases]
    /\ run \in [Request -> Run \cup {Nothing}]
    /\ project \in [Request -> ProjectRow \cup {Nothing}]
    /\ todo \in [Request -> Seq(Tables)]
    /\ wrote \in [Request -> SUBSET (Tables \X (Repository \cup Project \cup Run \cup {Nothing}))]
    /\ \A r \in Request : wrote[r] # {} => phase[r] = "writing"
    /\ crashes \in 0..MaxCrashes /\ cleanups \in 0..MaxCleanups

-----------------------------------------------------------------------------
(* What a request writes.                                                   *)

RunRows == <<"tasks", "artifacts", "events">>

\* Mutant of Writes: a registration writes the project before its repository.
WritesProjectFirst(kind) ==
    CASE kind = "submit" -> <<"repositories", "projects", "runs", "run_workspaces">> \o RunRows
      [] kind = "init" -> <<"repositories", "runs">> \o RunRows
      [] kind = "register" -> <<"projects", "repositories">>
      [] kind = "edit" -> <<"projects">>

Writes(kind) ==
    CASE kind = "submit" -> <<"repositories", "projects", "runs", "run_workspaces">> \o RunRows
      [] kind = "init" -> <<"repositories", "runs">> \o RunRows
      [] kind = "register" -> <<"repositories", "projects">>
      [] kind = "edit" -> <<"projects">>

TablesOf(kind) == {Writes(kind)[i] : i \in DOMAIN Writes(kind)}

\* The key of the row a query writes; two transactions meet on it.
Key(r, table) ==
    <<table, CASE table = "repositories" -> Asked[r].repository
               [] table = "projects" -> Asked[r].project
               [] OTHER -> run[r]>>

\* resolvePlatformProjectAdapterProfile: what the request names, or what lies in
\* the repository; the stored profile is not asked.
ResolvedProfile(r) == IF Asked[r].profile = "omitted" THEN Found[Asked[r].root] ELSE Asked[r].profile

NewProject(r) ==
    [repository |-> Asked[r].repository, root |-> Asked[r].root, profile |-> ResolvedProfile(r)]

-----------------------------------------------------------------------------
(* The synchronous part of each request.                                    *)

EntersTransaction(r, n, row) ==
    /\ phase' = [phase EXCEPT ![r] = "writing"]
    /\ run' = [run EXCEPT ![r] = n]
    /\ project' = [project EXCEPT ![r] = row]
    /\ todo' = [todo EXCEPT ![r] = Writes(Asked[r].kind)]
    /\ UNCHANGED wrote

\* withPlatformTransaction: whatever is thrown rolls back.
RollsBack(r) ==
    /\ phase' = [phase EXCEPT ![r] = "error"]
    /\ wrote' = [wrote EXCEPT ![r] = {}]
    /\ UNCHANGED <<run, project, todo>>

Arrives(r) ==
    /\ phase[r] = "waiting"
    /\ Cardinality({q \in Request : phase[q] # "waiting"}) < MaxRequests

\* Onboarding files that do not read or validate, a requirement or a profile that
\* is not there, a path that is no repository root.
Refuse(r) ==
    /\ Arrives(r)
    /\ RollsBack(r)
    /\ UNCHANGED <<tableVars, worktrees, crashes, cleanups>>

\* Mutant of WorktreeIsFree: a worktree that is there is used again.
WorktreeMayBeReused(n) == TRUE

WorktreeIsFree(n) == worktrees[Token[n]] = Nothing

\* provisionPlatformRunWorkspace; only git can refuse what is free.
ProvisionWorktree(r, n) ==
    /\ WorktreeIsFree(n)
    /\ worktrees' = [worktrees EXCEPT ![Token[n]] = r]

SubmitRun(r) ==
    /\ Arrives(r) /\ Asked[r].kind = "submit"
    /\ \E n \in Asked[r].runs :
          /\ IF Asked[r].worktree = "managed" THEN ProvisionWorktree(r, n) ELSE UNCHANGED worktrees
          /\ EntersTransaction(r, n, NewProject(r))
    /\ UNCHANGED <<tableVars, crashes, cleanups>>

\* The task graph cannot be written into the worktree just made.
TaskGraphNotWritten(r) ==
    /\ Arrives(r) /\ Asked[r].kind = "submit" /\ Asked[r].worktree = "managed"
    /\ \E n \in Asked[r].runs : ProvisionWorktree(r, n)
    /\ RollsBack(r)
    /\ UNCHANGED <<tableVars, crashes, cleanups>>

InitRun(r) ==
    /\ Arrives(r) /\ Asked[r].kind = "init"
    /\ \E n \in Asked[r].runs : EntersTransaction(r, n, Nothing)
    /\ UNCHANGED <<tableVars, worktrees, crashes, cleanups>>

RegisterProject(r) ==
    /\ Arrives(r) /\ Asked[r].kind = "register"
    /\ EntersTransaction(r, Nothing, NewProject(r))
    /\ UNCHANGED <<tableVars, worktrees, crashes, cleanups>>

\* The row is read without a lock, and written back whole.
UpdateAdapterProfile(r) ==
    /\ Arrives(r) /\ Asked[r].kind = "edit"
    /\ LET p == Asked[r].project
       IN  IF projects[p] = Nothing
           THEN RollsBack(r)
           ELSE EntersTransaction(r, Nothing,
                    [projects[p] EXCEPT !.profile =
                        IF Asked[r].profile = "omitted" THEN Found[projects[p].root]
                        ELSE Asked[r].profile])
    /\ UNCHANGED <<tableVars, worktrees, crashes, cleanups>>

-----------------------------------------------------------------------------
(* The transaction.                                                         *)

WaitsFor(r) ==
    IF phase[r] = "writing" /\ todo[r] # <<>>
    THEN {q \in Request \ {r} : Key(r, Head(todo[r])) \in wrote[q]}
    ELSE {}

\* Mutant of KeyTaken: ON CONFLICT DO NOTHING, as for publications.
ConflictIsIgnored(r) == FALSE

\* run_id is the primary key of runs; the other tables are upserted or have keys
\* of their own.
KeyTaken(r) == Head(todo[r]) = "runs" /\ runs[run[r]] # Nothing

WriteRow(r) ==
    /\ phase[r] = "writing" /\ todo[r] # <<>> /\ WaitsFor(r) = {}
    /\ ~KeyTaken(r)
    /\ wrote' = [wrote EXCEPT ![r] = @ \cup {Key(r, Head(todo[r]))}]
    /\ todo' = [todo EXCEPT ![r] = Tail(@)]
    /\ UNCHANGED <<tableVars, worktrees, phase, run, project, crashes, cleanups>>

\* A key that is taken, or any other error of a query.
WriteFails(r) ==
    /\ phase[r] = "writing" /\ todo[r] # <<>> /\ WaitsFor(r) = {}
    /\ RollsBack(r)
    /\ UNCHANGED <<tableVars, worktrees, crashes, cleanups>>

\* Mutant of Applied: the events are written on a connection of their own, which
\* does not get through.
AppliedWithoutEvents(r) ==
    /\ repositories' = [i \in Repository |->
           IF <<"repositories", i>> \in wrote[r] THEN Asked[r].root ELSE repositories[i]]
    /\ projects' = [p \in Project |->
           IF <<"projects", p>> \in wrote[r] THEN project[r] ELSE projects[p]]
    /\ runs' = [n \in Run |-> IF <<"runs", n>> \in wrote[r] THEN r ELSE runs[n]]
    /\ rows' = [n \in Run |-> rows[n] \cup {t \in RunTables \ {"events"} : <<t, n>> \in wrote[r]}]

Applied(r) ==
    /\ repositories' = [i \in Repository |->
           IF <<"repositories", i>> \in wrote[r] THEN Asked[r].root ELSE repositories[i]]
    /\ projects' = [p \in Project |->
           IF <<"projects", p>> \in wrote[r] THEN project[r] ELSE projects[p]]
    /\ runs' = [n \in Run |-> IF <<"runs", n>> \in wrote[r] THEN r ELSE runs[n]]
    /\ rows' = [n \in Run |-> rows[n] \cup {t \in RunTables : <<t, n>> \in wrote[r]}]

Ends(r, answer) ==
    /\ phase' = [phase EXCEPT ![r] = answer]
    /\ wrote' = [wrote EXCEPT ![r] = {}]
    /\ UNCHANGED <<run, project, todo>>

Commit(r) ==
    /\ phase[r] = "writing" /\ todo[r] = <<>>
    /\ Applied(r)
    /\ Ends(r, "ok")
    /\ UNCHANGED <<worktrees, crashes, cleanups>>

\* The connection breaks during COMMIT: done or not, the answer is an error.
CommitBreaks(r) ==
    /\ phase[r] = "writing" /\ todo[r] = <<>>
    /\ Applied(r) \/ UNCHANGED tableVars
    /\ Ends(r, "error")
    /\ UNCHANGED <<worktrees, crashes, cleanups>>

\* The server dies with every request it has open; the database rolls them back.
ServerCrashes ==
    /\ crashes < MaxCrashes
    /\ crashes' = crashes + 1
    /\ LET open == {r \in Request : phase[r] = "writing" /\ Asked[r].kind # "init"}
       IN  /\ open # {}
           /\ phase' = [r \in Request |-> IF r \in open THEN "lost" ELSE phase[r]]
           /\ wrote' = [r \in Request |-> IF r \in open THEN {} ELSE wrote[r]]
    /\ UNCHANGED <<tableVars, worktrees, run, project, todo, cleanups>>

\* Nothing removes a worktree but an operator, who sees it belongs to no run and
\* to no submission under way.
RemoveWorktree(t) ==
    /\ cleanups < MaxCleanups /\ worktrees[t] # Nothing
    /\ phase[worktrees[t]] \in {"error", "lost"}
    /\ \A n \in Run : Token[n] = t => runs[n] # worktrees[t]
    /\ worktrees' = [worktrees EXCEPT ![t] = Nothing]
    /\ cleanups' = cleanups + 1
    /\ UNCHANGED <<tableVars, requestVars, crashes>>

-----------------------------------------------------------------------------

SubmissionInit ==
    /\ repositories = [i \in Repository |-> Nothing]
    /\ projects = [p \in Project |-> Nothing]
    /\ runs = [n \in Run |-> Nothing]
    /\ rows = [n \in Run |-> {}]
    /\ worktrees = [t \in {Token[n] : n \in Run} |-> Nothing]
    /\ phase = [r \in Request |-> "waiting"]
    /\ run = [r \in Request |-> Nothing]
    /\ project = [r \in Request |-> Nothing]
    /\ todo = [r \in Request |-> <<>>]
    /\ wrote = [r \in Request |-> {}]
    /\ crashes = 0 /\ cleanups = 0

Starts(r) == SubmitRun(r) \/ InitRun(r) \/ RegisterProject(r) \/ UpdateAdapterProfile(r)

SubmissionNext ==
    \/ \E r \in Request :
          \/ Starts(r) \/ Refuse(r) \/ TaskGraphNotWritten(r)
          \/ WriteRow(r) \/ WriteFails(r)
          \/ Commit(r) \/ CommitBreaks(r)
    \/ ServerCrashes
    \/ \E t \in DOMAIN worktrees : RemoveWorktree(t)

\* A transaction goes on unless another holds its key.
SubmissionFairness == \A r \in Request : WF_vars(WriteRow(r) \/ WriteFails(r) \/ Commit(r))

SubmissionSpec == SubmissionInit /\ [][SubmissionNext]_vars /\ SubmissionFairness

-----------------------------------------------------------------------------
(* Properties.                                                              *)

\* A run has all of its rows or none, whatever fails between the inserts
\* (persistPlatformRunPlan under withPlatformTransaction).
RunIsWhole ==
    \A n \in Run :
        rows[n] = IF runs[n] = Nothing THEN {}
                  ELSE RunTables \cap TablesOf(Asked[runs[n]].kind)

\* A run with a managed workspace has its worktree, made by its own submission,
\* and shares it with no other run, though ids may differ in what sanitizeToken
\* drops, come from one millisecond, or be sent twice.
RunOwnsItsWorktree ==
    \A n \in Run :
        runs[n] # Nothing /\ Asked[runs[n]].kind = "submit" /\ Asked[runs[n]].worktree = "managed" =>
            worktrees[Token[n]] = runs[n]

\* The answer 201 is given for a run that is there and is the caller's own.
AcceptedRunIsThere ==
    \A r \in Request :
        phase[r] = "ok" /\ Asked[r].kind \in {"submit", "init"} => runs[run[r]] = r

\* A transaction once begun ends: its locks are not held for good.
TransactionsEnd == \A r \in Request : phase[r] = "writing" ~> phase[r] # "writing"
=============================================================================
