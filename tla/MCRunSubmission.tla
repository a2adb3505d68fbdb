--------------------------- MODULE MCRunSubmission ---------------------------
(* Instances of RunSubmission for model checking: requests that meet on a    *)
(* repository, a project, a run id and a worktree.                           *)
EXTENDS RunSubmission

CONSTANTS submitA, submitB, again, fromGraph, register, edit,
          runA, runB, repo, web, home, fork, found, chosen

Ask(kind, root, ids, worktree, profile) ==
    [kind |-> kind, repository |-> repo, root |-> root, project |-> web, runs |-> ids,
     worktree |-> worktree, profile |-> profile]

\* again: a retry or a second run, in place; fromGraph: init-platform-run.
Questions ==
    [r \in Request |->
        CASE r = submitA -> Ask("submit", home, {runA}, "managed", "omitted")
          [] r = submitB -> Ask("submit", home, {runA, runB}, "managed", chosen)
          [] r = again -> Ask("submit", home, {runA, runB}, "none", "omitted")
          [] r = fromGraph -> Ask("init", home, {runA}, "none", "omitted")
          [] r = register -> Ask("register", fork, {}, "managed", "omitted")
          [] r = edit -> Ask("edit", home, {}, "managed", chosen)]

\* Run_A and run-a, say.
SameToken == [n \in {runA, runB} |-> runA]
FoundAtHome == [d \in {home, fork} |-> IF d = home THEN found ELSE NoProfile]

Two == {runA, runB}
AnyRequest == {submitA, submitB, again, fromGraph, register, edit}
OneRepository == {repo}
OneProject == {web}
Roots == {home, fork}
Profiles == {found, chosen}
=============================================================================
