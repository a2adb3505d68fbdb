------------------------- MODULE RunSubmissionProofs -------------------------
(***************************************************************************)
(* Theorems about submissions, for any requests, repositories and runs,    *)
(* whatever fails or crashes.                                              *)
(***************************************************************************)
EXTENDS RunSubmission, SequenceTheorems, TLAPS

-----------------------------------------------------------------------------
(* What a request writes.                                                   *)

LEMMA WritesType ==
    ASSUME NEW kind \in Kinds
    PROVE  Writes(kind) \in Seq(Tables)
<1>1. /\ RunRows \in Seq(Tables)
      /\ <<"repositories", "projects", "runs", "run_workspaces">> \in Seq(Tables)
      /\ <<"repositories", "runs">> \in Seq(Tables)
      /\ <<"repositories", "projects">> \in Seq(Tables)
      /\ <<"projects">> \in Seq(Tables)
  BY DEF RunRows, Tables
<1> QED
  BY <1>1, ConcatProperties DEF Writes, Kinds

LEMMA WritesRuns ==
    ASSUME NEW kind \in Kinds
    PROVE  /\ TablesOf(kind) \subseteq Tables
           /\ kind \in {"submit", "init"} => "runs" \in TablesOf(kind)
           /\ kind \in {"register", "edit"} => TablesOf(kind) \cap RunTables = {}
<1>1. TablesOf(kind) \subseteq Tables
  BY WritesType DEF TablesOf
<1>2. ASSUME NEW a \in Seq(Tables), NEW b \in Seq(Tables), NEW i \in DOMAIN a
      PROVE  i \in DOMAIN (a \o b) /\ (a \o b)[i] = a[i]
  BY <1>2, ConcatProperties, LenProperties
<1>3. CASE kind = "submit"
  <2> DEFINE a == <<"repositories", "projects", "runs", "run_workspaces">>
  <2>1. a \in Seq(Tables) /\ RunRows \in Seq(Tables) /\ 3 \in DOMAIN a /\ a[3] = "runs"
    BY DEF Tables, RunRows
  <2>2. Writes(kind) = a \o RunRows
    BY <1>3 DEF Writes
  <2> HIDE DEF a
  <2>3. 3 \in DOMAIN Writes(kind) /\ Writes(kind)[3] = "runs"
    BY <1>2, <2>1, <2>2
  <2> QED
    BY <1>1, <1>3, <2>3 DEF TablesOf
<1>4. CASE kind = "init"
  <2> DEFINE a == <<"repositories", "runs">>
  <2>1. a \in Seq(Tables) /\ RunRows \in Seq(Tables) /\ 2 \in DOMAIN a /\ a[2] = "runs"
    BY DEF Tables, RunRows
  <2>2. Writes(kind) = a \o RunRows
    BY <1>4 DEF Writes
  <2> HIDE DEF a
  <2> QED
    BY <1>1, <1>2, <1>4, <2>1, <2>2 DEF TablesOf
<1>5. CASE kind = "register"
  <2>1. Writes(kind) = <<"repositories", "projects">>
    BY <1>5 DEF Writes
  <2> QED
    BY <1>1, <1>5, <2>1 DEF TablesOf, RunTables
<1>6. CASE kind = "edit"
  <2>1. Writes(kind) = <<"projects">>
    BY <1>6 DEF Writes
  <2> QED
    BY <1>1, <1>6, <2>1 DEF TablesOf, RunTables
<1> QED
  BY <1>3, <1>4, <1>5, <1>6 DEF Kinds

\* What a sequence has beside its head, its tail has.
LEMMA TailElements ==
    ASSUME NEW S, NEW s \in Seq(S), s # <<>>
    PROVE  /\ Head(s) \in S /\ Tail(s) \in Seq(S)
           /\ \A i \in DOMAIN s : s[i] = Head(s) \/ \E j \in DOMAIN Tail(s) : Tail(s)[j] = s[i]
           /\ \A j \in DOMAIN Tail(s) : \E i \in DOMAIN s : s[i] = Tail(s)[j]
           /\ \E i \in DOMAIN s : s[i] = Head(s)
<1>1. /\ Head(s) \in S /\ Tail(s) \in Seq(S) /\ Len(Tail(s)) = Len(s) - 1
      /\ \A i \in 1..Len(Tail(s)) : Tail(s)[i] = s[i+1]
  BY HeadTailProperties
<1>2. /\ DOMAIN s = 1..Len(s) /\ DOMAIN Tail(s) = 1..Len(Tail(s)) /\ Len(s) \in Nat
      /\ Len(s) # 0 /\ Head(s) = s[1]
  BY <1>1, LenProperties, EmptySeq
<1>3. ASSUME NEW i \in DOMAIN s, i # 1
      PROVE  \E j \in DOMAIN Tail(s) : Tail(s)[j] = s[i]
  <2>1. i - 1 \in 1..Len(Tail(s)) /\ (i - 1) + 1 = i
    BY <1>1, <1>2, <1>3
  <2> QED
    BY <1>1, <1>2, <2>1
<1>4. ASSUME NEW j \in DOMAIN Tail(s)
      PROVE  j + 1 \in DOMAIN s /\ s[j + 1] = Tail(s)[j]
  BY <1>1, <1>2
<1> QED
  BY <1>1, <1>2, <1>3, <1>4

-----------------------------------------------------------------------------
(* Types.                                                                   *)

LEMMA NewProjectType ==
    ASSUME NEW r \in Request
    PROVE  NewProject(r) \in ProjectRow
<1>1. /\ Asked[r].repository \in Repository /\ Asked[r].root \in Root
      /\ Asked[r].profile \in Profile \cup {NoProfile, "omitted"}
      /\ Found[Asked[r].root] \in Profile \cup {NoProfile}
  BY RequestAssumption
<1>2. ResolvedProfile(r) \in Profile \cup {NoProfile}
  BY <1>1 DEF ResolvedProfile
<1> QED
  BY <1>1, <1>2 DEF NewProject, ProjectRow

LEMMA EditedProjectType ==
    ASSUME NEW r \in Request, NEW p \in ProjectRow
    PROVE  [p EXCEPT !.profile = IF Asked[r].profile = "omitted" THEN Found[p.root]
                                 ELSE Asked[r].profile] \in ProjectRow
<1>1. /\ Asked[r].profile \in Profile \cup {NoProfile, "omitted"}
      /\ p.root \in Root /\ Found[p.root] \in Profile \cup {NoProfile}
  BY RequestAssumption DEF ProjectRow
<1> QED
  BY <1>1 DEF ProjectRow

LEMMA EntersType ==
    ASSUME SubmissionTypeOK, NEW r \in Request, NEW n \in Run \cup {Nothing},
           NEW p \in ProjectRow \cup {Nothing}, EntersTransaction(r, n, p),
           UNCHANGED <<tableVars, crashes, cleanups>>,
           worktrees' \in [{Token[m] : m \in Run} -> Request \cup {Nothing}]
    PROVE  SubmissionTypeOK'
<1>1. Writes(Asked[r].kind) \in Seq(Tables)
  BY WritesType, RequestAssumption
<1> QED
  BY <1>1 DEF EntersTransaction, SubmissionTypeOK, tableVars, Phases

LEMMA RollsBackType ==
    ASSUME SubmissionTypeOK, NEW r \in Request, RollsBack(r),
           UNCHANGED <<tableVars, crashes, cleanups>>,
           worktrees' \in [{Token[m] : m \in Run} -> Request \cup {Nothing}]
    PROVE  SubmissionTypeOK'
BY DEF RollsBack, SubmissionTypeOK, tableVars, Phases

LEMMA ProvisionType ==
    ASSUME SubmissionTypeOK, NEW r \in Request, NEW n \in Run, ProvisionWorktree(r, n)
    PROVE  worktrees' \in [{Token[m] : m \in Run} -> Request \cup {Nothing}]
BY DEF ProvisionWorktree, SubmissionTypeOK

LEMMA ArriveType ==
    ASSUME SubmissionTypeOK, NEW r \in Request,
           Starts(r) \/ Refuse(r) \/ TaskGraphNotWritten(r)
    PROVE  SubmissionTypeOK'
<1>0. /\ Asked[r].runs \subseteq Run
      /\ worktrees \in [{Token[m] : m \in Run} -> Request \cup {Nothing}]
  BY RequestAssumption DEF SubmissionTypeOK
<1>1. CASE SubmitRun(r)
  <2>1. PICK n \in Asked[r].runs :
          /\ IF Asked[r].worktree = "managed" THEN ProvisionWorktree(r, n) ELSE UNCHANGED worktrees
          /\ EntersTransaction(r, n, NewProject(r))
    BY <1>1 DEF SubmitRun
  <2>2. worktrees' \in [{Token[m] : m \in Run} -> Request \cup {Nothing}]
    BY <1>0, <2>1, ProvisionType
  <2> QED
    BY <1>0, <1>1, <2>1, <2>2, NewProjectType, EntersType DEF SubmitRun
<1>2. CASE InitRun(r)
  BY <1>0, <1>2, EntersType DEF InitRun
<1>3. CASE RegisterProject(r)
  BY <1>0, <1>3, NewProjectType, EntersType DEF RegisterProject
<1>4. CASE UpdateAdapterProfile(r)
  <2> DEFINE p == projects[Asked[r].project]
             edited == [p EXCEPT !.profile = IF Asked[r].profile = "omitted" THEN Found[p.root]
                                             ELSE Asked[r].profile]
  <2>1. p \in ProjectRow \cup {Nothing}
    BY RequestAssumption DEF SubmissionTypeOK
  <2>2. CASE p = Nothing
    BY <1>0, <1>4, <2>2, RollsBackType DEF UpdateAdapterProfile
  <2>3. CASE p # Nothing
    <3>1. edited \in ProjectRow
      BY <2>1, <2>3, EditedProjectType
    <3>2. EntersTransaction(r, Nothing, edited)
      BY <1>4, <2>3 DEF UpdateAdapterProfile
    <3> HIDE DEF edited
    <3> QED
      BY <1>0, <1>4, <3>1, <3>2, EntersType DEF UpdateAdapterProfile
  <2> QED
    BY <2>2, <2>3
<1>5. CASE Refuse(r)
  BY <1>0, <1>5, RollsBackType DEF Refuse
<1>6. CASE TaskGraphNotWritten(r)
  BY <1>0, <1>6, ProvisionType, RollsBackType DEF TaskGraphNotWritten
<1> QED
  BY <1>1, <1>2, <1>3, <1>4, <1>5, <1>6 DEF Starts

LEMMA AppliedType ==
    ASSUME SubmissionTypeOK, NEW r \in Request, Applied(r)
    PROVE  /\ repositories' \in [Repository -> Root \cup {Nothing}]
           /\ projects' \in [Project -> ProjectRow \cup {Nothing}]
           /\ runs' \in [Run -> Request \cup {Nothing}]
           /\ rows' \in [Run -> SUBSET Tables]
<1>1. Asked[r].root \in Root /\ project[r] \in ProjectRow \cup {Nothing}
  BY RequestAssumption DEF SubmissionTypeOK
<1>2. \A n \in Run : rows[n] \cup {t \in RunTables : <<t, n>> \in wrote[r]} \in SUBSET Tables
  BY DEF SubmissionTypeOK, RunTables
<1>3. rows' \in [Run -> SUBSET Tables]
  BY <1>2 DEF Applied
<1> QED
  BY <1>1, <1>3 DEF Applied, SubmissionTypeOK

LEMMA EndsType ==
    ASSUME SubmissionTypeOK, NEW r \in Request, Commit(r) \/ CommitBreaks(r)
    PROVE  SubmissionTypeOK'
<1>1. PICK answer \in {"ok", "error"} : Ends(r, answer)
  BY DEF Commit, CommitBreaks
<1>2. Applied(r) \/ UNCHANGED tableVars
  BY DEF Commit, CommitBreaks
<1>3. /\ repositories' \in [Repository -> Root \cup {Nothing}]
      /\ projects' \in [Project -> ProjectRow \cup {Nothing}]
      /\ runs' \in [Run -> Request \cup {Nothing}]
      /\ rows' \in [Run -> SUBSET Tables]
  BY <1>2, AppliedType DEF SubmissionTypeOK, tableVars
<1> QED
  BY <1>1, <1>3 DEF Commit, CommitBreaks, Ends, SubmissionTypeOK, Phases

LEMMA StepSubmissionType ==
    ASSUME SubmissionTypeOK, [SubmissionNext]_vars
    PROVE  SubmissionTypeOK'
<1>1. ASSUME NEW r \in Request, WriteRow(r)
      PROVE  SubmissionTypeOK'
  <2>1. Tail(todo[r]) \in Seq(Tables) /\ Head(todo[r]) \in Tables
    BY <1>1, TailElements DEF WriteRow, SubmissionTypeOK
  <2>2. Key(r, Head(todo[r])) \in Tables \X (Repository \cup Project \cup Run \cup {Nothing})
    BY <2>1, RequestAssumption DEF Key, SubmissionTypeOK
  <2> QED
    BY <1>1, <2>1, <2>2 DEF WriteRow, SubmissionTypeOK, tableVars
<1>2. ASSUME NEW r \in Request, WriteFails(r)
      PROVE  SubmissionTypeOK'
  BY <1>2, RollsBackType DEF WriteFails, SubmissionTypeOK
<1>3. CASE ServerCrashes
  <2>1. crashes' \in 0..MaxCrashes
    BY <1>3, RequestAssumption DEF ServerCrashes, SubmissionTypeOK
  <2> QED
    BY <1>3, <2>1 DEF ServerCrashes, SubmissionTypeOK, tableVars, Phases
<1>4. ASSUME NEW t \in DOMAIN worktrees, RemoveWorktree(t)
      PROVE  SubmissionTypeOK'
  <2>1. cleanups' \in 0..MaxCleanups
    BY <1>4, RequestAssumption DEF RemoveWorktree, SubmissionTypeOK
  <2> QED
    BY <1>4, <2>1 DEF RemoveWorktree, SubmissionTypeOK, tableVars, requestVars
<1>5. CASE UNCHANGED vars
  BY <1>5 DEF vars, tableVars, requestVars, SubmissionTypeOK
<1> QED
  BY <1>1, <1>2, <1>3, <1>4, <1>5, ArriveType, EndsType DEF SubmissionNext

LEMMA InitSubmissionType ==
    ASSUME SubmissionInit
    PROVE  SubmissionTypeOK
<1>1. /\ repositories \in [Repository -> Root \cup {Nothing}]
      /\ projects \in [Project -> ProjectRow \cup {Nothing}]
      /\ runs \in [Run -> Request \cup {Nothing}]
      /\ rows \in [Run -> SUBSET Tables]
      /\ worktrees \in [{Token[n] : n \in Run} -> Request \cup {Nothing}]
  BY DEF SubmissionInit
<1>2. /\ phase \in [Request -> Phases]
      /\ run \in [Request -> Run \cup {Nothing}]
      /\ project \in [Request -> ProjectRow \cup {Nothing}]
      /\ todo \in [Request -> Seq(Tables)]
      /\ wrote \in [Request -> SUBSET (Tables \X (Repository \cup Project \cup Run \cup {Nothing}))]
      /\ \A r \in Request : wrote[r] # {} => phase[r] = "writing"
  BY DEF SubmissionInit, Phases
<1>3. crashes \in 0..MaxCrashes /\ cleanups \in 0..MaxCleanups
  BY RequestAssumption DEF SubmissionInit
<1> QED
  BY <1>1, <1>2, <1>3 DEF SubmissionTypeOK

\* Tables, worktrees and requests keep their types.
THEOREM SubmissionTypeCorrect == SubmissionSpec => []SubmissionTypeOK
<1>1. SubmissionInit => SubmissionTypeOK
  BY InitSubmissionType
<1>2. SubmissionTypeOK /\ [SubmissionNext]_vars => SubmissionTypeOK'
  BY StepSubmissionType
<1> QED
  BY <1>1, <1>2, PTL DEF SubmissionSpec

-----------------------------------------------------------------------------
(* A run and its worktree.                                                  *)

Managed(r) == Asked[r].kind = "submit" /\ Asked[r].worktree = "managed"

\* A submission that is being written still has the worktree it made.
WriterHasWorktree ==
    \A r \in Request :
        phase[r] = "writing" /\ Managed(r) =>
            run[r] \in Run /\ worktrees[Token[run[r]]] = r

\* A transaction writes no run but the one its request was given.
WritesOwnRun ==
    \A r \in Request : \A n \in Run : <<"runs", n>> \in wrote[r] => n = run[r]

WorktreeInv == SubmissionTypeOK /\ WriterHasWorktree /\ WritesOwnRun /\ RunOwnsItsWorktree

\* What a request may do before its transaction, as far as worktrees go.
LEMMA ArrivesWith ==
    ASSUME SubmissionTypeOK, NEW r \in Request,
           Starts(r) \/ Refuse(r) \/ TaskGraphNotWritten(r)
    PROVE  /\ phase[r] = "waiting" /\ wrote[r] = {} /\ UNCHANGED tableVars
           /\ \A q \in Request : wrote'[q] = wrote[q]
           /\ \A q \in Request \ {r} : phase'[q] = phase[q] /\ run'[q] = run[q] /\ todo'[q] = todo[q]
           /\ \/ phase'[r] = "error"
              \/ /\ phase'[r] = "writing" /\ todo'[r] = Writes(Asked[r].kind)
                 /\ Asked[r].kind \in {"submit", "init"} => run'[r] \in Run
           /\ \/ UNCHANGED worktrees /\ (phase'[r] = "writing" => ~Managed(r))
              \/ \E n \in Run : /\ ProvisionWorktree(r, n)
                                /\ phase'[r] = "writing" => run'[r] = n
<1>1. /\ phase[r] = "waiting" /\ UNCHANGED tableVars
      /\ Asked[r].runs \subseteq Run /\ phase \in [Request -> Phases]
      /\ wrote[r] = {} /\ DOMAIN run = Request /\ DOMAIN wrote = Request /\ DOMAIN todo = Request
  BY RequestAssumption DEF Starts, SubmitRun, InitRun, RegisterProject, UpdateAdapterProfile,
     Refuse, TaskGraphNotWritten, Arrives, SubmissionTypeOK, Phases
<1>2. CASE SubmitRun(r)
  <2>1. PICK n \in Asked[r].runs :
          /\ IF Asked[r].worktree = "managed" THEN ProvisionWorktree(r, n) ELSE UNCHANGED worktrees
          /\ EntersTransaction(r, n, NewProject(r))
    BY <1>2 DEF SubmitRun
  <2> HIDE DEF NewProject
  <2> QED
    BY <1>1, <1>2, <2>1 DEF EntersTransaction, Managed
<1>3. CASE InitRun(r)
  BY <1>1, <1>3 DEF InitRun, EntersTransaction, Managed
<1>4. CASE RegisterProject(r)
  BY <1>1, <1>4 DEF RegisterProject, EntersTransaction, Managed
<1>5. CASE UpdateAdapterProfile(r)
  BY <1>1, <1>5 DEF UpdateAdapterProfile, EntersTransaction, RollsBack, Managed
<1>6. CASE Refuse(r)
  BY <1>1, <1>6 DEF Refuse, RollsBack
<1>7. CASE TaskGraphNotWritten(r)
  BY <1>1, <1>7 DEF TaskGraphNotWritten, RollsBack
<1> QED
  BY <1>2, <1>3, <1>4, <1>5, <1>6, <1>7 DEF Starts

\* What ends a transaction, as far as the rows of runs go.
LEMMA EndsWith ==
    ASSUME SubmissionTypeOK, NEW r \in Request, Commit(r) \/ CommitBreaks(r)
    PROVE  /\ phase[r] = "writing" /\ todo[r] = <<>>
           /\ UNCHANGED <<run, todo, worktrees>>
           /\ phase' \in [Request -> Phases] /\ phase'[r] \in {"ok", "error"}
           /\ wrote'[r] = {} /\ (phase'[r] = "ok" => Applied(r))
           /\ \A q \in Request \ {r} : phase'[q] = phase[q] /\ wrote'[q] = wrote[q]
           /\ Applied(r) \/ UNCHANGED tableVars
BY DEF Commit, CommitBreaks, Ends, SubmissionTypeOK, Phases

LEMMA StepWorktree ==
    ASSUME WorktreeInv, SubmissionNext
    PROVE  WriterHasWorktree' /\ WritesOwnRun' /\ RunOwnsItsWorktree'
<1>0. SubmissionTypeOK /\ WriterHasWorktree /\ WritesOwnRun /\ RunOwnsItsWorktree
  BY DEF WorktreeInv
<1>1. ASSUME NEW r \in Request, Starts(r) \/ Refuse(r) \/ TaskGraphNotWritten(r)
      PROVE  WriterHasWorktree' /\ WritesOwnRun' /\ RunOwnsItsWorktree'
  <2>1. WritesOwnRun'
    BY <1>0, <1>1, ArrivesWith DEF WritesOwnRun
  <2>2. CASE UNCHANGED worktrees /\ (phase'[r] = "writing" => ~Managed(r))
    BY <1>0, <1>1, <2>1, <2>2, ArrivesWith
       DEF WriterHasWorktree, RunOwnsItsWorktree, tableVars, Managed
  <2>3. ASSUME NEW n \in Run, ProvisionWorktree(r, n), phase'[r] = "writing" => run'[r] = n
        PROVE  WriterHasWorktree' /\ RunOwnsItsWorktree'
    <3>1. /\ worktrees[Token[n]] = Nothing /\ worktrees'[Token[n]] = r
          /\ \A m \in Run : Token[m] # Token[n] => worktrees'[Token[m]] = worktrees[Token[m]]
          /\ \A q \in Request : q # Nothing
      BY <1>0, <2>3, RequestAssumption
         DEF ProvisionWorktree, WorktreeIsFree, SubmissionTypeOK
    <3>2. WriterHasWorktree'
      BY <1>0, <1>1, <2>3, <3>1, ArrivesWith DEF WriterHasWorktree
    <3>3. runs' = runs
      BY <1>0, <1>1, ArrivesWith DEF tableVars
    <3>4. \A m \in Run : worktrees[Token[m]] # Nothing => worktrees'[Token[m]] = worktrees[Token[m]]
      BY <3>1
    <3>5. \A m \in Run : runs[m] # Nothing => runs[m] \in Request
      BY <1>0 DEF SubmissionTypeOK
    <3>6. RunOwnsItsWorktree'
      BY <1>0, <3>1, <3>3, <3>4, <3>5 DEF RunOwnsItsWorktree
    <3> QED
      BY <3>2, <3>6
  <2> QED
    BY <1>0, <1>1, <2>1, <2>2, <2>3, ArrivesWith
<1>2. ASSUME NEW r \in Request, WriteRow(r)
      PROVE  WriterHasWorktree' /\ WritesOwnRun' /\ RunOwnsItsWorktree'
  <2>1. WriterHasWorktree' /\ RunOwnsItsWorktree'
    BY <1>0, <1>2 DEF WriteRow, WriterHasWorktree, RunOwnsItsWorktree, tableVars
  <2>2. ASSUME NEW n, <<"runs", n>> = Key(r, Head(todo[r]))
        PROVE  n = run[r]
    BY <2>2 DEF Key
  <2>3. WritesOwnRun'
    BY <1>0, <1>2, <2>2 DEF WriteRow, WritesOwnRun, SubmissionTypeOK
  <2> QED
    BY <2>1, <2>3
<1>3. ASSUME NEW r \in Request, WriteFails(r)
      PROVE  WriterHasWorktree' /\ WritesOwnRun' /\ RunOwnsItsWorktree'
  BY <1>0, <1>3 DEF WriteFails, RollsBack, WriterHasWorktree, WritesOwnRun,
     RunOwnsItsWorktree, tableVars, SubmissionTypeOK
<1>4. ASSUME NEW r \in Request, Commit(r) \/ CommitBreaks(r)
      PROVE  WriterHasWorktree' /\ WritesOwnRun' /\ RunOwnsItsWorktree'
  <2>1. WriterHasWorktree' /\ WritesOwnRun'
    BY <1>0, <1>4, EndsWith DEF WriterHasWorktree, WritesOwnRun
  <2>2. CASE UNCHANGED tableVars
    BY <1>0, <1>4, <2>1, <2>2, EndsWith DEF RunOwnsItsWorktree, tableVars
  <2>3. CASE Applied(r)
    <3>1. \A n \in Run : runs'[n] = IF <<"runs", n>> \in wrote[r] THEN r ELSE runs[n]
      BY <2>3 DEF Applied
    <3>2. phase[r] = "writing" /\ worktrees' = worktrees
      BY <1>0, <1>4, EndsWith
    <3>3. ASSUME NEW n \in Run, <<"runs", n>> \in wrote[r], Managed(r)
          PROVE  worktrees'[Token[n]] = r
      BY <1>0, <3>2, <3>3 DEF WriterHasWorktree, WritesOwnRun
    <3>4. ASSUME NEW n \in Run, runs'[n] # Nothing, Asked[runs'[n]].kind = "submit",
                 Asked[runs'[n]].worktree = "managed"
          PROVE  worktrees'[Token[n]] = runs'[n]
      <4>1. CASE <<"runs", n>> \in wrote[r]
        BY <3>1, <3>3, <3>4, <4>1 DEF Managed
      <4>2. CASE <<"runs", n>> \notin wrote[r]
        BY <1>0, <3>1, <3>2, <3>4, <4>2 DEF RunOwnsItsWorktree
      <4> QED
        BY <4>1, <4>2
    <3> QED
      BY <2>1, <3>4 DEF RunOwnsItsWorktree
  <2>4. Applied(r) \/ UNCHANGED tableVars
    BY <1>4 DEF Commit, CommitBreaks
  <2> QED
    BY <2>1, <2>2, <2>3, <2>4
<1>5. CASE ServerCrashes
  BY <1>0, <1>5 DEF ServerCrashes, WriterHasWorktree, WritesOwnRun, RunOwnsItsWorktree,
     tableVars, SubmissionTypeOK
<1>6. ASSUME NEW t \in DOMAIN worktrees, RemoveWorktree(t)
      PROVE  WriterHasWorktree' /\ WritesOwnRun' /\ RunOwnsItsWorktree'
  <2>1. \A m \in Run : Token[m] \in DOMAIN worktrees
    BY <1>0 DEF SubmissionTypeOK
  <2>2. \A m \in Run : Token[m] # t => worktrees'[Token[m]] = worktrees[Token[m]]
    BY <1>6, <2>1 DEF RemoveWorktree
  <2>3. ASSUME NEW r \in Request, phase[r] = "writing", Managed(r)
        PROVE  Token[run[r]] # t
    BY <1>0, <1>6, <2>3 DEF RemoveWorktree, WriterHasWorktree
  <2>4. ASSUME NEW n \in Run, runs[n] = worktrees[Token[n]]
        PROVE  Token[n] # t
    BY <1>6, <2>4 DEF RemoveWorktree
  <2>5. WriterHasWorktree'
    BY <1>0, <1>6, <2>2, <2>3 DEF RemoveWorktree, requestVars, WriterHasWorktree
  <2>6. RunOwnsItsWorktree' /\ WritesOwnRun'
    BY <1>0, <1>6, <2>2, <2>4
       DEF RemoveWorktree, tableVars, requestVars, RunOwnsItsWorktree, WritesOwnRun
  <2> QED
    BY <2>5, <2>6
<1> QED
  BY <1>1, <1>2, <1>3, <1>4, <1>5, <1>6 DEF SubmissionNext

\* However ids collide and whatever fails, a run with a managed workspace has the
\* worktree its own submission made, and no other run has it.
THEOREM RunsOwnTheirWorktrees == SubmissionSpec => []RunOwnsItsWorktree
<1>1. SubmissionInit => WorktreeInv
  <2> SUFFICES ASSUME SubmissionInit PROVE WorktreeInv
    OBVIOUS
  <2>1. WriterHasWorktree /\ WritesOwnRun /\ RunOwnsItsWorktree
    BY DEF SubmissionInit, WriterHasWorktree, WritesOwnRun, RunOwnsItsWorktree
  <2> QED
    BY <2>1, InitSubmissionType DEF WorktreeInv
<1>2. WorktreeInv /\ [SubmissionNext]_vars => WorktreeInv'
  <2> SUFFICES ASSUME WorktreeInv, [SubmissionNext]_vars PROVE WorktreeInv'
    OBVIOUS
  <2>1. SubmissionTypeOK'
    BY StepSubmissionType DEF WorktreeInv
  <2>2. CASE SubmissionNext
    BY <2>1, <2>2, StepWorktree DEF WorktreeInv
  <2>3. CASE UNCHANGED vars
    BY <2>1, <2>3 DEF WorktreeInv, vars, tableVars, requestVars, WriterHasWorktree,
       WritesOwnRun, RunOwnsItsWorktree
  <2> QED
    BY <2>2, <2>3
<1>3. WorktreeInv => RunOwnsItsWorktree
  BY DEF WorktreeInv
<1> QED
  BY <1>1, <1>2, <1>3, PTL DEF SubmissionSpec

-----------------------------------------------------------------------------
(* A run and its rows.                                                      *)

CreatesRun(r) == Asked[r].kind \in {"submit", "init"}

\* A request in its transaction has the run it was given.
WriterHasRun ==
    \A r \in Request : phase[r] \in {"writing", "ok"} /\ CreatesRun(r) => run[r] \in Run

\* What it will write has been written or is still to be written.
WritesAllOfIt ==
    \A r \in Request : phase[r] = "writing" =>
        \A t \in TablesOf(Asked[r].kind) :
            Key(r, t) \in wrote[r] \/ \E i \in DOMAIN todo[r] : todo[r][i] = t

\* And nothing else.
WritesNothingElse ==
    \A r \in Request :
        /\ wrote[r] \subseteq {Key(r, t) : t \in TablesOf(Asked[r].kind)}
        /\ phase[r] = "writing" =>
             \A i \in DOMAIN todo[r] : todo[r][i] \in TablesOf(Asked[r].kind)

\* The key of a run is held by one transaction, and no committed run has it.
RunKeyIsFree ==
    \A n \in Run : \A r \in Request : <<"runs", n>> \in wrote[r] =>
        /\ runs[n] = Nothing
        /\ \A q \in Request : <<"runs", n>> \in wrote[q] => q = r

RowsInv ==
    /\ SubmissionTypeOK
    /\ WriterHasRun
    /\ WritesAllOfIt
    /\ WritesNothingElse
    /\ RunKeyIsFree
    /\ RunIsWhole
    /\ AcceptedRunIsThere

LEMMA KeyOf ==
    ASSUME NEW r, NEW t, NEW u, NEW n, Key(r, t) = <<u, n>>
    PROVE  /\ u = t
           /\ t \notin {"repositories", "projects"} => n = run[r]
BY DEF Key

\* Only a transaction that creates a run writes rows of a run, and of its own.
LEMMA WritesRowsOf ==
    ASSUME SubmissionTypeOK, WritesNothingElse, NEW r \in Request, NEW t \in RunTables, NEW n,
           <<t, n>> \in wrote[r]
    PROVE  CreatesRun(r) /\ n = run[r] /\ t \in TablesOf(Asked[r].kind) /\ phase[r] = "writing"
<1>1. PICK u \in TablesOf(Asked[r].kind) : <<t, n>> = Key(r, u)
  BY DEF WritesNothingElse
<1>2. u = t /\ n = run[r]
  BY <1>1, KeyOf DEF RunTables
<1>3. Asked[r].kind \in Kinds
  BY RequestAssumption
<1>4. CreatesRun(r)
  BY <1>1, <1>2, <1>3, WritesRuns DEF CreatesRun, Kinds
<1> QED
  BY <1>1, <1>2, <1>4 DEF SubmissionTypeOK

\* A transaction that has written everything has written its run.
LEMMA WroteAll ==
    ASSUME RowsInv, NEW r \in Request, phase[r] = "writing", todo[r] = <<>>, CreatesRun(r)
    PROVE  /\ run[r] \in Run
           /\ \A t \in RunTables \cap TablesOf(Asked[r].kind) : <<t, run[r]>> \in wrote[r]
           /\ <<"runs", run[r]>> \in wrote[r]
<1>1. \A t \in TablesOf(Asked[r].kind) : Key(r, t) \in wrote[r]
  BY DEF RowsInv, WritesAllOfIt
<1>2. \A t \in RunTables : Key(r, t) = <<t, run[r]>>
  BY DEF Key, RunTables
<1>3. "runs" \in RunTables \cap TablesOf(Asked[r].kind)
  BY WritesRuns, RequestAssumption DEF CreatesRun, RunTables, Tables
<1> QED
  BY <1>1, <1>2, <1>3 DEF RowsInv, WriterHasRun

LEMMA ArriveRows ==
    ASSUME RowsInv, NEW r \in Request, Starts(r) \/ Refuse(r) \/ TaskGraphNotWritten(r),
           SubmissionTypeOK'
    PROVE  RowsInv'
<1>0. /\ SubmissionTypeOK /\ WriterHasRun /\ WritesAllOfIt /\ WritesNothingElse
      /\ RunKeyIsFree /\ RunIsWhole /\ AcceptedRunIsThere
  BY DEF RowsInv
<1>1. /\ phase[r] = "waiting" /\ wrote[r] = {} /\ wrote'[r] = {} /\ runs' = runs /\ rows' = rows
      /\ \A q \in Request : wrote'[q] = wrote[q]
      /\ \A q \in Request \ {r} : phase'[q] = phase[q] /\ run'[q] = run[q] /\ todo'[q] = todo[q]
      /\ \/ phase'[r] = "error"
         \/ /\ phase'[r] = "writing" /\ todo'[r] = Writes(Asked[r].kind)
            /\ CreatesRun(r) => run'[r] \in Run
  BY <1>0, ArrivesWith DEF tableVars, CreatesRun
<1>2. \A q \in Request \ {r}, t \in Tables : Key(q, t)' = Key(q, t)
  BY <1>1 DEF Key
<1>3. \A q \in Request : TablesOf(Asked[q].kind) \subseteq Tables
  BY WritesRuns, RequestAssumption
<1>4. WriterHasRun'
  BY <1>0, <1>1 DEF WriterHasRun, CreatesRun
<1>5. WritesAllOfIt'
  <2> SUFFICES ASSUME NEW q \in Request, phase'[q] = "writing", NEW t \in TablesOf(Asked[q].kind)
               PROVE  Key(q, t)' \in wrote'[q] \/ \E i \in DOMAIN todo'[q] : todo'[q][i] = t
    BY DEF WritesAllOfIt
  <2>1. CASE q = r
    BY <1>1, <2>1 DEF TablesOf
  <2>2. CASE q # r
    BY <1>0, <1>1, <1>2, <1>3, <2>2 DEF WritesAllOfIt
  <2> QED
    BY <2>1, <2>2
<1>6. WritesNothingElse'
  <2> SUFFICES ASSUME NEW q \in Request
               PROVE  /\ \A k \in wrote'[q] : \E t \in TablesOf(Asked[q].kind) : k = Key(q, t)'
                      /\ phase'[q] = "writing" =>
                           \A i \in DOMAIN todo'[q] : todo'[q][i] \in TablesOf(Asked[q].kind)
    BY DEF WritesNothingElse
  <2>1. CASE q = r
    BY <1>1, <2>1 DEF TablesOf
  <2>2. CASE q # r
    BY <1>0, <1>1, <1>2, <1>3, <2>2 DEF WritesNothingElse
  <2> QED
    BY <2>1, <2>2
<1>7. RunKeyIsFree'
  BY <1>0, <1>1 DEF RunKeyIsFree
<1>8. RunIsWhole' /\ AcceptedRunIsThere'
  BY <1>0, <1>1 DEF RunIsWhole, AcceptedRunIsThere
<1> QED
  BY <1>4, <1>5, <1>6, <1>7, <1>8 DEF RowsInv

LEMMA WriteRows ==
    ASSUME RowsInv, NEW r \in Request, WriteRow(r), SubmissionTypeOK'
    PROVE  RowsInv'
<1>0. /\ SubmissionTypeOK /\ WriterHasRun /\ WritesAllOfIt /\ WritesNothingElse
      /\ RunKeyIsFree /\ RunIsWhole /\ AcceptedRunIsThere
  BY DEF RowsInv
<1> DEFINE h == Head(todo[r])
<1>1. /\ phase[r] = "writing" /\ todo[r] # <<>> /\ WaitsFor(r) = {} /\ ~KeyTaken(r)
      /\ wrote' = [wrote EXCEPT ![r] = @ \cup {Key(r, h)}]
      /\ todo' = [todo EXCEPT ![r] = Tail(@)]
      /\ UNCHANGED <<runs, rows, phase, run>>
  BY DEF WriteRow, tableVars
<1>2. /\ wrote'[r] = wrote[r] \cup {Key(r, h)} /\ todo'[r] = Tail(todo[r])
      /\ \A q \in Request \ {r} : wrote'[q] = wrote[q] /\ todo'[q] = todo[q]
      /\ todo[r] \in Seq(Tables)
  BY <1>0, <1>1 DEF SubmissionTypeOK
<1>3. \A q \in Request, t \in Tables : Key(q, t)' = Key(q, t)
  BY <1>1 DEF Key
<1>4. \A q \in Request : TablesOf(Asked[q].kind) \subseteq Tables
  BY WritesRuns, RequestAssumption
<1>5. /\ \A i \in DOMAIN todo[r] :
             todo[r][i] = h \/ \E j \in DOMAIN todo'[r] : todo'[r][j] = todo[r][i]
      /\ \A j \in DOMAIN todo'[r] : \E i \in DOMAIN todo[r] : todo[r][i] = todo'[r][j]
      /\ \E i \in DOMAIN todo[r] : todo[r][i] = h
  BY <1>1, <1>2, TailElements
<1>6. h \in TablesOf(Asked[r].kind)
  BY <1>0, <1>1, <1>5 DEF WritesNothingElse
<1> HIDE DEF h
<1>7. WriterHasRun'
  BY <1>0, <1>1 DEF WriterHasRun
<1>8. WritesAllOfIt'
  <2> SUFFICES ASSUME NEW q \in Request, phase'[q] = "writing", NEW t \in TablesOf(Asked[q].kind)
               PROVE  Key(q, t)' \in wrote'[q] \/ \E i \in DOMAIN todo'[q] : todo'[q][i] = t
    BY DEF WritesAllOfIt
  <2>0. /\ Key(q, t)' = Key(q, t)
        /\ Key(q, t) \in wrote[q] \/ \E i \in DOMAIN todo[q] : todo[q][i] = t
    BY <1>0, <1>1, <1>3, <1>4 DEF WritesAllOfIt
  <2>1. CASE q = r
    BY <1>2, <1>5, <2>0, <2>1
  <2>2. CASE q # r
    BY <1>2, <2>0, <2>2
  <2> QED
    BY <2>1, <2>2
<1>9. WritesNothingElse'
  <2> SUFFICES ASSUME NEW q \in Request
               PROVE  /\ \A k \in wrote'[q] : \E t \in TablesOf(Asked[q].kind) : k = Key(q, t)'
                      /\ phase'[q] = "writing" =>
                           \A i \in DOMAIN todo'[q] : todo'[q][i] \in TablesOf(Asked[q].kind)
    BY DEF WritesNothingElse
  <2>0. /\ \A k \in wrote[q] : \E t \in TablesOf(Asked[q].kind) : k = Key(q, t)
        /\ phase[q] = "writing" =>
             \A i \in DOMAIN todo[q] : todo[q][i] \in TablesOf(Asked[q].kind)
        /\ \A t \in TablesOf(Asked[q].kind) : Key(q, t)' = Key(q, t)
    BY <1>0, <1>3, <1>4 DEF WritesNothingElse
  <2>1. CASE q = r
    BY <1>1, <1>2, <1>5, <1>6, <2>0, <2>1
  <2>2. CASE q # r
    BY <1>1, <1>2, <2>0, <2>2
  <2> QED
    BY <2>1, <2>2
<1>10. RunKeyIsFree'
  <2>1. \A n \in Run : <<"runs", n>> = Key(r, h) =>
            /\ runs[n] = Nothing
            /\ \A q \in Request \ {r} : <<"runs", n>> \notin wrote[q]
    <3> SUFFICES ASSUME NEW n \in Run, <<"runs", n>> = Key(r, h)
                 PROVE  /\ runs[n] = Nothing
                        /\ \A q \in Request \ {r} : <<"runs", n>> \notin wrote[q]
      OBVIOUS
    <3>1. h = "runs" /\ n = run[r]
      BY KeyOf
    <3>2. runs[n] = Nothing
      BY <1>1, <3>1 DEF KeyTaken, h
    <3>3. \A q \in Request \ {r} : Key(r, h) \notin wrote[q]
      BY <1>1 DEF WaitsFor, h
    <3> QED
      BY <3>2, <3>3
  <2> SUFFICES ASSUME NEW n \in Run, NEW q \in Request, <<"runs", n>> \in wrote'[q]
               PROVE  /\ runs[n] = Nothing
                      /\ \A p \in Request : <<"runs", n>> \in wrote'[p] => p = q
    BY <1>1 DEF RunKeyIsFree
  <2>2. /\ <<"runs", n>> \in wrote[q] =>
              runs[n] = Nothing /\ \A p \in Request : <<"runs", n>> \in wrote[p] => p = q
        /\ \A p \in Request : <<"runs", n>> \in wrote'[p] =>
              <<"runs", n>> \in wrote[p] \/ (p = r /\ <<"runs", n>> = Key(r, h))
    BY <1>0, <1>2 DEF RunKeyIsFree
  <2> QED
    BY <2>1, <2>2
<1>11. RunIsWhole' /\ AcceptedRunIsThere'
  BY <1>0, <1>1 DEF RunIsWhole, AcceptedRunIsThere
<1> QED
  BY <1>7, <1>8, <1>9, <1>10, <1>11 DEF RowsInv

\* What an end of r, in whatever way, leaves of the other transactions.
LEMMA EndRows ==
    ASSUME RowsInv, NEW R \in SUBSET Request, SubmissionTypeOK',
           \A r \in R : wrote'[r] = {} /\ phase'[r] # "writing",
           \A q \in Request \ R : wrote'[q] = wrote[q] /\ phase'[q] = phase[q],
           UNCHANGED <<run, todo>>
    PROVE  /\ WritesAllOfIt' /\ WritesNothingElse'
           /\ \A n \in Run : \A q \in Request : <<"runs", n>> \in wrote'[q] =>
                 q \notin R /\ <<"runs", n>> \in wrote[q] /\ runs[n] = Nothing
           /\ runs' = runs => RunKeyIsFree'
<1>0. /\ WritesAllOfIt /\ WritesNothingElse /\ RunKeyIsFree
  BY DEF RowsInv
<1>1. \A q \in Request, t \in Tables : Key(q, t)' = Key(q, t)
  BY DEF Key
<1>2. \A q \in Request : TablesOf(Asked[q].kind) \subseteq Tables
  BY WritesRuns, RequestAssumption
<1>3. WritesAllOfIt'
  BY <1>0, <1>1, <1>2 DEF WritesAllOfIt
<1>4. WritesNothingElse'
  <2> SUFFICES ASSUME NEW q \in Request
               PROVE  /\ \A k \in wrote'[q] : \E t \in TablesOf(Asked[q].kind) : k = Key(q, t)'
                      /\ phase'[q] = "writing" =>
                           \A i \in DOMAIN todo'[q] : todo'[q][i] \in TablesOf(Asked[q].kind)
    BY DEF WritesNothingElse
  <2> QED
    BY <1>0, <1>1, <1>2 DEF WritesNothingElse
<1> QED
  BY <1>0, <1>3, <1>4 DEF RunKeyIsFree

LEMMA CommitRows ==
    ASSUME RowsInv, NEW r \in Request, Commit(r) \/ CommitBreaks(r), Applied(r), SubmissionTypeOK'
    PROVE  RowsInv'
<1>0. /\ SubmissionTypeOK /\ WriterHasRun /\ WritesAllOfIt /\ WritesNothingElse
      /\ RunKeyIsFree /\ RunIsWhole /\ AcceptedRunIsThere
  BY DEF RowsInv
<1>1. /\ phase[r] = "writing" /\ todo[r] = <<>> /\ UNCHANGED <<run, todo>>
      /\ phase'[r] \in {"ok", "error"} /\ wrote'[r] = {}
      /\ \A q \in Request \ {r} : phase'[q] = phase[q] /\ wrote'[q] = wrote[q]
  BY <1>0, EndsWith
<1>2. /\ \A n \in Run : runs'[n] = IF <<"runs", n>> \in wrote[r] THEN r ELSE runs[n]
      /\ \A n \in Run : rows'[n] = rows[n] \cup {t \in RunTables : <<t, n>> \in wrote[r]}
  BY DEF Applied
<1>3. /\ WritesAllOfIt' /\ WritesNothingElse'
      /\ \A n \in Run : \A q \in Request : <<"runs", n>> \in wrote'[q] =>
            q # r /\ <<"runs", n>> \in wrote[q] /\ runs[n] = Nothing
  <2>1. {r} \in SUBSET Request /\ \A p \in {r} : wrote'[p] = {} /\ phase'[p] # "writing"
    BY <1>1
  <2> QED
    BY <1>1, <2>1, EndRows
<1>4. WriterHasRun'
  BY <1>0, <1>1 DEF WriterHasRun
<1>5. RunKeyIsFree'
  <2> SUFFICES ASSUME NEW n \in Run, NEW q \in Request, <<"runs", n>> \in wrote'[q]
               PROVE  /\ runs'[n] = Nothing
                      /\ \A p \in Request : <<"runs", n>> \in wrote'[p] => p = q
    BY DEF RunKeyIsFree
  <2>1. \A p \in Request : <<"runs", n>> \in wrote'[p] => <<"runs", n>> \in wrote[p]
    BY <1>3
  <2>2. q # r /\ runs[n] = Nothing /\ <<"runs", n>> \in wrote[q]
    BY <1>3
  <2>3. \A p \in Request : <<"runs", n>> \in wrote[p] => p = q
    BY <1>0, <2>2 DEF RunKeyIsFree
  <2> QED
    BY <1>2, <2>1, <2>2, <2>3
<1>6. RunIsWhole'
  <2> SUFFICES ASSUME NEW n \in Run
               PROVE  rows'[n] = IF runs'[n] = Nothing THEN {}
                                 ELSE RunTables \cap TablesOf(Asked[runs'[n]].kind)
    BY DEF RunIsWhole
  <2>0. /\ rows[n] = IF runs[n] = Nothing THEN {}
                     ELSE RunTables \cap TablesOf(Asked[runs[n]].kind)
        /\ \A t \in RunTables : <<t, n>> \in wrote[r] =>
              CreatesRun(r) /\ n = run[r] /\ t \in TablesOf(Asked[r].kind)
    BY <1>0, WritesRowsOf DEF RunIsWhole
  <2>1. CASE \E t \in RunTables : <<t, n>> \in wrote[r]
    <3>1. CreatesRun(r) /\ n = run[r]
      BY <2>0, <2>1
    <3>2. /\ <<"runs", n>> \in wrote[r]
          /\ \A t \in RunTables \cap TablesOf(Asked[r].kind) : <<t, n>> \in wrote[r]
      BY <1>1, <3>1, WroteAll
    <3>3. runs[n] = Nothing /\ runs'[n] = r /\ r # Nothing
      BY <1>0, <1>2, <3>2, RequestAssumption DEF RunKeyIsFree
    <3> QED
      BY <1>2, <2>0, <3>2, <3>3
  <2>2. CASE ~\E t \in RunTables : <<t, n>> \in wrote[r]
    <3>1. "runs" \in RunTables
      BY DEF RunTables, Tables
    <3> QED
      BY <1>2, <2>0, <2>2, <3>1
  <2> QED
    BY <2>1, <2>2
<1>7. AcceptedRunIsThere'
  <2> SUFFICES ASSUME NEW q \in Request, phase'[q] = "ok", CreatesRun(q)
               PROVE  runs'[run[q]] = q
    BY <1>1 DEF AcceptedRunIsThere, CreatesRun
  <2>1. CASE q = r
    BY <1>1, <1>2, <2>1, WroteAll
  <2>2. CASE q # r
    <3>1. run[q] \in Run /\ runs[run[q]] = q /\ q # Nothing
      BY <1>0, <1>1, <2>2, RequestAssumption DEF AcceptedRunIsThere, CreatesRun, WriterHasRun
    <3>2. <<"runs", run[q]>> \notin wrote[r]
      BY <1>0, <3>1 DEF RunKeyIsFree
    <3> QED
      BY <1>2, <3>1, <3>2
  <2> QED
    BY <2>1, <2>2
<1> QED
  BY <1>3, <1>4, <1>5, <1>6, <1>7 DEF RowsInv

\* A transaction, or several, that end without having been applied.
LEMMA RollBackRows ==
    ASSUME RowsInv, NEW R \in SUBSET Request, SubmissionTypeOK',
           \A r \in R : wrote'[r] = {} /\ phase'[r] \in {"error", "lost", "ok"}
                        /\ (phase'[r] = "ok" => phase[r] = "ok"),
           \A q \in Request \ R : wrote'[q] = wrote[q] /\ phase'[q] = phase[q],
           UNCHANGED <<run, todo, runs, rows>>
    PROVE  RowsInv'
<1>0. /\ WriterHasRun /\ RunIsWhole /\ AcceptedRunIsThere
  BY DEF RowsInv
<1>1. WritesAllOfIt' /\ WritesNothingElse' /\ RunKeyIsFree'
  BY EndRows
<1>2. \A q \in Request : phase'[q] \in {"writing", "ok"} => phase'[q] = phase[q]
  OBVIOUS
<1>3. WriterHasRun' /\ RunIsWhole' /\ AcceptedRunIsThere'
  BY <1>0, <1>2 DEF WriterHasRun, RunIsWhole, AcceptedRunIsThere
<1> QED
  BY <1>1, <1>3 DEF RowsInv

LEMMA StepRows ==
    ASSUME RowsInv, [SubmissionNext]_vars
    PROVE  RowsInv'
<1>0. SubmissionTypeOK /\ SubmissionTypeOK'
  BY StepSubmissionType DEF RowsInv
<1>1. ASSUME NEW r \in Request, WriteFails(r)
      PROVE  RowsInv'
  <2>1. /\ {r} \in SUBSET Request /\ UNCHANGED <<run, todo, runs, rows>>
        /\ \A p \in {r} : wrote'[p] = {} /\ phase'[p] = "error"
        /\ \A q \in Request \ {r} : wrote'[q] = wrote[q] /\ phase'[q] = phase[q]
    BY <1>0, <1>1 DEF WriteFails, RollsBack, SubmissionTypeOK, tableVars
  <2> QED
    BY <1>0, <2>1, RollBackRows
<1>2. ASSUME NEW r \in Request, Commit(r) \/ CommitBreaks(r)
      PROVE  RowsInv'
  <2>1. CASE Applied(r)
    BY <1>0, <1>2, <2>1, CommitRows
  <2>2. CASE ~Applied(r)
    <3>1. /\ {r} \in SUBSET Request /\ UNCHANGED <<run, todo, runs, rows>>
          /\ \A p \in {r} : wrote'[p] = {} /\ phase'[p] = "error"
          /\ \A q \in Request \ {r} : wrote'[q] = wrote[q] /\ phase'[q] = phase[q]
      BY <1>0, <1>2, <2>2, EndsWith DEF tableVars
    <3> QED
      BY <1>0, <3>1, RollBackRows
  <2> QED
    BY <2>1, <2>2
<1>3. CASE ServerCrashes
  <2> DEFINE open == {r \in Request : phase[r] = "writing" /\ Asked[r].kind # "init"}
  <2>1. /\ open \in SUBSET Request /\ UNCHANGED <<run, todo, runs, rows>>
        /\ \A p \in open : wrote'[p] = {} /\ phase'[p] = "lost"
        /\ \A q \in Request \ open : wrote'[q] = wrote[q] /\ phase'[q] = phase[q]
    BY <1>0, <1>3 DEF ServerCrashes, SubmissionTypeOK, tableVars
  <2> QED
    BY <1>0, <2>1, RollBackRows
<1>4. ASSUME UNCHANGED <<tableVars, requestVars>>
      PROVE  RowsInv'
  <2>1. /\ UNCHANGED <<run, todo, runs, rows>>
        /\ \A q \in Request : wrote'[q] = wrote[q] /\ phase'[q] = phase[q]
    BY <1>4 DEF tableVars, requestVars
  <2>2. {} \in SUBSET Request /\ \A q \in {} : FALSE
    OBVIOUS
  <2> QED
    BY <1>0, <2>1, <2>2, RollBackRows
<1>5. ASSUME NEW t \in DOMAIN worktrees, RemoveWorktree(t)
      PROVE  RowsInv'
  BY <1>4, <1>5 DEF RemoveWorktree
<1>6. CASE UNCHANGED vars
  BY <1>4, <1>6 DEF vars
<1> QED
  BY <1>0, <1>1, <1>2, <1>3, <1>5, <1>6, ArriveRows, WriteRows DEF SubmissionNext

LEMMA RowsInvariant == SubmissionSpec => []RowsInv
<1>1. SubmissionInit => RowsInv
  <2> SUFFICES ASSUME SubmissionInit PROVE RowsInv
    OBVIOUS
  <2>1. /\ WriterHasRun /\ WritesAllOfIt /\ RunKeyIsFree /\ RunIsWhole /\ AcceptedRunIsThere
    BY DEF SubmissionInit, WriterHasRun, WritesAllOfIt, RunKeyIsFree, RunIsWhole, AcceptedRunIsThere
  <2>2. WritesNothingElse
    BY DEF SubmissionInit, WritesNothingElse
  <2> QED
    BY <2>1, <2>2, InitSubmissionType DEF RowsInv
<1>2. RowsInv /\ [SubmissionNext]_vars => RowsInv'
  BY StepRows
<1> QED
  BY <1>1, <1>2, PTL DEF SubmissionSpec

\* Wherever a submission fails or crashes, a run has all of its rows or none.
THEOREM RunsAreWhole == SubmissionSpec => []RunIsWhole
<1>1. RowsInv => RunIsWhole
  BY DEF RowsInv
<1> QED
  BY <1>1, RowsInvariant, PTL

\* Whatever ids the clock gives, 201 is answered for a run that is there and is
\* the caller's.
THEOREM AcceptedRunsAreThere == SubmissionSpec => []AcceptedRunIsThere
<1>1. RowsInv => AcceptedRunIsThere
  BY DEF RowsInv
<1> QED
  BY <1>1, RowsInvariant, PTL
=============================================================================
