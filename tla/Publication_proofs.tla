------------------------- MODULE Publication_proofs -------------------------
(***************************************************************************)
(* Theorems about Publication, for every value of its constants.           *)
(***************************************************************************)
EXTENDS Publication, TLAPS, WellFoundedInduction, FiniteSetTheorems

\* A non-empty set of naturals has a minimum.
LEMMA MinExists ==
  ASSUME NEW T \in SUBSET Nat, T # {}
  PROVE  \E m \in T : \A y \in T : m <= y
<1>1. PICK m \in T : \A y \in T : ~ (<<y, m>> \in OpToRel(<, Nat))
  BY NatLessThanWellFounded, WFMin
<1>2. \A a, b \in Nat : a < b => <<a, b>> \in OpToRel(<, Nat)
  BY DEF OpToRel
<1>3. \A y \in T : ~ (y < m)
  BY <1>1, <1>2
<1> QED BY <1>3

\* A non-empty set of naturals below a bound has its maximum among its elements.
LEMMA MaxOfBounded ==
  ASSUME NEW n \in Nat, NEW S \in SUBSET (0 .. n), S # {}
  PROVE  Max(S) \in S /\ \A y \in S : Max(S) >= y
<1> DEFINE T == {n - x : x \in S}
<1>1. T \in SUBSET Nat /\ T # {}
  <2>1. \A x \in S : n - x \in Nat
    OBVIOUS
  <2>2. PICK x \in S : TRUE
    OBVIOUS
  <2>3. n - x \in T
    BY <2>2
  <2> QED BY <2>1, <2>3
<1>2. PICK m \in T : \A y \in T : m <= y
  BY <1>1, MinExists
<1>3. PICK x \in S : m = n - x
  BY <1>2
<1>4. \A y \in S : x >= y
  BY <1>2, <1>3
<1> QED BY <1>4 DEF Max

-----------------------------------------------------------------------------
(* What the operators of the model return. *)

\* The compiler renders a desired state to a desired state.
LEMMA CompileType ==
  ASSUME NEW state \in Desired, NEW asOf
  PROVE  Compile(state, asOf) \in Desired
BY SectionsAssumption DEF Compile, Desired

\* The active revision is an active row, or 0 without one.
LEMMA ActiveType ==
  /\ Active \in Ids \cup {0}
  /\ Active # 0 => Active \in ActiveIds
  /\ Active = 0 => ActiveIds = {}
<1>1. CASE ActiveIds = {}
  BY <1>1 DEF Active
<1>2. CASE ActiveIds # {}
  <2>1. ActiveIds \in SUBSET (0 .. MaxRevisions)
    BY BoundsAssumption DEF ActiveIds, Ids
  <2>2. Max(ActiveIds) \in ActiveIds
    BY <1>2, <2>1, MaxOfBounded, BoundsAssumption
  <2>3. ActiveIds \subseteq Ids /\ 0 \notin Ids
    BY BoundsAssumption DEF ActiveIds, Ids
  <2> QED BY <1>2, <2>2, <2>3 DEF Active
<1> QED BY <1>1, <1>2

\* A new identifier has neither a row nor a file.
LEMMA NewIdFresh ==
  ASSUME NewId \in Ids
  PROVE  status[NewId] = "none" /\ archive[NewId] = None /\ snapshot[NewId] = None
<1> DEFINE Used == {i \in Ids : \/ status[i] # "none"
                                \/ archive[i] # None
                                \/ snapshot[i] # None}
           S == {0} \cup Used
<1>1. S \in SUBSET (0 .. MaxRevisions) /\ S # {}
  BY BoundsAssumption DEF Ids
<1>2. Max(S) \in S /\ \A y \in S : Max(S) >= y
  BY <1>1, MaxOfBounded, BoundsAssumption
<1>3. NewId = 1 + Max(S)
  BY DEF NewId
<1>4. NewId \notin Used
  <2>1. Max(S) \in Nat
    BY <1>1, <1>2, BoundsAssumption
  <2> QED BY <1>2, <1>3, <2>1
<1> QED BY <1>4

\* The pruned row is an inactive one.
LEMMA ExpiredType ==
  ASSUME Expired # {}
  PROVE  Max(Expired) \in InactiveIds
<1>1. Expired \in SUBSET (0 .. MaxRevisions) /\ Expired \subseteq InactiveIds
  BY BoundsAssumption DEF Expired, InactiveIds, Ids
<1>2. Max(Expired) \in Expired
  BY <1>1, MaxOfBounded, BoundsAssumption
<1> QED BY <1>1, <1>2

-----------------------------------------------------------------------------
(* Types.  The operators of the control move a job and the panel to values *)
(* of their types; the other variables are typed by the actions.           *)

ControlOK == pc \in Labels /\ job \in Jobs /\ phase \in Phases

LEMMA NoJobType ==
  /\ NoJob \in Jobs
  /\ ReconcileJob("startup") \in Jobs /\ ReconcileJob("finalizer") \in Jobs
<1>1. 0 \in Times /\ [nodes |-> NoNodes, bind |-> FirstBind] \in Desired
  BY SectionsAssumption, BoundsAssumption DEF Times, Desired
<1>2. NoJob \in Jobs
  BY <1>1 DEF NoJob, Jobs, Goals
<1>3. \A kind \in {"startup", "finalizer"} : [NoJob EXCEPT !.kind = kind] \in Jobs
  BY <1>2 DEF Jobs
<1> QED BY <1>2, <1>3 DEF ReconcileJob

LEMMA TypeInit == Init => TypeOK
<1> SUFFICES ASSUME Init PROVE TypeOK
  OBVIOUS
<1>1. /\ desired \in Desired
      /\ status \in [Ids -> {"none", "active", "rolled_back", "failed"}]
      /\ digest \in [Ids -> Desired \cup {None}]
      /\ archive \in [Ids -> Desired \cup {None}]
      /\ snapshot \in [Ids -> [state : Desired, asOf : Times] \cup {None}]
  BY SectionsAssumption DEF Init, Desired
<1>2. /\ yaml \in Yamls \cup {Absent} /\ running \in Yamls \cup {Stopped}
      /\ phase \in Phases /\ pc \in Labels /\ job \in Jobs
  BY NoJobType DEF Init, Yamls, Phases, Labels
<1>3. now \in Times /\ crashes \in 0 .. MaxCrashes /\ drifts \in 0 .. MaxDrifts
  BY BoundsAssumption DEF Init, Times
<1> QED BY <1>1, <1>2, <1>3 DEF Init, TypeOK

LEMMA JobMark ==
  ASSUME NEW j \in Jobs, NEW m \in {"none", "r3", "publication"}
  PROVE  [j EXCEPT !.mark = m] \in Jobs
BY DEF Jobs

LEMMA JobGoal ==
  ASSUME NEW j \in Jobs, NEW g \in Goals
  PROVE  [j EXCEPT !.goal = g] \in Jobs
BY DEF Jobs

LEMMA JobPrev ==
  ASSUME NEW j \in Jobs, NEW y \in Yamls \cup {Absent}
  PROVE  [j EXCEPT !.prev = y] \in Jobs
BY DEF Jobs

LEMMA JobResume ==
  ASSUME NEW j \in Jobs, NEW g \in Goals, NEW c \in Desired, NEW t \in Times
  PROVE  [j EXCEPT !.goal = g, !.cfg = c, !.asOf = t] \in Jobs
BY DEF Jobs

LEMMA PhaseAfterType ==
  ASSUME phase \in Phases, NEW result
  PROVE  PhaseAfter(result) \in Phases
BY DEF PhaseAfter, Phases

LEMMA GotoType ==
  ASSUME ControlOK, NEW label \in Labels, Goto(label)
  PROVE  ControlOK' /\ running' = running
BY DEF ControlOK, Goto

LEMMA GotoMarkType ==
  ASSUME ControlOK, NEW reason \in {"none", "r3", "publication"}, GotoMark(reason)
  PROVE  ControlOK'
BY JobMark DEF ControlOK, GotoMark, Labels

LEMMA FinishType ==
  ASSUME ControlOK, NEW result, Finish(result)
  PROVE  ControlOK' /\ running' \in {running, Stopped}
BY NoJobType, PhaseAfterType DEF ControlOK, Finish, Release, Labels

LEMMA ReturnType ==
  ASSUME ControlOK, NEW mark \in {"none", "r3", "publication"}, Return(mark)
  PROVE  ControlOK' /\ running' \in {running, Stopped}
BY FinishType, GotoMarkType DEF Return

LEMMA FailType ==
  ASSUME ControlOK, Fail
  PROVE  ControlOK'
<1>1. CASE job.goal = "forward"
  BY <1>1, JobGoal DEF Fail, WriteBack, ControlOK, Labels, Goals
<1>2. CASE job.goal = "restore"
  BY <1>2, JobMark DEF Fail, ControlOK, Labels
<1>3. CASE job.goal \notin {"forward", "restore"}
  BY <1>3, GotoMarkType DEF Fail
<1> QED BY <1>1, <1>2, <1>3

LEMMA HealthyType ==
  ASSUME ControlOK, Healthy
  PROVE  ControlOK' /\ running' = running
BY GotoType DEF Healthy, Labels

LEMMA ReplacedType ==
  ASSUME ControlOK, Replaced
  PROVE  ControlOK' /\ running' \in {running, Stopped}
BY GotoType, FinishType DEF Replaced, Labels

LEMMA CandidateType ==
  ASSUME TypeOK
  PROVE  Candidate \in Desired /\ Content \in Yamls \cup {Absent}
<1>1. job.cfg \in Desired /\ job.prev \in Yamls \cup {Absent}
  BY DEF TypeOK, Jobs
<1> QED BY <1>1, CompileType DEF Candidate, Content, Yamls

LEMMA IntactSnapshot ==
  ASSUME TypeOK, NEW i \in Ids, ArtifactsIntact(i)
  PROVE  snapshot[i] \in [state : Desired, asOf : Times]
BY DEF TypeOK, ArtifactsIntact

\* The types of the variables that only the actions assign.
DataOK ==
  /\ desired \in Desired
  /\ status \in [Ids -> {"none", "active", "rolled_back", "failed"}]
  /\ digest \in [Ids -> Desired \cup {None}]
  /\ degraded \in {"none", "r3", "publication"}
  /\ r3 \in BOOLEAN /\ applied \in Binds /\ pending \in BOOLEAN
  /\ yaml \in Yamls \cup {Absent}
  /\ archive \in [Ids -> Desired \cup {None}]
  /\ snapshot \in [Ids -> [state : Desired, asOf : Times] \cup {None}]
  /\ running \in Yamls \cup {Stopped} /\ finalizer \in BOOLEAN
  /\ now \in Times /\ crashes \in 0 .. MaxCrashes /\ drifts \in 0 .. MaxDrifts

LEMMA TypeSplit == /\ TypeOK  <=> DataOK /\ ControlOK
                   /\ TypeOK' <=> DataOK' /\ ControlOK'
BY DEF TypeOK, DataOK, ControlOK

\* The state a job archives.
LEMMA JobState ==
  ASSUME job \in Jobs
  PROVE  [state |-> job.cfg, asOf |-> job.asOf] \in [state : Desired, asOf : Times]
BY DEF Jobs

\* The steps of a publication up to the commit.
LEMMA TypeWrite ==
  ASSUME TypeOK,
         Validate \/ ArchiveYaml \/ ArchiveState \/ Insert \/ Replace \/ Remove
           \/ Reload \/ WaitHealthy
  PROVE  TypeOK'
<1> USE TypeSplit
<1>0. DataOK /\ ControlOK /\ Candidate \in Desired /\ Content \in Yamls \cup {Absent}
  BY CandidateType
<1>1. CASE Validate
  <2>1. ControlOK'
    <3>1. CASE Fail
      BY <1>0, <3>1, FailType
    <3>2. CASE ~Fail
      <4>1. pc' \in Labels /\ phase' = phase
        BY <1>1, <3>2 DEF Validate, Labels
      <4>2. job' \in {job, [job EXCEPT !.prev = yaml]}
        BY <1>1, <3>2 DEF Validate
      <4>3. job' \in Jobs
        BY <1>0, <4>2, JobPrev DEF ControlOK, DataOK
      <4> QED BY <1>0, <4>1, <4>3 DEF ControlOK
    <3> QED BY <3>1, <3>2
  <2>2. DataOK'
    BY <1>0, <1>1, JobState DEF Validate, DataOK, ControlOK, database, env
  <2> QED BY <2>1, <2>2
<1>2. CASE ArchiveYaml
  <2>1. ControlOK' /\ running' \in {running, Stopped}
    BY <1>0, <1>2, GotoType, ReturnType DEF ArchiveYaml, Labels
  <2>2. DataOK'
    BY <1>0, <1>2, <2>1 DEF ArchiveYaml, DataOK, database, env
  <2> QED BY <2>1, <2>2
<1>3. CASE ArchiveState
  <2>1. ControlOK' /\ running' \in {running, Stopped}
    BY <1>0, <1>3, GotoType, ReturnType DEF ArchiveState, Labels
  <2>2. DataOK'
    BY <1>0, <1>3, <2>1, JobState DEF ArchiveState, DataOK, ControlOK, database, env
  <2> QED BY <2>1, <2>2
<1>4. CASE Insert
  <2>1. ControlOK' /\ running' = running
    BY <1>0, <1>4, GotoType, GotoMarkType DEF Insert, Labels
  <2>2. DataOK'
    BY <1>0, <1>4, <2>1 DEF Insert, DataOK, database, env
  <2> QED BY <2>1, <2>2
<1>5. CASE Replace
  <2>1. ControlOK' /\ running' \in {running, Stopped}
    BY <1>0, <1>5, ReplacedType, FailType DEF Replace
  <2>2. DataOK'
    BY <1>0, <1>5, <2>1 DEF Replace, DataOK, database, env
  <2> QED BY <2>1, <2>2
<1>6. CASE Remove
  <2>1. ControlOK'
    BY <1>0, <1>6, FailType DEF Remove, ControlOK, Labels
  <2>2. DataOK'
    BY <1>0, <1>6 DEF Remove, DataOK, database, env
  <2> QED BY <2>1, <2>2
<1>7. CASE Reload
  <2>1. ControlOK'
    BY <1>0, <1>7, FailType DEF Reload, ControlOK, Labels
  <2>2. DataOK'
    BY <1>0, <1>7 DEF Reload, DataOK, database, files, env
  <2> QED BY <2>1, <2>2
<1>8. CASE WaitHealthy
  <2>1. ControlOK' /\ running' = running
    BY <1>0, <1>8, HealthyType, FailType DEF WaitHealthy
  <2>2. DataOK'
    BY <1>0, <1>8, <2>1 DEF WaitHealthy, DataOK, database, files, env
  <2> QED BY <2>1, <2>2
<1> QED BY <1>1, <1>2, <1>3, <1>4, <1>5, <1>6, <1>7, <1>8

\* A new publication starts from well-typed rows.
LEMMA PublicationJobType ==
  ASSUME TypeOK, NewId \in Ids, NEW kind \in {"publication", "baseline"},
         NEW cfg \in Desired, NEW asOf \in Times, NEW restart \in BOOLEAN,
         Active # 0 => ArtifactsIntact(Active)
  PROVE  PublicationJob(kind, cfg, asOf, restart) \in Jobs
<1>1. (IF Active = 0 THEN asOf ELSE snapshot[Active].asOf) \in Times
  BY ActiveType, IntactSnapshot
<1>2. /\ Active \in Ids \cup {0} /\ desired \in Desired
      /\ yaml \in Yamls \cup {Absent}
  BY ActiveType DEF TypeOK
<1> QED BY <1>1, <1>2 DEF PublicationJob, Jobs, Goals

LEMMA PublishType ==
  ASSUME TypeOK, NEW cfg \in Desired, NEW asOf \in Times, NEW restart \in BOOLEAN,
         Publish(cfg, asOf, restart)
  PROVE  TypeOK'
<1>1. job' \in Jobs
  BY PublicationJobType DEF Publish, ActiveVerified
<1>2. ControlOK'
  BY <1>1, TypeSplit DEF Publish, ControlOK, Labels
<1>3. DataOK'
  BY TypeSplit DEF Publish, DataOK, database, files, env
<1> QED BY <1>2, <1>3, TypeSplit

LEMMA TypeRequest ==
  ASSUME TypeOK, Request
  PROVE  TypeOK'
<1>0. /\ desired \in Desired /\ desired.nodes \in Nodes /\ desired.bind \in Binds
      /\ now \in Times
  BY DEF TypeOK, Desired
<1>1. ASSUME NEW nodes \in Nodes, Manage(nodes) PROVE TypeOK'
  <2>1. [desired EXCEPT !.nodes = nodes] \in Desired
    BY <1>0 DEF Desired
  <2> QED BY <1>0, <1>1, <2>1, PublishType DEF Manage
<1>2. ASSUME NEW bind \in Binds, UpdateEndpoints(bind) PROVE TypeOK'
  <2>1. [desired EXCEPT !.bind = bind] \in Desired
    BY <1>0 DEF Desired
  <2> QED BY <1>0, <1>2, <2>1, PublishType DEF UpdateEndpoints
<1>3. ASSUME NEW batch \in Times, Expire(batch) PROVE TypeOK'
  <2>1. [desired EXCEPT !.nodes = Disabled[@]] \in Desired
    BY <1>0, SectionsAssumption DEF Desired
  <2> QED BY <1>3, <2>1, PublishType DEF Expire
<1>4. ASSUME NEW i \in Ids, Rollback(i) PROVE TypeOK'
  <2>1. snapshot[i].state \in Desired
    BY <1>4, IntactSnapshot DEF Rollback
  <2>2. (pending \/ snapshot[i].state.bind # applied) \in BOOLEAN
    BY DEF TypeOK
  <2> QED BY <1>0, <1>4, <2>1, <2>2, PublishType DEF Rollback
<1>5. CASE RefuseUnverified
  <2>1. [NoJob EXCEPT !.kind = "publication", !.mark = "publication"] \in Jobs
    BY NoJobType DEF Jobs
  <2>2. ControlOK'
    BY <1>5, <2>1, TypeSplit DEF RefuseUnverified, ControlOK, Labels
  <2>3. DataOK'
    BY <1>5, TypeSplit DEF RefuseUnverified, DataOK, database, files, env
  <2> QED BY <2>2, <2>3, TypeSplit
<1> QED BY <1>1, <1>2, <1>3, <1>4, <1>5 DEF Request

LEMMA CommittedType ==
  ASSUME TypeOK, Committed
  PROVE  /\ desired' \in Desired
         /\ status' \in [Ids -> {"none", "active", "rolled_back", "failed"}]
         /\ digest' \in [Ids -> Desired \cup {None}]
         /\ pending' \in BOOLEAN
         /\ degraded' = degraded /\ r3' = r3 /\ applied' = applied
<1>1. job.cfg \in Desired /\ job.id \in Ids \cup {0}
  BY DEF TypeOK, Jobs
<1>2. status' \in [Ids -> {"none", "active", "rolled_back", "failed"}]
  BY DEF TypeOK, Committed, Activated
<1>3. digest' \in [Ids -> Desired \cup {None}]
  BY CandidateType DEF TypeOK, Committed, Activated
<1> QED BY <1>1, <1>2, <1>3 DEF Committed, Activated

\* The commit and what follows it.
LEMMA TypeDecide ==
  ASSUME TypeOK,
         Commit \/ ReconcileCommit \/ RecordFailure \/ Prune \/ Mark
  PROVE  TypeOK'
<1> USE TypeSplit
<1>0. /\ DataOK /\ ControlOK /\ Candidate \in Desired
      /\ job.mark \in {"none", "r3", "publication"}
  BY CandidateType DEF ControlOK, Jobs
<1>1. CASE Commit
  <2>1. ControlOK' /\ running' = running
    BY <1>0, <1>1, GotoType, FailType DEF Commit, Labels
  <2>2. DataOK'
    BY <1>0, <1>1, <2>1, CommittedType DEF Commit, DataOK, database, files, env
  <2> QED BY <2>1, <2>2
<1>2. CASE ReconcileCommit
  <2>1. CASE GotoMark("publication")
    BY <1>0, <1>2, <2>1, GotoMarkType DEF ReconcileCommit, DataOK, database, files, env
  <2>2. CASE ~GotoMark("publication")
    <3>1. /\ pc' \in {"prune", "record", "remove", "replace", "candidate"}
          /\ phase' = phase
          /\ job' \in {job, WriteBack, [job EXCEPT !.goal = "republish"]}
      BY <1>2, <2>2 DEF ReconcileCommit
    <3>2. job' \in Jobs
      BY <1>0, <3>1, JobGoal DEF ControlOK, WriteBack, Goals
    <3>3. ControlOK'
      BY <1>0, <3>1, <3>2 DEF ControlOK, Labels
    <3>4. DataOK'
      BY <1>0, <1>2 DEF ReconcileCommit, DataOK, database, files, env
    <3> QED BY <3>3, <3>4
  <2> QED BY <2>1, <2>2
<1>3. CASE RecordFailure
  <2>1. ControlOK' /\ running' \in {running, Stopped}
    BY <1>0, <1>3, GotoType, ReturnType DEF RecordFailure, Labels
  <2>2. DataOK'
    BY <1>0, <1>3, <2>1 DEF RecordFailure, DataOK, files, env
  <2> QED BY <2>1, <2>2
<1>4. CASE Prune
  <2>1. ControlOK' /\ running' \in {running, Stopped}
    BY <1>0, <1>4, GotoType, ReturnType DEF Prune, Labels
  <2>2. DataOK'
    BY <1>0, <1>4, <2>1 DEF Prune, DataOK, env
  <2> QED BY <2>1, <2>2
<1>5. CASE Mark
  <2>1. ControlOK' /\ running' \in {running, Stopped}
    BY <1>0, <1>5, FinishType, GotoMarkType DEF Mark
  <2>2. DataOK'
    BY <1>0, <1>5, <2>1 DEF Mark, DataOK, files, env
  <2> QED BY <2>1, <2>2
<1> QED BY <1>1, <1>2, <1>3, <1>4, <1>5

\* The startup goes on with a recoverable revision.
LEMMA ResumeType ==
  ASSUME TypeOK, Active # 0, ArtifactsIntact(Active), NEW goal \in Goals, Resume(goal)
  PROVE  ControlOK' /\ running' = running
<1>1. snapshot[Active].asOf \in Times
  BY ActiveType, IntactSnapshot
<1>2. job' \in Jobs
  BY <1>1, JobResume DEF Resume, TypeOK
<1> QED BY <1>2 DEF Resume, ControlOK, TypeOK, Labels

LEMMA InspectRevisionType ==
  ASSUME TypeOK, InspectRevision
  PROVE  ControlOK' /\ running' \in {running, Stopped}
<1>0. ControlOK
  BY TypeSplit
<1>1. CASE Active = 0
  BY <1>0, <1>1, FinishType DEF InspectRevision, FinishAsMarked
<1>2. CASE Active # 0 /\ ~(ArtifactsIntact(Active) /\ DesiredMatches(Active))
  BY <1>0, <1>2, GotoMarkType DEF InspectRevision
<1>3. CASE Active # 0 /\ ArtifactsIntact(Active) /\ DesiredMatches(Active)
  <2>1. CASE yaml # digest[Active]
    BY <1>3, <2>1, ResumeType DEF InspectRevision, Goals
  <2>2. CASE yaml = digest[Active]
    <3>1. InspectMatching
      BY <1>3, <2>2 DEF InspectRevision
    <3> QED BY <1>0, <1>3, <3>1, ResumeType, FinishType
            DEF InspectMatching, FinishAsMarked, Goals
  <2> QED BY <2>1, <2>2
<1> QED BY <1>1, <1>2, <1>3

LEMMA InspectCutoverType ==
  ASSUME TypeOK, InspectCutover,
         Active = 0 \/ desired.nodes # NoNodes \/ (phase # "prerun" /\ pending)
  PROVE  ControlOK' /\ running' \in {running, Stopped} /\ degraded' \in {degraded, "none"}
<1>0. ControlOK /\ desired \in Desired /\ now \in Times
  BY TypeSplit DEF TypeOK
<1>1. CASE \/ phase # "prerun" /\ pending
           \/ Active = 0 /\ degraded = "publication" /\ desired.nodes = NoNodes
                /\ phase = "prerun"
  BY <1>0, <1>1, FinishType DEF InspectCutover
<1>2. CASE /\ ~(phase # "prerun" /\ pending)
           /\ desired.nodes # NoNodes \/ (Active = 0 /\ phase # "prerun")
  BY <1>0, <1>2, GotoMarkType DEF InspectCutover
<1>3. CASE /\ Active = 0 /\ degraded # "publication" /\ desired.nodes = NoNodes
           /\ phase = "prerun"
  <2>1. /\ degraded' = "none" /\ NewId \in Ids
        /\ job' = PublicationJob("baseline", desired, now, TRUE)
        /\ pc' = "candidate" /\ phase' = phase /\ running' = running
    BY <1>3 DEF InspectCutover
  <2>2. job' \in Jobs
    BY <1>0, <1>3, <2>1, PublicationJobType
  <2> QED BY <1>0, <2>1, <2>2 DEF ControlOK, Labels
<1> QED BY <1>1, <1>2, <1>3

LEMMA TypeReconcile ==
  ASSUME TypeOK, Inspect \/ Settle \/ Clear \/ RuntimeHealthy
  PROVE  TypeOK'
<1> USE TypeSplit
<1>0. DataOK /\ ControlOK
  OBVIOUS
<1>1. CASE Inspect
  <2>1. ControlOK' /\ running' \in {running, Stopped} /\ degraded' \in {degraded, "none"}
    <3>1. CASE InspectFails
      BY <1>0, <3>1, FinishType, GotoMarkType DEF InspectFails
    <3>2. CASE ~InspectFails
      BY <1>1, <3>2, InspectCutoverType, InspectRevisionType DEF Inspect
    <3> QED BY <3>1, <3>2
  <2>2. DataOK'
    BY <1>0, <1>1, <2>1 DEF Inspect, DataOK, files, env
  <2> QED BY <2>1, <2>2
<1>2. CASE Settle
  <2>1. ControlOK' /\ running' \in {running, Stopped}
    BY <1>0, <1>2, GotoType, GotoMarkType, FinishType
       DEF Settle, FinishAsMarked, Labels
  <2>2. DataOK'
    BY <1>0, <1>2, <2>1 DEF Settle, DataOK, database, files, env
  <2> QED BY <2>1, <2>2
<1>3. CASE Clear
  <2>1. ControlOK' /\ running' \in {running, Stopped}
    BY <1>0, <1>3, GotoMarkType, FinishType DEF Clear
  <2>2. DataOK'
    BY <1>0, <1>3, <2>1 DEF Clear, DataOK, files, env
  <2> QED BY <2>1, <2>2
<1>4. CASE RuntimeHealthy
  <2>1. ControlOK' /\ running' \in {running, Stopped}
    <3>1. CASE Finish("ok")
      BY <1>0, <3>1, FinishType
    <3>2. CASE ~Finish("ok")
      <4>1. CASE Finish("fatal")
        BY <1>0, <4>1, FinishType
      <4>2. CASE ~Finish("fatal")
        BY <1>0, <1>4, <3>2, <4>2, NoJobType, PhaseAfterType
           DEF RuntimeHealthy, Release, ControlOK, Labels
      <4> QED BY <4>1, <4>2
    <3> QED BY <3>1, <3>2
  <2>2. applied' \in Binds /\ pending' \in BOOLEAN
    BY <1>0, <1>4 DEF RuntimeHealthy, DataOK, Desired
  <2>3. DataOK'
    BY <1>0, <1>4, <2>1, <2>2 DEF RuntimeHealthy, DataOK, files, env
  <2> QED BY <2>1, <2>3
<1> QED BY <1>1, <1>2, <1>3, <1>4

\* The startups, the runtime boundary and the environment.
LEMMA TypeOthers ==
  ASSUME TypeOK, Startup \/ Runtime \/ Environment
  PROVE  TypeOK'
<1> USE TypeSplit
<1>0. DataOK /\ ControlOK
  OBVIOUS
<1>1. CASE Startup
  <2>1. ControlOK'
    BY <1>0, <1>1, NoJobType
       DEF Startup, Boot, ReconcileAfterRuntime, ControlOK, Labels, Phases
  <2>2. DataOK'
    BY <1>0, <1>1 DEF Startup, Boot, ReconcileAfterRuntime, DataOK, database, files, env
  <2> QED BY <2>1, <2>2
<1>2. CASE RunRuntime
  <2>1. [NoJob EXCEPT !.kind = "boundary"] \in Jobs
    BY NoJobType DEF Jobs
  <2>2. ControlOK'
    BY <1>0, <1>2, <2>1 DEF RunRuntime, ControlOK, Labels
  <2>3. DataOK'
    BY <1>0, <1>2 DEF RunRuntime, DataOK, database, files, env
  <2> QED BY <2>2, <2>3
<1>3. CASE ReloadRuntime
  <2>1. ControlOK' /\ DataOK'
    BY <1>0, <1>3 DEF ReloadRuntime, ControlOK, DataOK, database, files, env, control
  <2> QED BY <2>1
<1>4. CASE FinalizeRuntime
  <2>1. ControlOK'
    BY <1>0, <1>4, NoJobType DEF FinalizeRuntime, ControlOK, Labels, control
  <2>2. applied' \in Binds /\ pending' \in BOOLEAN
    BY <1>0, <1>4 DEF FinalizeRuntime, DataOK, Desired
  <2>3. DataOK'
    BY <1>0, <1>4, <2>2 DEF FinalizeRuntime, DataOK, files
  <2> QED BY <2>1, <2>3
<1>5. CASE MihomoExits \/ InitStarts \/ Tick
  <2>1. ControlOK'
    BY <1>0, <1>5 DEF MihomoExits, InitStarts, Tick, ControlOK, control
  <2>2. now' \in Times
    BY <1>0, <1>5, BoundsAssumption DEF MihomoExits, InitStarts, Tick, DataOK, Times
  <2>3. DataOK'
    BY <1>0, <1>5, <2>2 DEF MihomoExits, InitStarts, Tick, DataOK, database, files
  <2> QED BY <2>1, <2>3
<1>6. CASE Crash
  <2>1. ControlOK'
    BY <1>0, <1>6, NoJobType DEF Crash, Release, ControlOK, Labels, Phases, control
  <2>2. crashes' \in 0 .. MaxCrashes
    BY <1>0, <1>6, BoundsAssumption DEF Crash, DataOK
  <2>3. DataOK'
    BY <1>0, <1>6, <2>2 DEF Crash, DataOK, database, files
  <2> QED BY <2>1, <2>3
<1>7. CASE Drift
  <2>1. ControlOK'
    BY <1>0, <1>7 DEF Drift, ControlOK, control
  <2>2. drifts' \in 0 .. MaxDrifts
    BY <1>0, <1>7, BoundsAssumption DEF Drift, DataOK
  <2>3. DataOK'
    BY <1>0, <1>7, <2>2 DEF Drift, DataOK, Yamls, database
  <2> QED BY <2>1, <2>3
<1> QED BY <1>1, <1>2, <1>3, <1>4, <1>5, <1>6, <1>7 DEF Runtime, Environment

LEMMA TypeStutter ==
  ASSUME TypeOK, UNCHANGED vars
  PROVE  TypeOK'
BY DEF TypeOK, vars

LEMMA TypeStep == TypeOK /\ [Next]_vars => TypeOK'
BY TypeRequest, TypeWrite, TypeDecide, TypeReconcile, TypeOthers, TypeStutter
   DEF Next, Work

\* Type correctness: rows, files, job fields and processes keep their types
\* in every instance.
THEOREM TypeCorrect == Spec => []TypeOK
BY TypeInit, TypeStep, PTL DEF Spec

-----------------------------------------------------------------------------
(***************************************************************************)
(* The inductive invariant.  DurableConsistent is not inductive: the step  *)
(* that commits must know that the row it makes active has its artifacts   *)
(* archived, and the steps that write or remove files that they are not    *)
(* those of the active row.  Both follow from where a job stands:          *)
(* until its commit, its row does not exist and the desired state is the   *)
(* one it started from.                                                    *)
(***************************************************************************)

\* The publication of the job is not durable.
Undecided == status[job.id] = "none" /\ desired = job.before

\* The artifacts of the job's revision are in place.
Archived ==
  /\ archive[job.id] = Candidate
  /\ snapshot[job.id] = [state |-> job.cfg, asOf |-> job.asOf]

BeforeOutcome == {"candidate", "archive", "snapshot", "insert", "replace", "remove",
                  "reload", "health", "commit", "record"}

GoalInv ==
  /\ pc \in {"archive", "snapshot", "insert", "commit", "uncertain"} => job.goal = "forward"
  /\ pc = "remove" => job.goal = "restore"
  /\ pc = "record" => job.goal \in {"forward", "restore"}

OutcomeInv ==
  /\ pc \in BeforeOutcome /\ job.goal \in {"forward", "restore"}
       => job.id \in Ids /\ job.id # job.base /\ Undecided
  /\ pc = "uncertain"
       => job.id \in Ids /\ job.id # job.base /\ (Undecided \/ status[job.id] = "active")

ArchiveInv ==
  /\ pc = "snapshot" => archive[job.id] = Candidate
  /\ /\ pc \in {"insert", "replace", "reload", "health", "commit", "uncertain"}
     /\ job.goal = "forward"
     => Archived

JobInv == GoalInv /\ OutcomeInv /\ ArchiveInv

IInv == TypeOK /\ DurableConsistent /\ JobInv

\* JobInv says nothing of a job at these points.
LEMMA JobInvElsewhere ==
  ASSUME pc' \in {"idle", "prune", "mark", "reconcile", "settle", "clear", "boundary"}
  PROVE  JobInv'
BY DEF JobInv, GoalInv, OutcomeInv, ArchiveInv, BeforeOutcome

\* It says nothing of a job that repairs, republishes or verifies either.
LEMMA JobInvOther ==
  ASSUME pc' \in {"candidate", "replace", "reload", "health"},
         job'.goal \in {"none", "republish", "repair", "verify"}
  PROVE  JobInv'
BY DEF JobInv, GoalInv, OutcomeInv, ArchiveInv

LEMMA FinishInv ==
  ASSUME NEW result, Finish(result)
  PROVE  JobInv'
BY JobInvElsewhere DEF Finish, Release

LEMMA MarkInv ==
  ASSUME NEW reason, GotoMark(reason)
  PROVE  JobInv'
BY JobInvElsewhere DEF GotoMark

LEMMA ReturnInv ==
  ASSUME NEW mark, Return(mark)
  PROVE  JobInv'
BY FinishInv, MarkInv DEF Return

\* A failing publication restores before it records, and stays undecided.
LEMMA FailInv ==
  ASSUME JobInv, job \in Jobs, Fail, UNCHANGED <<status, desired>>,
         pc \in {"candidate", "replace", "remove", "reload", "health", "commit"}
  PROVE  JobInv'
<1>1. CASE job.goal = "forward"
  <2>1. /\ job' = [job EXCEPT !.goal = "restore"]
        /\ pc' \in {"remove", "replace"}
    BY <1>1 DEF Fail, WriteBack
  <2>2. /\ job'.goal = "restore" /\ job'.id = job.id /\ job'.base = job.base
        /\ job'.before = job.before
    BY <2>1 DEF Jobs
  <2> QED BY <1>1, <2>1, <2>2
          DEF JobInv, GoalInv, OutcomeInv, ArchiveInv, BeforeOutcome, Undecided
<1>2. CASE job.goal = "restore"
  <2>1. job' = [job EXCEPT !.mark = "publication"] /\ pc' = "record"
    BY <1>2 DEF Fail
  <2>2. /\ job'.goal = "restore" /\ job'.id = job.id /\ job'.base = job.base
        /\ job'.before = job.before
    BY <1>2, <2>1 DEF Jobs
  <2> QED BY <1>2, <2>1, <2>2
          DEF JobInv, GoalInv, OutcomeInv, ArchiveInv, BeforeOutcome, Undecided
<1>3. CASE job.goal \notin {"forward", "restore"}
  BY <1>3, MarkInv DEF Fail
<1> QED BY <1>1, <1>2, <1>3

\* A new publication is undecided, and its row is not the active one.
LEMMA StartInv ==
  ASSUME TypeOK, NewId \in Ids, UNCHANGED <<desired, status>>, pc' = "candidate",
         NEW kind, NEW cfg, NEW asOf, NEW restart,
         job' = PublicationJob(kind, cfg, asOf, restart)
  PROVE  JobInv'
<1>1. /\ job'.id = NewId /\ job'.base = Active /\ job'.before = desired
      /\ job'.goal = "forward"
  BY DEF PublicationJob
<1>2. status[NewId] = "none"
  BY NewIdFresh
<1>3. NewId # Active
  <2>1. CASE Active = 0
    BY <2>1, BoundsAssumption DEF Ids
  <2>2. CASE Active # 0
    BY <1>2, <2>2, ActiveType DEF ActiveIds
  <2> QED BY <2>1, <2>2
<1> QED BY <1>1, <1>2, <1>3 DEF JobInv, GoalInv, OutcomeInv, ArchiveInv, Undecided

\* The steps of a job that keep desired, status and the direction of the job.
LEMMA ContinueInv ==
  ASSUME JobInv, UNCHANGED <<desired, status, archive, snapshot, job>>,
         pc \in {"replace", "reload", "health", "insert"},
         pc' \in {"replace", "reload", "health"}
  PROVE  JobInv'
BY DEF JobInv, GoalInv, OutcomeInv, ArchiveInv, Undecided, Archived, BeforeOutcome,
       Candidate

LEMMA JobInvWrite ==
  ASSUME IInv,
         Validate \/ ArchiveYaml \/ ArchiveState \/ Insert \/ Replace \/ Remove
           \/ Reload \/ WaitHealthy
  PROVE  JobInv'
<1> USE DEF IInv
<1>0. job \in Jobs /\ job.id \in Ids \cup {0}
  BY DEF TypeOK, Jobs
<1>1. CASE Validate
  <2>1. CASE Fail
    BY <1>0, <1>1, <2>1, FailInv DEF Validate, database
  <2>2. CASE ~Fail /\ job.goal = "forward"
    <3>1. /\ pc' \in {"archive", "record"} /\ pc = "candidate"
          /\ UNCHANGED <<desired, status>>
          /\ job' \in {job, [job EXCEPT !.prev = yaml]}
      BY <1>1, <2>2 DEF Validate, database
    <3>2. /\ job'.goal = "forward" /\ job'.id = job.id /\ job'.base = job.base
          /\ job'.before = job.before
      BY <1>0, <2>2, <3>1 DEF Jobs
    <3> QED BY <2>2, <3>1, <3>2
            DEF JobInv, GoalInv, OutcomeInv, ArchiveInv, BeforeOutcome, Undecided
  <2>3. CASE ~Fail /\ job.goal # "forward"
    <3>1. pc' \in {"reload", "replace"} /\ job' = job /\ pc = "candidate"
          /\ UNCHANGED <<desired, status>>
      BY <1>1, <2>3 DEF Validate, database
    <3> QED BY <2>3, <3>1
            DEF JobInv, GoalInv, OutcomeInv, ArchiveInv, BeforeOutcome, Undecided
  <2> QED BY <2>1, <2>2, <2>3
<1>2. CASE ArchiveYaml
  <2>1. CASE Return("none")
    BY <2>1, ReturnInv
  <2>2. CASE ~Return("none")
    <3>1. /\ pc = "archive" /\ pc' = "snapshot" /\ job' = job
          /\ UNCHANGED <<desired, status>>
          /\ archive' = [archive EXCEPT ![job.id] = Candidate]
      BY <1>2, <2>2 DEF ArchiveYaml, Goto, database
    <3>2. job.id \in Ids
      BY <3>1 DEF JobInv, GoalInv, OutcomeInv, BeforeOutcome
    <3>3. archive'[job.id] = Candidate'
      BY <3>1, <3>2 DEF TypeOK, Candidate
    <3> QED BY <3>1, <3>3
            DEF JobInv, GoalInv, OutcomeInv, ArchiveInv, BeforeOutcome, Undecided
  <2> QED BY <2>1, <2>2
<1>3. CASE ArchiveState
  <2>1. CASE Return("none")
    BY <2>1, ReturnInv
  <2>2. CASE ~Return("none")
    <3>1. /\ pc = "snapshot" /\ pc' = "insert" /\ job' = job
          /\ UNCHANGED <<desired, status, archive>>
          /\ snapshot' = [snapshot EXCEPT ![job.id] =
                            [state |-> job.cfg, asOf |-> job.asOf]]
      BY <1>3, <2>2 DEF ArchiveState, Goto, database
    <3>2. job.id \in Ids
      BY <3>1 DEF JobInv, GoalInv, OutcomeInv, BeforeOutcome
    <3>3. Archived'
      BY <3>1, <3>2 DEF TypeOK, Candidate, Archived, JobInv, ArchiveInv
    <3> QED BY <3>1, <3>3
            DEF JobInv, GoalInv, OutcomeInv, ArchiveInv, BeforeOutcome, Undecided
  <2> QED BY <2>1, <2>2
<1>4. CASE Insert
  <2>1. CASE GotoMark("publication")
    BY <2>1, MarkInv
  <2>2. CASE ~GotoMark("publication")
    <3>1. /\ pc = "insert" /\ pc' \in {"record", "replace"} /\ job' = job
          /\ UNCHANGED <<desired, status, archive, snapshot>>
      BY <1>4, <2>2 DEF Insert, Goto, database
    <3> QED BY <3>1, ContinueInv
            DEF JobInv, GoalInv, OutcomeInv, ArchiveInv, BeforeOutcome, Undecided
  <2> QED BY <2>1, <2>2
<1>5. CASE Replace
  <2>1. CASE Fail
    BY <1>0, <1>5, <2>1, FailInv DEF Replace, database
  <2>2. CASE Replaced
    <3>1. CASE pc' \in {"prune", "settle", "idle"}
      BY <3>1, JobInvElsewhere
    <3>2. CASE pc' \notin {"prune", "settle", "idle"}
      <4>1. /\ pc = "replace" /\ job' = job
            /\ UNCHANGED <<desired, status, archive, snapshot>>
            /\ \/ pc' = "commit" /\ job.goal = "forward"
               \/ pc' = "record" /\ job.goal = "restore"
               \/ pc' = "reload"
        BY <1>5, <2>2, <3>2 DEF Replace, Replaced, Goto, Finish, Release, database
      <4> QED BY <4>1, ContinueInv
              DEF JobInv, GoalInv, OutcomeInv, ArchiveInv, BeforeOutcome, Undecided,
                  Archived, Candidate
    <3> QED BY <3>1, <3>2
  <2> QED BY <1>5, <2>1, <2>2 DEF Replace
<1>6. CASE Remove
  <2>1. CASE Fail
    BY <1>0, <1>6, <2>1, FailInv DEF Remove, database
  <2>2. CASE ~Fail
    BY <1>6, <2>2
       DEF Remove, database, JobInv, GoalInv, OutcomeInv, ArchiveInv, BeforeOutcome,
           Undecided
  <2> QED BY <2>1, <2>2
<1>7. CASE Reload
  <2>1. CASE Fail
    BY <1>0, <1>7, <2>1, FailInv DEF Reload, database
  <2>2. CASE ~Fail
    BY <1>7, <2>2, ContinueInv DEF Reload, database, files
  <2> QED BY <2>1, <2>2
<1>8. CASE WaitHealthy
  <2>1. CASE Fail
    BY <1>0, <1>8, <2>1, FailInv DEF WaitHealthy, database
  <2>2. CASE Healthy
    <3>1. CASE pc' \in {"prune", "settle", "clear"}
      BY <3>1, JobInvElsewhere
    <3>2. CASE pc' \notin {"prune", "settle", "clear"}
      <4>1. /\ pc = "health" /\ job' = job
            /\ UNCHANGED <<desired, status, archive, snapshot>>
            /\ \/ pc' = "commit" /\ job.goal = "forward"
               \/ pc' = "record" /\ job.goal = "restore"
        BY <1>8, <2>2, <3>2 DEF WaitHealthy, Healthy, Goto, database, files
      <4> QED BY <4>1
              DEF JobInv, GoalInv, OutcomeInv, ArchiveInv, BeforeOutcome, Undecided,
                  Archived, Candidate
    <3> QED BY <3>1, <3>2
  <2> QED BY <1>8, <2>1, <2>2 DEF WaitHealthy
<1> QED BY <1>1, <1>2, <1>3, <1>4, <1>5, <1>6, <1>7, <1>8

\* After an uncertain COMMIT the durable outcome tells the two cases apart.
LEMMA OutcomeDecides ==
  ASSUME IInv, pc = "uncertain", DurableOutcome = "old"
  PROVE  Undecided
<1>1. job.id # job.base /\ (Undecided \/ status[job.id] = "active") /\ job.id \in Ids
  BY DEF IInv, JobInv, OutcomeInv
<1>2. Active = job.base
  BY <1>1 DEF DurableOutcome
<1>3. CASE status[job.id] = "active"
  <2>1. job.id \in ActiveIds
    BY <1>1, <1>3 DEF ActiveIds
  <2>2. Active \in ActiveIds
    BY <2>1, ActiveType
  <2>3. Active = job.id
    BY <2>1, <2>2 DEF IInv, DurableConsistent, OneActive
  <2> QED BY <1>1, <1>2, <2>3
<1> QED BY <1>1, <1>3

LEMMA JobInvDecide ==
  ASSUME IInv, Commit \/ ReconcileCommit \/ RecordFailure \/ Prune \/ Mark
  PROVE  JobInv'
<1> USE DEF IInv
<1>0. job \in Jobs
  BY DEF TypeOK
<1>1. CASE Commit
  <2>1. CASE Fail /\ UNCHANGED database
    BY <1>0, <1>1, <2>1, FailInv DEF Commit, database
  <2>2. CASE pc' = "prune"
    BY <2>2, JobInvElsewhere
  <2>3. CASE pc' = "uncertain" /\ job' = job /\ (Committed \/ UNCHANGED database)
    <3>1. /\ job.goal = "forward" /\ job.id \in Ids /\ job.id # job.base
          /\ Undecided /\ Archived
      BY <1>1 DEF Commit, JobInv, GoalInv, OutcomeInv, ArchiveInv, BeforeOutcome
    <3>2. UNCHANGED <<archive, snapshot>>
      BY <1>1 DEF Commit, files
    <3>3. Undecided' \/ status'[job.id] = "active"
      BY <2>3, <3>1 DEF Committed, Activated, database, Undecided
    <3>4. Archived'
      BY <2>3, <3>1, <3>2 DEF Archived, Candidate
    <3> QED BY <2>3, <3>1, <3>3, <3>4
            DEF JobInv, GoalInv, OutcomeInv, ArchiveInv, BeforeOutcome
  <2> QED BY <1>1, <2>1, <2>2, <2>3 DEF Commit, Goto
<1>2. CASE ReconcileCommit
  <2>1. CASE pc' \in {"mark", "prune"}
    BY <2>1, JobInvElsewhere
  <2>2. CASE pc' = "candidate"
    <3>1. job' = [job EXCEPT !.goal = "republish"]
      BY <1>2, <2>2 DEF ReconcileCommit, GotoMark
    <3>2. job'.goal = "republish"
      BY <1>0, <3>1 DEF Jobs
    <3> QED BY <2>2, <3>2, JobInvOther
  <2>3. CASE pc' \notin {"mark", "prune", "candidate"}
    <3>1. /\ pc = "uncertain" /\ DurableOutcome = "old"
          /\ UNCHANGED <<desired, status>>
          /\ \/ pc' = "record" /\ job' = job
             \/ pc' \in {"remove", "replace"} /\ job' = WriteBack
      BY <1>2, <2>3 DEF ReconcileCommit, GotoMark, database
    <3>2. Undecided /\ job.id \in Ids /\ job.id # job.base /\ job.goal = "forward"
      BY <3>1, OutcomeDecides DEF JobInv, GoalInv, OutcomeInv
    <3>3. /\ job'.goal = (IF pc' = "record" THEN "forward" ELSE "restore")
          /\ job'.id = job.id /\ job'.base = job.base /\ job'.before = job.before
      BY <1>0, <3>1, <3>2 DEF WriteBack, Jobs
    <3> QED BY <3>1, <3>2, <3>3
            DEF JobInv, GoalInv, OutcomeInv, ArchiveInv, BeforeOutcome, Undecided
  <2> QED BY <2>1, <2>2, <2>3
<1>3. CASE RecordFailure
  BY <1>3, ReturnInv, JobInvElsewhere DEF RecordFailure, Goto
<1>4. CASE Prune
  BY <1>4, ReturnInv, JobInvElsewhere DEF Prune, Goto
<1>5. CASE Mark
  BY <1>5, FinishInv, MarkInv DEF Mark
<1> QED BY <1>1, <1>2, <1>3, <1>4, <1>5

LEMMA ResumeInv ==
  ASSUME job \in Jobs, NEW goal \in {"repair", "verify"}, Resume(goal)
  PROVE  JobInv'
<1>1. job'.goal = goal /\ pc' = "candidate"
  BY DEF Resume, Jobs
<1> QED BY <1>1, JobInvOther

LEMMA JobInvReconcile ==
  ASSUME IInv, Inspect \/ Settle \/ Clear \/ RuntimeHealthy
  PROVE  JobInv'
<1> USE DEF IInv
<1>0. job \in Jobs
  BY DEF TypeOK
<1>1. CASE Inspect
  <2>1. CASE InspectCutover
    <3>1. CASE pc' = "candidate"
      <4>1. /\ NewId \in Ids /\ UNCHANGED <<desired, status>>
            /\ job' = PublicationJob("baseline", desired, now, TRUE)
        BY <1>1, <2>1, <3>1 DEF Inspect, InspectCutover, GotoMark, Finish, Release
      <4> QED BY <3>1, <4>1, StartInv
    <3>2. CASE pc' # "candidate"
      BY <2>1, <3>2, FinishInv, MarkInv DEF InspectCutover
    <3> QED BY <3>1, <3>2
  <2>2. CASE InspectRevision
    BY <1>0, <2>2, FinishInv, MarkInv, ResumeInv
       DEF InspectRevision, InspectMatching, FinishAsMarked
  <2>3. CASE InspectFails
    BY <2>3, FinishInv, MarkInv DEF InspectFails
  <2> QED BY <1>1, <2>1, <2>2, <2>3 DEF Inspect
<1>2. CASE Settle
  BY <1>2, FinishInv, MarkInv, JobInvElsewhere DEF Settle, FinishAsMarked, Goto
<1>3. CASE Clear
  BY <1>3, FinishInv, MarkInv DEF Clear
<1>4. CASE RuntimeHealthy
  BY <1>4, FinishInv, JobInvElsewhere DEF RuntimeHealthy, Release
<1> QED BY <1>1, <1>2, <1>3, <1>4

LEMMA JobInvRequest ==
  ASSUME IInv, Request
  PROVE  JobInv'
<1> USE DEF IInv
<1>1. ASSUME NEW cfg, NEW asOf, NEW restart, Publish(cfg, asOf, restart)
      PROVE  JobInv'
  BY <1>1, StartInv DEF Publish, database
<1>2. CASE RefuseUnverified
  BY <1>2, JobInvElsewhere DEF RefuseUnverified
<1> QED BY <1>1, <1>2 DEF Request, Manage, UpdateEndpoints, Expire, Rollback

LEMMA JobInvOthers ==
  ASSUME IInv, Startup \/ Runtime \/ Environment \/ UNCHANGED vars
  PROVE  JobInv'
<1> USE DEF IInv
<1>1. CASE UNCHANGED <<pc, job, desired, status, archive, snapshot>>
  BY <1>1 DEF JobInv, GoalInv, OutcomeInv, ArchiveInv, Undecided, Archived, Candidate
<1>2. CASE pc' \in {"idle", "reconcile", "boundary"}
  BY <1>2, JobInvElsewhere
<1>3. \/ UNCHANGED <<pc, job, desired, status, archive, snapshot>>
      \/ pc' \in {"idle", "reconcile", "boundary"}
  BY DEF Startup, Boot, ReconcileAfterRuntime, Runtime, RunRuntime, ReloadRuntime,
         FinalizeRuntime, Environment, MihomoExits, InitStarts, Crash, Drift, Tick,
         Release, vars, database, files, control
<1> QED BY <1>1, <1>2, <1>3

LEMMA JobInvStep == IInv /\ [Next]_vars => JobInv'
BY JobInvRequest, JobInvWrite, JobInvDecide, JobInvReconcile, JobInvOthers
   DEF Next, Work

-----------------------------------------------------------------------------
(* The durable rows and their artifacts. *)

\* Row i and its artifacts are what they were.
Kept(i) ==
  /\ status'[i] = status[i] /\ digest'[i] = digest[i]
  /\ archive'[i] = archive[i] /\ snapshot'[i] = snapshot[i]

LEMMA KeptIntact ==
  ASSUME NEW i \in Ids, Kept(i)
  PROVE  ArtifactsIntact(i)' <=> ArtifactsIntact(i)
BY DEF Kept, ArtifactsIntact, Compile

\* Every step but the commit keeps the desired state and the active row, and
\* makes no row active.
LEMMA KeptDurable ==
  ASSUME DurableConsistent, desired' = desired,
         \A i \in Ids : status'[i] = "active" => Kept(i)
  PROVE  DurableConsistent'
<1>1. ActiveIds' \subseteq ActiveIds
  BY DEF ActiveIds, Kept
<1>2. OneActive'
  BY <1>1 DEF DurableConsistent, OneActive
<1>3. ASSUME NEW i \in ActiveIds'
      PROVE  ArtifactsIntact(i)' /\ DesiredMatches(i)'
  <2>1. i \in Ids /\ i \in ActiveIds /\ Kept(i)
    BY <1>1, <1>3 DEF ActiveIds
  <2>2. ArtifactsIntact(i) /\ DesiredMatches(i)
    BY <2>1 DEF DurableConsistent, ActiveRecoverable
  <2>3. DesiredMatches(i)'
    BY <2>1, <2>2 DEF DesiredMatches, Kept, Compile
  <2> QED BY <2>1, <2>2, <2>3, KeptIntact
<1>4. ActiveRecoverable'
  BY <1>3 DEF ActiveRecoverable
<1> QED BY <1>2, <1>4 DEF DurableConsistent

\* The commit makes the job's archived revision the only active one.
LEMMA CommittedIntact ==
  ASSUME IInv, pc = "commit", Committed, UNCHANGED <<archive, snapshot>>,
         NEW id, id = job.id
  PROVE  /\ id \in Ids /\ ActiveIds' = {id}
         /\ ArtifactsIntact(id)' /\ DesiredMatches(id)'
<1>1. /\ id \in Ids /\ Archived /\ job \in Jobs
      /\ digest \in [Ids -> Desired \cup {None}]
  BY DEF IInv, TypeOK, JobInv, GoalInv, OutcomeInv, ArchiveInv, BeforeOutcome
<1>2. ActiveIds' = {id}
  BY <1>1 DEF ActiveIds, Committed, Activated
<1>3. digest'[id] = Candidate /\ desired' = job.cfg
  BY <1>1 DEF Committed, Activated
<1>4. snapshot[id] # None
  BY <1>1, JobState, DistinctAssumption DEF Archived
<1>5. /\ snapshot[id].state = job.cfg /\ snapshot[id].asOf = job.asOf
      /\ archive[id] = Candidate
  BY <1>1 DEF Archived
<1>6. ArtifactsIntact(id)'
  BY <1>3, <1>4, <1>5 DEF ArtifactsIntact, Candidate, Compile
<1>7. DesiredMatches(id)'
  BY <1>3, <1>5 DEF DesiredMatches, Candidate, Compile
<1> QED BY <1>1, <1>2, <1>6, <1>7

LEMMA CommittedDurable ==
  ASSUME IInv, pc = "commit", Committed, UNCHANGED <<archive, snapshot>>
  PROVE  DurableConsistent'
<1>1. PICK id : id = job.id
  OBVIOUS
<1>2. /\ ActiveIds' = {id}
      /\ ArtifactsIntact(id)' /\ DesiredMatches(id)'
  BY <1>1, CommittedIntact
<1> QED BY <1>2 DEF DurableConsistent, OneActive, ActiveRecoverable

\* Which rows a step may touch: none, the row of an undecided job, the pruned
\* one, or those of a commit.
LEMMA StepKeeps ==
  ASSUME IInv, [Next]_vars
  PROVE  \/ /\ desired' = desired /\ \A i \in Ids : Kept(i)
         \/ /\ pc \in BeforeOutcome /\ job.goal \in {"forward", "restore"}
            /\ desired' = desired /\ status' = status
            /\ \A i \in Ids \ {job.id} : Kept(i)
         \/ RecordFailure
         \/ Prune
         \/ pc = "commit" /\ Committed /\ UNCHANGED <<archive, snapshot>>
<1> USE DEF IInv
<1>1. CASE Validate \/ ArchiveYaml \/ ArchiveState \/ Insert
  <2>1. UNCHANGED <<desired, status, digest>>
    BY <1>1 DEF Validate, ArchiveYaml, ArchiveState, Insert, database
  <2>2. CASE UNCHANGED <<archive, snapshot>>
    BY <2>1, <2>2 DEF Kept
  <2>3. CASE ~UNCHANGED <<archive, snapshot>>
    <3>1. pc \in BeforeOutcome /\ job.goal \in {"forward", "restore"}
      BY <1>1, <2>3 DEF Validate, ArchiveYaml, ArchiveState, Insert, BeforeOutcome,
                        JobInv, GoalInv
    <3>2. /\ archive' = archive \/ \E y : archive' = [archive EXCEPT ![job.id] = y]
          /\ snapshot' = snapshot \/ \E z : snapshot' = [snapshot EXCEPT ![job.id] = z]
      BY <1>1 DEF Validate, ArchiveYaml, ArchiveState, Insert
    <3>3. \A i \in Ids \ {job.id} : archive'[i] = archive[i] /\ snapshot'[i] = snapshot[i]
      BY <3>2 DEF TypeOK
    <3> QED BY <2>1, <3>1, <3>3 DEF Kept
  <2> QED BY <2>2, <2>3
<1>2. CASE Commit
  BY <1>2 DEF Commit, Kept, database, files
<1>3. CASE \/ Replace \/ Remove \/ Reload \/ WaitHealthy \/ ReconcileCommit \/ Mark
           \/ Inspect \/ Settle \/ Clear \/ RuntimeHealthy
  BY <1>3 DEF Replace, Remove, Reload, WaitHealthy, ReconcileCommit, Mark, Inspect,
              Settle, Clear, RuntimeHealthy, Kept, database, files
<1>4. CASE Request
  BY <1>4 DEF Request, Manage, UpdateEndpoints, Expire, Rollback, RefuseUnverified,
              Publish, Kept, database, files
<1>5. CASE Startup \/ Runtime \/ Environment \/ UNCHANGED vars
  BY <1>5 DEF Startup, Boot, ReconcileAfterRuntime, Runtime, RunRuntime, ReloadRuntime,
              FinalizeRuntime, Environment, MihomoExits, InitStarts, Crash, Drift, Tick,
              Kept, vars, database, files
<1> QED BY <1>1, <1>2, <1>3, <1>4, <1>5 DEF Next, Work

\* The row recorded as failed is the job's, and had no row before.
LEMMA RecordKeeps ==
  ASSUME IInv, RecordFailure
  PROVE  /\ desired' = desired /\ job.id \in Ids /\ status[job.id] = "none"
         /\ UNCHANGED <<archive, snapshot>>
         /\ status'[job.id] \in {"none", "failed"}
         /\ \A i \in Ids \ {job.id} : Kept(i)
<1>1. job.id \in Ids /\ status[job.id] = "none"
  BY DEF IInv, RecordFailure, JobInv, GoalInv, OutcomeInv, BeforeOutcome, Undecided
<1> QED BY <1>1 DEF IInv, TypeOK, RecordFailure, Kept, files

\* The pruning touches the newest expired row only.
LEMMA PruneKeeps ==
  ASSUME TypeOK, Prune
  PROVE  /\ desired' = desired
         /\ \/ \A i \in Ids : Kept(i)
            \/ /\ Expired # {}
               /\ status'[Max(Expired)] \in {"none", status[Max(Expired)]}
               /\ \A i \in Ids \ {Max(Expired)} : Kept(i)
<1>1. CASE UNCHANGED <<status, digest, archive, snapshot>>
  BY <1>1 DEF Prune, Kept
<1>2. CASE ~UNCHANGED <<status, digest, archive, snapshot>>
  <2>1. /\ Expired # {} /\ desired' = desired
        /\ archive' = archive \/ archive' = [archive EXCEPT ![Max(Expired)] = None]
        /\ snapshot' = snapshot \/ snapshot' = [snapshot EXCEPT ![Max(Expired)] = None]
        /\ digest' = digest \/ digest' = [digest EXCEPT ![Max(Expired)] = None]
        /\ status' = status \/ status' = [status EXCEPT ![Max(Expired)] = "none"]
    BY <1>2 DEF Prune
  <2>2. Max(Expired) \in Ids
    BY <2>1, ExpiredType DEF InactiveIds
  <2> QED BY <2>1, <2>2 DEF TypeOK, Kept
<1> QED BY <1>1, <1>2 DEF Prune

LEMMA DurableStep == IInv /\ [Next]_vars => DurableConsistent'
<1> SUFFICES ASSUME IInv, [Next]_vars PROVE DurableConsistent'
  OBVIOUS
<1> USE DEF IInv
<1>1. CASE desired' = desired /\ \A i \in Ids : Kept(i)
  BY <1>1, KeptDurable
<1>2. CASE /\ pc \in BeforeOutcome /\ job.goal \in {"forward", "restore"}
           /\ desired' = desired /\ status' = status
           /\ \A i \in Ids \ {job.id} : Kept(i)
  <2>1. status[job.id] = "none"
    BY <1>2 DEF JobInv, OutcomeInv, Undecided
  <2> QED BY <1>2, <2>1, KeptDurable
<1>3. CASE RecordFailure
  BY <1>3, RecordKeeps, KeptDurable
<1>4. CASE Prune
  <2>1. CASE Expired = {}
    BY <1>4, <2>1, PruneKeeps, KeptDurable
  <2>2. CASE Expired # {}
    <3>1. status[Max(Expired)] # "active"
      BY <2>2, ExpiredType DEF InactiveIds
    <3> QED BY <1>4, <3>1, PruneKeeps, KeptDurable
  <2> QED BY <2>1, <2>2
<1>5. CASE pc = "commit" /\ Committed /\ UNCHANGED <<archive, snapshot>>
  BY <1>5, CommittedDurable
<1> QED BY <1>1, <1>2, <1>3, <1>4, <1>5, StepKeeps

LEMMA IInvInvariant == Spec => []IInv
<1>1. Init => IInv
  <2> SUFFICES ASSUME Init PROVE IInv
    OBVIOUS
  <2>1. TypeOK
    BY TypeInit
  <2>2. DurableConsistent
    BY DEF Init, DurableConsistent, OneActive, ActiveRecoverable, ActiveIds
  <2>3. JobInv
    BY DEF Init, JobInv, GoalInv, OutcomeInv, ArchiveInv, BeforeOutcome
  <2> QED BY <2>1, <2>2, <2>3 DEF IInv
<1>2. IInv /\ [Next]_vars => IInv'
  BY TypeStep, DurableStep, JobInvStep DEF IInv
<1> QED BY <1>1, <1>2, PTL DEF Spec

\* In every instance and at every step, crashes included, at most one revision
\* is active, its artifacts are intact and the desired state renders to it.
THEOREM ActiveRevisionRecoverable == Spec => []DurableConsistent
<1>1. IInv => DurableConsistent
  BY DEF IInv
<1> QED BY <1>1, IInvInvariant, PTL

\* In every instance a publication recorded as failed is not durable.
THEOREM FailedIsNotDurable == Spec => []FailureIsHonest
<1>1. IInv => FailureIsHonest
  BY DEF IInv, JobInv, GoalInv, OutcomeInv, BeforeOutcome, Undecided, FailureIsHonest
<1> QED BY <1>1, IInvInvariant, PTL

-----------------------------------------------------------------------------
(***************************************************************************)
(* What pruning leaves.  A row inside the history limit has fewer than     *)
(* HistoryLimit newer inactive rows.  The number of newer ones never falls *)
(* below the limit again: pruning takes the newest expired row, which has  *)
(* HistoryLimit newer ones itself, and every other step only adds rows.    *)
(***************************************************************************)

Newer(i) == {j \in InactiveIds : j > i}

LEMMA NewerFinite ==
  ASSUME NEW i
  PROVE  /\ IsFiniteSet(Newer(i)) /\ Cardinality(Newer(i)) \in Nat
         /\ IsFiniteSet(Newer(i)') /\ Cardinality(Newer(i)') \in Nat
<1>1. IsFiniteSet(Ids)
  BY FS_Interval, BoundsAssumption DEF Ids
<1>2. Newer(i) \in SUBSET Ids /\ Newer(i)' \in SUBSET Ids
  BY DEF Newer, InactiveIds
<1>3. IsFiniteSet(Newer(i)) /\ IsFiniteSet(Newer(i)')
  BY <1>1, <1>2, FS_Subset
<1> QED BY <1>3, FS_CardinalityType

\* A row that gains newer rows was inside the limit if it is still.
LEMMA RetainedMonotone ==
  ASSUME RetainedRevisionsRestorable, NEW i \in Ids, Kept(i),
         Newer(i) \subseteq Newer(i)',
         status'[i] = "rolled_back", Cardinality(Newer(i)') < HistoryLimit
  PROVE  ArtifactsIntact(i)'
<1>1. Cardinality(Newer(i)) <= Cardinality(Newer(i)')
  BY NewerFinite, FS_Subset
<1>2. Cardinality(Newer(i)) < HistoryLimit
  BY <1>1, NewerFinite, BoundsAssumption
<1>3. ArtifactsIntact(i)
  BY <1>2 DEF RetainedRevisionsRestorable, Kept, Newer
<1> QED BY <1>3, KeptIntact

LEMMA RetainedStep ==
  ASSUME IInv, RetainedRevisionsRestorable, [Next]_vars
  PROVE  RetainedRevisionsRestorable'
<1> USE DEF IInv
<1>0. SUFFICES ASSUME NEW i \in Ids, status'[i] = "rolled_back",
                      Cardinality(Newer(i)') < HistoryLimit
               PROVE  ArtifactsIntact(i)'
  BY DEF RetainedRevisionsRestorable, Newer
<1>1. CASE \A j \in Ids : Kept(j)
  <2>1. Newer(i) \subseteq Newer(i)'
    BY <1>1 DEF Newer, InactiveIds, Kept
  <2> QED BY <1>0, <1>1, <2>1, RetainedMonotone
<1>2. CASE /\ pc \in BeforeOutcome /\ job.goal \in {"forward", "restore"}
           /\ desired' = desired /\ status' = status
           /\ \A j \in Ids \ {job.id} : Kept(j)
  <2>1. status[job.id] = "none"
    BY <1>2 DEF JobInv, OutcomeInv, Undecided
  <2>2. Newer(i) \subseteq Newer(i)'
    BY <1>2 DEF Newer, InactiveIds
  <2> QED BY <1>0, <1>2, <2>1, <2>2, RetainedMonotone
<1>3. CASE RecordFailure
  <2>1. /\ job.id \in Ids /\ status[job.id] = "none"
        /\ status'[job.id] \in {"none", "failed"}
        /\ \A j \in Ids \ {job.id} : Kept(j)
    BY <1>3, RecordKeeps
  <2>2. Newer(i) \subseteq Newer(i)'
    BY <2>1 DEF Newer, InactiveIds, Kept
  <2> QED BY <1>0, <2>1, <2>2, RetainedMonotone
<1>4. CASE Prune /\ ~ \A j \in Ids : Kept(j)
  <2>1. PICK r : r = Max(Expired)
    OBVIOUS
  <2>2. /\ Expired # {}
        /\ status'[r] \in {"none", status[r]}
        /\ \A j \in Ids \ {r} : Kept(j)
    BY <1>4, <2>1, PruneKeeps
  <2>3. r \in Ids /\ Cardinality(Newer(r)) >= HistoryLimit
    <3>1. Expired \in SUBSET (0 .. MaxRevisions)
      BY BoundsAssumption DEF Expired, InactiveIds, Ids
    <3>2. r \in Expired
      BY <2>1, <2>2, <3>1, MaxOfBounded, BoundsAssumption
    <3> QED BY <3>2 DEF Expired, InactiveIds, Newer
  <2>4. CASE r < i
    <3>1. Newer(i) \subseteq Newer(i)'
      BY <2>2, <2>3, <2>4 DEF Newer, InactiveIds, Kept, Ids
    <3> QED BY <1>0, <2>2, <2>4, <3>1, RetainedMonotone DEF Ids
  <2>5. CASE i <= r
    <3>1. Newer(r) \subseteq Newer(i)'
      BY <2>2, <2>3, <2>5 DEF Newer, InactiveIds, Kept, Ids
    <3>2. Cardinality(Newer(r)) <= Cardinality(Newer(i)')
      BY <3>1, NewerFinite, FS_Subset
    <3> QED BY <1>0, <2>3, <3>2, NewerFinite, BoundsAssumption
  <2> QED BY <2>3, <2>4, <2>5 DEF Ids
<1>5. CASE pc = "commit" /\ Committed /\ UNCHANGED <<archive, snapshot>>
  <2>1. /\ job.id \in Ids /\ status[job.id] = "none"
        /\ digest \in [Ids -> Desired \cup {None}]
    BY <1>5 DEF TypeOK, JobInv, GoalInv, OutcomeInv, BeforeOutcome, Undecided
  <2>2. i # job.id /\ digest'[i] = digest[i] /\ status[i] \in {"active", "rolled_back"}
    BY <1>0, <1>5, <2>1 DEF Committed, Activated
  <2>3. CASE status[i] = "rolled_back"
    <3>1. Newer(i) \subseteq Newer(i)'
      BY <1>5, <2>1 DEF Newer, InactiveIds, Committed, Activated
    <3> QED BY <1>0, <1>5, <2>2, <2>3, <3>1, RetainedMonotone DEF Kept
  <2>4. CASE status[i] = "active"
    <3>1. ArtifactsIntact(i)
      BY <2>4 DEF DurableConsistent, ActiveRecoverable, ActiveIds
    <3> QED BY <1>5, <2>2, <3>1 DEF ArtifactsIntact, Compile
  <2> QED BY <2>2, <2>3, <2>4
<1> QED BY <1>1, <1>2, <1>3, <1>4, <1>5, StepKeeps

\* In every instance each successful revision inside the history limit keeps
\* its artifacts, so Rollback can publish it again.
THEOREM RetainedStayRestorable == Spec => []RetainedRevisionsRestorable
<1>1. Init => RetainedRevisionsRestorable
  BY DEF Init, RetainedRevisionsRestorable
<1>2. IInv /\ RetainedRevisionsRestorable /\ [Next]_vars => RetainedRevisionsRestorable'
  BY RetainedStep
<1> QED BY <1>1, <1>2, IInvInvariant, PTL DEF Spec

-----------------------------------------------------------------------------
(***************************************************************************)
(* Who holds the coordinator, in which phase of the panel, and along which *)
(* route it goes.  PhaseInv ties the kind of the job to the phase; only a  *)
(* finalizer survives the panel.  RouteInv ties its goal to its labels.    *)
(***************************************************************************)
PhaseInv ==
  /\ job.kind = "publication" => Serving
  /\ job.kind = "baseline" => phase = "prerun" /\ job.base = 0 /\ job.id \in Ids
  /\ job.kind = "startup" => phase \in {"prerun", "serving", "held"}
  /\ job.kind = "finalizer" => phase # "prerun"
  /\ job.kind = "boundary" => Serving
  /\ job.kind = "none" <=> pc = "idle"

RouteInv ==
  /\ job.goal = "none" => pc \in {"idle", "mark", "reconcile", "boundary"}
  /\ job.goal \in {"forward", "restore", "republish"} =>
       job.kind \in {"publication", "baseline"}
  /\ job.goal \in {"repair", "verify"} => job.kind \in {"startup", "finalizer"}
  /\ pc \in {"reconcile", "settle", "clear"} => job.kind \in {"startup", "finalizer"}
  /\ pc \in {"uncertain", "record", "prune"} => job.kind \in {"publication", "baseline"}
  /\ pc = "boundary" <=> job.kind = "boundary"
  /\ pc = "mark" => job.mark # "none"

OwnerInv == PhaseInv /\ RouteInv

LEMMA NoJobFields ==
  /\ NoJob.kind = "none" /\ NoJob.goal = "none" /\ NoJob.mark = "none"
  /\ NoJob.base = 0 /\ NoJob.id = 0
  BY DEF NoJob

LEMMA ReleaseOwner == Release => OwnerInv'
  BY NoJobFields DEF Release, OwnerInv, PhaseInv, RouteInv

LEMMA FinishOwner ==
  ASSUME NEW result, Finish(result)
  PROVE  OwnerInv'
  BY ReleaseOwner DEF Finish

\* The job goes on in the same phase.
SameJob ==
  /\ phase' = phase /\ pc # "idle" /\ pc' # "idle"
  /\ job'.kind = job.kind /\ job'.base = job.base /\ job'.id = job.id

LEMMA SamePhase ==
  ASSUME PhaseInv, SameJob
  PROVE  PhaseInv'
  BY DEF PhaseInv, SameJob, Serving

LEMMA GotoSame ==
  ASSUME NEW label, label # "idle", pc # "idle", Goto(label)
  PROVE  SameJob /\ job' = job /\ pc' = label
  BY DEF Goto, SameJob

LEMMA GotoMarkSame ==
  ASSUME TypeOK, pc # "idle", NEW reason, GotoMark(reason)
  PROVE  /\ SameJob /\ pc' = "mark" /\ job'.mark = reason /\ job'.goal = job.goal
         /\ phase' = phase
  BY DEF TypeOK, Jobs, GotoMark, SameJob

LEMMA GotoMarkOwner ==
  ASSUME TypeOK, OwnerInv, NEW reason, reason # "none", GotoMark(reason),
         pc \notin {"idle", "boundary"}
  PROVE  OwnerInv'
<1>1. SameJob /\ pc' = "mark" /\ job'.mark = reason /\ job'.goal = job.goal
  BY GotoMarkSame
<1>2. PhaseInv'
  BY <1>1, SamePhase DEF OwnerInv
<1>3. RouteInv'
  BY <1>1 DEF OwnerInv, RouteInv, PhaseInv, SameJob
<1> QED BY <1>2, <1>3 DEF OwnerInv

LEMMA ReturnOwner ==
  ASSUME TypeOK, OwnerInv, NEW mark, Return(mark), pc \notin {"idle", "boundary"}
  PROVE  OwnerInv'
<1> DEFINE reason == IF mark = "none" /\ job.kind = "baseline" /\ Active # job.id
                     THEN "r3" ELSE mark
<1>1. CASE reason = "none"
  BY <1>1, FinishOwner DEF Return
<1>2. CASE reason # "none"
  <2>1. GotoMark(reason)
    BY <1>2 DEF Return
  <2> HIDE DEF reason
  <2> QED BY <1>2, <2>1, GotoMarkOwner
<1> QED BY <1>1, <1>2

LEMMA FailSame ==
  ASSUME TypeOK, Fail, pc # "idle"
  PROVE  /\ SameJob /\ phase' = phase
         /\ \/ /\ job.goal = "forward" /\ job'.goal = "restore" /\ job'.prev = job.prev
               /\ pc' = IF job.prev = Absent THEN "remove" ELSE "replace"
            \/ /\ job.goal = "restore" /\ job'.goal = "restore" /\ pc' = "record"
               /\ job'.mark = "publication" /\ job'.prev = job.prev
            \/ /\ job.goal \notin {"forward", "restore"} /\ job'.goal = job.goal
               /\ pc' = "mark" /\ job'.mark # "none"
<1>1. job \in Jobs
  BY DEF TypeOK
<1>2. CASE job.goal = "forward"
  BY <1>1, <1>2 DEF Fail, WriteBack, Jobs, SameJob
<1>3. CASE job.goal = "restore"
  BY <1>1, <1>3 DEF Fail, Jobs, SameJob
<1>4. CASE job.goal \notin {"forward", "restore"}
  BY <1>4, GotoMarkSame DEF Fail
<1> QED BY <1>2, <1>3, <1>4

LEMMA FailOwner ==
  ASSUME TypeOK, OwnerInv, Fail, pc \notin {"idle", "boundary"}
  PROVE  OwnerInv'
<1>1. PhaseInv'
  BY FailSame, SamePhase DEF OwnerInv
<1>2. RouteInv'
  BY FailSame DEF OwnerInv, RouteInv, PhaseInv, SameJob
<1> QED BY <1>1, <1>2 DEF OwnerInv

\* A new publication of a serving panel, or the baseline of a start.
LEMMA BeginOwner ==
  ASSUME NEW kind \in {"publication", "baseline"}, NEW cfg, NEW asOf, NEW restart,
         job' = PublicationJob(kind, cfg, asOf, restart), pc' = "candidate",
         phase' = phase,
         kind = "publication" => Serving,
         kind = "baseline" => phase = "prerun" /\ Active = 0 /\ NewId \in Ids
  PROVE  OwnerInv'
<1>1. /\ job'.kind = kind /\ job'.goal = "forward" /\ job'.base = Active
      /\ job'.id = NewId
  BY DEF PublicationJob
<1>2. Serving' = Serving
  BY DEF Serving
<1> QED BY <1>1, <1>2 DEF OwnerInv, PhaseInv, RouteInv

LEMMA OwnerWrite ==
  ASSUME IInv, OwnerInv,
         Validate \/ ArchiveYaml \/ ArchiveState \/ Insert \/ Replace \/ Remove
           \/ Reload \/ WaitHealthy
  PROVE  OwnerInv'
<1>0. TypeOK /\ GoalInv /\ job \in Jobs
  BY DEF IInv, JobInv, TypeOK
<1>1. CASE Validate
  <2>1. CASE Fail
    BY <1>0, <1>1, <2>1, FailOwner DEF Validate
  <2>2. CASE ~Fail
    <3>1. /\ pc = "candidate" /\ phase' = phase
          /\ job' \in {job, [job EXCEPT !.prev = yaml]}
          /\ \/ pc' \in {"archive", "record"} /\ job.goal = "forward"
             \/ pc' \in {"reload", "replace"} /\ job.goal # "forward"
      BY <1>1, <2>2 DEF Validate
    <3>2. /\ SameJob /\ job'.goal = job.goal /\ job'.mark = job.mark
      BY <1>0, <3>1 DEF Jobs, SameJob
    <3>3. PhaseInv'
      BY <3>2, SamePhase DEF OwnerInv
    <3>4. RouteInv'
      BY <3>1, <3>2 DEF OwnerInv, RouteInv, SameJob
    <3> QED BY <3>3, <3>4 DEF OwnerInv
  <2> QED BY <2>1, <2>2
<1>2. CASE \/ pc \in {"archive", "snapshot"} /\ Return("none")
           \/ pc = "insert" /\ GotoMark("publication")
  BY <1>0, <1>2, ReturnOwner, GotoMarkOwner
<1>3. CASE Fail /\ pc \in {"replace", "remove", "reload", "health"}
  BY <1>0, <1>3, FailOwner
<1>4. CASE \E result : Finish(result)
  BY <1>4, FinishOwner
<1>5. CASE /\ ~Validate
           /\ ~(\/ pc \in {"archive", "snapshot"} /\ Return("none")
                \/ pc = "insert" /\ GotoMark("publication"))
           /\ ~(Fail /\ pc \in {"replace", "remove", "reload", "health"})
           /\ ~(\E result : Finish(result))
  <2>1. /\ job' = job /\ phase' = phase
        /\ \/ pc = "archive" /\ pc' = "snapshot"
           \/ pc = "snapshot" /\ pc' = "insert"
           \/ pc = "insert" /\ pc' \in {"record", "replace"}
           \/ pc = "replace" /\ pc' = "commit" /\ job.goal = "forward"
           \/ pc = "replace" /\ pc' = "record" /\ job.goal = "restore"
           \/ pc = "replace" /\ pc' = "prune" /\ job.goal = "republish"
           \/ pc = "replace" /\ pc' = "settle" /\ job.goal = "repair"
           \/ pc = "replace" /\ pc' = "reload"
           \/ pc = "remove" /\ pc' = "record"
           \/ pc = "reload" /\ pc' = "health"
           \/ pc = "health" /\ pc' = "commit" /\ job.goal = "forward"
           \/ pc = "health" /\ pc' = "record" /\ job.goal = "restore"
           \/ pc = "health" /\ pc' = "prune" /\ job.goal = "republish"
           \/ pc = "health" /\ pc' = "settle" /\ job.goal = "repair"
           \/ /\ pc = "health" /\ pc' = "clear"
              /\ job.goal \notin {"forward", "restore", "republish", "repair"}
    BY <1>5 DEF ArchiveYaml, ArchiveState, Insert, Replace, Remove, Reload, WaitHealthy,
                Replaced, Healthy, Goto
  <2>2. SameJob
    BY <2>1 DEF SameJob
  <2>3. PhaseInv'
    BY <2>2, SamePhase DEF OwnerInv
  <2>4. RouteInv'
    BY <1>0, <2>1 DEF OwnerInv, RouteInv, GoalInv, Jobs, Goals
  <2> QED BY <2>3, <2>4 DEF OwnerInv
<1> QED BY <1>1, <1>2, <1>3, <1>4, <1>5

LEMMA OwnerDecide ==
  ASSUME IInv, OwnerInv, Commit \/ ReconcileCommit \/ RecordFailure \/ Prune \/ Mark
  PROVE  OwnerInv'
<1>0. TypeOK /\ GoalInv /\ job \in Jobs
  BY DEF IInv, JobInv, TypeOK
<1>1. CASE Commit
  <2>1. CASE Fail
    BY <1>0, <1>1, <2>1, FailOwner DEF Commit
  <2>2. CASE ~Fail
    <3>1. pc = "commit" /\ pc' \in {"prune", "uncertain"} /\ job' = job /\ SameJob
      BY <1>1, <2>2 DEF Commit, Goto, SameJob
    <3>2. PhaseInv'
      BY <3>1, SamePhase DEF OwnerInv
    <3>3. RouteInv'
      BY <1>0, <3>1 DEF OwnerInv, RouteInv, GoalInv
    <3> QED BY <3>2, <3>3 DEF OwnerInv
  <2> QED BY <2>1, <2>2
<1>2. CASE ReconcileCommit
  <2>1. CASE GotoMark("publication")
    BY <1>0, <1>2, <2>1, GotoMarkOwner DEF ReconcileCommit
  <2>2. CASE ~GotoMark("publication")
    <3>1. /\ pc = "uncertain" /\ phase' = phase
          /\ \/ pc' \in {"prune", "record"} /\ job' = job
             \/ pc' \in {"remove", "replace"} /\ job' = WriteBack
             \/ pc' = "candidate" /\ job' = [job EXCEPT !.goal = "republish"]
      BY <1>2, <2>2 DEF ReconcileCommit
    <3>2. SameJob /\ job'.goal \in {"forward", "restore", "republish"}
      BY <1>0, <3>1 DEF SameJob, WriteBack, Jobs, GoalInv
    <3>3. PhaseInv'
      BY <3>2, SamePhase DEF OwnerInv
    <3>4. RouteInv'
      BY <3>1, <3>2 DEF OwnerInv, RouteInv, SameJob
    <3> QED BY <3>3, <3>4 DEF OwnerInv
  <2> QED BY <2>1, <2>2
<1>3. CASE RecordFailure \/ Prune
  <2>1. CASE Return(job.mark)
    BY <1>0, <1>3, <2>1, ReturnOwner DEF RecordFailure, Prune
  <2>2. CASE ~Return(job.mark)
    <3>1. pc \in {"record", "prune"} /\ pc' = "prune" /\ job' = job /\ SameJob
      BY <1>3, <2>2 DEF RecordFailure, Prune, Goto, SameJob
    <3>2. PhaseInv'
      BY <3>1, SamePhase DEF OwnerInv
    <3>3. RouteInv'
      BY <1>0, <3>1 DEF OwnerInv, RouteInv, GoalInv
    <3> QED BY <3>2, <3>3 DEF OwnerInv
  <2> QED BY <2>1, <2>2
<1>4. CASE Mark
  BY <1>0, <1>4, FinishOwner, GotoMarkOwner DEF Mark
<1> QED BY <1>1, <1>2, <1>3, <1>4

LEMMA ResumeOwner ==
  ASSUME TypeOK, OwnerInv, pc = "reconcile", NEW goal \in {"repair", "verify"},
         Resume(goal)
  PROVE  OwnerInv'
<1>1. SameJob /\ job'.goal = goal /\ pc' = "candidate"
  BY DEF TypeOK, Jobs, Resume, SameJob
<1>2. PhaseInv'
  BY <1>1, SamePhase DEF OwnerInv
<1>3. RouteInv'
  BY <1>1 DEF OwnerInv, RouteInv, SameJob
<1> QED BY <1>2, <1>3 DEF OwnerInv

LEMMA OwnerReconcile ==
  ASSUME IInv, OwnerInv, Inspect \/ Settle \/ Clear \/ RuntimeHealthy
  PROVE  OwnerInv'
<1>0. TypeOK /\ GoalInv /\ job \in Jobs
  BY DEF IInv, JobInv, TypeOK
<1>1. CASE Inspect
  <2>0. pc = "reconcile"
    BY <1>1 DEF Inspect
  <2>1. CASE InspectCutover /\ r3
             /\ (Active = 0 \/ desired.nodes # NoNodes \/ (phase # "prerun" /\ pending))
    <3>1. CASE pc' = "candidate"
      <4>1. /\ NewId \in Ids /\ phase' = phase /\ phase = "prerun" /\ Active = 0
            /\ job' = PublicationJob("baseline", desired, now, TRUE)
        BY <2>1, <3>1 DEF InspectCutover, GotoMark, Finish, Release
      <4> QED BY <3>1, <4>1, BeginOwner
    <3>2. CASE pc' # "candidate"
      BY <1>0, <2>0, <2>1, <3>2, FinishOwner, GotoMarkOwner DEF InspectCutover
    <3> QED BY <3>1, <3>2
  <2>2. CASE InspectRevision
    BY <1>0, <2>0, <2>2, FinishOwner, GotoMarkOwner, ResumeOwner
       DEF InspectRevision, InspectMatching, FinishAsMarked
  <2>3. CASE InspectFails
    BY <1>0, <2>0, <2>3, FinishOwner, GotoMarkOwner DEF InspectFails
  <2> QED BY <1>1, <2>1, <2>2, <2>3 DEF Inspect
<1>2. CASE Settle
  <2>1. CASE Goto("clear")
    <3>1. pc = "settle" /\ SameJob /\ job' = job /\ pc' = "clear"
      BY <1>2, <2>1, GotoSame DEF Settle
    <3>2. PhaseInv'
      BY <3>1, SamePhase DEF OwnerInv
    <3>3. RouteInv'
      BY <3>1 DEF OwnerInv, RouteInv
    <3> QED BY <3>2, <3>3 DEF OwnerInv
  <2>2. CASE ~Goto("clear")
    BY <1>0, <1>2, <2>2, FinishOwner, GotoMarkOwner DEF Settle, FinishAsMarked
  <2> QED BY <2>1, <2>2
<1>3. CASE Clear
  BY <1>0, <1>3, FinishOwner, GotoMarkOwner DEF Clear
<1>4. CASE RuntimeHealthy
  BY <1>4, FinishOwner, ReleaseOwner DEF RuntimeHealthy
<1> QED BY <1>1, <1>2, <1>3, <1>4

LEMMA OwnerRequest ==
  ASSUME IInv, OwnerInv, Request
  PROVE  OwnerInv'
<1>1. ASSUME NEW cfg, NEW asOf, NEW restart, Publish(cfg, asOf, restart)
      PROVE  OwnerInv'
  BY <1>1, BeginOwner DEF Publish, MayPublish, Listening, Serving
<1>2. CASE RefuseUnverified
  <2>1. /\ job' = [NoJob EXCEPT !.kind = "publication", !.mark = "publication"]
        /\ pc' = "mark" /\ phase' = phase /\ Serving
    BY <1>2 DEF RefuseUnverified, MayPublish, Listening, Serving
  <2>2. /\ job'.kind = "publication" /\ job'.goal = "none" /\ job'.mark = "publication"
    BY <2>1 DEF NoJob
  <2>3. Serving'
    BY <2>1 DEF Serving
  <2> QED BY <2>1, <2>2, <2>3 DEF OwnerInv, PhaseInv, RouteInv
<1> QED BY <1>1, <1>2 DEF Request, Manage, UpdateEndpoints, Expire, Rollback

LEMMA OwnerOthers ==
  ASSUME IInv, OwnerInv, Startup \/ Runtime \/ Environment \/ UNCHANGED vars
  PROVE  OwnerInv'
<1>1. CASE UNCHANGED <<pc, job, phase>>
  BY <1>1 DEF OwnerInv, PhaseInv, RouteInv, Serving
<1>2. CASE /\ pc' = "reconcile"
           /\ \/ job' = ReconcileJob("startup") /\ phase' \in {"prerun", "serving", "held"}
              \/ job' = ReconcileJob("finalizer") /\ phase' # "prerun"
  <2>1. job'.goal = "none" /\ job'.kind \in {"startup", "finalizer"}
        /\ (job'.kind = "finalizer" => phase' # "prerun")
        /\ (job'.kind = "startup" => phase' \in {"prerun", "serving", "held"})
    BY <1>2 DEF ReconcileJob, NoJob
  <2> QED BY <1>2, <2>1 DEF OwnerInv, PhaseInv, RouteInv
<1>3. CASE RunRuntime
  <2>1. /\ pc' = "boundary" /\ job'.kind = "boundary" /\ job'.goal = "none"
        /\ phase' = phase /\ Serving
    BY <1>3 DEF RunRuntime, NoJob
  <2> QED BY <2>1 DEF OwnerInv, PhaseInv, RouteInv, Serving
<1>4. CASE Crash
  <2>1. CASE Release
    BY <2>1, ReleaseOwner
  <2>2. CASE ~Release
    <3>1. job.kind = "finalizer" /\ UNCHANGED <<pc, job>> /\ phase' = "down"
      BY <1>4, <2>2 DEF Crash, control
    <3> QED BY <3>1 DEF OwnerInv, PhaseInv, RouteInv
  <2> QED BY <2>1, <2>2
<1>5. CASE \/ Boot \/ ReconcileAfterRuntime
           \/ FinalizeRuntime /\ ~UNCHANGED <<pc, job>>
  <2>1. /\ pc' = "reconcile"
        /\ \/ job' = ReconcileJob("startup") /\ phase' \in {"prerun", "serving", "held"}
           \/ job' = ReconcileJob("finalizer") /\ phase' # "prerun"
    BY <1>5 DEF Boot, ReconcileAfterRuntime, FinalizeRuntime, Serving, control
  <2> QED BY <1>2, <2>1
<1>6. CASE \/ ReloadRuntime \/ MihomoExits \/ InitStarts \/ Drift \/ Tick
           \/ (FinalizeRuntime /\ UNCHANGED <<pc, job>>) \/ UNCHANGED vars
  <2>1. UNCHANGED <<pc, job, phase>>
    BY <1>6 DEF ReloadRuntime, MihomoExits, InitStarts, Drift, Tick, FinalizeRuntime,
                control, vars
  <2> QED BY <1>1, <2>1
<1> QED BY <1>3, <1>4, <1>5, <1>6 DEF Startup, Runtime, Environment

LEMMA OwnerStep == IInv /\ OwnerInv /\ [Next]_vars => OwnerInv'
  BY OwnerRequest, OwnerWrite, OwnerDecide, OwnerReconcile, OwnerOthers DEF Next, Work

LEMMA OwnerInit == Init => OwnerInv
  BY NoJobFields DEF Init, OwnerInv, PhaseInv, RouteInv

-----------------------------------------------------------------------------
(***************************************************************************)
(* The active row and the base of a job.  ActInv: a panel that serves, and *)
(* one past its cutover, has an active revision.  BaseInv: until the       *)
(* outcome of a publication is decided its base is the active revision,    *)
(* and the previous file it carries the one of that revision.  RepairInv:  *)
(* what a startup writes back is the durable state.                        *)
(***************************************************************************)
Writes == job.goal \in {"forward", "restore"}

ActInv ==
  /\ Serving => Active # 0
  /\ ~r3 => Active # 0
  /\ pc \in {"settle", "clear"} \/ job.goal \in {"republish", "repair", "verify"}
       => Active # 0

BaseInv ==
  (pc \in BeforeOutcome \/ (pc = "uncertain" /\ Undecided)) /\ Writes =>
    Active = job.base /\ (job.base # 0 => job.prev = digest[job.base])

RepairInv ==
  /\ job.goal \in {"repair", "verify"}
  /\ pc \in {"candidate", "replace", "reload", "health"}
  => job.cfg = desired /\ Active # 0 /\ job.asOf = snapshot[Active].asOf

RowsInv == ActInv /\ BaseInv /\ RepairInv

\* The desired state and the active row are what they were.
SameRows ==
  /\ Active' = Active /\ desired' = desired
  /\ Active # 0 => digest'[Active] = digest[Active] /\ snapshot'[Active] = snapshot[Active]

LEMMA KeptRows ==
  ASSUME desired' = desired,
         \A i \in Ids : status[i] = "active" \/ status'[i] = "active" => Kept(i)
  PROVE  SameRows
<1>1. ActiveIds' = ActiveIds
  BY DEF ActiveIds, Kept
<1>2. Active' = Active
  BY <1>1 DEF Active
<1>3. Active # 0 => Kept(Active)
  BY ActiveType DEF ActiveIds
<1> QED BY <1>2, <1>3 DEF SameRows, Kept

\* Every step but a commit keeps them.
LEMMA RowsStep ==
  ASSUME IInv, [Next]_vars
  PROVE  \/ SameRows
         \/ pc = "commit" /\ Committed /\ UNCHANGED <<archive, snapshot>>
<1> USE DEF IInv
<1>1. CASE desired' = desired /\ \A i \in Ids : Kept(i)
  BY <1>1, KeptRows
<1>2. CASE /\ pc \in BeforeOutcome /\ job.goal \in {"forward", "restore"}
           /\ desired' = desired /\ status' = status
           /\ \A i \in Ids \ {job.id} : Kept(i)
  <2>1. status[job.id] = "none"
    BY <1>2 DEF JobInv, OutcomeInv, Undecided
  <2> QED BY <1>2, <2>1, KeptRows
<1>3. CASE RecordFailure
  BY <1>3, RecordKeeps, KeptRows
<1>4. CASE Prune
  <2>1. CASE Expired = {}
    BY <1>4, <2>1, PruneKeeps, KeptRows
  <2>2. CASE Expired # {}
    <3>1. status[Max(Expired)] # "active"
      BY <2>2, ExpiredType DEF InactiveIds
    <3> QED BY <1>4, <3>1, PruneKeeps, KeptRows
  <2> QED BY <2>1, <2>2
<1> QED BY <1>1, <1>2, <1>3, <1>4, StepKeeps

\* A commit makes the job's revision the active one.
LEMMA CommittedRows ==
  ASSUME IInv, pc = "commit", Committed, UNCHANGED <<archive, snapshot>>
  PROVE  /\ Active' = job.id /\ job.id \in Ids /\ job.id # 0
         /\ digest'[Active'] = Candidate /\ status'[job.id] = "active"
<1>1. PICK id : id = job.id
  OBVIOUS
<1>2. id \in Ids /\ ActiveIds' = {id}
  BY <1>1, CommittedIntact
<1>3. Max({id}) = id
  <2>1. {id} \in SUBSET (0 .. MaxRevisions) /\ {id} # {}
    BY <1>2, BoundsAssumption DEF Ids
  <2>2. Max({id}) \in {id}
    BY <2>1, MaxOfBounded, BoundsAssumption
  <2> QED BY <2>2
<1>4. Active' = id
  BY <1>2, <1>3 DEF Active
<1>5. id # 0
  BY <1>2, BoundsAssumption DEF Ids
<1>6. digest'[id] = Candidate /\ status'[id] = "active"
  BY <1>1, <1>2 DEF IInv, TypeOK, Committed, Activated
<1> QED BY <1>1, <1>2, <1>4, <1>5, <1>6

\* A job at these points has no base and nothing to repair.
LEMMA RowsElsewhere ==
  ASSUME pc' \in {"idle", "prune", "mark", "reconcile", "settle", "clear", "boundary"}
  PROVE  BaseInv' /\ RepairInv'
  BY DEF BaseInv, RepairInv, BeforeOutcome

LEMMA RowsMark ==
  ASSUME TypeOK, RowsInv, SameRows, r3' = r3, pc # "idle", NEW reason, GotoMark(reason)
  PROVE  RowsInv'
<1>1. pc' = "mark" /\ job'.goal = job.goal /\ phase' = phase
  BY GotoMarkSame
<1> QED BY <1>1, RowsElsewhere DEF RowsInv, ActInv, SameRows, Serving

\* A panel reaches the runtime with an active revision: a job that returns
\* "ok" before it has one, and a cutover that is still pending goes down.
LEMMA RowsFinish ==
  ASSUME RowsInv, SameRows, NEW result \in {"ok", "degraded", "fatal"}, Finish(result),
         r3' = r3 \/ Active # 0,
         result = "ok" /\ phase = "prerun" => Active # 0
  PROVE  RowsInv'
<1>1. pc' = "idle" /\ job' = NoJob /\ phase' = PhaseAfter(result)
  BY DEF Finish, Release
<1>2. Serving' => Active # 0
  <2>1. CASE phase = "prerun"
    BY <1>1, <2>1 DEF Serving, PhaseAfter, RowsInv, ActInv
  <2>2. CASE phase # "prerun"
    BY <1>1, <2>2 DEF Serving, PhaseAfter, RowsInv, ActInv
  <2> QED BY <2>1, <2>2
<1>3. ActInv'
  BY <1>1, <1>2, NoJobFields DEF RowsInv, ActInv, SameRows
<1> QED BY <1>1, <1>3, RowsElsewhere DEF RowsInv

LEMMA RowsReturn ==
  ASSUME TypeOK, OwnerInv, RowsInv, SameRows, r3' = r3,
         pc \notin {"idle", "boundary", "reconcile", "settle", "clear", "mark"},
         Writes, NEW mark, Return(mark)
  PROVE  RowsInv'
<1>1. CASE Finish("ok")
  <2>1. job.kind = "baseline" => Active = job.id
    BY <1>1, NoJobFields DEF Return, GotoMark, Finish, Release
  <2>2. job.kind = "baseline" => Active # 0
    BY <2>1, BoundsAssumption DEF OwnerInv, PhaseInv, Ids
  <2>3. phase = "prerun" => Active # 0
    BY <2>2 DEF OwnerInv, PhaseInv, RouteInv, Writes, Serving
  <2> QED BY <1>1, <2>3, RowsFinish
<1>2. CASE ~Finish("ok")
  BY <1>2, RowsMark DEF Return
<1> QED BY <1>1, <1>2

\* A step of the same job before its outcome is decided.
LEMMA RowsSame ==
  ASSUME TypeOK, RowsInv, SameRows, r3' = r3, phase' = phase, pc \in BeforeOutcome,
         job'.base = job.base, job'.cfg = job.cfg, job'.asOf = job.asOf,
         job'.prev = job.prev \/ job.base = 0,
         Writes' => Writes, ~Writes' => job'.goal = job.goal,
         pc' \in {"settle", "clear"} => job.goal \in {"repair", "verify"},
         job'.goal \in {"repair", "verify"} =>
           pc \in {"candidate", "replace", "reload", "health"}
  PROVE  RowsInv'
<1>1. ActInv'
  BY DEF RowsInv, ActInv, SameRows, Serving, Writes
<1>2. BaseInv'
  BY ActiveType DEF RowsInv, BaseInv, SameRows
<1>3. RepairInv'
  BY DEF RowsInv, RepairInv, SameRows, Writes
<1> QED BY <1>1, <1>2, <1>3 DEF RowsInv

LEMMA RowsFail ==
  ASSUME TypeOK, OwnerInv, RowsInv, SameRows, r3' = r3, pc \in BeforeOutcome, Fail,
         job.goal \in {"repair", "verify"} =>
           pc \in {"candidate", "replace", "reload", "health"}
  PROVE  RowsInv'
<1>1. job \in Jobs /\ pc # "idle"
  BY DEF TypeOK, BeforeOutcome
<1>2. job' = WriteBack \/ \E m : job' = [job EXCEPT !.mark = m]
  BY DEF Fail, GotoMark
<1>3. job'.base = job.base /\ job'.cfg = job.cfg /\ job'.asOf = job.asOf
      /\ job'.prev = job.prev
  BY <1>1, <1>2 DEF WriteBack, Jobs
<1>4. pc' \notin {"settle", "clear"} /\ phase' = phase
      /\ (Writes' => Writes) /\ (~Writes' => job'.goal = job.goal)
  BY <1>1, FailSame DEF Writes
<1> QED BY <1>3, <1>4, RowsSame DEF Writes

LEMMA RowsWrite ==
  ASSUME IInv, OwnerInv, RowsInv, SameRows,
         Validate \/ ArchiveYaml \/ ArchiveState \/ Insert \/ Replace \/ Remove
           \/ Reload \/ WaitHealthy
  PROVE  RowsInv'
<1>0. TypeOK /\ GoalInv /\ job \in Jobs
  BY DEF IInv, JobInv, TypeOK
<1>r. r3' = r3
  BY DEF Validate, ArchiveYaml, ArchiveState, Insert, Replace, Remove, Reload,
         WaitHealthy, database
<1>p. pc \in BeforeOutcome
  BY DEF Validate, ArchiveYaml, ArchiveState, Insert, Replace, Remove, Reload,
         WaitHealthy, BeforeOutcome
<1>g. /\ job.goal \in {"repair", "verify"} =>
           pc \in {"candidate", "replace", "reload", "health"}
      /\ pc \in {"archive", "snapshot", "insert"} => Writes
  BY <1>0, <1>p DEF GoalInv, BeforeOutcome, Writes
<1>1. CASE Fail
  BY <1>0, <1>1, <1>r, <1>p, <1>g, RowsFail
<1>2. CASE Validate /\ ~Fail
  <2>1. /\ phase' = phase /\ pc' \notin {"settle", "clear"}
        /\ job' = job \/ (job.base = 0 /\ job' = [job EXCEPT !.prev = yaml])
    BY <1>2 DEF Validate
  <2>2. /\ job'.base = job.base /\ job'.cfg = job.cfg /\ job'.asOf = job.asOf
        /\ job'.prev = job.prev \/ job.base = 0
        /\ job'.goal = job.goal
    BY <1>0, <2>1 DEF Jobs
  <2> QED BY <1>0, <1>r, <1>p, <1>g, <2>1, <2>2, RowsSame DEF Writes
<1>3. CASE \/ pc \in {"archive", "snapshot"} /\ Return("none")
           \/ pc = "insert" /\ GotoMark("publication")
  BY <1>0, <1>3, <1>r, <1>g, RowsReturn, RowsMark
<1>4. CASE job.goal = "repair" /\ Finish("ok")
  BY <1>r, <1>4, RowsFinish DEF RowsInv, ActInv
<1>5. CASE /\ ~Validate /\ ~Fail
           /\ ~(\/ pc \in {"archive", "snapshot"} /\ Return("none")
                \/ pc = "insert" /\ GotoMark("publication"))
           /\ ~(job.goal = "repair" /\ Finish("ok"))
  <2>1. /\ job' = job /\ phase' = phase
        /\ pc' = "settle" => job.goal = "repair"
        /\ pc' = "clear" => pc = "health" /\
             job.goal \notin {"forward", "restore", "republish", "repair"}
    BY <1>5 DEF ArchiveYaml, ArchiveState, Insert, Replace, Remove, Reload, WaitHealthy,
                Replaced, Healthy, Goto
  <2>2. pc' \in {"settle", "clear"} => job.goal \in {"repair", "verify"}
    BY <1>0, <2>1 DEF OwnerInv, RouteInv, Jobs, Goals
  <2> QED BY <1>0, <1>r, <1>p, <1>g, <2>1, <2>2, RowsSame DEF Writes
<1> QED BY <1>1, <1>2, <1>3, <1>4, <1>5

LEMMA RowsDecide ==
  ASSUME IInv, OwnerInv, RowsInv, SameRows,
         Commit \/ ReconcileCommit \/ RecordFailure \/ Prune \/ Mark
  PROVE  RowsInv'
<1>0. TypeOK /\ GoalInv /\ job \in Jobs
  BY DEF IInv, JobInv, TypeOK
<1>r. r3' = r3
  BY DEF Commit, Committed, ReconcileCommit, RecordFailure, Prune, Mark, database
<1>1. CASE Commit
  <2>1. pc = "commit" /\ pc \in BeforeOutcome /\ job.goal = "forward"
    BY <1>0, <1>1 DEF Commit, GoalInv, BeforeOutcome
  <2>2. CASE Fail
    BY <1>0, <1>r, <2>1, <2>2, RowsFail
  <2>3. CASE ~Fail
    <3>1. job' = job /\ phase' = phase /\ pc' \in {"prune", "uncertain"}
      BY <1>1, <2>3 DEF Commit, Goto
    <3> QED BY <1>0, <1>r, <2>1, <3>1, RowsSame DEF Writes
  <2> QED BY <2>2, <2>3
<1>2. CASE ReconcileCommit
  <2>0. pc = "uncertain" /\ job.goal = "forward" /\ phase' = phase
        /\ UNCHANGED <<status, desired>>
    BY <1>0, <1>2 DEF ReconcileCommit, GoalInv, GotoMark, database
  <2>1. CASE GotoMark("publication")
    BY <1>0, <1>r, <2>0, <2>1, RowsMark
  <2>2. CASE ~GotoMark("publication")
    <3>1. /\ \/ pc' = "prune" /\ job' = job
             \/ pc' = "record" /\ job' = job /\ DurableOutcome = "old"
             \/ /\ pc' \in {"remove", "replace"} /\ job' = WriteBack
                /\ DurableOutcome = "old"
             \/ /\ pc' = "candidate" /\ job' = [job EXCEPT !.goal = "republish"]
                /\ DurableOutcome = "new"
      BY <1>2, <2>2 DEF ReconcileCommit
    <3>2. CASE DurableOutcome = "old"
      <4>1. Active = job.base /\ job.base # 0 => job.prev = digest[job.base]
        BY <2>0, <3>2, OutcomeDecides DEF RowsInv, BaseInv, Writes
      <4>2. Active = job.base
        BY <2>0, <3>2, OutcomeDecides DEF RowsInv, BaseInv, Writes
      <4>3. /\ job'.base = job.base /\ job'.prev = job.prev
            /\ job'.goal \in {"forward", "restore"} /\ pc' # "settle" /\ pc' # "clear"
        BY <1>0, <2>0, <3>1, <3>2 DEF WriteBack, Jobs
      <4> QED BY <1>r, <2>0, <4>1, <4>2, <4>3
              DEF RowsInv, ActInv, BaseInv, RepairInv, SameRows, Serving
    <3>3. CASE DurableOutcome = "new"
      <4>1. Active # 0
        <5>1. Active = job.id /\ job.id \in Ids
          BY <2>0, <3>3 DEF DurableOutcome, IInv, JobInv, OutcomeInv
        <5> QED BY <5>1, BoundsAssumption DEF Ids
      <4>2. job'.goal \in {"forward", "republish"} /\ pc' \in {"prune", "candidate"}
            /\ (pc' = "candidate" => job'.goal = "republish")
        BY <1>0, <2>0, <3>1, <3>3 DEF Jobs
      <4> QED BY <1>r, <2>0, <4>1, <4>2
              DEF RowsInv, ActInv, BaseInv, RepairInv, SameRows, Serving, Writes,
                  BeforeOutcome
    <3>4. CASE pc' = "prune" /\ job' = job
      BY <1>r, <2>0, <3>4, RowsElsewhere DEF RowsInv, ActInv, SameRows, Serving
    <3> QED BY <3>1, <3>2, <3>3, <3>4
  <2> QED BY <2>1, <2>2
<1>3. CASE RecordFailure \/ Prune
  <2>0. pc \in {"record", "prune"} /\ job.kind \in {"publication", "baseline"}
    BY <1>3 DEF RecordFailure, Prune, OwnerInv, RouteInv
  <2>1. CASE Goto("prune")
    BY <1>r, <2>0, <2>1, RowsElsewhere DEF Goto, RowsInv, ActInv, SameRows, Serving
  <2>2. CASE ~Goto("prune")
    <3>1. Return(job.mark)
      BY <1>3, <2>2 DEF RecordFailure, Prune
    <3>2. CASE Writes
      BY <1>0, <1>r, <2>0, <3>1, <3>2, RowsReturn
    <3>3. CASE ~Writes
      <4>1. Active # 0
        BY <2>0, <1>0, <3>3 DEF RowsInv, ActInv, OwnerInv, RouteInv, Writes, Jobs, Goals
      <4>2. CASE Finish("ok")
        BY <1>r, <4>1, <4>2, RowsFinish
      <4>3. CASE ~Finish("ok")
        BY <1>0, <1>r, <2>0, <3>1, <4>3, RowsMark DEF Return
      <4> QED BY <4>2, <4>3
    <3> QED BY <3>2, <3>3
  <2> QED BY <2>1, <2>2
<1>4. CASE Mark
  BY <1>0, <1>r, <1>4, RowsFinish, RowsMark DEF Mark
<1> QED BY <1>1, <1>2, <1>3, <1>4

LEMMA RowsBegin ==
  ASSUME IInv, RowsInv, SameRows, r3' = r3, phase' = phase, pc' = "candidate",
         NEW kind, NEW cfg, NEW asOf, NEW restart,
         job' = PublicationJob(kind, cfg, asOf, restart),
         Active = 0 \/ yaml = digest[Active]
  PROVE  RowsInv'
<1>1. job'.base = Active /\ job'.prev = yaml /\ job'.goal = "forward"
  BY DEF PublicationJob
<1> QED BY <1>1 DEF RowsInv, ActInv, BaseInv, RepairInv, SameRows, Serving

LEMMA RowsReconcile ==
  ASSUME IInv, OwnerInv, RowsInv, SameRows, Inspect \/ Settle \/ Clear \/ RuntimeHealthy
  PROVE  RowsInv'
<1>0. TypeOK /\ GoalInv /\ job \in Jobs
  BY DEF IInv, JobInv, TypeOK
<1>1. CASE Inspect
  <2>0. pc = "reconcile" /\ r3' = r3
    BY <1>1 DEF Inspect
  <2>1. CASE InspectCutover /\ r3
             /\ (Active = 0 \/ desired.nodes # NoNodes \/ (phase # "prerun" /\ pending))
    <3>1. CASE pc' = "candidate"
      <4>1. /\ NewId \in Ids /\ phase' = phase /\ phase = "prerun" /\ Active = 0
            /\ job' = PublicationJob("baseline", desired, now, TRUE)
        BY <2>1, <3>1 DEF InspectCutover, GotoMark, Finish, Release
      <4> QED BY <2>0, <3>1, <4>1, RowsBegin
    <3>2. CASE pc' # "candidate"
      BY <1>0, <2>0, <2>1, <3>2, RowsFinish, RowsMark DEF InspectCutover
    <3> QED BY <3>1, <3>2
  <2>2. CASE InspectRevision /\ (r3 => Active # 0)
    <3>0. Active # 0
      BY <2>2 DEF RowsInv, ActInv
    <3>1. CASE \E goal \in {"repair", "verify"} : Resume(goal)
      <4>1. /\ job'.goal \in {"repair", "verify"} /\ job'.cfg = desired
            /\ job'.asOf = snapshot[Active].asOf /\ pc' = "candidate" /\ phase' = phase
        BY <1>0, <3>1 DEF Resume, Jobs
      <4> QED BY <2>0, <3>0, <4>1
              DEF RowsInv, ActInv, BaseInv, RepairInv, SameRows, Serving, Writes
    <3>2. CASE ~ \E goal \in {"repair", "verify"} : Resume(goal)
      BY <1>0, <2>0, <2>2, <3>0, <3>2, RowsFinish, RowsMark
         DEF InspectRevision, InspectMatching, FinishAsMarked
    <3> QED BY <3>1, <3>2
  <2>3. CASE InspectFails
    BY <1>0, <2>0, <2>3, RowsFinish, RowsMark DEF InspectFails
  <2> QED BY <1>1, <2>1, <2>2, <2>3 DEF Inspect
<1>2. CASE Settle
  <2>0. pc = "settle" /\ r3' = r3 /\ Active # 0
    BY <1>2 DEF Settle, database, RowsInv, ActInv
  <2>1. CASE Goto("clear")
    BY <2>0, <2>1, RowsElsewhere DEF Goto, RowsInv, ActInv, SameRows
  <2>2. CASE ~Goto("clear")
    BY <1>0, <1>2, <2>0, <2>2, RowsFinish, RowsMark DEF Settle, FinishAsMarked
  <2> QED BY <2>1, <2>2
<1>3. CASE Clear
  <2>0. pc = "clear" /\ Active # 0
    BY <1>3 DEF Clear, RowsInv, ActInv
  <2> QED BY <1>0, <1>3, <2>0, RowsFinish, RowsMark DEF Clear
<1>4. CASE RuntimeHealthy
  <2>0. r3' = r3 /\ pc = "boundary" /\ phase # "prerun" /\ Active # 0
    BY <1>4 DEF RuntimeHealthy, OwnerInv, PhaseInv, RouteInv, Serving, RowsInv, ActInv
  <2>1. CASE \E result \in {"ok", "fatal"} : Finish(result)
    BY <2>0, <2>1, RowsFinish
  <2>2. CASE Release
    BY <2>0, <2>2, RowsElsewhere, NoJobFields DEF Release, RowsInv, ActInv, SameRows
  <2> QED BY <1>4, <2>1, <2>2 DEF RuntimeHealthy
<1> QED BY <1>1, <1>2, <1>3, <1>4

LEMMA RowsRequest ==
  ASSUME IInv, OwnerInv, RowsInv, SameRows, Request
  PROVE  RowsInv'
<1>1. ASSUME NEW cfg, NEW asOf, NEW restart, Publish(cfg, asOf, restart)
      PROVE  RowsInv'
  <2>1. /\ r3' = r3 /\ phase' = phase /\ pc' = "candidate"
        /\ job' = PublicationJob("publication", cfg, asOf, restart)
        /\ Active = 0 \/ yaml = digest[Active]
    BY <1>1 DEF Publish, database, ActiveVerified
  <2> QED BY <2>1, RowsBegin
<1>2. CASE RefuseUnverified
  <2>1. /\ job' = [NoJob EXCEPT !.kind = "publication", !.mark = "publication"]
        /\ pc' = "mark" /\ phase' = phase /\ r3' = r3
    BY <1>2 DEF RefuseUnverified, database
  <2>2. job'.goal = "none"
    BY <2>1 DEF NoJob
  <2> QED BY <2>1, <2>2, RowsElsewhere DEF RowsInv, ActInv, SameRows, Serving
<1> QED BY <1>1, <1>2 DEF Request, Manage, UpdateEndpoints, Expire, Rollback

LEMMA RowsOthers ==
  ASSUME IInv, OwnerInv, RowsInv, SameRows,
         Startup \/ Runtime \/ Environment \/ UNCHANGED vars
  PROVE  RowsInv'
<1>0. UNCHANGED <<status, desired, digest, snapshot, r3>>
  BY DEF Startup, Boot, ReconcileAfterRuntime, Runtime, RunRuntime, ReloadRuntime,
         FinalizeRuntime, Environment, MihomoExits, InitStarts, Crash, Drift, Tick,
         vars, database, files
<1>1. CASE UNCHANGED <<pc, job>> /\ (Serving' => Serving)
  BY <1>0, <1>1 DEF RowsInv, ActInv, BaseInv, RepairInv, SameRows, Undecided, Writes
<1>2. CASE pc' \in {"idle", "reconcile", "boundary"} /\ job'.goal = "none"
           /\ (Serving' => Serving)
  BY <1>0, <1>2, RowsElsewhere DEF RowsInv, ActInv, SameRows
<1>3. /\ Serving' => Serving
      /\ \/ UNCHANGED <<pc, job>>
         \/ pc' \in {"idle", "reconcile", "boundary"} /\ job'.goal = "none"
  <2>1. CASE Boot \/ ReconcileAfterRuntime \/ RunRuntime \/ FinalizeRuntime \/ Crash
    BY <2>1 DEF Boot, ReconcileAfterRuntime, RunRuntime, FinalizeRuntime, Crash,
                control, Release, ReconcileJob, NoJob, Serving
  <2>2. CASE \/ ReloadRuntime \/ MihomoExits \/ InitStarts \/ Drift \/ Tick
             \/ UNCHANGED vars
    BY <2>2 DEF ReloadRuntime, MihomoExits, InitStarts, Drift, Tick, control, vars, Serving
  <2> QED BY <2>1, <2>2 DEF Startup, Runtime, Environment
<1> QED BY <1>1, <1>2, <1>3

LEMMA RowsCommit ==
  ASSUME IInv, OwnerInv, RowsInv, pc = "commit", Commit, Committed
  PROVE  RowsInv'
<1>0. UNCHANGED <<archive, snapshot>> /\ r3' = r3 /\ job.goal = "forward"
  BY DEF Commit, files, Committed, IInv, JobInv, GoalInv
<1>1. Active' = job.id /\ job.id # 0 /\ status'[job.id] = "active"
  BY <1>0, CommittedRows
<1>2. CASE UNCHANGED database
  BY <1>0, <1>1, <1>2 DEF database, IInv, JobInv, OutcomeInv, BeforeOutcome, Undecided
<1>3. CASE ~UNCHANGED database
  <2>1. job' = job /\ pc' \in {"prune", "uncertain"}
    BY <1>3 DEF Commit, Goto
  <2> QED BY <1>0, <1>1, <2>1
          DEF RowsInv, ActInv, BaseInv, RepairInv, Undecided, BeforeOutcome
<1> QED BY <1>2, <1>3

\* Only the step Commit commits.
LEMMA CommitCommits ==
  ASSUME IInv, [Next]_vars, pc = "commit", Committed
  PROVE  Commit
<1>1. job.id \in Ids /\ status[job.id] = "none"
  BY DEF IInv, JobInv, GoalInv, OutcomeInv, BeforeOutcome, Undecided
<1>2. status' # status
  BY <1>1 DEF Committed, Activated
<1>3. ~Environment /\ ~UNCHANGED vars
  BY <1>2 DEF Environment, MihomoExits, InitStarts, Crash, Drift, Tick, vars, database
<1>4. ~Request /\ ~Startup /\ ~Runtime
  BY <1>2 DEF Request, Manage, UpdateEndpoints, Expire, Rollback, Publish, RefuseUnverified,
              MayPublish, Startup, Boot, ReconcileAfterRuntime, Runtime, RunRuntime,
              ReloadRuntime, FinalizeRuntime
<1>5. Work => Commit
  BY DEF Work, Validate, ArchiveYaml, ArchiveState, Insert, Replace, Remove, Reload,
         WaitHealthy, ReconcileCommit, RecordFailure, Prune, Mark, Inspect, Settle,
         Clear, RuntimeHealthy
<1> QED BY <1>3, <1>4, <1>5 DEF Next

LEMMA RowsInvStep == IInv /\ OwnerInv /\ RowsInv /\ [Next]_vars => RowsInv'
<1> SUFFICES ASSUME IInv, OwnerInv, RowsInv, [Next]_vars PROVE RowsInv'
  OBVIOUS
<1>1. CASE SameRows
  BY <1>1, RowsRequest, RowsWrite, RowsDecide, RowsReconcile, RowsOthers DEF Next, Work
<1>2. CASE ~SameRows
  <2>1. pc = "commit" /\ Committed
    BY <1>2, RowsStep
  <2>2. Commit
    BY <2>1, CommitCommits
  <2> QED BY <2>1, <2>2, RowsCommit
<1> QED BY <1>1, <1>2

LEMMA RowsInit == Init => RowsInv
  <1> SUFFICES ASSUME Init PROVE RowsInv
    OBVIOUS
  <1> QED BY NoJobFields DEF Init, RowsInv, ActInv, BaseInv, RepairInv, Serving, BeforeOutcome

-----------------------------------------------------------------------------
(***************************************************************************)
(* What the active file holds while a publication writes it, as long as    *)
(* nobody edits it, or only at the quiet points where the publication      *)
(* looks again or no job runs.                                             *)
(***************************************************************************)
Quiet == {"idle", "archive", "snapshot", "insert"}
Undisturbed == drifts = 0 \/ DriftAt \subseteq Quiet

FileInv ==
  /\ Undisturbed /\ job.goal = "forward" /\ pc \in {"reload", "health", "commit", "uncertain"}
       => yaml = Candidate
  /\ Undisturbed /\ job.goal = "restore" /\ pc \in {"reload", "health"} => yaml = job.prev
  /\ /\ drifts = 0 /\ job.goal = "forward" /\ job.base # 0
     /\ pc \in {"candidate", "archive", "snapshot", "insert"}
     => yaml = job.prev
  /\ drifts = 0 /\ pc = "record" /\ job.mark = "none" /\ job.base # 0 => yaml = job.prev
  /\ "replace" \notin DriftAt /\ pc = "replace" /\ job.goal = "forward" /\ job.base # 0
       => yaml = job.prev
  /\ pc = "remove" => job.prev = Absent
  /\ Undisturbed => job.goal # "republish"

\* Only a replacement, a removal and an edit write the file; edits are counted.
LEMMA WhoWrites ==
  ASSUME TypeOK, [Next]_vars
  PROVE  /\ drifts \in Nat
         /\ \/ drifts' = drifts /\ (yaml' = yaml \/ Replace \/ Remove)
            \/ Drift /\ drifts' # 0
<1>0. drifts \in Nat
  BY BoundsAssumption DEF TypeOK
<1>1. CASE Drift
  BY <1>0, <1>1 DEF Drift
<1>2. CASE Request
  BY <1>0, <1>2 DEF Request, Manage, UpdateEndpoints, Expire, Rollback, Publish,
                    RefuseUnverified, env, files
<1>3. CASE Work
  BY <1>0, <1>3
     DEF Work, Validate, ArchiveYaml, ArchiveState, Insert, Replace, Remove, Reload,
         WaitHealthy, Commit, ReconcileCommit, RecordFailure, Prune, Mark, Inspect, Settle,
         Clear, RuntimeHealthy, env, files
<1>4. CASE Startup \/ Runtime
  BY <1>0, <1>4 DEF Startup, Boot, ReconcileAfterRuntime, Runtime, RunRuntime, ReloadRuntime,
                    FinalizeRuntime, env, files
<1>5. CASE (Environment /\ ~Drift) \/ UNCHANGED vars
  BY <1>0, <1>5 DEF Environment, MihomoExits, InitStarts, Crash, Tick, vars, files
<1> QED BY <1>0, <1>1, <1>2, <1>3, <1>4, <1>5 DEF Next

\* FileInv speaks of a job that writes.
LEMMA FileElsewhere ==
  ASSUME pc' \in {"idle", "prune", "mark", "reconcile", "settle", "clear", "boundary"},
         Undisturbed' => job'.goal # "republish"
  PROVE  FileInv'
  BY DEF FileInv

\* A job that repairs or verifies carries no candidate to protect.
LEMMA FileOther ==
  ASSUME job'.goal \in {"none", "repair", "verify"}, pc' \notin {"record", "remove"}
  PROVE  FileInv'
  BY DEF FileInv

LEMMA FileMark ==
  ASSUME TypeOK, FileInv, drifts' = drifts, pc # "idle", NEW reason, GotoMark(reason)
  PROVE  FileInv'
<1>1. pc' = "mark" /\ job'.goal = job.goal
  BY GotoMarkSame
<1> QED BY <1>1, FileElsewhere DEF FileInv, Undisturbed

LEMMA FileFinish ==
  ASSUME NEW result, Finish(result)
  PROVE  FileInv'
  BY FileElsewhere, NoJobFields DEF Finish, Release

LEMMA FileReturn ==
  ASSUME TypeOK, FileInv, drifts' = drifts, pc # "idle", NEW mark, Return(mark)
  PROVE  FileInv'
  BY FileMark, FileFinish DEF Return

\* A failure turns to the restoration, or gives up with a mark.
LEMMA FileFail ==
  ASSUME TypeOK, FileInv, GoalInv, drifts' = drifts, pc # "idle", Fail
  PROVE  FileInv'
  BY FailSame DEF FileInv, Undisturbed

LEMMA CandidateKept ==
  ASSUME job' = job
  PROVE  Candidate' = Candidate
  BY DEF Candidate, Compile

LEMMA FileWrite ==
  ASSUME IInv, OwnerInv, RowsInv, FileInv, drifts' = drifts,
         Validate \/ ArchiveYaml \/ ArchiveState \/ Insert \/ Replace \/ Remove
           \/ Reload \/ WaitHealthy
  PROVE  FileInv'
<1>0. TypeOK /\ GoalInv /\ job \in Jobs /\ pc # "idle"
  BY DEF IInv, JobInv, TypeOK, Validate, ArchiveYaml, ArchiveState, Insert, Replace,
         Remove, Reload, WaitHealthy
<1>u. Undisturbed' = Undisturbed
  BY DEF Undisturbed
<1>1. CASE Fail
  BY <1>0, <1>1, FileFail
<1>2. CASE Validate /\ ~Fail
  <2>1. /\ pc = "candidate" /\ yaml' = yaml
        /\ \/ job' = job
           \/ job.base = 0 /\ job' = [job EXCEPT !.prev = yaml]
        /\ \/ pc' \in {"archive", "record"} /\ job.goal = "forward"
           \/ pc' \in {"reload", "replace"} /\ job.goal # "forward"
              /\ (pc' = "reload" => job.goal = "verify")
    BY <1>2 DEF Validate
  <2>2. /\ job'.base = job.base /\ job'.goal = job.goal
        /\ job'.prev = job.prev \/ job.base = 0
    BY <1>0, <2>1 DEF Jobs
  <2> QED BY <1>u, <2>1, <2>2 DEF FileInv
<1>3. CASE \/ pc \in {"archive", "snapshot"} /\ Return("none")
           \/ pc = "insert" /\ GotoMark("publication")
           \/ \E result : Finish(result)
  BY <1>0, <1>3, FileReturn, FileMark, FileFinish
<1>4. CASE /\ ArchiveYaml \/ ArchiveState \/ Insert
           /\ ~(\/ pc \in {"archive", "snapshot"} /\ Return("none")
                \/ pc = "insert" /\ GotoMark("publication"))
  <2>1. /\ job' = job /\ yaml' = yaml /\ job.goal = "forward"
        /\ \/ pc \in {"archive", "snapshot"} /\ pc' \in {"snapshot", "insert"}
           \/ pc = "insert" /\ pc' = "record"
           \/ pc = "insert" /\ pc' = "replace" /\ ~ChangedSinceVerified
    BY <1>0, <1>4 DEF ArchiveYaml, ArchiveState, Insert, Goto, GoalInv
  <2>2. pc = "insert" /\ ~ChangedSinceVerified /\ job.base # 0 => yaml = job.prev
    BY <2>1 DEF ChangedSinceVerified, RowsInv, BaseInv, BeforeOutcome, Writes
  <2> QED BY <1>u, <2>1, <2>2 DEF FileInv
<1>5. CASE /\ Replace \/ Remove \/ Reload \/ WaitHealthy
           /\ ~Fail /\ ~(\E result : Finish(result))
  <2>1. /\ job' = job
        /\ \/ pc = "replace" /\ yaml' = Content /\ Replaced
           \/ pc = "remove" /\ yaml' = Absent /\ pc' = "record"
           \/ pc = "reload" /\ yaml' = yaml /\ pc' = "health"
           \/ pc = "health" /\ yaml' = yaml /\ Healthy
    BY <1>5 DEF Replace, Remove, Reload, WaitHealthy, Replaced, Healthy, Goto, files
  <2>2. CASE pc = "replace"
    <3>1. /\ pc' \in {"commit", "record", "prune", "settle", "reload"}
          /\ pc' = "commit" => job.goal = "forward"
          /\ pc' = "record" => job.goal = "restore"
      BY <1>5, <2>1, <2>2 DEF Replaced, Goto
    <3>2. job.goal = "forward" => yaml' = Candidate'
      BY <2>1, <2>2, CandidateKept DEF Content
    <3>3. job.goal = "restore" => yaml' = job'.prev
      BY <2>1, <2>2 DEF Content
    <3> QED BY <1>u, <2>1, <2>2, <3>1, <3>2, <3>3 DEF FileInv
  <2>3. CASE pc = "health"
    <3>1. /\ pc' \in {"commit", "record", "prune", "settle", "clear"}
          /\ pc' = "commit" => job.goal = "forward"
          /\ pc' = "record" => job.goal = "restore"
      BY <2>1, <2>3 DEF Healthy, Goto
    <3> QED BY <1>u, <2>1, <2>3, <3>1, CandidateKept DEF FileInv, Undisturbed
  <2>4. CASE pc \in {"remove", "reload"}
    BY <1>u, <2>1, <2>4, CandidateKept DEF FileInv
  <2> QED BY <2>1, <2>2, <2>3, <2>4
<1> QED BY <1>1, <1>2, <1>3, <1>4, <1>5

LEMMA FileDecide ==
  ASSUME IInv, OwnerInv, FileInv, drifts' = drifts, yaml' = yaml,
         Commit \/ ReconcileCommit \/ RecordFailure \/ Prune \/ Mark
  PROVE  FileInv'
<1>0. TypeOK /\ GoalInv /\ job \in Jobs
  BY DEF IInv, JobInv, TypeOK
<1>u. Undisturbed' = Undisturbed
  BY DEF Undisturbed
<1>1. CASE Commit
  <2>1. CASE Fail
    BY <1>0, <1>1, <2>1, FileFail DEF Commit
  <2>2. CASE ~Fail
    <3>1. /\ job' = job /\ pc = "commit" /\ job.goal = "forward"
          /\ pc' \in {"prune", "uncertain"}
      BY <1>0, <1>1, <2>2 DEF Commit, Goto, GoalInv
    <3> QED BY <1>u, <3>1, CandidateKept DEF FileInv
  <2> QED BY <2>1, <2>2
<1>2. CASE ReconcileCommit
  <2>0. pc = "uncertain" /\ job.goal = "forward"
    BY <1>0, <1>2 DEF ReconcileCommit, GoalInv
  <2>1. CASE GotoMark("publication")
    BY <1>0, <2>0, <2>1, FileMark
  <2>2. CASE ~GotoMark("publication")
    <3>1. \/ pc' = "prune" /\ job' = job
          \/ pc' = "record" /\ job' = job /\ yaml = job.prev
          \/ /\ pc' = IF job.prev = Absent THEN "remove" ELSE "replace"
             /\ job' = WriteBack
          \/ /\ pc' = "candidate" /\ job' = [job EXCEPT !.goal = "republish"]
             /\ yaml # Candidate
      BY <1>2, <2>2 DEF ReconcileCommit
    <3>2. CASE job' = job /\ (pc' = "prune" \/ (pc' = "record" /\ yaml = job.prev))
      BY <1>u, <2>0, <3>2 DEF FileInv
    <3>3. CASE job' = WriteBack /\ pc' \in {"remove", "replace"}
      <4>1. job'.goal = "restore" /\ job'.prev = job.prev
        BY <1>0, <3>3 DEF WriteBack, Jobs
      <4> QED BY <1>u, <3>1, <3>3, <4>1 DEF FileInv
    <3>4. CASE yaml # Candidate /\ pc' = "candidate" /\ job' = [job EXCEPT !.goal = "republish"]
      <4>1. job'.goal = "republish"
        BY <1>0, <3>4 DEF Jobs
      <4> QED BY <1>u, <2>0, <3>4, <4>1 DEF FileInv
    <3> QED BY <3>1, <3>2, <3>3, <3>4
  <2> QED BY <2>1, <2>2
<1>3. CASE RecordFailure \/ Prune
  <2>1. CASE Return(job.mark)
    BY <1>0, <1>3, <2>1, FileReturn DEF RecordFailure, Prune
  <2>2. CASE ~Return(job.mark)
    BY <1>u, <1>3, <2>2, FileElsewhere DEF RecordFailure, Prune, Goto, FileInv
  <2> QED BY <2>1, <2>2
<1>4. CASE Mark
  BY <1>0, <1>4, FileFinish, FileMark DEF Mark
<1> QED BY <1>1, <1>2, <1>3, <1>4

LEMMA FileBegin ==
  ASSUME yaml' = yaml, pc' = "candidate",
         NEW kind, NEW cfg, NEW asOf, NEW restart,
         job' = PublicationJob(kind, cfg, asOf, restart)
  PROVE  FileInv'
<1>1. job'.goal = "forward" /\ job'.prev = yaml
  BY DEF PublicationJob
<1> QED BY <1>1 DEF FileInv

LEMMA FileReconcile ==
  ASSUME IInv, OwnerInv, FileInv, drifts' = drifts, yaml' = yaml,
         Inspect \/ Settle \/ Clear \/ RuntimeHealthy
  PROVE  FileInv'
<1>0. TypeOK /\ GoalInv /\ job \in Jobs
  BY DEF IInv, JobInv, TypeOK
<1>1. CASE Inspect
  <2>0. pc = "reconcile"
    BY <1>1 DEF Inspect
  <2>1. CASE InspectCutover
    <3>1. CASE pc' = "candidate"
      <4>1. job' = PublicationJob("baseline", desired, now, TRUE)
        BY <2>1, <3>1 DEF InspectCutover, GotoMark, Finish, Release
      <4> QED BY <3>1, <4>1, FileBegin
    <3>2. CASE pc' # "candidate"
      BY <1>0, <2>0, <2>1, <3>2, FileFinish, FileMark DEF InspectCutover
    <3> QED BY <3>1, <3>2
  <2>2. CASE InspectRevision
    <3>1. CASE \E goal \in {"repair", "verify"} : Resume(goal)
      <4>1. job'.goal \in {"repair", "verify"} /\ pc' = "candidate"
        BY <1>0, <3>1 DEF Resume, Jobs
      <4> QED BY <4>1, FileOther
    <3>2. CASE ~ \E goal \in {"repair", "verify"} : Resume(goal)
      BY <1>0, <2>0, <2>2, <3>2, FileFinish, FileMark
         DEF InspectRevision, InspectMatching, FinishAsMarked
    <3> QED BY <3>1, <3>2
  <2>3. CASE InspectFails
    BY <1>0, <2>0, <2>3, FileFinish, FileMark DEF InspectFails
  <2> QED BY <1>1, <2>1, <2>2, <2>3 DEF Inspect
<1>2. CASE Settle
  <2>1. CASE Goto("clear")
    BY <2>1, FileElsewhere DEF Goto, FileInv, Undisturbed
  <2>2. CASE ~Goto("clear")
    BY <1>0, <1>2, <2>2, FileFinish, FileMark DEF Settle, FinishAsMarked
  <2> QED BY <2>1, <2>2
<1>3. CASE Clear
  BY <1>0, <1>3, FileFinish, FileMark DEF Clear
<1>4. CASE RuntimeHealthy
  BY <1>4, FileFinish, FileElsewhere, NoJobFields DEF RuntimeHealthy, Release
<1> QED BY <1>1, <1>2, <1>3, <1>4

LEMMA FileRequest ==
  ASSUME Request
  PROVE  FileInv'
<1>1. ASSUME NEW cfg, NEW asOf, NEW restart, Publish(cfg, asOf, restart)
      PROVE  FileInv'
  BY <1>1, FileBegin DEF Publish, files
<1>2. CASE RefuseUnverified
  <2>1. job'.goal = "none" /\ pc' = "mark"
    BY <1>2 DEF RefuseUnverified, NoJob
  <2> QED BY <2>1, FileOther
<1> QED BY <1>1, <1>2 DEF Request, Manage, UpdateEndpoints, Expire, Rollback

LEMMA FileOthers ==
  ASSUME IInv, OwnerInv, FileInv, Startup \/ Runtime \/ Environment \/ UNCHANGED vars
  PROVE  FileInv'
<1>0. drifts \in Nat
  BY BoundsAssumption DEF IInv, TypeOK
<1>1. CASE UNCHANGED <<pc, job, yaml, drifts>>
  BY <1>1, CandidateKept DEF FileInv, Undisturbed
<1>2. CASE Drift
  <2>1. UNCHANGED <<pc, job>> /\ pc \in DriftAt /\ drifts' # 0
    BY <1>0, <1>2 DEF Drift, control
  <2>2. Undisturbed' => Undisturbed /\ pc \in Quiet
    BY <2>1 DEF Undisturbed
  <2> QED BY <2>1, <2>2 DEF FileInv, Quiet
<1>3. CASE pc' \in {"idle", "reconcile", "boundary"} /\ job'.goal = "none"
  BY <1>3, FileOther
<1>4. CASE Boot \/ ReconcileAfterRuntime \/ RunRuntime \/ FinalizeRuntime \/ Crash
  <2>1. \/ UNCHANGED <<pc, job, yaml, drifts>>
        \/ pc' \in {"idle", "reconcile", "boundary"} /\ job'.goal = "none"
    BY <1>4 DEF Boot, ReconcileAfterRuntime, RunRuntime, FinalizeRuntime, Crash,
                control, Release, ReconcileJob, NoJob, files
  <2> QED BY <1>1, <1>3, <2>1
<1>5. CASE \/ ReloadRuntime \/ MihomoExits \/ InitStarts \/ Tick \/ UNCHANGED vars
  <2>1. UNCHANGED <<pc, job, yaml, drifts>>
    BY <1>5 DEF ReloadRuntime, MihomoExits, InitStarts, Tick, control, vars, files, env
  <2> QED BY <1>1, <2>1
<1> QED BY <1>2, <1>4, <1>5 DEF Startup, Runtime, Environment

LEMMA FileStep == IInv /\ OwnerInv /\ RowsInv /\ FileInv /\ [Next]_vars => FileInv'
<1> SUFFICES ASSUME IInv, OwnerInv, RowsInv, FileInv, [Next]_vars PROVE FileInv'
  OBVIOUS
<1>1. CASE Request
  BY <1>1, FileRequest
<1>2. CASE Startup \/ Runtime \/ Environment \/ UNCHANGED vars
  BY <1>2, FileOthers
<1>3. CASE Work
  <2>1. drifts' = drifts
    BY <1>3
     DEF Work, Validate, ArchiveYaml, ArchiveState, Insert, Replace, Remove, Reload,
         WaitHealthy, Commit, ReconcileCommit, RecordFailure, Prune, Mark, Inspect, Settle,
         Clear, RuntimeHealthy, env
  <2>2. CASE Validate \/ ArchiveYaml \/ ArchiveState \/ Insert \/ Replace \/ Remove
               \/ Reload \/ WaitHealthy
    BY <2>1, <2>2, FileWrite
  <2>3. CASE \/ Commit \/ ReconcileCommit \/ RecordFailure \/ Prune \/ Mark
             \/ Inspect \/ Settle \/ Clear \/ RuntimeHealthy
    <3>1. yaml' = yaml
      BY <2>3 DEF Commit, ReconcileCommit, RecordFailure, Prune, Mark, Inspect, Settle,
                  Clear, RuntimeHealthy, files
    <3> QED BY <2>1, <2>3, <3>1, FileDecide, FileReconcile
  <2> QED BY <1>3, <2>2, <2>3 DEF Work
<1> QED BY <1>1, <1>2, <1>3 DEF Next

LEMMA FileInit == Init => FileInv
<1> SUFFICES ASSUME Init PROVE FileInv
  OBVIOUS
<1> QED BY NoJobFields DEF Init, FileInv

-----------------------------------------------------------------------------
(***************************************************************************)
(* When the active file is the active revision's.                          *)
(***************************************************************************)
Agrees == Active # 0 => yaml = digest[Active]

AgreeInv ==
  /\ Undisturbed /\ (drifts = 0 \/ job.kind = "baseline") /\ pc = "prune" /\ job.mark = "none"
       => Agrees
  /\ Undisturbed /\ pc \in {"settle", "clear"} => Agrees
  /\ Undisturbed /\ job.goal = "verify" /\ pc \in {"candidate", "reload", "health"} => Agrees
  /\ Undisturbed /\ job.goal = "repair" /\ pc \in {"reload", "health"} => Agrees
  /\ pc = "uncertain" /\ status[job.id] = "active" => digest[job.id] = Candidate
  /\ drifts = 0 /\ yaml = Unmanaged => Active = 0

LEMMA AgreesSame ==
  ASSUME SameRows, yaml' = yaml
  PROVE  Agrees' = Agrees
  BY DEF SameRows, Agrees

\* The active revision is the rendering of the desired state at its time.
LEMMA ActiveDigest ==
  ASSUME IInv, Active # 0
  PROVE  /\ digest[Active] = Compile(desired, snapshot[Active].asOf)
         /\ digest[Active] \in Desired
         /\ ArtifactsIntact(Active) /\ DesiredMatches(Active)
<1>1. ArtifactsIntact(Active) /\ DesiredMatches(Active)
  BY ActiveType DEF IInv, DurableConsistent, ActiveRecoverable
<1>2. digest[Active] = Compile(desired, snapshot[Active].asOf)
  BY <1>1 DEF DesiredMatches
<1> QED BY <1>1, <1>2, CompileType DEF IInv, TypeOK

\* What a startup writes back is the active revision.
LEMMA RepairContent ==
  ASSUME IInv, RowsInv, job.goal \in {"repair", "verify"},
         pc \in {"candidate", "replace", "reload", "health"}
  PROVE  Active # 0 /\ Content = digest[Active]
  BY ActiveDigest DEF RowsInv, RepairInv, Content, Candidate

\* Until the outcome is decided the previous file is the active revision's.
LEMMA BaseAgrees ==
  ASSUME RowsInv, Writes, pc \in BeforeOutcome \/ (pc = "uncertain" /\ Undecided),
         job.base # 0 => yaml = job.prev
  PROVE  Agrees
  BY DEF RowsInv, BaseInv, Agrees

\* AgreeInv asks for agreement at these points only.
LEMMA AgreeElsewhere ==
  ASSUME pc' \in {"idle", "mark", "reconcile", "boundary", "archive", "snapshot",
                  "insert", "replace", "remove", "commit", "record"},
         drifts' = 0 /\ yaml' = Unmanaged => Active' = 0
  PROVE  AgreeInv'
  BY DEF AgreeInv

LEMMA AgreeOther ==
  ASSUME pc' = "candidate", job'.goal # "verify",
         drifts' = 0 /\ yaml' = Unmanaged => Active' = 0
  PROVE  AgreeInv'
  BY DEF AgreeInv

\* A file that is no revision is gone once a revision is active.
LEMMA UnmanagedStep ==
  ASSUME IInv, RowsInv, FileInv, AgreeInv, [Next]_vars, drifts' = 0, yaml' = Unmanaged
  PROVE  Active' = 0
<1>0. drifts = 0 /\ (yaml' = yaml \/ Replace \/ Remove)
  BY WhoWrites DEF IInv
<1>1. CASE ~SameRows
  <2>1. pc = "commit" /\ Committed /\ job.goal = "forward"
    BY <1>1, RowsStep DEF IInv, JobInv, GoalInv
  <2>2. yaml' = yaml
    BY <1>0, <2>1 DEF Replace, Remove
  <2>3. yaml = Candidate
    BY <1>0, <2>1 DEF FileInv, Undisturbed
  <2> QED BY <2>2, <2>3, CandidateType, DistinctAssumption DEF IInv
<1>2. CASE SameRows /\ yaml' = yaml
  BY <1>0, <1>2 DEF AgreeInv, SameRows
<1>3. CASE SameRows /\ yaml' # yaml /\ Replace
  <2>1. pc = "replace" /\ Content = Unmanaged
    BY <1>3 DEF Replace
  <2>2. job.goal = "restore" /\ job.prev = Unmanaged
    BY <2>1, CandidateType, DistinctAssumption DEF Content, IInv
  <2>3. Active = job.base /\ (job.base # 0 => job.prev = digest[job.base])
    BY <2>1, <2>2 DEF RowsInv, BaseInv, Writes, BeforeOutcome
  <2>4. Active = 0
    BY <2>2, <2>3, ActiveDigest, DistinctAssumption
  <2> QED BY <1>3, <2>4 DEF SameRows
<1>4. CASE SameRows /\ yaml' # yaml /\ Remove
  BY <1>4, DistinctAssumption DEF Remove
<1> QED BY <1>0, <1>1, <1>2, <1>3, <1>4

LEMMA AgreeWrite ==
  ASSUME IInv, OwnerInv, RowsInv, FileInv, AgreeInv, SameRows, drifts' = drifts,
         drifts' = 0 /\ yaml' = Unmanaged => Active' = 0,
         Validate \/ ArchiveYaml \/ ArchiveState \/ Insert \/ Replace \/ Remove
           \/ Reload \/ WaitHealthy
  PROVE  AgreeInv'
<1>0. TypeOK /\ GoalInv /\ job \in Jobs /\ pc # "idle"
  BY DEF IInv, JobInv, TypeOK, Validate, ArchiveYaml, ArchiveState, Insert, Replace,
         Remove, Reload, WaitHealthy
<1>u. Undisturbed' = Undisturbed
  BY DEF Undisturbed
<1>1. CASE pc' \in {"idle", "mark", "archive", "snapshot", "insert", "replace",
                    "remove", "commit", "record"}
  BY <1>1, AgreeElsewhere
<1>2. CASE Fail
  BY <1>0, <1>1, <1>2, FailSame
<1>3. CASE Validate /\ ~Fail /\ pc' = "reload"
  <2>1. pc = "candidate" /\ job.goal = "verify" /\ yaml' = yaml
        /\ job' \in {job, [job EXCEPT !.prev = yaml]}
    BY <1>3 DEF Validate
  <2>2. job'.goal = "verify"
    BY <1>0, <2>1 DEF Jobs
  <2> QED BY <1>u, <1>3, <2>1, <2>2, AgreesSame DEF AgreeInv
<1>4. CASE Replace /\ ~Fail /\ pc' \in {"reload", "settle", "prune"}
  <2>1. /\ pc = "replace" /\ yaml' = Content /\ job' = job
        /\ pc' = "settle" => job.goal = "repair"
        /\ pc' = "prune" => job.goal = "republish"
    BY <1>4 DEF Replace, Replaced, Goto, Finish, Release
  <2>2. job.goal \in {"repair", "verify"} => Agrees'
    BY <2>1, RepairContent DEF Agrees, SameRows
  <2> QED BY <1>u, <1>4, <2>1, <2>2 DEF AgreeInv, FileInv
<1>5. CASE Reload /\ ~Fail /\ pc' = "health"
  <2>1. pc = "reload" /\ yaml' = yaml /\ job' = job
    BY <1>5 DEF Reload, files
  <2> QED BY <1>u, <1>5, <2>1, AgreesSame DEF AgreeInv
<1>6. CASE WaitHealthy /\ ~Fail /\ pc' \in {"prune", "settle", "clear"}
  <2>1. /\ pc = "health" /\ yaml' = yaml /\ job' = job
        /\ pc' = "settle" => job.goal = "repair"
        /\ pc' = "prune" => job.goal = "republish"
        /\ pc' = "clear" => job.goal \notin {"forward", "restore", "republish", "repair"}
    BY <1>6 DEF WaitHealthy, Healthy, Goto, files
  <2>2. pc' = "clear" => job.goal = "verify"
    BY <1>0, <2>1 DEF OwnerInv, RouteInv, Jobs, Goals
  <2> QED BY <1>u, <1>6, <2>1, <2>2, AgreesSame DEF AgreeInv, FileInv
<1>7. pc' \notin {"idle", "mark", "archive", "snapshot", "insert", "replace",
                  "remove", "commit", "record"} /\ ~Fail
      => \/ Validate /\ pc' = "reload"
         \/ Replace /\ pc' \in {"reload", "settle", "prune"}
         \/ Reload /\ pc' = "health"
         \/ WaitHealthy /\ pc' \in {"prune", "settle", "clear"}
  BY DEF Validate, ArchiveYaml, ArchiveState, Insert, Replace, Remove, Reload, WaitHealthy,
         Return, GotoMark, Goto, Finish, Release, Replaced, Healthy
<1> QED BY <1>1, <1>2, <1>3, <1>4, <1>5, <1>6, <1>7

LEMMA AgreeDecide ==
  ASSUME IInv, OwnerInv, RowsInv, FileInv, AgreeInv, SameRows,
         drifts' = drifts, yaml' = yaml,
         drifts' = 0 /\ yaml' = Unmanaged => Active' = 0,
         Commit \/ ReconcileCommit \/ RecordFailure \/ Prune \/ Mark
  PROVE  AgreeInv'
<1>0. TypeOK /\ GoalInv /\ job \in Jobs
  BY DEF IInv, JobInv, TypeOK
<1>u. Undisturbed' = Undisturbed
  BY DEF Undisturbed
<1>1. CASE pc' \in {"idle", "mark", "replace", "remove", "record"}
  BY <1>1, AgreeElsewhere
<1>2. CASE Commit
  <2>1. CASE Fail
    BY <1>0, <1>1, <1>2, <2>1, FailSame DEF Commit
  <2>2. CASE Committed
    <3>1. pc = "commit" /\ UNCHANGED <<archive, snapshot>>
      BY <1>2 DEF Commit, files
    <3>2. Active' = job.id /\ Active = job.base /\ job.id # job.base
      BY <2>2, <3>1, <1>0, CommittedRows
         DEF RowsInv, BaseInv, BeforeOutcome, Writes, GoalInv, IInv, JobInv, OutcomeInv
    <3> QED BY <3>2 DEF SameRows
  <2>3. CASE UNCHANGED database /\ Goto("uncertain")
    <3>1. job' = job /\ status' = status /\ status[job.id] = "none" /\ pc' = "uncertain"
      BY <1>0, <1>2, <2>3
         DEF Commit, Goto, database, GoalInv, IInv, JobInv, OutcomeInv, BeforeOutcome, Undecided
    <3> QED BY <3>1 DEF AgreeInv
  <2> QED BY <1>2, <2>1, <2>2, <2>3 DEF Commit
<1>3. CASE ReconcileCommit
  <2>0. pc = "uncertain" /\ job.goal = "forward"
    BY <1>0, <1>3 DEF ReconcileCommit, GoalInv
  <2>1. CASE pc' = "prune"
    <3>1. DurableOutcome = "new" /\ yaml = Candidate /\ job' = job
      BY <1>3, <2>1 DEF ReconcileCommit, GotoMark
    <3>2. Active = job.id /\ job.id \in Ids /\ job.id # 0
      BY <2>0, <3>1, BoundsAssumption DEF DurableOutcome, IInv, JobInv, OutcomeInv, Ids
    <3>3. status[job.id] = "active"
      BY <3>2, ActiveType DEF ActiveIds
    <3>4. Agrees
      BY <2>0, <3>1, <3>2, <3>3 DEF AgreeInv, Agrees
    <3> QED BY <2>1, <3>4, AgreesSame DEF AgreeInv
  <2>2. CASE pc' = "candidate"
    <3>1. job' = [job EXCEPT !.goal = "republish"]
      BY <1>3, <2>2 DEF ReconcileCommit, GotoMark
    <3>2. job'.goal = "republish"
      BY <1>0, <3>1 DEF Jobs
    <3> QED BY <2>2, <3>2, AgreeOther
  <2>3. pc' \in {"mark", "prune", "record", "remove", "replace", "candidate"}
    BY <1>3 DEF ReconcileCommit, GotoMark
  <2> QED BY <1>1, <2>1, <2>2, <2>3
<1>4. CASE (RecordFailure \/ Prune) /\ pc' = "prune"
  <2>1. job' = job /\ pc \in {"record", "prune"}
    BY <1>4 DEF RecordFailure, Prune, Goto, Return, Finish, Release, GotoMark
  <2>2. CASE pc = "record"
    <3>1. Writes /\ (job.kind = "baseline" => job.base = 0)
      BY <1>0, <2>2 DEF GoalInv, Writes, OwnerInv, PhaseInv
    <3>2. (drifts = 0 \/ job.kind = "baseline") /\ job.mark = "none" => Agrees
      BY <2>2, <3>1, BaseAgrees DEF FileInv, BeforeOutcome
    <3> QED BY <1>4, <2>1, <3>2, AgreesSame DEF AgreeInv
  <2>3. CASE pc = "prune"
    BY <1>4, <1>u, <2>1, <2>3, AgreesSame DEF AgreeInv
  <2> QED BY <2>1, <2>2, <2>3
<1>5. CASE (RecordFailure \/ Prune \/ Mark) /\ pc' # "prune"
  <2>1. pc' \in {"idle", "mark"}
    BY <1>5 DEF RecordFailure, Prune, Mark, Return, Finish, Release, GotoMark, Goto
  <2> QED BY <1>1, <2>1
<1>6. CASE Mark /\ pc' = "prune"
  BY <1>6 DEF Mark, Finish, Release, GotoMark
<1> QED BY <1>2, <1>3, <1>4, <1>5, <1>6

LEMMA AgreeReconcile ==
  ASSUME IInv, OwnerInv, RowsInv, FileInv, AgreeInv, SameRows,
         drifts' = drifts, yaml' = yaml,
         drifts' = 0 /\ yaml' = Unmanaged => Active' = 0,
         Inspect \/ Settle \/ Clear \/ RuntimeHealthy
  PROVE  AgreeInv'
<1>0. job \in Jobs
  BY DEF IInv, TypeOK
<1>u. Undisturbed' = Undisturbed
  BY DEF Undisturbed
<1>1. CASE pc' \in {"idle", "mark"}
  BY <1>1, AgreeElsewhere
<1>2. CASE Inspect /\ pc' = "candidate"
  <2>1. CASE job'.goal # "verify"
    BY <1>2, <2>1, AgreeOther
  <2>2. CASE job'.goal = "verify"
    <3>1. InspectRevision \/ InspectCutover
      BY <1>2 DEF Inspect, InspectFails, Finish, Release, GotoMark
    <3>2. CASE InspectCutover
      BY <1>2, <2>2, <3>2
         DEF InspectCutover, PublicationJob, Finish, Release, GotoMark
    <3>3. CASE InspectRevision
      <4>1. CASE Resume("repair")
        BY <1>0, <2>2, <4>1 DEF Resume, Jobs
      <4>2. CASE ~Resume("repair")
        <5>1. yaml = digest[Active]
          BY <1>2, <3>3, <4>2
             DEF InspectRevision, FinishAsMarked, Finish, Release, GotoMark
        <5>2. Agrees'
          BY <5>1, AgreesSame DEF Agrees
        <5> QED BY <1>2, <2>2, <5>2 DEF AgreeInv
      <4> QED BY <4>1, <4>2
    <3> QED BY <3>1, <3>2, <3>3
  <2> QED BY <2>1, <2>2
<1>3. CASE Settle /\ pc' = "clear"
  <2>1. pc = "settle"
    BY <1>3 DEF Settle
  <2> QED BY <1>u, <1>3, <2>1, AgreesSame DEF AgreeInv
<1>4. pc' \in {"idle", "mark"} \/ (Inspect /\ pc' = "candidate") \/ (Settle /\ pc' = "clear")
  BY DEF Inspect, InspectCutover, InspectRevision, InspectMatching, InspectFails,
         FinishAsMarked, Resume, Settle, Clear, RuntimeHealthy, Finish, Release, GotoMark, Goto
<1> QED BY <1>1, <1>2, <1>3, <1>4

LEMMA AgreeRequest ==
  ASSUME drifts' = 0 /\ yaml' = Unmanaged => Active' = 0, Request
  PROVE  AgreeInv'
<1>1. ASSUME NEW cfg, NEW asOf, NEW restart, Publish(cfg, asOf, restart)
      PROVE  AgreeInv'
  <2>1. job'.goal = "forward" /\ pc' = "candidate"
    BY <1>1 DEF Publish, PublicationJob
  <2> QED BY <2>1, AgreeOther
<1>2. CASE RefuseUnverified
  BY <1>2, AgreeElsewhere DEF RefuseUnverified
<1> QED BY <1>1, <1>2 DEF Request, Manage, UpdateEndpoints, Expire, Rollback

LEMMA AgreeOthers ==
  ASSUME IInv, AgreeInv, SameRows,
         drifts' = 0 /\ yaml' = Unmanaged => Active' = 0,
         Startup \/ Runtime \/ Environment \/ UNCHANGED vars
  PROVE  AgreeInv'
<1>0. drifts \in Nat /\ status' = status /\ digest' = digest
  BY BoundsAssumption
     DEF IInv, TypeOK, Startup, Boot, ReconcileAfterRuntime, Runtime, RunRuntime,
         ReloadRuntime, FinalizeRuntime, Environment, MihomoExits, InitStarts, Crash,
         Drift, Tick, vars, database
<1>1. CASE UNCHANGED <<pc, job, yaml, drifts>>
  BY <1>0, <1>1, AgreesSame, CandidateKept DEF AgreeInv, Undisturbed
<1>2. CASE Drift
  <2>1. UNCHANGED <<pc, job>> /\ pc \in DriftAt /\ drifts' # 0
    BY <1>0, <1>2 DEF Drift, control
  <2>2. Undisturbed' => pc \in Quiet
    BY <2>1 DEF Undisturbed
  <2> QED BY <1>0, <2>1, <2>2, CandidateKept DEF AgreeInv, Quiet
<1>3. CASE pc' \in {"idle", "reconcile", "boundary"}
  BY <1>3, AgreeElsewhere
<1>4. CASE Boot \/ ReconcileAfterRuntime \/ RunRuntime \/ FinalizeRuntime \/ Crash
  <2>1. \/ UNCHANGED <<pc, job, yaml, drifts>>
        \/ pc' \in {"idle", "reconcile", "boundary"}
    BY <1>4 DEF Boot, ReconcileAfterRuntime, RunRuntime, FinalizeRuntime, Crash,
                control, Release, files
  <2> QED BY <1>1, <1>3, <2>1
<1>5. CASE \/ ReloadRuntime \/ MihomoExits \/ InitStarts \/ Tick \/ UNCHANGED vars
  <2>1. UNCHANGED <<pc, job, yaml, drifts>>
    BY <1>5 DEF ReloadRuntime, MihomoExits, InitStarts, Tick, control, vars, files, env
  <2> QED BY <1>1, <2>1
<1> QED BY <1>2, <1>4, <1>5 DEF Startup, Runtime, Environment

\* After the commit the file is the new revision's.
LEMMA AgreeCommit ==
  ASSUME IInv, FileInv, pc = "commit", Commit, Committed,
         drifts' = 0 /\ yaml' = Unmanaged => Active' = 0
  PROVE  AgreeInv'
<1>0. /\ UNCHANGED <<archive, snapshot, yaml, drifts>> /\ job.goal = "forward"
      /\ status[job.id] = "none"
  BY DEF Commit, files, env, IInv, JobInv, GoalInv, OutcomeInv, BeforeOutcome, Undecided
<1>1. /\ Active' = job.id /\ digest'[Active'] = Candidate /\ status'[job.id] = "active"
  BY <1>0, CommittedRows
<1>2. job' = job /\ pc' \in {"prune", "uncertain"}
  BY <1>0, <1>1 DEF Commit, Goto, database
<1>3. Undisturbed' = Undisturbed /\ (Undisturbed => yaml = Candidate)
  BY <1>0 DEF Undisturbed, FileInv
<1>4. Undisturbed => Agrees'
  BY <1>0, <1>1, <1>3 DEF Agrees
<1> QED BY <1>1, <1>2, <1>3, <1>4, CandidateKept DEF AgreeInv

LEMMA AgreeStep ==
  IInv /\ OwnerInv /\ RowsInv /\ FileInv /\ AgreeInv /\ [Next]_vars => AgreeInv'
<1> SUFFICES ASSUME IInv, OwnerInv, RowsInv, FileInv, AgreeInv, [Next]_vars
             PROVE  AgreeInv'
  OBVIOUS
<1>0. drifts' = 0 /\ yaml' = Unmanaged => Active' = 0
  BY UnmanagedStep
<1>1. CASE ~SameRows
  <2>1. pc = "commit" /\ Committed
    BY <1>1, RowsStep
  <2> QED BY <1>0, <2>1, CommitCommits, AgreeCommit
<1>2. CASE Request
  BY <1>0, <1>2, AgreeRequest
<1>3. CASE SameRows /\ (Startup \/ Runtime \/ Environment \/ UNCHANGED vars)
  BY <1>0, <1>3, AgreeOthers
<1>4. CASE SameRows /\ Work
  <2>1. drifts' = drifts
    BY <1>4
     DEF Work, Validate, ArchiveYaml, ArchiveState, Insert, Replace, Remove, Reload,
         WaitHealthy, Commit, ReconcileCommit, RecordFailure, Prune, Mark, Inspect, Settle,
         Clear, RuntimeHealthy, env
  <2>2. CASE Validate \/ ArchiveYaml \/ ArchiveState \/ Insert \/ Replace \/ Remove
               \/ Reload \/ WaitHealthy
    BY <1>0, <1>4, <2>1, <2>2, AgreeWrite
  <2>3. CASE \/ Commit \/ ReconcileCommit \/ RecordFailure \/ Prune \/ Mark
             \/ Inspect \/ Settle \/ Clear \/ RuntimeHealthy
    <3>1. yaml' = yaml
      BY <2>3 DEF Commit, ReconcileCommit, RecordFailure, Prune, Mark, Inspect, Settle,
                  Clear, RuntimeHealthy, files
    <3> QED BY <1>0, <1>4, <2>1, <2>3, <3>1, AgreeDecide, AgreeReconcile
  <2> QED BY <1>4, <2>2, <2>3 DEF Work
<1> QED BY <1>1, <1>2, <1>3, <1>4 DEF Next

LEMMA AgreeInit == Init => AgreeInv
<1> SUFFICES ASSUME Init PROVE AgreeInv
  OBVIOUS
<1>1. Active = 0
  BY DEF Init, Active, ActiveIds
<1> QED BY <1>1, NoJobFields DEF Init, AgreeInv

\* What holds of every reachable state, whatever the constants.
FInv == IInv /\ OwnerInv /\ RowsInv /\ FileInv /\ AgreeInv

LEMMA FInvStep == FInv /\ [Next]_vars => FInv'
<1>1. IInv /\ [Next]_vars => IInv'
  BY TypeStep, DurableStep, JobInvStep DEF IInv
<1> QED BY <1>1, OwnerStep, RowsInvStep, FileStep, AgreeStep DEF FInv

LEMMA FInvInit == Init => FInv
<1> SUFFICES ASSUME Init PROVE FInv
  OBVIOUS
<1>1. DurableConsistent
  BY DEF Init, DurableConsistent, OneActive, ActiveRecoverable, ActiveIds
<1>2. JobInv
  BY DEF Init, JobInv, GoalInv, OutcomeInv, ArchiveInv, BeforeOutcome
<1> QED BY <1>1, <1>2, TypeInit, OwnerInit, RowsInit, FileInit, AgreeInit DEF FInv, IInv

LEMMA FInvInvariant == Spec => []FInv
  BY FInvInit, FInvStep, PTL DEF Spec

\* In every instance a publication that overwrites the YAML overwrites the one
\* it verified, unless somebody edits it between the second inspection and the
\* rename: that window the code leaves open.
THEOREM OverwritesWhatItVerified ==
  ASSUME "replace" \notin DriftAt
  PROVE  Spec => VerifiedBeforeOverwrite
<1>1. FInv => (pc = "replace" /\ job.goal = "forward" /\ job.base # 0 => yaml = job.prev)
  BY DEF FInv, FileInv
<1> QED BY <1>1, FInvInvariant, PTL DEF Spec, VerifiedBeforeOverwrite

\* In every instance in which nobody edits the YAML the panel serves only once
\* the configuration from before the R3 cutover is gone from it.
THEOREM OldConfigurationIsGone == Spec => [](drifts = 0 => CutoverHoldsOldConfiguration)
<1>1. FInv => (drifts = 0 => CutoverHoldsOldConfiguration)
  BY DEF FInv, RowsInv, ActInv, AgreeInv, CutoverHoldsOldConfiguration
<1> QED BY <1>1, FInvInvariant, PTL

-----------------------------------------------------------------------------
(***************************************************************************)
(* The running Mihomo behind a job that is about to declare it healthy.    *)
(***************************************************************************)
RunInv ==
  /\ Undisturbed /\ pc = "health" => running \in {yaml, Stopped}
  /\ Undisturbed /\ pc = "settle" /\ ~pending => running \in {yaml, Stopped}
  /\ Undisturbed /\ pc = "clear" /\ ~(r3 /\ pending) => running \in {yaml, Stopped}

LEMMA RunWork ==
  ASSUME FInv, RunInv, Work, drifts' = drifts
  PROVE  RunInv'
<1>0. job \in Jobs
  BY DEF FInv, IInv, TypeOK
<1>u. Undisturbed' = Undisturbed
  BY DEF Undisturbed
<1>1. CASE pc' \notin {"health", "settle", "clear"}
  BY <1>1 DEF RunInv
<1>2. CASE pc' = "health"
  <2>1. Reload
    BY <1>2, <1>0, FailSame DEF Work, Validate, ArchiveYaml, ArchiveState, Insert, Replace, Remove, WaitHealthy,
             Commit, ReconcileCommit, RecordFailure, Prune, Mark, Inspect, InspectCutover,
             InspectRevision, InspectMatching, InspectFails, FinishAsMarked, Resume, Settle,
             Clear, RuntimeHealthy, Return, Finish, Release, GotoMark, Goto, Replaced,
             Healthy, Fail
  <2>2. running' = yaml /\ yaml' = yaml
    BY <1>2, <2>1 DEF Reload, Fail, GotoMark, files
  <2> QED BY <1>2, <2>2 DEF RunInv
<1>3. CASE pc' = "settle"
  <2>1. Replace \/ WaitHealthy
    BY <1>3, <1>0 DEF Work, Validate, ArchiveYaml, ArchiveState, Insert, Remove, Reload,
             Commit, ReconcileCommit, RecordFailure, Prune, Mark, Inspect, InspectCutover,
             InspectRevision, InspectMatching, InspectFails, FinishAsMarked, Resume, Settle,
             Clear, RuntimeHealthy, Return, Finish, Release, GotoMark, Goto, Fail
  <2>2. CASE Replace
    <3>1. running' = running /\ pending' = pending /\ (pending \/ running = Stopped)
      BY <1>3, <2>2 DEF Replace, Replaced, Goto, Finish, Release, Fail, GotoMark, database
    <3> QED BY <1>3, <3>1 DEF RunInv
  <2>3. CASE WaitHealthy
    <3>1. running' = running /\ yaml' = yaml /\ pc = "health"
      BY <1>3, <2>3 DEF WaitHealthy, Healthy, Goto, Fail, GotoMark, files
    <3> QED BY <1>3, <1>u, <3>1 DEF RunInv
  <2> QED BY <2>1, <2>2, <2>3
<1>4. CASE pc' = "clear"
  <2>1. Settle \/ WaitHealthy
    BY <1>4, <1>0 DEF Work, Validate, ArchiveYaml, ArchiveState, Insert, Replace, Remove,
             Reload, Replaced,
             Commit, ReconcileCommit, RecordFailure, Prune, Mark, Inspect, InspectCutover,
             InspectRevision, InspectMatching, InspectFails, FinishAsMarked, Resume,
             Clear, RuntimeHealthy, Return, Finish, Release, GotoMark, Goto, Fail
  <2>2. CASE Settle
    <3>1. /\ UNCHANGED <<running, yaml, r3, pending>> /\ pc = "settle"
          /\ r3 \/ ~pending
      BY <1>4, <2>2
         DEF Settle, Goto, FinishAsMarked, Finish, Release, GotoMark, files, database,
             FInv, IInv, TypeOK
    <3> QED BY <1>4, <1>u, <3>1 DEF RunInv
  <2>3. CASE WaitHealthy
    <3>1. running' = running /\ yaml' = yaml /\ pc = "health"
      BY <1>4, <2>3 DEF WaitHealthy, Healthy, Goto, Fail, GotoMark, files
    <3> QED BY <1>4, <1>u, <3>1 DEF RunInv
  <2> QED BY <2>1, <2>2, <2>3
<1> QED BY <1>1, <1>2, <1>3, <1>4

LEMMA RunOthers ==
  ASSUME FInv, RunInv, Request \/ Startup \/ Runtime \/ Environment \/ UNCHANGED vars
  PROVE  RunInv'
<1>0. drifts \in Nat
  BY BoundsAssumption DEF FInv, IInv, TypeOK
<1>1. CASE pc' \notin {"health", "settle", "clear"}
  BY <1>1 DEF RunInv
<1>2. CASE Drift
  <2>1. pc' = pc /\ pc \in DriftAt /\ drifts' # 0
    BY <1>0, <1>2 DEF Drift, control
  <2>2. Undisturbed' => pc \in Quiet
    BY <2>1 DEF Undisturbed
  <2> QED BY <2>1, <2>2 DEF RunInv, Quiet
<1>3. CASE MihomoExits \/ InitStarts \/ Tick \/ UNCHANGED vars
  <2>1. /\ UNCHANGED <<pc, yaml, pending, r3, drifts>>
        /\ running' \in {running, yaml, Stopped}
    BY <1>3 DEF MihomoExits, InitStarts, Tick, control, vars, files, database, env
  <2> QED BY <2>1 DEF RunInv, Undisturbed
<1>4. CASE Crash /\ pc' \in {"health", "settle", "clear"}
  <2>1. /\ UNCHANGED <<pc, yaml, pending, r3, drifts, running>>
    BY <1>4 DEF Crash, Release, control, files, database, env
  <2> QED BY <2>1 DEF RunInv, Undisturbed
<1>5. CASE Request \/ Startup \/ Runtime
  <2>1. pc' \in {"idle", "candidate", "mark", "reconcile", "boundary"}
    BY <1>5
       DEF Request, Manage, UpdateEndpoints, Expire, Rollback, Publish, RefuseUnverified,
           Startup, Boot, ReconcileAfterRuntime, Runtime, RunRuntime, ReloadRuntime,
           FinalizeRuntime, control
  <2> QED BY <1>1, <2>1
<1> QED BY <1>1, <1>2, <1>3, <1>4, <1>5 DEF Environment

LEMMA WorkDrifts ==
  ASSUME Work
  PROVE  drifts' = drifts
  BY DEF Work, Validate, ArchiveYaml, ArchiveState, Insert, Replace, Remove, Reload,
         WaitHealthy, Commit, ReconcileCommit, RecordFailure, Prune, Mark, Inspect, Settle,
         Clear, RuntimeHealthy, env

LEMMA RunStep == FInv /\ RunInv /\ [Next]_vars => RunInv'
  BY RunWork, RunOthers, WorkDrifts DEF Next

\* Which step clears degraded, and what it has seen.
LEMMA DegradedStep ==
  ASSUME FInv, RunInv, Undisturbed, [Next]_vars,
         degraded # "none", degraded' = "none", ~r3
  PROVE  Active # 0 /\ yaml = digest[Active] /\ running \in {yaml, Stopped}
<1>1. Clear
  <2>1. ~Mark
    BY DEF Mark, FInv, OwnerInv, RouteInv
  <2>2. ~Inspect
    BY DEF Inspect, InspectFails
  <2>3. Work => Clear
    BY <2>1, <2>2
       DEF Work, Validate, ArchiveYaml, ArchiveState, Insert, Replace, Remove, Reload,
           WaitHealthy, Commit, Committed, ReconcileCommit, RecordFailure, Prune, Settle,
           RuntimeHealthy, database
  <2>4. ~Request /\ ~Startup /\ ~Runtime /\ ~Environment /\ ~UNCHANGED vars
    BY DEF Request, Manage, UpdateEndpoints, Expire, Rollback, Publish, RefuseUnverified,
           Startup, Boot, ReconcileAfterRuntime, Runtime, RunRuntime, ReloadRuntime,
           FinalizeRuntime, Environment, MihomoExits, InitStarts, Crash, Drift, Tick,
           vars, database
  <2> QED BY <2>3, <2>4 DEF Next
<1>2. pc = "clear"
  BY <1>1 DEF Clear
<1>3. Active # 0 /\ Agrees
  BY <1>2 DEF FInv, RowsInv, ActInv, AgreeInv
<1> QED BY <1>2, <1>3 DEF Agrees, RunInv

\* In every instance whose YAML is edited at the quiet points only, degraded is
\* cleared only with the active revision in the YAML, and in the running Mihomo
\* or none running.
THEOREM DegradedIsClearedVerified ==
  ASSUME DriftAt \subseteq {"idle", "archive", "snapshot", "insert"}
  PROVE  Spec => DegradedClearedVerified
<1>1. Init => RunInv
  BY DEF Init, RunInv
<1>2. Undisturbed
  BY DEF Undisturbed, Quiet
<1>3. FInv /\ RunInv /\ [Next]_vars =>
        [degraded # "none" /\ degraded' = "none" /\ ~r3
          => Active # 0 /\ yaml = digest[Active] /\ running \in {yaml, Stopped}]_vars
  BY <1>2, DegradedStep
<1> QED BY <1>1, <1>3, RunStep, FInvInvariant, PTL DEF Spec, DegradedClearedVerified

-----------------------------------------------------------------------------
(***************************************************************************)
(* How a job ends.  Whatever it returns, degraded is set or the file is    *)
(* the active revision's; the exceptions are a mark that cannot be         *)
(* written, an edit, and jobs that changed nothing.                        *)
(***************************************************************************)
Idle(result) ==
  /\ UNCHANGED <<degraded, yaml>> /\ SameRows
  /\ \/ pc = "reconcile" /\ result = "fatal"
     \/ pc = "reconcile" /\ result = "degraded" /\ phase # "prerun"
     \/ pc = "boundary"

Ends(result) ==
  /\ phase' = PhaseAfter(result)
  /\ \/ degraded' # "none"
     \/ Agrees'
     \/ ~Undisturbed
     \/ drifts # 0 /\ job.kind = "publication"
     \/ result = "fatal" /\ pc = "mark" /\ "mark" \in Faults
     \/ Idle(result)

LEMMA EndsWrite ==
  ASSUME FInv, SameRows, pc' = "idle",
         Validate \/ ArchiveYaml \/ ArchiveState \/ Insert \/ Replace \/ Remove
           \/ Reload \/ WaitHealthy
  PROVE  Ends("ok")
<1>0. TypeOK /\ GoalInv /\ pc # "idle"
  BY DEF FInv, IInv, JobInv, Validate, ArchiveYaml, ArchiveState, Insert, Replace,
         Remove, Reload, WaitHealthy
<1>1. ~Fail
  BY <1>0, FailSame
<1>2. \/ (ArchiveYaml \/ ArchiveState) /\ Finish("ok")
      \/ Replace /\ Finish("ok") /\ job.goal = "repair" /\ yaml' = Content
  BY <1>1 DEF Validate, ArchiveYaml, ArchiveState, Insert, Replace, Remove, Reload,
              WaitHealthy, Return, GotoMark, Goto, Replaced, Healthy
<1>3. CASE ArchiveYaml \/ ArchiveState
  <2>1. /\ pc \in {"archive", "snapshot"} /\ job.goal = "forward" /\ yaml' = yaml
        /\ job.kind \in {"publication", "baseline"}
        /\ job.kind = "baseline" => job.base = 0
    BY <1>0, <1>3 DEF ArchiveYaml, ArchiveState, GoalInv, FInv, OwnerInv, RouteInv, PhaseInv
  <2>2. drifts = 0 \/ job.kind = "baseline" => Agrees
    BY <2>1, BaseAgrees DEF FInv, FileInv, BeforeOutcome, Writes
  <2>3. Finish("ok")
    BY <1>2, <2>1 DEF Replace
  <2> QED BY <2>1, <2>2, <2>3, AgreesSame DEF Ends, Finish
<1>4. CASE Replace
  <2>1. pc = "replace" /\ Finish("ok") /\ job.goal = "repair" /\ yaml' = Content
    BY <1>2, <1>4 DEF Replace, ArchiveYaml, ArchiveState
  <2>2. Agrees'
    BY <2>1, RepairContent DEF FInv, Agrees, SameRows
  <2> QED BY <2>1, <2>2 DEF Ends, Finish
<1> QED BY <1>2, <1>3, <1>4

LEMMA EndsDecide ==
  ASSUME FInv, SameRows, pc' = "idle",
         Commit \/ ReconcileCommit \/ RecordFailure \/ Prune \/ Mark
  PROVE  \E result \in {"ok", "degraded", "fatal"} : Ends(result)
<1>0. TypeOK /\ GoalInv /\ job \in Jobs
  BY DEF FInv, IInv, JobInv, TypeOK
<1>1. CASE Commit \/ ReconcileCommit
  BY <1>0, <1>1, FailSame DEF Commit, ReconcileCommit, Goto, GotoMark
<1>2. CASE RecordFailure
  <2>1. pc = "record" /\ job.mark = "none" /\ Finish("ok") /\ yaml' = yaml
    BY <1>2 DEF RecordFailure, Return, GotoMark, Goto, files
  <2>2. /\ Writes /\ (job.kind = "baseline" => job.base = 0)
        /\ job.kind \in {"publication", "baseline"}
    BY <1>0, <2>1 DEF GoalInv, Writes, FInv, OwnerInv, RouteInv, PhaseInv
  <2>3. drifts = 0 \/ job.kind = "baseline" => Agrees
    BY <2>1, <2>2, BaseAgrees DEF FInv, FileInv, BeforeOutcome
  <2> QED BY <2>1, <2>2, <2>3, AgreesSame DEF Ends, Finish
<1>3. CASE Prune
  <2>1. pc = "prune" /\ job.mark = "none" /\ Finish("ok") /\ yaml' = yaml
    BY <1>3 DEF Prune, Return, GotoMark, Goto
  <2>2. job.kind \in {"publication", "baseline"}
    BY <2>1 DEF FInv, OwnerInv, RouteInv
  <2>3. Undisturbed /\ (drifts = 0 \/ job.kind = "baseline") => Agrees
    BY <2>1 DEF FInv, AgreeInv
  <2> QED BY <2>1, <2>2, <2>3, AgreesSame DEF Ends, Finish
<1>4. CASE Mark
  <2>1. pc = "mark" /\ job.mark # "none"
    BY <1>4 DEF Mark, FInv, OwnerInv, RouteInv
  <2>2. \/ degraded' = job.mark /\ Finish("degraded")
        \/ "mark" \in Faults /\ Finish("fatal")
    BY <1>4 DEF Mark, GotoMark
  <2> QED BY <2>1, <2>2 DEF Ends, Finish
<1> QED BY <1>1, <1>2, <1>3, <1>4

LEMMA EndsReconcile ==
  ASSUME FInv, SameRows, pc' = "idle", Inspect \/ Settle \/ Clear \/ RuntimeHealthy
  PROVE  \E result \in {"ok", "degraded", "fatal"} : Ends(result)
<1>0. yaml' = yaml
  BY DEF Inspect, Settle, Clear, RuntimeHealthy, files
<1>1. CASE Inspect
  <2>0. pc = "reconcile"
    BY <1>1 DEF Inspect
  <2>1. CASE InspectCutover
    <3>1. /\ Finish("degraded") /\ degraded' = degraded
          /\ phase # "prerun" \/ degraded = "publication"
      BY <2>1 DEF InspectCutover, GotoMark
    <3> QED BY <1>0, <2>0, <3>1 DEF Ends, Idle, Finish
  <2>2. CASE InspectRevision /\ UNCHANGED degraded
    <3>1. \/ Finish("ok") /\ Agrees
          \/ Finish("degraded") /\ degraded # "none"
      BY <2>2 DEF InspectRevision, InspectMatching, FinishAsMarked, Resume, GotoMark, Agrees
    <3> QED BY <1>0, <2>2, <3>1, AgreesSame DEF Ends, Finish
  <2>3. CASE InspectFails
    <3>1. Finish("fatal") /\ degraded' = degraded
      BY <2>3 DEF InspectFails, GotoMark
    <3> QED BY <1>0, <2>0, <3>1 DEF Ends, Idle, Finish
  <2> QED BY <1>1, <2>1, <2>2, <2>3 DEF Inspect
<1>2. CASE Settle \/ Clear
  <2>1. /\ pc \in {"settle", "clear"}
        /\ \E result \in {"ok", "degraded", "fatal"} : Finish(result)
    BY <1>2 DEF Settle, Clear, FinishAsMarked, Goto, GotoMark
  <2>2. Undisturbed => Agrees
    BY <2>1 DEF FInv, AgreeInv
  <2> QED BY <1>0, <2>1, <2>2, AgreesSame DEF Ends, Finish
<1>3. CASE RuntimeHealthy
  <2>1. /\ pc = "boundary" /\ degraded' = degraded
        /\ \E result \in {"ok", "degraded", "fatal"} : phase' = PhaseAfter(result)
    BY <1>3 DEF RuntimeHealthy, Finish
  <2> QED BY <1>0, <2>1 DEF Ends, Idle
<1> QED BY <1>1, <1>2, <1>3

LEMMA EndsWork ==
  ASSUME FInv, Work, pc' = "idle"
  PROVE  \E result \in {"ok", "degraded", "fatal"} : Ends(result)
<1>1. SameRows
  <2>1. CASE pc = "commit"
    <3>1. Commit
      BY <2>1
         DEF Work, Validate, ArchiveYaml, ArchiveState, Insert, Replace, Remove, Reload,
             WaitHealthy, ReconcileCommit, RecordFailure, Prune, Mark, Inspect, Settle,
             Clear, RuntimeHealthy
    <3> QED BY <3>1, <2>1, FailSame DEF Commit, Goto, FInv, IInv
  <2>2. CASE pc # "commit"
    BY <2>2, RowsStep DEF FInv, Next
  <2> QED BY <2>1, <2>2
<1> QED BY <1>1, EndsWrite, EndsDecide, EndsReconcile DEF Work

\* A job that goes on keeps the phase; it stays what it is, or becomes the
\* baseline of a start.
LEMMA WorkGoesOn ==
  ASSUME FInv, Work, pc' # "idle"
  PROVE  phase' = phase /\ job'.kind \in {job.kind, "baseline"}
<1>1. ~(\E result : Finish(result)) /\ ~Release
  BY DEF Finish, Release
<1>2. pc # "idle" /\ TypeOK /\ job \in Jobs
  BY DEF FInv, IInv, TypeOK, Work, Validate, ArchiveYaml, ArchiveState, Insert, Replace, Remove,
         Reload, WaitHealthy, Commit, ReconcileCommit, RecordFailure, Prune, Mark, Inspect,
         Settle, Clear, RuntimeHealthy
<1>3. CASE Fail
  BY <1>2, <1>3, FailSame DEF SameJob
<1>4. CASE ~Fail
  <2>1. phase' = phase
    BY <1>1, <1>4
       DEF Work, Validate, ArchiveYaml, ArchiveState, Insert, Replace, Remove, Reload,
           WaitHealthy, Commit, ReconcileCommit, RecordFailure, Prune, Mark, Inspect,
           InspectCutover, InspectRevision, InspectMatching, InspectFails, FinishAsMarked,
           Resume, Settle, Clear, RuntimeHealthy, Return, GotoMark, Goto, Replaced, Healthy
  <2>2. CASE \E reason : GotoMark(reason)
    BY <1>2, <2>2, GotoMarkSame DEF SameJob
  <2>3. CASE ~(\E reason : GotoMark(reason))
    <3>1. \/ job' \in {job, WriteBack, [job EXCEPT !.prev = yaml], [job EXCEPT !.goal = "republish"]}
          \/ \E goal \in {"repair", "verify"} : Resume(goal)
          \/ job' = PublicationJob("baseline", desired, now, TRUE)
      BY <1>1, <1>4, <2>3
         DEF Work, Validate, ArchiveYaml, ArchiveState, Insert, Replace, Remove, Reload,
             WaitHealthy, Commit, ReconcileCommit, RecordFailure, Prune, Mark, Inspect,
             InspectCutover, InspectRevision, InspectMatching, InspectFails, FinishAsMarked,
             Settle, Clear, RuntimeHealthy, Return, Goto, Replaced, Healthy
    <3>2. CASE \E goal \in {"repair", "verify"} : Resume(goal)
      BY <1>2, <3>2 DEF Resume, Jobs
    <3>3. CASE job' = PublicationJob("baseline", desired, now, TRUE)
      BY <2>1, <3>3 DEF PublicationJob
    <3> QED BY <1>2, <2>1, <3>1, <3>2, <3>3 DEF Jobs, WriteBack
  <2> QED BY <2>1, <2>2, <2>3
<1> QED BY <1>3, <1>4

\* The phase moves when a job ends, at a start and at a crash.
LEMMA PhaseMoves ==
  ASSUME FInv, [Next]_vars
  PROVE  phase' = phase \/ (Work /\ pc' = "idle") \/ Boot \/ Crash
<1>1. CASE Request \/ Runtime \/ Environment \/ UNCHANGED vars \/ Startup
  BY <1>1
     DEF Request, Manage, UpdateEndpoints, Expire, Rollback, Publish, RefuseUnverified,
         Startup, ReconcileAfterRuntime, Runtime, RunRuntime, ReloadRuntime,
         FinalizeRuntime, Environment, MihomoExits, InitStarts, Drift, Tick, vars
<1> QED BY <1>1, WorkGoesOn DEF Next

-----------------------------------------------------------------------------
(***************************************************************************)
(* The promise of the transaction: a panel that serves and is not degraded *)
(* agrees with its file whenever no job is about to change it.             *)
(***************************************************************************)
ClaimInv ==
  /\ "mark" \notin Faults /\ drifts = 0
  /\ Serving /\ degraded = "none" /\ pc \in {"idle", "reconcile", "boundary"}
  => Agrees

LEMMA ClaimEnds ==
  ASSUME FInv, ClaimInv, Work, pc' = "idle"
  PROVE  ClaimInv'
<1>1. PICK result \in {"ok", "degraded", "fatal"} : Ends(result)
  BY EndsWork
<1>2. SUFFICES ASSUME "mark" \notin Faults, drifts' = 0, Serving', degraded' = "none"
               PROVE  Agrees'
  BY DEF ClaimInv
<1>3. drifts = 0 /\ Undisturbed
  BY <1>2, WorkDrifts DEF Undisturbed
<1>4. Agrees' \/ Idle(result)
  BY <1>1, <1>2, <1>3 DEF Ends
<1>5. CASE Idle(result)
  <2>1. Serving
    BY <1>1, <1>2, <1>5
       DEF Ends, Idle, PhaseAfter, Serving, FInv, OwnerInv, PhaseInv, RouteInv
  <2>2. Agrees
    BY <1>2, <1>3, <1>5, <2>1 DEF ClaimInv, Idle
  <2> QED BY <1>5, <2>2, AgreesSame DEF Idle
<1> QED BY <1>4, <1>5

LEMMA ClaimStep == FInv /\ ClaimInv /\ [Next]_vars => ClaimInv'
<1> SUFFICES ASSUME FInv, ClaimInv, [Next]_vars PROVE ClaimInv'
  OBVIOUS
<1>1. CASE Work /\ pc' = "idle"
  BY <1>1, ClaimEnds
<1>2. CASE Work /\ pc' # "idle"
  <2>1. pc' \notin {"reconcile", "boundary"}
    BY <1>2, FailSame
       DEF Work, Validate, ArchiveYaml, ArchiveState, Insert, Replace, Remove, Reload,
           WaitHealthy, Commit, ReconcileCommit, RecordFailure, Prune, Mark, Inspect,
           InspectCutover, InspectRevision, InspectMatching, InspectFails, FinishAsMarked,
           Resume, Settle, Clear, RuntimeHealthy, Return, GotoMark, Goto, Replaced, Healthy,
           Finish, Release, FInv, IInv
  <2> QED BY <1>2, <2>1 DEF ClaimInv
<1>3. CASE Request
  BY <1>3 DEF ClaimInv, Request, Manage, UpdateEndpoints, Expire, Rollback, Publish,
              RefuseUnverified
<1>4. CASE Startup \/ Runtime \/ Environment \/ UNCHANGED vars
  <2>1. CASE Drift
    BY <2>1, WhoWrites DEF FInv, IInv, ClaimInv, Drift
  <2>2. CASE ~Drift
    <3>1. /\ UNCHANGED <<degraded, yaml, drifts>>
          /\ Serving' => Serving
          /\ pc' \in {"idle", "reconcile", "boundary"} /\ Serving'
               => pc \in {"idle", "reconcile", "boundary"}
      BY <1>4, <2>2
         DEF Startup, Boot, ReconcileAfterRuntime, Runtime, RunRuntime, ReloadRuntime,
             FinalizeRuntime, Environment, MihomoExits, InitStarts, Crash, Tick, vars,
             Serving, control, database, files, env
    <3>2. SameRows
      BY <1>4, RowsStep, CommitCommits, <2>2
         DEF FInv, Startup, Boot, ReconcileAfterRuntime, Runtime, RunRuntime, ReloadRuntime,
             FinalizeRuntime, Environment, MihomoExits, InitStarts, Crash, Tick, vars,
             database, SameRows, Active, ActiveIds, files
    <3> QED BY <3>1, <3>2, AgreesSame DEF ClaimInv
  <2> QED BY <2>1, <2>2
<1> QED BY <1>1, <1>2, <1>3, <1>4 DEF Next

\* In every instance, as long as degraded can be recorded and nobody edits the
\* YAML: whenever no job holds the coordinator and the system is not degraded,
\* SQLite, the active revision, its artifacts and the active YAML agree, after
\* every failure, uncertain commit and crash.
THEOREM SettledSystemAgrees ==
  ASSUME "mark" \notin Faults
  PROVE  Spec => [](drifts = 0 => SettledAgreement)
<1>1. Init => ClaimInv
  BY DEF Init, ClaimInv, Serving
<1>2. FInv /\ ClaimInv => (drifts = 0 => SettledAgreement)
  BY ActiveDigest DEF FInv, ClaimInv, SettledAgreement, ActiveVerified, Agrees
<1> QED BY <1>1, <1>2, ClaimStep, FInvInvariant, PTL DEF Spec

-----------------------------------------------------------------------------
(***************************************************************************)
(* Publication implements Configuration.  What a settled panel shows is    *)
(* the rendering of the active revision, and so is what SQLite promises    *)
(* meanwhile: one desired state and one of its renderings, replaced in the *)
(* one step that commits.                                                  *)
(***************************************************************************)
Promised == IF Active = 0 THEN None ELSE digest[Active]

\* A settled panel shows what is promised, a rendering of the desired state.
ShownInv ==
  /\ Shown = Promised
  /\ Active # 0 => \E t \in Times : desired \in Desired /\ Promised = Compile(desired, t)

LEMMA ShownHolds == FInv /\ ClaimInv /\ "mark" \notin Faults /\ drifts = 0 => ShownInv
<1> SUFFICES ASSUME FInv, ClaimInv, "mark" \notin Faults, drifts = 0 PROVE ShownInv
  OBVIOUS
<1>1. Shown = Promised
  BY DEF FInv, RowsInv, ActInv, ClaimInv, Agrees, Shown, Promised
<1>2. ASSUME Active # 0
      PROVE  \E t \in Times : desired \in Desired /\ Promised = Compile(desired, t)
  <2>1. Active \in Ids /\ ArtifactsIntact(Active)
        /\ digest[Active] = Compile(desired, snapshot[Active].asOf)
    BY <1>2, ActiveType, ActiveDigest DEF FInv, IInv
  <2>2. desired \in Desired /\ snapshot[Active].asOf \in Times
    BY <2>1 DEF FInv, IInv, TypeOK, ArtifactsIntact
  <2> QED BY <1>2, <2>1, <2>2 DEF Promised
<1> QED BY <1>1, <1>2 DEF ShownInv

LEMMA PromiseStep ==
  ASSUME FInv, [Next]_vars
  PROVE  \/ desired' = desired /\ Promised' = Promised
         \/ Active' # 0
<1>1. CASE SameRows
  BY <1>1 DEF SameRows, Promised
<1>2. CASE ~SameRows
  BY <1>2, RowsStep, CommittedRows DEF FInv, IInv
<1> QED BY <1>1, <1>2

LEMMA ConfigurationStep ==
  ASSUME FInv, ShownInv, ShownInv', [Next]_vars
  PROVE  [C!Next]_<<desired, Shown>>
<1>1. CASE desired' = desired /\ Promised' = Promised
  BY <1>1 DEF ShownInv
<1>2. CASE Active' # 0
  <2>1. PICK t \in Times : desired' \in Desired /\ Promised' = Compile(desired', t)
    BY <1>2 DEF ShownInv
  <2> DEFINE r == [state |-> desired', file |-> Compile(desired', t)]
  <2>2. C!Publish(r)
    BY <2>1 DEF C!Publish, ShownInv
  <2> QED BY <2>1, <2>2 DEF C!Next
<1> QED BY <1>1, <1>2, PromiseStep

\* In every instance in which degraded can be recorded and nobody edits the
\* YAML: the desired state and the file a settled panel shows are replaced
\* together, in one step; no failure, uncertain commit, undo, crash or repair
\* ever shows another pair.
THEOREM PublicationIsAtomic ==
  ASSUME "mark" \notin Faults, DriftAt = {}
  PROVE  Spec => ImplementsConfiguration
<1> DEFINE Settled == FInv /\ ClaimInv /\ drifts = 0
<1>1. Init => C!Init /\ Settled
  BY FInvInit DEF Init, C!Init, ClaimInv, Serving, Shown, Active, ActiveIds
<1>2. Settled /\ [Next]_vars => Settled'
  BY FInvStep, ClaimStep, WhoWrites DEF FInv, IInv, Drift
<1>3. Settled => FInv /\ ShownInv
  BY ShownHolds
<1>4. FInv /\ ShownInv /\ ShownInv' /\ [Next]_vars => [C!Next]_<<desired, Shown>>
  BY ConfigurationStep
<1> HIDE DEF Settled
<1> QED BY <1>1, <1>2, <1>3, <1>4, PTL DEF Spec, ImplementsConfiguration, C!Spec

-----------------------------------------------------------------------------
(***************************************************************************)
(* The phases of a supervised Mihomo's panel before it listens, and what a *)
(* start has seen when it reaches the next phase.                          *)
(***************************************************************************)
Guarded == drifts = 0 \/ (DriftAt \subseteq Quiet /\ (Native \/ "idle" \notin DriftAt))

PanelInv ==
  /\ Native => phase \notin {"starting", "held"}
  /\ ~Native => ~finalizer /\ job.kind # "finalizer"
  /\ job.kind = "publication" => Listening
  /\ phase = "starting" => pc \in {"idle", "boundary"}
  /\ Guarded /\ phase = "starting" /\ degraded = "none" => Agrees

LEMMA PanelEnds ==
  ASSUME FInv, PanelInv, Work, pc' = "idle"
  PROVE  PanelInv'
<1>1. PICK result \in {"ok", "degraded", "fatal"} : Ends(result)
  BY EndsWork
<1>2. drifts' = drifts /\ finalizer' = finalizer
  BY WorkDrifts
     DEF Work, Validate, ArchiveYaml, ArchiveState, Insert, Replace, Remove, Reload,
         WaitHealthy, Commit, ReconcileCommit, RecordFailure, Prune, Mark, Inspect, Settle,
         Clear, RuntimeHealthy, env
<1>3. job'.kind = "none"
  BY FInvStep DEF FInv, OwnerInv, PhaseInv, Next
<1>4. phase' = PhaseAfter(result)
  BY <1>1 DEF Ends
<1>5. Native => phase' \notin {"starting", "held"}
  BY <1>4 DEF PanelInv, PhaseAfter
<1>6. CASE phase' = "starting"
  <2>1. phase = "prerun" /\ job.kind \in {"startup", "baseline"} /\ result # "fatal" /\ ~Native
    BY <1>4, <1>6 DEF PhaseAfter, PanelInv, FInv, OwnerInv, PhaseInv, RouteInv, Work,
         Validate, ArchiveYaml, ArchiveState, Insert, Replace, Remove, Reload,
         WaitHealthy, Commit, ReconcileCommit, RecordFailure, Prune, Mark, Inspect, Settle,
         Clear, RuntimeHealthy
  <2>2. ~Idle(result)
    BY <2>1 DEF Idle, FInv, OwnerInv, PhaseInv, RouteInv
  <2>3. Guarded /\ degraded' = "none" => Agrees'
    BY <1>1, <2>1, <2>2 DEF Ends, Guarded, Undisturbed
  <2> QED BY <1>2, <1>3, <1>5, <2>3 DEF PanelInv, Guarded
<1> QED BY <1>2, <1>3, <1>5, <1>6 DEF PanelInv

LEMMA PanelStep == FInv /\ PanelInv /\ [Next]_vars => PanelInv'
<1> SUFFICES ASSUME FInv, PanelInv, [Next]_vars PROVE PanelInv'
  OBVIOUS
<1>0. job \in Jobs
  BY DEF FInv, IInv, TypeOK
<1>1. CASE Work /\ pc' = "idle"
  BY <1>1, PanelEnds
<1>2. CASE Work /\ pc' # "idle"
  <2>1. phase' = phase /\ job'.kind \in {job.kind, "baseline"} /\ finalizer' = finalizer
    BY <1>2, WorkGoesOn
       DEF Work, Validate, ArchiveYaml, ArchiveState, Insert, Replace, Remove, Reload,
           WaitHealthy, Commit, ReconcileCommit, RecordFailure, Prune, Mark, Inspect, Settle,
           Clear, RuntimeHealthy, env
  <2>2. phase # "starting"
    <3>1. pc # "idle" /\ (pc = "boundary" => pc' = "idle")
      BY <1>2
         DEF Work, Validate, ArchiveYaml, ArchiveState, Insert, Replace, Remove, Reload,
             WaitHealthy, Commit, ReconcileCommit, RecordFailure, Prune, Mark, Inspect, Settle,
             Clear, RuntimeHealthy, Finish, Release
    <3> QED BY <1>2, <3>1 DEF PanelInv
  <2> QED BY <2>1, <2>2 DEF PanelInv, Listening, Serving
<1>3. CASE Request
  <2>1. /\ job'.kind = "publication" /\ phase' = phase /\ finalizer' = finalizer /\ Listening
    <3>1. ASSUME NEW cfg, NEW asOf, NEW restart, Publish(cfg, asOf, restart)
          PROVE  /\ job'.kind = "publication" /\ phase' = phase /\ finalizer' = finalizer
                 /\ Listening
      BY <3>1 DEF Publish, MayPublish, PublicationJob, env
    <3>2. CASE RefuseUnverified
      <4>1. job' = [NoJob EXCEPT !.kind = "publication", !.mark = "publication"]
        BY <3>2 DEF RefuseUnverified
      <4>2. job'.kind = "publication"
        BY <4>1 DEF NoJob
      <4> QED BY <3>2, <4>2 DEF RefuseUnverified, MayPublish, env
    <3> QED BY <1>3, <3>1, <3>2 DEF Request, Manage, UpdateEndpoints, Expire, Rollback
  <2>2. phase # "starting"
    BY <2>1 DEF PanelInv, Listening
  <2> QED BY <2>1, <2>2 DEF PanelInv, Listening, Serving
<1>4. CASE Drift
  <2>1. /\ UNCHANGED <<phase, finalizer, pc, job, degraded>> /\ pc \in DriftAt
        /\ drifts' # 0
    BY <1>4, WhoWrites DEF FInv, IInv, Drift, control, database
  <2>2. Guarded' => phase # "starting"
    BY <2>1 DEF Guarded, Quiet, PanelInv
  <2> QED BY <2>1, <2>2 DEF PanelInv, Listening, Serving
<1>5. CASE (Startup \/ Runtime \/ Environment \/ UNCHANGED vars) /\ ~Drift
  <2>1. UNCHANGED <<degraded, yaml, drifts>>
    BY <1>5
       DEF Startup, Boot, ReconcileAfterRuntime, Runtime, RunRuntime, ReloadRuntime,
           FinalizeRuntime, Environment, MihomoExits, InitStarts, Crash, Tick, vars,
           database, files, env
  <2>2. SameRows
    BY <1>5
       DEF Startup, Boot, ReconcileAfterRuntime, Runtime, RunRuntime, ReloadRuntime,
           FinalizeRuntime, Environment, MihomoExits, InitStarts, Crash, Tick, vars,
           database, SameRows, Active, ActiveIds, files
  <2>3. Guarded' = Guarded /\ Agrees' = Agrees
    BY <2>1, <2>2, AgreesSame DEF Guarded
  <2>4. CASE UNCHANGED <<phase, pc, job>> /\ (finalizer' => finalizer \/ Native)
    BY <2>1, <2>3, <2>4, SwitchesAssumption DEF PanelInv, Listening, Serving
  <2>5. CASE Boot \/ ReconcileAfterRuntime
    <3>1. /\ job'.kind = "startup" /\ phase' \in {"prerun", "serving", "held"}
          /\ finalizer' = finalizer
      BY <2>5 DEF Boot, ReconcileAfterRuntime, ReconcileJob, NoJob, env
    <3>2. phase' = "held" => phase = "held"
      BY <2>5 DEF Boot, ReconcileAfterRuntime
    <3> QED BY <3>1, <3>2 DEF PanelInv
  <2>6. CASE RunRuntime
    BY <2>1, <2>3, <2>6 DEF RunRuntime, NoJob, PanelInv, env
  <2>7. CASE FinalizeRuntime /\ ~UNCHANGED <<pc, job>>
    <3>1. /\ job'.kind = "finalizer" /\ finalizer /\ ~finalizer' /\ phase' = phase
      BY <2>7 DEF FinalizeRuntime, ReconcileJob, NoJob, control
    <3>2. Native
      BY <3>1 DEF PanelInv
    <3> QED BY <3>1, <3>2 DEF PanelInv
  <2>8. CASE Crash
    <3>1. /\ phase' = "down" /\ (finalizer' => finalizer)
          /\ (UNCHANGED <<pc, job>> /\ job.kind = "finalizer") \/ job'.kind = "none"
      BY <2>8, NoJobFields DEF Crash, Release, control
    <3> QED BY <3>1 DEF PanelInv
  <2>9. CASE \/ ReloadRuntime \/ MihomoExits \/ InitStarts \/ Tick \/ UNCHANGED vars
             \/ FinalizeRuntime /\ UNCHANGED <<pc, job>>
    <3>1. UNCHANGED <<phase, pc, job>> /\ (finalizer' => finalizer \/ Native)
      BY <2>9 DEF ReloadRuntime, MihomoExits, InitStarts, Tick, FinalizeRuntime, control,
                  vars, env
    <3> QED BY <2>4, <3>1
  <2> QED BY <1>5, <2>5, <2>6, <2>7, <2>8, <2>9 DEF Startup, Runtime, Environment
<1> QED BY <1>1, <1>2, <1>3, <1>4, <1>5 DEF Next

\* What a start has seen when it reaches the next phase.
LEMMA StartSees ==
  ASSUME FInv, PanelInv, Guarded, [Next]_vars,
         phase' # phase, phase' \in {"starting", "held", "serving", "steady"}
  PROVE  degraded' # "none" \/ ActiveVerified'
<1>0. IInv'
  BY FInvStep DEF FInv
<1>1. Work /\ pc' = "idle"
  BY PhaseMoves DEF Boot, Crash
<1>2. PICK result \in {"ok", "degraded", "fatal"} : Ends(result)
  BY <1>1, EndsWork
<1>3. CASE phase = "starting"
  <2>1. Agrees \/ degraded # "none"
    BY <1>3 DEF PanelInv
  <2>2. pc = "boundary" /\ RuntimeHealthy
    BY <1>1, <1>3
       DEF PanelInv, Work, Validate, ArchiveYaml, ArchiveState, Insert, Replace, Remove,
           Reload, WaitHealthy, Commit, ReconcileCommit, RecordFailure, Prune, Mark,
           Inspect, Settle, Clear, RuntimeHealthy
  <2>3. UNCHANGED <<degraded, yaml>> /\ SameRows
    BY <2>2 DEF RuntimeHealthy, files, SameRows, Active, ActiveIds
  <2>4. Agrees' \/ degraded' # "none"
    BY <2>1, <2>3, AgreesSame
  <2> QED BY <1>0, <2>4, ActiveDigest, PTL DEF ActiveVerified, Agrees
<1>4. CASE phase # "starting"
  <2>1. /\ job.kind \in {"startup", "baseline"} /\ result # "fatal"
        /\ phase = "prerun" \/ degraded' # "none" \/ result = "ok"
    BY <1>2, <1>4 DEF Ends, PhaseAfter
  <2>2. Idle(result) => degraded' # "none"
    BY <2>1 DEF Idle, FInv, OwnerInv, PhaseInv, RouteInv
  <2>3. Agrees' \/ degraded' # "none"
    BY <1>2, <2>1, <2>2 DEF Ends, Guarded, Undisturbed
  <2> QED BY <1>0, <2>3, ActiveDigest, PTL DEF ActiveVerified, Agrees
<1> QED BY <1>3, <1>4

\* In every instance whose YAML is edited at the quiet points only (and not
\* between the reconciliation and the start of a supervised Mihomo): a startup
\* reaches the next phase only with agreement or a durable marker, also when
\* writing the marker fails.
THEOREM StartupIsFailClosed ==
  ASSUME DriftAt \subseteq {"idle", "archive", "snapshot", "insert"},
         Native \/ "idle" \notin DriftAt
  PROVE  Spec => StartupFailsClosed
<1>1. Init => PanelInv
  BY NoJobFields DEF Init, PanelInv
<1>2. Guarded
  BY DEF Guarded, Quiet
<1>3. FInv /\ PanelInv /\ [Next]_vars =>
        [phase' # phase /\ phase' \in {"starting", "held", "serving", "steady"}
          => degraded' # "none" \/ ActiveVerified']_vars
  BY <1>2, StartSees
<1> QED BY <1>1, <1>3, PanelStep, FInvInvariant, PTL DEF Spec, StartupFailsClosed

-----------------------------------------------------------------------------
(***************************************************************************)
(* Without failing steps and edits no job ever marks the system degraded:  *)
(* what the crashes leave behind is what the next startup expects.  Calm   *)
(* says why: no job takes the paths of a failure, Mihomo runs whenever a   *)
(* job is going to ask it, a finalizer finds the file of the active        *)
(* revision, and a pending cutover finds the empty desired state.          *)
(***************************************************************************)
Calm ==
  /\ degraded = "none" /\ job.mark = "none" /\ phase # "held"
  /\ pc \notin {"record", "remove", "mark", "uncertain", "settle"}
  /\ job.goal \notin {"restore", "republish"}
  /\ job.goal = "repair" => phase = "prerun" /\ pc \in {"candidate", "replace"}
  /\ pc \in {"health", "boundary"} => running # Stopped
  /\ job.goal = "verify" => running # Stopped
  /\ pc = "reconcile" /\ phase # "prerun" => running # Stopped
  /\ ~Native /\ phase = "serving" => running # Stopped
  /\ finalizer => running # Stopped
  /\ job.kind = "finalizer" => ~finalizer /\ running # Stopped /\ Active # 0 /\ Agrees
  /\ r3 => desired.nodes = NoNodes
  /\ job.kind = "publication" => ~r3
  /\ job.kind = "baseline" => job.cfg.nodes = NoNodes
  /\ job.kind = "baseline" /\ pc = "prune" => Active = job.id

CalmInv == drifts = 0 => Calm

\* The file of an active revision is a file Mihomo can run with.
LEMMA AgreesRuns ==
  ASSUME IInv, Active # 0, Agrees
  PROVE  yaml \in Desired /\ yaml # Absent /\ yaml # Stopped
  BY ActiveDigest, DistinctAssumption DEF Agrees

\* A panel that serves without a job agrees with its file.
LEMMA CalmServes ==
  ASSUME FInv, ClaimInv, Faults = {}, drifts = 0, Calm, Serving,
         pc \in {"idle", "reconcile", "boundary"}
  PROVE  Active # 0 /\ Agrees /\ ActiveVerified
<1>1. Active # 0 /\ Agrees
  BY DEF FInv, RowsInv, ActInv, ClaimInv, Calm
<1> QED BY <1>1, ActiveDigest DEF FInv, ActiveVerified, Agrees

\* A job that returns "ok".
LEMMA CalmFinish ==
  ASSUME FInv, PanelInv, Calm, SameRows, Finish("ok"), pc # "idle",
         degraded' = "none", r3' => r3, finalizer' = finalizer
  PROVE  Calm'
<1>1. pc' = "idle" /\ job' = NoJob /\ phase' = PhaseAfter("ok")
  BY DEF Finish, Release
<1>2. ~Native => phase # "down"
  BY DEF PanelInv, FInv, OwnerInv, PhaseInv, IInv, TypeOK, Jobs, Serving
<1>3. phase' # "down" \/ Native
  BY <1>1, <1>2 DEF PhaseAfter
<1>4. running' = running
  BY <1>3 DEF Finish
<1>5. phase' # "held"
  BY <1>1 DEF PhaseAfter, Calm
<1>6. ~Native /\ phase' = "serving" => running # Stopped
  BY <1>1 DEF PhaseAfter, Calm, FInv, OwnerInv, RouteInv
<1> QED BY <1>1, <1>4, <1>5, <1>6, NoJobFields DEF Calm, SameRows

\* A job that goes on.
LEMMA CalmGo ==
  ASSUME Calm, SameRows,
         phase' = phase, finalizer' = finalizer, degraded' = degraded, r3' = r3,
         running' = running \/ running' # Stopped,
         job'.kind = job.kind, job'.goal = job.goal, job'.mark = job.mark,
         job'.cfg = job.cfg, job'.id = job.id,
         pc' \notin {"record", "remove", "mark", "uncertain", "settle", "boundary", "reconcile"},
         pc' = "prune" => pc = "prune",
         pc' = "health" => running' # Stopped,
         job.goal = "repair" => pc' \in {"candidate", "replace"},
         job.kind = "finalizer" => Agrees'
  PROVE  Calm'
  BY DEF Calm, SameRows

LEMMA CalmWrite ==
  ASSUME FInv, PanelInv, Calm, SameRows, Faults = {}, drifts = 0,
         Validate \/ ArchiveYaml \/ ArchiveState \/ Insert \/ Replace \/ Remove
           \/ Reload \/ WaitHealthy
  PROVE  Calm'
<1>0. /\ TypeOK /\ GoalInv /\ job \in Jobs /\ pc # "idle" /\ Undisturbed
      /\ degraded' = degraded /\ r3' = r3 /\ finalizer' = finalizer
  BY DEF FInv, IInv, JobInv, TypeOK, Undisturbed, Validate, ArchiveYaml, ArchiveState,
         Insert, Replace, Remove, Reload, WaitHealthy, database, env
<1>1. job.goal \in {"forward", "repair", "verify"}
  BY <1>0
     DEF FInv, OwnerInv, RouteInv, Jobs, Goals, Calm, Validate, ArchiveYaml, ArchiveState,
         Insert, Replace, Remove, Reload, WaitHealthy
<1>2. ~Remove
  BY DEF Remove, Calm
<1>3. CASE Validate
  <2>1. /\ pc' = CASE job.goal = "forward" -> "archive"
                   [] job.goal = "verify"  -> "reload"
                   [] OTHER                -> "replace"
        /\ job' \in {job, [job EXCEPT !.prev = yaml]}
        /\ phase' = phase /\ running' = running /\ yaml' = yaml
    BY <1>3 DEF Validate, Calm
  <2>2. /\ job'.kind = job.kind /\ job'.goal = job.goal /\ job'.mark = job.mark
        /\ job'.cfg = job.cfg /\ job'.id = job.id
    BY <1>0, <2>1 DEF Jobs
  <2> QED BY <1>0, <1>1, <2>1, <2>2, AgreesSame, CalmGo DEF Calm
<1>4. CASE ArchiveYaml \/ ArchiveState \/ Insert
  <2>0. pc = "insert" => ~ChangedSinceVerified
    BY <1>0 DEF ChangedSinceVerified, FInv, FileInv, RowsInv, BaseInv, BeforeOutcome, Writes,
                GoalInv
  <2>1. /\ pc' \in {"snapshot", "insert", "replace"} /\ job.goal = "forward"
        /\ job' = job /\ phase' = phase /\ running' = running /\ yaml' = yaml
    BY <1>0, <1>4, <2>0 DEF ArchiveYaml, ArchiveState, Insert, Goto, GoalInv
  <2> QED BY <1>0, <1>1, <2>1, AgreesSame, CalmGo DEF Calm
<1>5. CASE Replace
  <2>0. pc = "replace" /\ yaml' = Content /\ Replaced
    BY <1>5 DEF Replace
  <2>1. CASE job.goal = "repair"
    <3>1. Finish("ok")
      BY <2>0, <2>1 DEF Replaced, Calm
    <3> QED BY <1>0, <3>1, CalmFinish DEF Calm
  <2>2. CASE job.goal # "repair"
    <3>1. /\ job' = job /\ phase' = phase /\ running' = running
          /\ pc' \in {"commit", "reload"}
      BY <1>1, <2>0, <2>2 DEF Replaced, Goto
    <3>2. job.kind = "finalizer" => Agrees'
      BY <1>1, <2>0, <2>2, RepairContent
         DEF FInv, OwnerInv, RouteInv, Agrees, SameRows
    <3> QED BY <1>0, <2>2, <3>1, <3>2, CalmGo
  <2> QED BY <2>1, <2>2
<1>6. CASE Reload
  <2>0. pc = "reload" /\ yaml' = yaml
    BY <1>6 DEF Reload, files
  <2>1. yaml \in Desired
    <3>1. CASE job.goal = "forward"
      BY <1>0, <2>0, <3>1, CandidateType DEF FInv, FileInv
    <3>2. CASE job.goal \in {"repair", "verify"}
      <4>1. Active # 0 /\ Agrees
        BY <1>0, <2>0, <3>2 DEF FInv, RowsInv, ActInv, AgreeInv
      <4> QED BY <4>1, AgreesRuns DEF FInv
    <3> QED BY <1>1, <3>1, <3>2
  <2>2. pc' = "health" /\ job' = job /\ phase' = phase /\ running' = yaml
    BY <1>6, <2>1 DEF Reload
  <2>3. running' # Stopped
    BY <2>1, <2>2, DistinctAssumption
  <2> QED BY <1>0, <2>0, <2>2, <2>3, AgreesSame, CalmGo DEF Calm
<1>7. CASE WaitHealthy
  <2>1. /\ pc = "health" /\ yaml' = yaml /\ running' = running
        /\ Healthy
    BY <1>7 DEF WaitHealthy, Calm, files, Healthy, Goto
  <2>2. pc' \in {"commit", "clear"} /\ job' = job /\ phase' = phase /\ job.goal # "repair"
    BY <1>1, <2>1 DEF Healthy, Goto, Calm
  <2> QED BY <1>0, <2>1, <2>2, AgreesSame, CalmGo DEF Calm
<1> QED BY <1>2, <1>3, <1>4, <1>5, <1>6, <1>7

LEMMA CalmCommit ==
  ASSUME FInv, Calm, Faults = {}, Commit
  PROVE  Calm'
<1>1. /\ pc = "commit" /\ Committed /\ pc' = "prune" /\ job' = job /\ phase' = phase
      /\ running' = running /\ finalizer' = finalizer /\ UNCHANGED <<archive, snapshot>>
  BY DEF Commit, Goto, files, env
<1>2. job.goal = "forward" /\ job.kind \in {"publication", "baseline"}
  BY <1>1 DEF FInv, IInv, JobInv, GoalInv, OwnerInv, RouteInv
<1>3. Active' = job.id
  BY <1>1, CommittedRows DEF FInv
<1>4. desired' = job.cfg /\ degraded' = degraded /\ r3' = r3
  BY <1>1 DEF Committed
<1> QED BY <1>1, <1>2, <1>3, <1>4 DEF Calm

LEMMA CalmReconcile ==
  ASSUME FInv, PanelInv, ClaimInv, Calm, SameRows, Faults = {}, drifts = 0,
         ReconcileCommit \/ RecordFailure \/ Prune \/ Mark
           \/ Inspect \/ Settle \/ Clear \/ RuntimeHealthy
  PROVE  Calm'
<1>0. /\ TypeOK /\ GoalInv /\ job \in Jobs /\ Undisturbed
      /\ finalizer' = finalizer /\ yaml' = yaml
  BY DEF FInv, IInv, JobInv, TypeOK, Undisturbed, ReconcileCommit, RecordFailure, Prune,
         Mark, Inspect, Settle, Clear, RuntimeHealthy, env, files
<1>1. ~ReconcileCommit /\ ~RecordFailure /\ ~Mark /\ ~Settle
  BY DEF ReconcileCommit, RecordFailure, Mark, Settle, Calm
<1>2. CASE Prune
  <2>1. pc = "prune" /\ degraded' = degraded /\ r3' = r3
    BY <1>2 DEF Prune
  <2>2. CASE Goto("prune")
    BY <1>0, <2>1, <2>2, AgreesSame, CalmGo DEF Goto, Calm
  <2>3. CASE Return(job.mark)
    <3>1. Finish("ok")
      BY <2>1, <2>3 DEF Return, Calm
    <3> QED BY <1>0, <2>1, <3>1, CalmFinish DEF Calm
  <2> QED BY <1>2, <2>2, <2>3 DEF Prune
<1>3. CASE Inspect
  <2>0. /\ pc = "reconcile" /\ r3' = r3 /\ ~InspectFails
        /\ job.kind \in {"startup", "finalizer"}
    BY <1>3 DEF Inspect, InspectFails, FInv, OwnerInv, RouteInv
  <2>1. phase # "prerun" => Active # 0 /\ Agrees
    <3>1. CASE job.kind = "finalizer"
      BY <3>1 DEF Calm
    <3>2. CASE job.kind = "startup" /\ phase # "prerun"
      <4>1. Serving
        BY <3>2 DEF FInv, OwnerInv, PhaseInv, Serving
      <4> QED BY <2>0, <4>1, CalmServes
    <3> QED BY <2>0, <3>1, <3>2
  <2>2. CASE InspectCutover /\ r3
             /\ (Active = 0 \/ desired.nodes # NoNodes \/ (phase # "prerun" /\ pending))
    <3>1. CASE pc' = "candidate"
      <4>1. /\ phase' = phase /\ running' = running /\ degraded' = "none" /\ phase = "prerun"
            /\ Active = 0
            /\ job' = PublicationJob("baseline", desired, now, TRUE)
        BY <2>2, <3>1 DEF InspectCutover, GotoMark, Finish, Release, Calm
      <4>2. /\ job'.kind = "baseline" /\ job'.goal = "forward" /\ job'.mark = "none"
            /\ job'.cfg = desired
        BY <4>1 DEF PublicationJob
      <4> QED BY <1>0, <2>0, <2>2, <3>1, <4>1, <4>2 DEF Calm, SameRows
    <3>2. CASE pc' # "candidate"
      <4>1. /\ Finish("degraded") /\ degraded' = degraded /\ phase # "prerun"
        BY <2>1, <2>2, <3>2 DEF InspectCutover, Calm
      <4>2. /\ pc' = "idle" /\ job' = NoJob
            /\ phase' = PhaseAfter("degraded")
        BY <4>1 DEF Finish, Release
      <4>3. ~Native => ~finalizer /\ phase' # "serving"
        BY <2>0, <4>1, <4>2
           DEF PanelInv, PhaseAfter, FInv, OwnerInv, PhaseInv, Calm
      <4>4. phase' # "held"
        BY <4>1, <4>2 DEF PhaseAfter, Calm
      <4>5. finalizer => running' = running
        BY <4>1, <4>3 DEF Finish, Calm
      <4> QED BY <1>0, <2>0, <4>1, <4>2, <4>3, <4>4, <4>5, NoJobFields DEF Calm, SameRows
    <3> QED BY <3>1, <3>2
  <2>3. CASE InspectRevision /\ UNCHANGED degraded
    <3>1. CASE \E goal \in {"repair", "verify"} : Resume(goal)
      <4>1. PICK goal \in {"repair", "verify"} : Resume(goal)
        BY <3>1
      <4>2. goal = "repair" => phase = "prerun"
        <5>1. CASE goal = "repair"
          <6>1. Resume("repair") /\ pc' = "candidate" /\ job'.goal = "repair"
            BY <1>0, <4>1, <5>1 DEF Resume, Jobs
          <6>2. ~(\E result : Finish(result)) /\ (~ \E m : GotoMark(m)) /\ ~Resume("verify")
            BY <1>0, <6>1 DEF Resume, Finish, Release, GotoMark, Jobs
          <6>3. Active # 0 /\ yaml # digest[Active]
            BY <2>3, <6>2 DEF InspectRevision, InspectMatching, FinishAsMarked
          <6> QED BY <2>1, <6>3 DEF Agrees
        <5> QED BY <5>1
      <4>3. goal = "verify" => running # Stopped
        <5>1. CASE goal = "verify"
          <6>1. Resume("verify") /\ pc' = "candidate" /\ job'.goal = "verify"
            BY <1>0, <4>1, <5>1 DEF Resume, Jobs
          <6>2. ~(\E result : Finish(result)) /\ (~ \E m : GotoMark(m)) /\ ~Resume("repair")
            BY <1>0, <6>1 DEF Resume, Finish, Release, GotoMark, Jobs
          <6>3. phase # "prerun"
            BY <2>3, <6>2 DEF InspectRevision, InspectMatching, FinishAsMarked, Calm
          <6> QED BY <2>0, <6>3 DEF Calm
        <5> QED BY <5>1
      <4>4. /\ pc' = "candidate" /\ phase' = phase /\ running' = running
            /\ job'.kind = job.kind /\ job'.goal = goal /\ job'.mark = job.mark
        BY <1>0, <4>1 DEF Resume, Jobs
      <4> QED BY <1>0, <2>0, <2>3, <4>2, <4>3, <4>4, AgreesSame DEF Calm, SameRows
    <3>2. CASE ~ \E goal \in {"repair", "verify"} : Resume(goal)
      <4>1. Active # 0 => ArtifactsIntact(Active) /\ DesiredMatches(Active)
        BY ActiveDigest DEF FInv
      <4>2. Finish("ok")
        BY <2>3, <3>2, <4>1 DEF InspectRevision, InspectMatching, FinishAsMarked, Calm
      <4> QED BY <1>0, <2>0, <2>3, <4>2, CalmFinish DEF Calm
    <3> QED BY <3>1, <3>2
  <2> QED BY <1>3, <2>0, <2>2, <2>3 DEF Inspect
<1>4. CASE Clear
  <2>1. pc = "clear" /\ degraded' = "none" /\ r3' = FALSE /\ Finish("ok")
    BY <1>4 DEF Clear, Calm
  <2> QED BY <1>0, <2>1, CalmFinish
<1>5. CASE RuntimeHealthy
  <2>1. pc = "boundary" /\ degraded' = degraded /\ r3' = r3 /\ Finish("ok")
    BY <1>5 DEF RuntimeHealthy, Calm
  <2> QED BY <1>0, <2>1, CalmFinish DEF Calm
<1> QED BY <1>1, <1>2, <1>3, <1>4, <1>5

LEMMA CalmRequest ==
  ASSUME FInv, ClaimInv, Calm, SameRows, Faults = {}, drifts = 0, Request
  PROVE  Calm'
<1>1. ASSUME NEW cfg, NEW asOf, NEW restart, Publish(cfg, asOf, restart)
      PROVE  Calm'
  <2>1. /\ job' = PublicationJob("publication", cfg, asOf, restart) /\ pc' = "candidate"
        /\ ~r3 /\ UNCHANGED <<degraded, r3, running, phase, finalizer>>
    BY <1>1 DEF Publish, MayPublish, database, env
  <2>2. job'.kind = "publication" /\ job'.goal = "forward" /\ job'.mark = "none"
    BY <2>1 DEF PublicationJob
  <2> QED BY <2>1, <2>2 DEF Calm, SameRows
<1>2. ~RefuseUnverified
  <2>1. SUFFICES ASSUME RefuseUnverified PROVE FALSE
    OBVIOUS
  <2>2. pc = "idle" /\ Serving /\ ~ActiveVerified
    BY <2>1 DEF RefuseUnverified, MayPublish, Listening, Serving
  <2> QED BY <2>2, CalmServes
<1> QED BY <1>1, <1>2 DEF Request, Manage, UpdateEndpoints, Expire, Rollback

LEMMA CalmOthers ==
  ASSUME FInv, PanelInv, ClaimInv, Calm, SameRows, Faults = {}, drifts = 0, drifts' = 0,
         Startup \/ Runtime \/ Environment \/ UNCHANGED vars
  PROVE  Calm'
<1>0. ~Drift /\ ~MihomoExits
  BY WhoWrites DEF Drift, MihomoExits, FInv, IInv, TypeOK
<1>1. UNCHANGED <<degraded, r3, yaml>> /\ Agrees' = Agrees
  <2>1. UNCHANGED <<degraded, r3, yaml>>
    BY <1>0 DEF Startup, Boot, ReconcileAfterRuntime, Runtime, RunRuntime, ReloadRuntime,
         FinalizeRuntime, Environment, InitStarts, Crash, Tick, vars, database, files
  <2> QED BY <2>1, AgreesSame
<1>2. yaml # Absent => yaml # Stopped
  BY DistinctAssumption DEF FInv, IInv, TypeOK, Yamls
<1>3. CASE Boot \/ ReconcileAfterRuntime
  <2>1. /\ job' = ReconcileJob("startup") /\ pc' = "reconcile" /\ running' = running
        /\ finalizer' = finalizer
        /\ phase' \in {"prerun", phase}
        /\ phase' # "prerun" => phase = "serving" /\ (running # Stopped \/ ~Native)
    BY <1>3 DEF Boot, ReconcileAfterRuntime, env, Calm
  <2>2. job'.kind = "startup" /\ job'.goal = "none" /\ job'.mark = "none"
    BY <2>1 DEF ReconcileJob, NoJob
  <2> QED BY <1>1, <2>1, <2>2 DEF Calm, SameRows
<1>4. CASE RunRuntime
  <2>1. Serving /\ pc = "idle"
    BY <1>4 DEF RunRuntime
  <2>2. yaml # Absent /\ yaml # Stopped
    BY <2>1, CalmServes, AgreesRuns DEF FInv
  <2>3. /\ running' = yaml /\ pc' = "boundary" /\ phase' = phase /\ finalizer' = finalizer
        /\ job' = [NoJob EXCEPT !.kind = "boundary"]
    BY <1>4, <2>2 DEF RunRuntime, env
  <2>4. job'.kind = "boundary" /\ job'.goal = "none" /\ job'.mark = "none"
    BY <2>3 DEF NoJob
  <2> QED BY <1>1, <2>2, <2>3, <2>4 DEF Calm, SameRows
<1>5. CASE ReloadRuntime
  <2>1. running' = yaml /\ yaml # Absent /\ UNCHANGED <<pc, job, phase, finalizer>>
    BY <1>5 DEF ReloadRuntime, control, env
  <2> QED BY <1>1, <1>2, <2>1 DEF Calm, SameRows
<1>6. CASE FinalizeRuntime
  <2>1. Serving /\ pc = "idle" /\ finalizer
    BY <1>6 DEF FinalizeRuntime
  <2>2. Active # 0 /\ Agrees
    BY <2>1, CalmServes
  <2>3. /\ running' = running /\ pc' = "reconcile" /\ phase' = phase /\ ~finalizer'
        /\ job' = ReconcileJob("finalizer")
    BY <1>6 DEF FinalizeRuntime
  <2>4. job'.kind = "finalizer" /\ job'.goal = "none" /\ job'.mark = "none"
    BY <2>3 DEF ReconcileJob, NoJob
  <2> QED BY <1>1, <2>1, <2>2, <2>3, <2>4 DEF Calm, SameRows
<1>7. CASE InitStarts
  <2>1. /\ running = Stopped /\ running' = yaml /\ yaml # Absent
        /\ UNCHANGED <<pc, job, phase>>
    BY <1>7 DEF InitStarts, control
  <2> QED BY <1>1, <1>2, <2>1 DEF Calm, SameRows
<1>8. CASE Crash
  <2>1. CASE job' = NoJob /\ pc' = "idle"
    <3>1. phase' = "down" /\ (finalizer' => finalizer /\ running' = running)
      BY <1>8 DEF Crash
    <3> QED BY <1>1, <2>1, <3>1, NoJobFields DEF Calm, SameRows
  <2>2. CASE ~(job' = NoJob /\ pc' = "idle")
    <3>1. /\ phase' = "down" /\ job.kind = "finalizer"
          /\ UNCHANGED <<pc, job, running, finalizer>>
      BY <1>8, <2>2 DEF Crash, Release, control
    <3>2. job.goal # "repair"
      BY <3>1 DEF Calm, FInv, OwnerInv, PhaseInv
    <3> QED BY <1>1, <3>1, <3>2 DEF Calm, SameRows
  <2> QED BY <2>1, <2>2
<1>9. CASE Tick \/ UNCHANGED vars
  <2>1. UNCHANGED <<pc, job, running, finalizer, phase>>
    BY <1>9 DEF Tick, vars, control
  <2> QED BY <1>1, <2>1 DEF Calm, SameRows
<1> QED BY <1>0, <1>3, <1>4, <1>5, <1>6, <1>7, <1>8, <1>9
        DEF Startup, Runtime, Environment

LEMMA CalmStep ==
  ASSUME Faults = {}
  PROVE  FInv /\ PanelInv /\ ClaimInv /\ CalmInv /\ [Next]_vars => CalmInv'
<1> SUFFICES ASSUME FInv, PanelInv, ClaimInv, CalmInv, [Next]_vars, drifts' = 0
             PROVE  Calm'
  BY DEF CalmInv
<1>0. drifts = 0 /\ Calm
  BY WhoWrites DEF FInv, IInv, CalmInv
<1>1. CASE SameRows /\ ~Commit
  BY <1>0, <1>1, CalmRequest, CalmOthers, CalmWrite, CalmReconcile DEF Next, Work
<1>2. CASE Commit
  BY <1>0, <1>2, CalmCommit
<1>3. CASE ~SameRows
  <2>1. Commit
    BY <1>3, RowsStep, CommitCommits DEF FInv
  <2> QED BY <1>0, <2>1, CalmCommit
<1> QED BY <1>1, <1>2, <1>3

\* In every instance in which nothing fails and nobody edits the YAML: crashes
\* alone, at any step, never make a startup mark the system degraded.
THEOREM CrashesNeverDegrade ==
  ASSUME Faults = {}
  PROVE  Spec => [](drifts = 0 => NeverDegraded)
<1>1. Init => CalmInv
  <2> SUFFICES ASSUME Init PROVE Calm
    BY DEF CalmInv
  <2>1. desired.nodes = NoNodes
    BY DEF Init
  <2> QED BY <2>1, NoJobFields DEF Init, Calm
<1>2. Init => PanelInv /\ ClaimInv
  BY NoJobFields DEF Init, PanelInv, ClaimInv, Serving
<1>3. FInv /\ PanelInv /\ ClaimInv /\ CalmInv /\ [Next]_vars
        => PanelInv' /\ ClaimInv' /\ CalmInv'
  BY PanelStep, ClaimStep, CalmStep
<1>4. CalmInv => (drifts = 0 => NeverDegraded)
  BY DEF CalmInv, Calm, NeverDegraded
<1> QED BY <1>1, <1>2, <1>3, <1>4, FInvInvariant, PTL DEF Spec

-----------------------------------------------------------------------------
(***************************************************************************)
(* How many inactive rows there are.  A job adds at most one before it     *)
(* prunes.  It may be kept from pruning by a crash, which RetentionBound   *)
(* counts, and after an uncertain COMMIT by a failure, which the job       *)
(* records: only a start clears that mark, and with a supervised Mihomo a  *)
(* start needs the panel to have crashed.                                  *)
(***************************************************************************)

\* Pruning does not fail; a COMMIT ends with an uncertain outcome only under a
\* supervised Mihomo and a database that takes the mark.
Pruning == /\ "prune" \notin Faults
           /\ "commit" \in Faults => ~Native /\ "mark" \notin Faults

\* Why one row too many may be there.
Unpruned ==
  /\ job.kind = "publication"
  /\ \/ pc = "uncertain" /\ status[job.id] = "active"
     \/ job.goal = "republish"
     \/ pc = "mark"
MarkedUnpruned ==
  /\ degraded # "none" /\ phase \in {"steady", "readonly"}
  /\ job.kind \in {"none", "boundary"}
Excused == pc = "prune" \/ ("commit" \in Faults /\ (Unpruned \/ MarkedUnpruned))

Inactive == Cardinality(InactiveIds)

HistoryInv ==
  /\ job.kind = "publication" => degraded = "none"
  /\ Inactive <= HistoryLimit + crashes + 1
  /\ Inactive <= HistoryLimit + crashes \/ Excused

LEMMA InactiveFinite ==
  /\ IsFiniteSet(InactiveIds) /\ Inactive \in Nat
  /\ IsFiniteSet(InactiveIds') /\ Inactive' \in Nat
<1>1. IsFiniteSet(Ids)
  BY FS_Interval, BoundsAssumption DEF Ids
<1>2. InactiveIds \in SUBSET Ids /\ InactiveIds' \in SUBSET Ids
  BY DEF InactiveIds
<1>3. IsFiniteSet(InactiveIds) /\ IsFiniteSet(InactiveIds')
  BY <1>1, <1>2, FS_Subset
<1> QED BY <1>3, FS_CardinalityType DEF Inactive

LEMMA InactiveShrinks ==
  ASSUME InactiveIds' \subseteq InactiveIds
  PROVE  Inactive' <= Inactive
  BY InactiveFinite, FS_Subset DEF Inactive

LEMMA InactiveGrows ==
  ASSUME NEW i, InactiveIds' \subseteq InactiveIds \cup {i}
  PROVE  Inactive' <= Inactive + 1
<1>1. /\ IsFiniteSet(InactiveIds \cup {i})
      /\ Cardinality(InactiveIds \cup {i}) \in {Inactive, Inactive + 1}
  BY InactiveFinite, FS_AddElement DEF Inactive
<1>2. Inactive' <= Cardinality(InactiveIds \cup {i})
  BY <1>1, FS_Subset DEF Inactive
<1> QED BY <1>1, <1>2, InactiveFinite

\* With nothing expired the history is within its limit: all other inactive
\* rows are newer than the oldest one.
LEMMA NothingExpired ==
  ASSUME Expired = {}
  PROVE  Inactive <= HistoryLimit
<1>1. CASE InactiveIds = {}
  BY <1>1, FS_EmptySet, BoundsAssumption DEF Inactive
<1>2. CASE InactiveIds # {}
  <2>1. InactiveIds \in SUBSET Nat
    BY BoundsAssumption DEF InactiveIds, Ids
  <2>2. PICK m \in InactiveIds : \A j \in InactiveIds : m <= j
    BY <1>2, <2>1, MinExists
  <2>3. Newer(m) = InactiveIds \ {m}
    <3>1. \A j \in InactiveIds : j > m <=> j # m
      BY <2>1, <2>2
    <3>2. ~(m > m)
      BY <2>1, <2>2
    <3> QED BY <3>1, <3>2, Zenon DEF Newer
  <2>4. Cardinality(InactiveIds \ {m}) = Inactive - 1
    BY <2>2, InactiveFinite, FS_RemoveElement DEF Inactive
  <2>5. ~(Cardinality(Newer(m)) >= HistoryLimit)
    BY <2>2 DEF Expired, Newer
  <2> QED BY <2>3, <2>4, <2>5, InactiveFinite, BoundsAssumption
<1> QED BY <1>1, <1>2

\* Only a commit, a recorded failure and the pruning change the inactive rows.
LEMMA InactiveMoves ==
  ASSUME FInv, [Next]_vars
  PROVE  \/ InactiveIds' \subseteq InactiveIds
         \/ /\ Commit /\ pc = "commit" /\ job.base # 0 /\ job.kind = "publication"
            /\ status'[job.id] = "active"
            /\ InactiveIds' \subseteq InactiveIds \cup {job.base}
         \/ /\ RecordFailure /\ pc' = "prune"
            /\ InactiveIds' \subseteq InactiveIds \cup {job.id}
<1>1. CASE \A i \in Ids : Kept(i)
  BY <1>1 DEF Kept, InactiveIds
<1>2. CASE status' = status
  BY <1>2 DEF InactiveIds
<1>3. CASE Prune
  BY <1>3, PruneKeeps, ExpiredType DEF FInv, IInv, Kept, InactiveIds
<1>4. CASE RecordFailure /\ status' # status
  <2>1. pc' = "prune"
    BY <1>4 DEF RecordFailure, Goto
  <2>2. InactiveIds' \subseteq InactiveIds \cup {job.id}
    BY <1>4, RecordKeeps DEF FInv, IInv, Kept, InactiveIds
  <2> QED BY <1>4, <2>1, <2>2
<1>5. CASE pc = "commit" /\ Committed /\ UNCHANGED <<archive, snapshot>>
  <2>1. Commit /\ job.goal = "forward"
    BY <1>5, CommitCommits DEF FInv, IInv, JobInv, GoalInv
  <2>2. job.id \in Ids /\ status'[job.id] = "active"
    BY <1>5, CommittedRows DEF FInv, IInv
  <2>3. Active = job.base /\ job.kind \in {"publication", "baseline"}
        /\ (job.kind = "baseline" => job.base = 0)
    BY <1>5, <2>1 DEF FInv, RowsInv, BaseInv, BeforeOutcome, Writes, OwnerInv, RouteInv,
                       PhaseInv
  <2>4. \A i \in ActiveIds : i = job.base
    BY <2>3, ActiveType DEF FInv, IInv, DurableConsistent, OneActive, ActiveIds
  <2>5. \A i \in Ids : status'[i] \in {"rolled_back", "failed"}
                         => i \in InactiveIds \/ i \in ActiveIds
    BY <1>5 DEF Committed, Activated, InactiveIds, ActiveIds
  <2>6. InactiveIds' \subseteq InactiveIds \cup {job.base}
    BY <2>4, <2>5 DEF InactiveIds
  <2>7. job.base = 0 => InactiveIds' \subseteq InactiveIds
    BY <2>3, <2>4, <2>5, ActiveType, BoundsAssumption DEF InactiveIds, ActiveIds, Ids
  <2> QED BY <1>5, <2>1, <2>2, <2>3, <2>6, <2>7
<1> QED BY <1>1, <1>2, <1>3, <1>4, <1>5, StepKeeps DEF FInv, RecordFailure

LEMMA CrashesGrow ==
  ASSUME [Next]_vars
  PROVE  crashes' = crashes \/ (Crash /\ crashes' = crashes + 1)
  BY DEF Next, Request, Manage, UpdateEndpoints, Expire, Rollback, Publish, RefuseUnverified,
         Work, Validate, ArchiveYaml, ArchiveState, Insert, Replace, Remove, Reload,
         WaitHealthy, Commit, ReconcileCommit, RecordFailure, Prune, Mark, Inspect, Settle,
         Clear, RuntimeHealthy, Startup, Boot, ReconcileAfterRuntime, Runtime, RunRuntime,
         ReloadRuntime, FinalizeRuntime, Environment, MihomoExits, InitStarts, Crash, Drift,
         Tick, env, vars

\* A publication runs only while the system is not degraded.
LEMMA PublishesUndegraded ==
  ASSUME FInv, job.kind = "publication" => degraded = "none", [Next]_vars,
         job'.kind = "publication"
  PROVE  degraded' = "none"
<1>0. pc' # "idle"
  BY FInvStep DEF FInv, OwnerInv, PhaseInv
<1>1. CASE Work
  <2>1. job.kind = "publication" /\ degraded = "none"
    BY <1>0, <1>1, WorkGoesOn
  <2>2. ~Inspect /\ ~Clear
    BY <2>1 DEF Inspect, Clear, FInv, OwnerInv, RouteInv
  <2>3. ~Mark
    BY <1>0, <2>1 DEF Mark, Finish, Release
  <2> QED BY <1>1, <2>1, <2>2, <2>3
          DEF Work, Validate, ArchiveYaml, ArchiveState, Insert, Replace, Remove, Reload,
              WaitHealthy, Commit, Committed, ReconcileCommit, RecordFailure, Prune, Settle,
              RuntimeHealthy, database
<1>2. CASE Request
  BY <1>2 DEF Request, Manage, UpdateEndpoints, Expire, Rollback, Publish, RefuseUnverified,
              MayPublish, database
<1>3. CASE Startup \/ RunRuntime
  <2>1. job'.kind \in {"startup", "boundary"}
    BY <1>3 DEF Startup, Boot, ReconcileAfterRuntime, RunRuntime, ReconcileJob, NoJob
  <2> QED BY <2>1
<1>4. CASE FinalizeRuntime \/ Crash
  <2>1. job' = job \/ job'.kind \in {"finalizer", "none"}
    BY <1>4, NoJobFields DEF FinalizeRuntime, Crash, Release, ReconcileJob, NoJob, control
  <2> QED BY <1>4, <2>1 DEF FinalizeRuntime, Crash, database
<1>5. CASE ReloadRuntime \/ MihomoExits \/ InitStarts \/ Drift \/ Tick \/ UNCHANGED vars
  BY <1>5 DEF ReloadRuntime, MihomoExits, InitStarts, Drift, Tick, control, database, vars
<1> QED BY <1>1, <1>2, <1>3, <1>4, <1>5 DEF Next, Runtime, Environment

\* A job that could not prune goes on until it marks the system degraded.
LEMMA UnprunedGoesOn ==
  ASSUME FInv, PanelInv, ~Native, "mark" \notin Faults, Unpruned, pc # "prune", Work
  PROVE  pc' = "prune" \/ Unpruned' \/ MarkedUnpruned'
<1>0. /\ job \in Jobs /\ TypeOK /\ job.kind = "publication" /\ GoalInv
      /\ pc \notin {"idle", "reconcile", "settle", "clear", "boundary"}
  BY DEF FInv, IInv, TypeOK, JobInv, Unpruned, OwnerInv, PhaseInv, RouteInv
<1>1. CASE pc = "uncertain"
  <2>1. ReconcileCommit /\ UNCHANGED status
    BY <1>1 DEF Work, Validate, ArchiveYaml, ArchiveState, Insert, Replace, Remove, Reload,
         WaitHealthy, Commit, ReconcileCommit, RecordFailure, Prune, Mark, Inspect, Settle,
         Clear, RuntimeHealthy, database
  <2>2. status[job.id] = "active"
    BY <1>0, <1>1 DEF Unpruned, GoalInv
  <2>3. DurableOutcome # "old"
    BY <1>1, <2>2, OutcomeDecides DEF FInv, IInv, JobInv, Undecided
  <2>4. \/ pc' = "prune"
        \/ pc' = "candidate" /\ job' = [job EXCEPT !.goal = "republish"]
        \/ GotoMark("publication")
    BY <2>1, <2>3 DEF ReconcileCommit
  <2> QED BY <1>0, <2>4, GotoMarkSame DEF Unpruned, Jobs, SameJob
<1>2. CASE job.goal = "republish" /\ pc # "mark"
  <2>1. Validate \/ Replace \/ Reload \/ WaitHealthy
    BY <1>0, <1>2, <1>1
       DEF Work, ArchiveYaml, ArchiveState, Insert, Remove, Commit, ReconcileCommit,
           RecordFailure, Prune, Mark, Inspect, Settle, Clear, RuntimeHealthy, GoalInv
  <2>2. \/ pc' \in {"prune", "replace", "reload", "health"} /\ job' = job
        \/ GotoMark("publication")
    BY <1>2, <2>1 DEF Validate, Replace, Reload, WaitHealthy, Replaced, Healthy, Fail, Goto
  <2> QED BY <1>0, <1>2, <2>2, GotoMarkSame DEF Unpruned, SameJob
<1>3. CASE pc = "mark"
  <2>1. Mark
    BY <1>3 DEF Work, Validate, ArchiveYaml, ArchiveState, Insert, Replace, Remove, Reload,
         WaitHealthy, Commit, ReconcileCommit, RecordFailure, Prune, Inspect, Settle,
         Clear, RuntimeHealthy
  <2>2. degraded' = job.mark /\ job.mark # "none" /\ Finish("degraded")
    BY <1>0, <1>3, <2>1 DEF Mark, FInv, OwnerInv, RouteInv
  <2>3. phase \in {"steady", "readonly"} /\ phase' = phase
    BY <1>0, <2>2 DEF Finish, PhaseAfter, PanelInv, Listening
  <2> QED BY <2>2, <2>3, NoJobFields DEF Finish, Release, MarkedUnpruned
<1> QED BY <1>1, <1>2, <1>3 DEF Unpruned

\* The mark stays until the panel goes down.
LEMMA MarkedStays ==
  ASSUME FInv, PanelInv, ~Native, MarkedUnpruned, [Next]_vars, ~Crash
  PROVE  MarkedUnpruned'
<1>0. pc \in {"idle", "boundary"} /\ ~finalizer
  BY DEF MarkedUnpruned, PanelInv, FInv, OwnerInv, PhaseInv, RouteInv
<1>1. CASE Work
  <2>1. RuntimeHealthy
    BY <1>0, <1>1
       DEF Work, Validate, ArchiveYaml, ArchiveState, Insert, Replace, Remove, Reload,
         WaitHealthy, Commit, ReconcileCommit, RecordFailure, Prune, Mark, Inspect, Settle,
         Clear
  <2>2. Release /\ degraded' = degraded /\ \E result : phase' = PhaseAfter(result)
    BY <2>1 DEF RuntimeHealthy, Finish
  <2>3. phase' = phase
    BY <2>2 DEF PhaseAfter, MarkedUnpruned
  <2> QED BY <2>2, <2>3, NoJobFields DEF Release, MarkedUnpruned
<1>2. ~Request
  BY DEF Request, Manage, UpdateEndpoints, Expire, Rollback, Publish, RefuseUnverified,
         MayPublish, MarkedUnpruned
<1>3. ~Startup /\ ~FinalizeRuntime
  BY <1>0 DEF Startup, Boot, ReconcileAfterRuntime, FinalizeRuntime, MarkedUnpruned
<1>4. CASE RunRuntime
  <2>1. job'.kind = "boundary" /\ UNCHANGED <<degraded, phase>>
    BY <1>4 DEF RunRuntime, NoJob, database
  <2> QED BY <2>1 DEF MarkedUnpruned
<1>5. CASE ReloadRuntime \/ MihomoExits \/ InitStarts \/ Drift \/ Tick \/ UNCHANGED vars
  BY <1>5 DEF ReloadRuntime, MihomoExits, InitStarts, Drift, Tick, control, database, vars,
              MarkedUnpruned
<1> QED BY <1>1, <1>2, <1>3, <1>4, <1>5 DEF Next, Runtime, Environment

\* An excuse ends with a crash, or when there is nothing left to prune.
LEMMA ExcuseEnds ==
  ASSUME FInv, PanelInv, Pruning, [Next]_vars, Excused, ~Excused'
  PROVE  Crash \/ (Prune /\ Expired = {})
<1> SUFFICES ASSUME ~Crash PROVE Prune /\ Expired = {}
  OBVIOUS
<1>1. CASE ~Work
  <2>1. CASE pc = "idle"
    <3>1. "commit" \in Faults /\ MarkedUnpruned
      BY <2>1 DEF Excused, Unpruned, FInv, OwnerInv, PhaseInv
    <3> QED BY <3>1, MarkedStays DEF Pruning, Excused
  <2>2. CASE pc # "idle"
    <3>1. UNCHANGED <<pc, job, phase, degraded, status>>
      BY <1>1, <2>2
         DEF Next, Request, Manage, UpdateEndpoints, Expire, Rollback, Publish,
             RefuseUnverified, MayPublish, Startup, Boot, ReconcileAfterRuntime, Runtime,
             RunRuntime, ReloadRuntime, FinalizeRuntime, Environment, MihomoExits,
             InitStarts, Drift, Tick, control, database, vars
    <3> QED BY <3>1 DEF Excused, Unpruned, MarkedUnpruned
  <2> QED BY <2>1, <2>2
<1>2. CASE Work /\ pc = "prune"
  <2>1. Prune
    BY <1>2 DEF Work, Validate, ArchiveYaml, ArchiveState, Insert, Replace, Remove, Reload,
         WaitHealthy, Commit, ReconcileCommit, RecordFailure, Mark, Inspect, Settle,
         Clear, RuntimeHealthy
  <2>2. pc' # "prune"
    BY DEF Excused
  <2> QED BY <2>1, <2>2 DEF Prune, Goto, Pruning
<1>3. CASE Work /\ pc # "prune"
  <2>1. "commit" \in Faults /\ ~Native /\ "mark" \notin Faults /\ (Unpruned \/ MarkedUnpruned)
    BY <1>3 DEF Excused, Pruning
  <2> QED BY <1>3, <2>1, UnprunedGoesOn, MarkedStays DEF Excused
<1> QED BY <1>1, <1>2, <1>3

LEMMA HistoryStep ==
  ASSUME Pruning
  PROVE  FInv /\ PanelInv /\ HistoryInv /\ [Next]_vars => HistoryInv'
<1> SUFFICES ASSUME FInv, PanelInv, HistoryInv, [Next]_vars PROVE HistoryInv'
  OBVIOUS
<1>0. /\ HistoryLimit \in Nat /\ crashes \in Nat /\ Inactive \in Nat /\ Inactive' \in Nat
      /\ crashes' = crashes \/ (Crash /\ crashes' = crashes + 1)
  BY InactiveFinite, BoundsAssumption, CrashesGrow DEF FInv, IInv, TypeOK
<1>1. job'.kind = "publication" => degraded' = "none"
  BY PublishesUndegraded DEF HistoryInv
<1>2. CASE InactiveIds' \subseteq InactiveIds
  <2>1. Inactive' <= Inactive
    BY <1>2, InactiveShrinks
  <2>2. Inactive' <= HistoryLimit + crashes' + 1
    BY <1>0, <2>1 DEF HistoryInv
  <2>3. CASE Inactive <= HistoryLimit + crashes
    BY <1>0, <1>1, <2>1, <2>2, <2>3 DEF HistoryInv
  <2>4. CASE Excused /\ Excused'
    BY <1>1, <2>2, <2>4 DEF HistoryInv
  <2>5. CASE Excused /\ ~Excused'
    <3>1. CASE Crash
      <4>1. crashes' = crashes + 1
        BY <3>1 DEF Crash
      <4> QED BY <1>0, <1>1, <2>1, <2>2, <4>1 DEF HistoryInv
    <3>2. CASE Prune /\ Expired = {}
      <4>1. Inactive <= HistoryLimit
        BY <3>2, NothingExpired
      <4> QED BY <1>0, <1>1, <2>1, <2>2, <4>1 DEF HistoryInv
    <3> QED BY <2>5, <3>1, <3>2, ExcuseEnds
  <2> QED BY <2>3, <2>4, <2>5 DEF HistoryInv
<1>3. CASE \/ /\ Commit /\ pc = "commit" /\ job.base # 0 /\ job.kind = "publication"
              /\ status'[job.id] = "active"
              /\ InactiveIds' \subseteq InactiveIds \cup {job.base}
           \/ /\ RecordFailure /\ pc' = "prune"
              /\ InactiveIds' \subseteq InactiveIds \cup {job.id}
  <2>1. pc \in {"commit", "record"} /\ job.goal # "republish"
        /\ job.kind \in {"publication", "baseline"}
    BY <1>3 DEF RecordFailure, FInv, IInv, JobInv, GoalInv, OwnerInv, RouteInv
  <2>2. ~Excused
    BY <2>1 DEF Excused, Unpruned, MarkedUnpruned
  <2>3. Inactive' <= HistoryLimit + crashes' + 1
    <3>1. Inactive' <= Inactive + 1
      BY <1>3, InactiveGrows
    <3> QED BY <1>0, <2>2, <3>1 DEF HistoryInv
  <2>4. Inactive' <= HistoryLimit + crashes' \/ Excused'
    <3>1. CASE pc' = "prune"
      BY <3>1 DEF Excused
    <3>2. CASE pc' # "prune"
      <4>1. Commit /\ job.kind = "publication" /\ status'[job.id] = "active"
        BY <1>3, <3>2
      <4>2. status[job.id] # "active"
        BY <1>3, <3>2, <2>1 DEF FInv, IInv, JobInv, GoalInv, OutcomeInv, BeforeOutcome,
                                Undecided
      <4>3. job' = job /\ pc' = "uncertain" /\ "commit" \in Faults
        BY <3>2, <4>1, <4>2 DEF Commit, Goto, database
      <4> QED BY <4>1, <4>3 DEF Excused, Unpruned
    <3> QED BY <3>1, <3>2
  <2> QED BY <1>1, <2>3, <2>4 DEF HistoryInv
<1> QED BY <1>2, <1>3, InactiveMoves

\* In every instance in which pruning does not fail, and COMMIT ends with an
\* uncertain outcome only under a supervised Mihomo whose failures can be
\* marked: a system that settled keeps at most HistoryLimit inactive rows, and
\* one more for every crash.
THEOREM HistoryIsBounded ==
  ASSUME Pruning
  PROVE  Spec => []RetentionBound
<1>1. Init => HistoryInv
  <2> SUFFICES ASSUME Init PROVE HistoryInv
    OBVIOUS
  <2>1. InactiveIds = {}
    BY DEF Init, InactiveIds
  <2>2. Inactive = 0
    BY <2>1, FS_EmptySet DEF Inactive
  <2> QED BY <2>2, NoJobFields, BoundsAssumption DEF Init, HistoryInv
<1>2. Init => PanelInv
  BY NoJobFields DEF Init, PanelInv, Serving
<1>3. FInv /\ PanelInv /\ HistoryInv /\ [Next]_vars => PanelInv' /\ HistoryInv'
  BY PanelStep, HistoryStep
<1>4. FInv /\ HistoryInv => RetentionBound
  BY DEF FInv, OwnerInv, PhaseInv, HistoryInv, Excused, Unpruned, MarkedUnpruned,
         Inactive, RetentionBound
<1> QED BY <1>1, <1>2, <1>3, <1>4, FInvInvariant, PTL DEF Spec

-----------------------------------------------------------------------------
(***************************************************************************)
(* What a job carries from its request to its end, when it was rendered,   *)
(* and where a supervised Mihomo cannot run.                               *)
(***************************************************************************)

\* No rendering is of a later time.
TimesInv ==
  /\ job.asOf <= now
  /\ \A i \in Ids : snapshot[i] # None => snapshot[i].asOf <= now

\* With one endpoint no restart is pending, and a request that asks for none
\* of the reload changes nothing but the time of the rendering.
RestartInv ==
  /\ pc \in {"reload", "health"} /\ Writes => ~job.restart
  /\ Binds = {FirstBind} => ~pending /\ (Writes /\ job.restart => job.cfg = desired)

\* A supervised Mihomo does not run before the first reconciliation is over.
ParkedInv ==
  ~Native =>
    /\ phase \in {"down", "prerun"} => running = Stopped
    /\ phase = "prerun" => pc # "reload" /\ job.goal # "verify"
    /\ job.kind = "baseline" => job.restart

SameRequest ==
  /\ job'.kind = job.kind /\ job'.cfg = job.cfg /\ job'.asOf = job.asOf
  /\ job'.restart = job.restart
  /\ job'.goal = job.goal \/ (job.goal = "forward" /\ job'.goal \in {"restore", "republish"})

Blank == /\ job'.asOf = 0 /\ job'.goal = "none" /\ job'.kind # "baseline"
         /\ pc' \in {"idle", "reconcile", "boundary", "mark"}

\* A request for a publication.
Asks(cfg, asOf, restart) ==
  /\ Publish(cfg, asOf, restart) /\ asOf <= now
  /\ Binds = {FirstBind} /\ ~pending /\ restart => cfg = desired

\* What becomes of the job in a step.
LEMMA JobMoves ==
  ASSUME FInv, [Next]_vars
  PROVE  \/ SameRequest
         \/ Blank
         \/ \E goal \in {"repair", "verify"} :
              Resume(goal) /\ Inspect /\ Active # 0 /\ (phase = "prerun" => goal # "verify")
         \/ Inspect /\ pc' = "candidate" /\ job' = PublicationJob("baseline", desired, now, TRUE)
         \/ \E cfg \in Desired, asOf \in Times, restart \in BOOLEAN : Asks(cfg, asOf, restart)
<1>0. job \in Jobs /\ TypeOK /\ now \in Nat
  BY BoundsAssumption DEF FInv, IInv, TypeOK, Times
<1>1. ASSUME pc # "idle", NEW reason, GotoMark(reason)
      PROVE  SameRequest
  BY <1>0, <1>1 DEF GotoMark, SameRequest, Jobs
<1>b. /\ NoJob.asOf = 0 /\ NoJob.goal = "none" /\ NoJob.kind = "none"
      /\ \A kind : LET started == [NoJob EXCEPT !.kind = kind]
                   IN  started.asOf = 0 /\ started.goal = "none" /\ started.kind = kind
  BY DEF NoJob
<1>r. Release => Blank
  BY <1>b DEF Release, Blank
<1>2. ASSUME NEW result, Finish(result)
      PROVE  Blank
  BY <1>r, <1>2 DEF Finish
<1>3. ASSUME pc # "idle", Fail
      PROVE  SameRequest
  BY <1>0, <1>1, <1>3 DEF Fail, WriteBack, SameRequest, Jobs
<1>4. CASE Validate \/ ArchiveYaml \/ ArchiveState \/ Insert \/ Replace \/ Remove
             \/ Reload \/ WaitHealthy \/ Commit \/ ReconcileCommit \/ RecordFailure
             \/ Prune \/ Mark \/ Settle \/ Clear
  <2>1. pc # "idle" /\ (pc = "uncertain" => job.goal = "forward")
    BY <1>4 DEF Validate, ArchiveYaml, ArchiveState, Insert, Replace, Remove,
         Reload, WaitHealthy, Commit, ReconcileCommit, RecordFailure, Prune, Mark, Settle,
         Clear, FInv, IInv, JobInv, GoalInv
  <2>2. \/ Fail \/ (\E reason : GotoMark(reason)) \/ (\E result : Finish(result))
        \/ job' = job \/ job' = [job EXCEPT !.prev = yaml]
        \/ pc = "uncertain" /\ job' \in {WriteBack, [job EXCEPT !.goal = "republish"]}
    BY <1>4 DEF Validate, ArchiveYaml, ArchiveState, Insert, Replace, Remove,
         Reload, WaitHealthy, Commit, ReconcileCommit, RecordFailure, Prune, Mark, Settle,
         Clear, Return, Goto, Replaced, Healthy, FinishAsMarked
  <2>3. CASE job' \in {job, [job EXCEPT !.prev = yaml]}
    BY <1>0, <2>3 DEF SameRequest, Jobs
  <2>4. CASE pc = "uncertain" /\ job' \in {WriteBack, [job EXCEPT !.goal = "republish"]}
    BY <1>0, <2>1, <2>4 DEF SameRequest, Jobs, WriteBack
  <2> QED BY <1>1, <1>2, <1>3, <2>1, <2>2, <2>3, <2>4
<1>5. CASE Inspect
  <2>1. pc = "reconcile"
    BY <1>5 DEF Inspect
  <2>2. \/ (\E reason : GotoMark(reason)) \/ (\E result : Finish(result))
        \/ pc' = "candidate" /\ job' = PublicationJob("baseline", desired, now, TRUE)
        \/ InspectRevision
    BY <1>5 DEF Inspect, InspectCutover, InspectFails
  <2>3. CASE InspectRevision
    <3>1. \/ (\E reason : GotoMark(reason)) \/ (\E result : Finish(result))
          \/ Active # 0 /\ Resume("repair")
          \/ Active # 0 /\ phase # "prerun" /\ Resume("verify")
      BY <2>3 DEF InspectRevision, InspectMatching, FinishAsMarked
    <3> QED BY <1>1, <1>2, <1>5, <2>1, <3>1
  <2> QED BY <1>1, <1>2, <1>5, <2>1, <2>2, <2>3
<1>6. CASE Request
  <2>1. desired \in Desired /\ now \in Times /\ \A i \in Ids : snapshot[i] # None =>
           snapshot[i].state \in Desired
    BY <1>0 DEF TypeOK
  <2>2. CASE \E nodes \in Nodes : Manage(nodes)
    <3>1. PICK nodes \in Nodes : Manage(nodes)
      BY <2>2
    <3>2. [desired EXCEPT !.nodes = nodes] \in Desired
      BY <2>1 DEF Desired
    <3>3. Asks([desired EXCEPT !.nodes = nodes], now, FALSE)
      <4>1. now <= now
        BY <1>0
      <4> QED BY <3>1, <4>1 DEF Manage, Asks
    <3>4. now \in Times /\ FALSE \in BOOLEAN
      BY <2>1
    <3> QED BY <3>2, <3>3, <3>4, Zenon
  <2>3. CASE \E bind \in Binds : UpdateEndpoints(bind)
    <3>1. PICK bind \in Binds : UpdateEndpoints(bind)
      BY <2>3
    <3>2. /\ [desired EXCEPT !.bind = bind] \in Desired
          /\ Binds = {FirstBind} => [desired EXCEPT !.bind = bind] = desired
      BY <2>1 DEF Desired
    <3>3. Asks([desired EXCEPT !.bind = bind], now, TRUE)
      <4>1. now <= now
        BY <1>0
      <4> QED BY <3>1, <3>2, <4>1 DEF UpdateEndpoints, Asks
    <3>4. now \in Times /\ TRUE \in BOOLEAN
      BY <2>1
    <3> QED BY <3>2, <3>3, <3>4, Zenon
  <2>4. CASE \E batch \in Times : Expire(batch)
    <3>1. PICK batch \in Times : Expire(batch)
      BY <2>4
    <3>2. [desired EXCEPT !.nodes = Disabled[@]] \in Desired
      BY <2>1, SectionsAssumption DEF Desired
    <3>3. Asks([desired EXCEPT !.nodes = Disabled[@]], batch, FALSE)
      BY <3>1 DEF Expire, Asks
    <3> QED BY <3>2, <3>3
  <2>5. CASE \E i \in Ids : Rollback(i)
    <3>1. PICK i \in Ids : Rollback(i)
      BY <2>5
    <3>2. /\ snapshot[i].state \in Desired
          /\ (pending \/ snapshot[i].state.bind # applied) \in BOOLEAN
      BY <1>0, <2>1, <3>1 DEF Rollback, ArtifactsIntact, TypeOK
    <3>3. Binds = {FirstBind} => snapshot[i].state.bind = applied
      BY <1>0, <3>2 DEF TypeOK, Desired
    <3>4. Asks(snapshot[i].state, now, pending \/ snapshot[i].state.bind # applied)
      BY <1>0, <3>1, <3>3 DEF Rollback, Asks
    <3> QED BY <2>1, <3>2, <3>4
  <2>6. CASE RefuseUnverified
    BY <2>6 DEF RefuseUnverified, NoJob, Blank
  <2> QED BY <1>6, <2>2, <2>3, <2>4, <2>5, <2>6 DEF Request
<1>7. CASE RuntimeHealthy
  <2>1. (\E result : Finish(result)) \/ Release
    BY <1>7 DEF RuntimeHealthy
  <2> QED BY <1>r, <1>2, <2>1
<1>8. CASE Startup \/ Runtime \/ Environment \/ UNCHANGED vars
  <2>1. \/ job' = job
        \/ job' = [NoJob EXCEPT !.kind = "boundary"] /\ pc' = "boundary"
        \/ job' \in {ReconcileJob("startup"), ReconcileJob("finalizer")} /\ pc' = "reconcile"
        \/ job' = NoJob /\ pc' = "idle"
    BY <1>8 DEF Startup, Boot, ReconcileAfterRuntime, Runtime, RunRuntime, ReloadRuntime,
         FinalizeRuntime, Environment, MihomoExits, InitStarts, Crash, Drift, Tick, Release,
         control, vars
  <2>2. CASE job' = job
    BY <2>2 DEF SameRequest
  <2>3. CASE job' # job
    BY <1>b, <2>1, <2>3 DEF ReconcileJob, Blank
  <2> QED BY <2>2, <2>3
<1> QED BY <1>4, <1>5, <1>6, <1>7, <1>8 DEF Next, Work

LEMMA TimeGoesOn ==
  ASSUME TypeOK, [Next]_vars
  PROVE  /\ now \in Nat /\ now' \in {now, now + 1}
         /\ \A i \in Ids :
              snapshot'[i] \in {snapshot[i], None, [state |-> job.cfg, asOf |-> job.asOf]}
<1>0. now \in Nat
  BY BoundsAssumption DEF TypeOK, Times
<1>1. CASE Validate \/ ArchiveState \/ Insert \/ Prune
  <2>1. now' = now /\ \/ snapshot' = snapshot
                      \/ \E i, y : /\ snapshot' = [snapshot EXCEPT ![i] = y]
                                   /\ y \in {None, [state |-> job.cfg, asOf |-> job.asOf]}
    BY <1>1 DEF Validate, ArchiveState, Insert, Prune, env
  <2> QED BY <1>0, <2>1 DEF TypeOK
<1>2. CASE Work /\ ~(Validate \/ ArchiveState \/ Insert \/ Prune)
  BY <1>0, <1>2 DEF Work, ArchiveYaml, Replace, Remove, Reload, WaitHealthy, Commit,
       ReconcileCommit, RecordFailure, Mark, Inspect, Settle, Clear, RuntimeHealthy, files, env
<1>3. CASE ~Work
  BY <1>0, <1>3 DEF Next, Request, Manage, UpdateEndpoints, Expire, Rollback, Publish,
       RefuseUnverified, Startup, Boot, ReconcileAfterRuntime, Runtime, RunRuntime,
       ReloadRuntime, FinalizeRuntime, Environment, MihomoExits, InitStarts, Crash, Drift,
       Tick, vars, files, env
<1> QED BY <1>1, <1>2, <1>3

LEMMA TimesStep == FInv /\ TimesInv /\ [Next]_vars => TimesInv'
<1> SUFFICES ASSUME FInv, TimesInv, [Next]_vars PROVE TimesInv'
  OBVIOUS
<1>0. /\ TypeOK /\ now \in Nat /\ now' \in Nat /\ now <= now' /\ job.asOf \in Nat
      /\ \A i \in Ids : snapshot[i] # None => snapshot[i].asOf \in Nat
  BY TimeGoesOn DEF FInv, IInv, TypeOK, Jobs, Times
<1>1. \A i \in Ids : snapshot'[i] # None => snapshot'[i].asOf <= now'
  BY <1>0, TimeGoesOn DEF TimesInv
<1>2. job'.asOf <= now'
  <2>1. CASE SameRequest \/ Blank
    BY <1>0, <2>1 DEF SameRequest, Blank, TimesInv
  <2>2. CASE \E goal \in {"repair", "verify"} : Resume(goal) /\ Active # 0
    <3>1. job'.asOf = snapshot[Active].asOf
      BY <1>0, <2>2 DEF Resume, TypeOK, Jobs
    <3>2. Active \in Ids /\ snapshot[Active] # None
      BY <2>2, ActiveType, ActiveDigest DEF FInv, IInv, ActiveIds, ArtifactsIntact
    <3> QED BY <1>0, <3>1, <3>2 DEF TimesInv
  <2>3. CASE job' = PublicationJob("baseline", desired, now, TRUE)
    BY <1>0, <2>3 DEF PublicationJob
  <2>4. CASE \E cfg \in Desired, asOf \in Times, restart \in BOOLEAN : Asks(cfg, asOf, restart)
    <3>1. PICK cfg \in Desired, asOf \in Times, restart \in BOOLEAN : Asks(cfg, asOf, restart)
      BY <2>4
    <3>2. job'.asOf = asOf /\ asOf \in Nat /\ asOf <= now
      BY <3>1, BoundsAssumption DEF Asks, Publish, PublicationJob, Times
    <3> QED BY <1>0, <3>2
  <2> QED BY <2>1, <2>2, <2>3, <2>4, JobMoves
<1> QED BY <1>1, <1>2 DEF TimesInv

\* Only a commit sets the restart marker.
LEMMA PendingMoves ==
  ASSUME [Next]_vars
  PROVE  pending' = pending \/ pending' = FALSE \/ (Commit /\ Committed)
<1>1. CASE Work
  BY <1>1 DEF Work, Validate, ArchiveYaml, ArchiveState, Insert, Replace, Remove, Reload,
       WaitHealthy, Commit, ReconcileCommit, RecordFailure, Prune, Mark, Inspect, Settle,
       Clear, RuntimeHealthy, database
<1>2. CASE ~Work
  BY <1>2 DEF Next, Request, Manage, UpdateEndpoints, Expire, Rollback, Publish,
       RefuseUnverified, Startup, Boot, ReconcileAfterRuntime, Runtime, RunRuntime,
       ReloadRuntime, FinalizeRuntime, Environment, MihomoExits, InitStarts, Crash, Drift,
       Tick, vars, database
<1> QED BY <1>1, <1>2

LEMMA NoPending ==
  ASSUME FInv, RestartInv, [Next]_vars, Binds = {FirstBind}
  PROVE  ~pending'
<1>1. CASE Commit /\ Committed
  <2>1. job.cfg.bind = applied
    BY DEF FInv, IInv, TypeOK, Jobs, Desired
  <2> QED BY <1>1, <2>1 DEF Committed
<1> QED BY <1>1, PendingMoves DEF RestartInv

\* Nobody reloads what is published with a restart.
LEMMA ReloadStep ==
  ASSUME FInv, RestartInv, [Next]_vars, pc' \in {"reload", "health"}, Writes'
  PROVE  ~job'.restart
<1>0. job \in Jobs /\ TypeOK
  BY DEF FInv, IInv, TypeOK
<1>1. CASE Work
  <2>1. Validate \/ Replace \/ Reload
    BY <1>0, <1>1, FailSame
       DEF Work, ArchiveYaml, ArchiveState, Insert, Remove, WaitHealthy, Commit,
           ReconcileCommit, RecordFailure, Prune, Mark, Inspect, InspectCutover,
           InspectRevision, InspectMatching, InspectFails, FinishAsMarked, Resume, Settle,
           Clear, RuntimeHealthy, Return, GotoMark, Goto, Healthy, Finish, Release, FInv, IInv
  <2>2. job' = job /\ (job.restart => pc = "reload")
    BY <1>0, <2>1
       DEF Validate, Replace, Reload, Replaced, Fail, GotoMark, Goto, Finish, Release, Writes
  <2> QED BY <2>1, <2>2 DEF RestartInv, Writes, Validate, Replace, Reload
<1>2. CASE ~Work
  <2>1. UNCHANGED <<pc, job>>
    BY <1>2 DEF Next, Request, Manage, UpdateEndpoints, Expire, Rollback, Publish,
       RefuseUnverified, Startup, Boot, ReconcileAfterRuntime, Runtime, RunRuntime,
       ReloadRuntime, FinalizeRuntime, Environment, MihomoExits, InitStarts, Crash, Drift,
       Tick, Release, control, vars
  <2> QED BY <2>1 DEF RestartInv, Writes
<1> QED BY <1>1, <1>2

LEMMA RestartStep == FInv /\ RestartInv /\ [Next]_vars => RestartInv'
<1> SUFFICES ASSUME FInv, RestartInv, [Next]_vars, Binds = {FirstBind}, Writes', job'.restart
             PROVE  job'.cfg = desired'
  BY NoPending, ReloadStep DEF RestartInv
<1>0. TypeOK /\ job \in Jobs /\ ~pending
  BY DEF FInv, IInv, TypeOK, RestartInv
<1>1. CASE SameRequest
  <2>1. job.cfg = desired /\ Writes /\ job'.cfg = job.cfg
    BY <1>0, <1>1 DEF SameRequest, RestartInv, Writes
  <2>2. desired' = desired \/ desired' = job.cfg
    BY RowsStep DEF FInv, SameRows, Committed
  <2> QED BY <2>1, <2>2
<1>2. CASE Inspect /\ job' = PublicationJob("baseline", desired, now, TRUE)
  <2>1. job'.cfg = desired /\ desired' = desired
    BY <1>2 DEF PublicationJob, Inspect
  <2> QED BY <2>1
<1>3. CASE \E cfg \in Desired, asOf \in Times, restart \in BOOLEAN : Asks(cfg, asOf, restart)
  <2>1. PICK cfg \in Desired, asOf \in Times, restart \in BOOLEAN : Asks(cfg, asOf, restart)
    BY <1>3
  <2>2. job'.cfg = cfg /\ job'.restart = restart /\ desired' = desired
    BY <2>1 DEF Asks, Publish, PublicationJob, database
  <2> QED BY <1>0, <2>1, <2>2 DEF Asks
<1>4. ~Blank
  BY DEF Blank, Writes
<1>5. ~(\E goal \in {"repair", "verify"} : Resume(goal))
  BY <1>0 DEF Resume, Writes, Jobs
<1> QED BY <1>1, <1>2, <1>3, <1>4, <1>5, JobMoves

\* Who starts Mihomo.
LEMMA RunningMoves ==
  ASSUME FInv, PanelInv, ~Native, [Next]_vars
  PROVE  \/ running' \in {running, Stopped}
         \/ Reload /\ pc = "reload" /\ pc' = "health" /\ running' = yaml
         \/ RunRuntime /\ running' = yaml
         \/ ReloadRuntime /\ running' = yaml
<1>1. CASE Work
  BY <1>1 DEF Work, Validate, ArchiveYaml, ArchiveState, Insert, Replace, Remove, Reload,
       WaitHealthy, Commit, ReconcileCommit, RecordFailure, Prune, Mark, Inspect,
       InspectCutover, InspectRevision, InspectMatching, InspectFails, FinishAsMarked,
       Resume, Settle, Clear, RuntimeHealthy, Return, Goto, Replaced, Healthy, Finish
<1>2. CASE ~Work
  BY <1>2 DEF Next, Request, Manage, UpdateEndpoints, Expire, Rollback, Publish,
       RefuseUnverified, Startup, Boot, ReconcileAfterRuntime, Runtime, RunRuntime,
       ReloadRuntime, FinalizeRuntime, Environment, MihomoExits, InitStarts, Crash, Drift,
       Tick, vars
<1> QED BY <1>1, <1>2

\* Before the first reconciliation is over there is nothing to do without a job.
LEMMA ParkedOwner ==
  ASSUME FInv, PanelInv, ~Native, phase = "down"
  PROVE  pc = "idle" /\ ~Work
<1>1. pc = "idle"
  BY DEF FInv, OwnerInv, PhaseInv, PanelInv, Serving, IInv, TypeOK, Jobs
<1> QED BY <1>1
        DEF Work, Validate, ArchiveYaml, ArchiveState, Insert, Replace, Remove, Reload,
            WaitHealthy, Commit, ReconcileCommit, RecordFailure, Prune, Mark, Inspect, Settle,
            Clear, RuntimeHealthy

LEMMA ParkedStep == FInv /\ PanelInv /\ ParkedInv /\ [Next]_vars => ParkedInv'
<1> SUFFICES ASSUME FInv, PanelInv, ParkedInv, [Next]_vars, ~Native
             PROVE  ParkedInv'
  BY DEF ParkedInv
<1>0. job \in Jobs /\ TypeOK
  BY DEF FInv, IInv, TypeOK
<1>1. job'.kind = "baseline" => job'.restart
  <2>1. CASE SameRequest \/ Blank
    BY <2>1 DEF SameRequest, Blank, ParkedInv
  <2>2. CASE \E goal \in {"repair", "verify"} : Resume(goal) /\ Inspect
    <3>1. job.kind # "baseline"
      BY <2>2 DEF Inspect, FInv, OwnerInv, RouteInv
    <3> QED BY <1>0, <2>2, <3>1 DEF Resume, Jobs
  <2>3. CASE job' = PublicationJob("baseline", desired, now, TRUE)
    BY <2>3 DEF PublicationJob
  <2>4. CASE \E cfg \in Desired, asOf \in Times, restart \in BOOLEAN : Asks(cfg, asOf, restart)
    BY <2>4 DEF Asks, Publish, PublicationJob
  <2> QED BY <2>1, <2>2, <2>3, <2>4, JobMoves
<1>2. CASE phase = "prerun" /\ phase' = "prerun"
  <2>1. running' = Stopped
    BY <1>2, RunningMoves DEF ParkedInv, RunRuntime, ReloadRuntime, Serving, Listening
  <2>2. job'.goal # "verify"
    <3>1. CASE SameRequest \/ Blank
      BY <1>2, <3>1 DEF SameRequest, Blank, ParkedInv
    <3>2. CASE \E goal \in {"repair", "verify"} : Resume(goal) /\ goal # "verify"
      BY <1>0, <3>2 DEF Resume, Jobs
    <3>3. CASE job' = PublicationJob("baseline", desired, now, TRUE)
      BY <3>3 DEF PublicationJob
    <3>4. CASE \E cfg \in Desired, asOf \in Times, restart \in BOOLEAN : Asks(cfg, asOf, restart)
      BY <3>4 DEF Asks, Publish, PublicationJob
    <3> QED BY <1>2, <3>1, <3>2, <3>3, <3>4, JobMoves
  <2>3. pc' # "reload"
    <3>1. SUFFICES ASSUME pc' = "reload" PROVE FALSE
      OBVIOUS
    <3>2. CASE Work
      <4>1. (Validate \/ Replace) /\ ~Fail
        <5>0. pc # "idle"
          BY <3>2
             DEF Work, Validate, ArchiveYaml, ArchiveState, Insert, Replace, Remove, Reload,
                 WaitHealthy, Commit, ReconcileCommit, RecordFailure, Prune, Mark, Inspect,
                 Settle, Clear, RuntimeHealthy
        <5>1. ~Fail /\ (\A reason : ~GotoMark(reason)) /\ (\A result : ~Finish(result))
          BY <1>0, <3>1, <5>0, FailSame DEF GotoMark, Finish, Release
        <5> QED BY <3>1, <3>2, <5>1
           DEF Work, ArchiveYaml, ArchiveState, Insert, Remove, Reload, WaitHealthy, Commit,
               ReconcileCommit, RecordFailure, Prune, Mark, Inspect, InspectCutover,
               InspectRevision, InspectMatching, InspectFails, FinishAsMarked, Resume,
               Settle, Clear, RuntimeHealthy, Return, Goto, Healthy, Release
      <4>2. job.goal # "verify" /\ running = Stopped
        BY <1>2 DEF ParkedInv
      <4>3. ~Validate
        BY <3>1, <4>1, <4>2 DEF Validate
      <4>4. pc = "replace" /\ Replaced
        BY <4>1, <4>3 DEF Replace
      <4>5. Writes => job.restart
        BY <1>2 DEF FInv, OwnerInv, PhaseInv, RouteInv, Serving, ParkedInv, Writes
      <4>6. job.goal \in {"forward", "restore", "republish", "repair"}
        BY <1>0, <4>2, <4>4 DEF FInv, OwnerInv, RouteInv, Jobs, Goals
      <4> QED BY <1>2, <3>1, <4>2, <4>4, <4>5, <4>6
              DEF Replaced, Goto, Finish, Release, Writes
    <3>3. CASE ~Work
      BY <1>2, <3>1, <3>3
         DEF Next, Request, Manage, UpdateEndpoints, Expire, Rollback, Publish,
             RefuseUnverified, Startup, Boot, ReconcileAfterRuntime, Runtime, RunRuntime,
             ReloadRuntime, FinalizeRuntime, Environment, MihomoExits, InitStarts, Crash,
             Drift, Tick, Release, control, vars, ParkedInv
    <3> QED BY <3>2, <3>3
  <2> QED BY <1>1, <1>2, <2>1, <2>2, <2>3 DEF ParkedInv
<1>3. CASE phase # "prerun" /\ phase' = "prerun"
  <2>1. Boot
    <3>1. CASE Work /\ pc' = "idle"
      <4>1. PICK result \in {"ok", "degraded", "fatal"} : phase' = PhaseAfter(result)
        BY <3>1, EndsWork DEF Ends
      <4> QED BY <1>3, <4>1 DEF PhaseAfter
    <3> QED BY <1>3, <3>1, PhaseMoves DEF Crash
  <2>2. running' = Stopped /\ pc' = "reconcile" /\ job'.goal = "none"
    BY <2>1 DEF Boot, ReconcileJob, NoJob, ParkedInv
  <2> QED BY <1>1, <2>2 DEF ParkedInv
<1>4. CASE phase' = "down"
  <2>1. CASE phase = "down"
    <3>1. ~Work
      BY <2>1, ParkedOwner
    <3>2. running' \in {running, Stopped}
      BY <2>1, <3>1, RunningMoves DEF RunRuntime, ReloadRuntime, Serving, Listening, Work
    <3> QED BY <1>1, <1>4, <2>1, <3>2 DEF ParkedInv
  <2>2. CASE Crash
    BY <1>1, <1>4, <2>2 DEF Crash, ParkedInv
  <2>3. CASE Work /\ pc' = "idle" /\ phase # "down"
    <3>1. \/ \E result : Finish(result)
          \/ RuntimeHealthy /\ running' = Stopped
      BY <1>0, <2>3, FailSame
         DEF Work, Validate, ArchiveYaml, ArchiveState, Insert, Replace, Remove, Reload,
             WaitHealthy, Commit, ReconcileCommit, RecordFailure, Prune, Mark, Inspect,
             InspectCutover, InspectRevision, InspectMatching, InspectFails, FinishAsMarked,
             Resume, Settle, Clear, RuntimeHealthy, Return, GotoMark, Goto, Replaced, Healthy,
             FInv, IInv
    <3>2. running' = Stopped
      BY <1>4, <3>1 DEF Finish
    <3> QED BY <1>1, <1>4, <3>2 DEF ParkedInv
  <2> QED BY <1>4, <2>1, <2>2, <2>3, PhaseMoves DEF Boot
<1>5. CASE phase' \notin {"down", "prerun"}
  BY <1>1, <1>5 DEF ParkedInv
<1> QED BY <1>2, <1>3, <1>4, <1>5

-----------------------------------------------------------------------------
(***************************************************************************)
(* What a supervised Mihomo runs with.  Away from a publication that is    *)
(* about to be reloaded, or taken back, it is the desired state, rendered  *)
(* at some time: Rendered.  An endpoint saved again is rendered anew but   *)
(* not reloaded, so it need not be the time of the file.                   *)
(***************************************************************************)
Rendered == \E t \in 0 .. now : running = Compile(desired, t)

\* Mihomo runs with the candidate, or is about to be given the old file back.
Swapping ==
  /\ Writes /\ ~job.restart
  /\ \/ job.goal = "forward" /\ pc \in {"health", "commit"}
     \/ job.goal = "forward" /\ pc = "uncertain" /\ Undecided /\ running \in {yaml, Stopped}
     \/ job.goal = "restore" /\ pc \in {"replace", "remove", "reload", "health"}

\* The job is going to mark the system degraded.
Marking == job.mark # "none" /\ pc \in {"record", "prune", "mark"}

Known == running = Stopped \/ Rendered

CurrentInv ==
  drifts = 0 =>
    /\ Known \/ degraded # "none" \/ Marking \/ Swapping
    /\ pc = "commit" /\ ~job.restart => running \in {yaml, Stopped}

LEMMA KnownKept ==
  ASSUME Known, FInv, [Next]_vars, desired' = desired, running' \in {running, Stopped}
  PROVE  Known'
<1>1. now \in Nat /\ now' \in Nat /\ now <= now'
  BY TimeGoesOn DEF FInv, IInv
<1>2. ASSUME NEW t \in 0 .. now, running = Compile(desired, t), running' = running
      PROVE  Known'
  <2>1. t \in 0 .. now' /\ running' = Compile(desired', t)
    BY <1>1, <1>2 DEF Compile
  <2> QED BY <2>1 DEF Known, Rendered, Compile
<1> QED BY <1>2 DEF Known, Rendered

\* The file of the active revision renders the desired state.
LEMMA KnownFromFile ==
  ASSUME FInv, TimesInv, Active # 0, Agrees, [Next]_vars, desired' = desired,
         running' \in {yaml, Stopped}
  PROVE  Known'
<1>1. now \in Nat /\ now' \in Nat /\ now <= now'
  BY TimeGoesOn DEF FInv, IInv
<1>2. /\ Active \in Ids /\ snapshot[Active] # None
      /\ yaml = Compile(desired, snapshot[Active].asOf)
  BY ActiveType, ActiveDigest DEF FInv, IInv, ActiveIds, ArtifactsIntact, Agrees
<1>3. snapshot[Active].asOf \in 0 .. now
  BY <1>1, <1>2, BoundsAssumption DEF TimesInv, FInv, IInv, TypeOK, Times
<1> DEFINE t == snapshot[Active].asOf
<1>4. t \in 0 .. now' /\ yaml = Compile(desired', t)
  BY <1>1, <1>2, <1>3 DEF Compile
<1> HIDE DEF t
<1> QED BY <1>4 DEF Known, Rendered, Compile

\* A commit makes the candidate the desired state.
LEMMA KnownFromCandidate ==
  ASSUME FInv, TimesInv, [Next]_vars, desired' = job.cfg, running' \in {Candidate, Stopped}
  PROVE  Known'
<1>1. now \in Nat /\ now' \in Nat /\ now <= now' /\ job.asOf \in 0 .. now
  BY TimeGoesOn, BoundsAssumption DEF FInv, IInv, TypeOK, Jobs, Times, TimesInv
<1> DEFINE t == job.asOf
<1>2. t \in 0 .. now' /\ Candidate = Compile(desired', t)
  BY <1>1 DEF Compile, Candidate
<1> HIDE DEF t
<1> QED BY <1>2 DEF Known, Rendered, Compile

\* CurrentInv, when the job does not arrive at its commit.
LEMMA CurrentElsewhere ==
  ASSUME Known' \/ degraded' # "none" \/ Marking' \/ Swapping', pc' # "commit"
  PROVE  CurrentInv'
  BY DEF CurrentInv

\* The hypotheses of the steps: the state, the instance, no edit.
Supervised == ~Native /\ "mark" \notin Faults /\ Binds = {FirstBind}
Before == /\ FInv /\ RunInv /\ PanelInv /\ ClaimInv /\ TimesInv /\ RestartInv /\ ParkedInv
          /\ CurrentInv

LEMMA CurrentStay ==
  ASSUME Before, [Next]_vars, drifts = 0, ~Swapping, ~Marking, pc' # "commit",
         desired' = desired, running' \in {running, Stopped},
         degraded # "none" => degraded' # "none"
  PROVE  CurrentInv'
<1>1. Known \/ degraded # "none"
  BY DEF Before, CurrentInv
<1>2. Known' \/ degraded' # "none"
  BY <1>1, KnownKept DEF Before
<1> QED BY <1>2, CurrentElsewhere

LEMMA CurrentMark ==
  ASSUME Before, pc # "idle", NEW reason, GotoMark(reason), reason # "none"
  PROVE  CurrentInv'
<1>1. pc' = "mark" /\ job'.mark # "none"
  BY GotoMarkSame DEF Before, FInv, IInv
<1> QED BY <1>1, CurrentElsewhere DEF Marking

LEMMA CurrentFail ==
  ASSUME Before, [Next]_vars, drifts = 0, Fail,
         pc \in {"candidate", "replace", "remove", "reload", "health", "commit"},
         desired' = desired, degraded' = degraded, running' \in {running, Stopped}
  PROVE  CurrentInv'
<1>0. TypeOK /\ job \in Jobs
  BY DEF Before, FInv, IInv, TypeOK
<1>1. CASE job.goal = "forward"
  <2>1. job'.goal = "restore" /\ pc' \in {"remove", "replace"} /\ job'.restart = job.restart
    BY <1>0, <1>1 DEF Fail, WriteBack, Jobs
  <2>2. CASE ~job.restart
    BY <2>1, <2>2, CurrentElsewhere DEF Swapping, Writes
  <2>3. CASE job.restart
    <3>1. ~Swapping /\ ~Marking
      BY <2>3 DEF Swapping, Marking
    <3> QED BY <2>1, <3>1, CurrentStay
  <2> QED BY <2>2, <2>3
<1>2. CASE job.goal # "forward"
  <2>1. pc' \in {"record", "mark"} /\ job'.mark # "none"
    BY <1>0, <1>2, FailSame
  <2> QED BY <2>1, CurrentElsewhere DEF Marking
<1> QED BY <1>1, <1>2

LEMMA CurrentWrite ==
  ASSUME Supervised, Before, [Next]_vars, drifts = 0,
         Validate \/ ArchiveYaml \/ ArchiveState \/ Insert \/ Replace \/ Remove
           \/ Reload \/ WaitHealthy
  PROVE  CurrentInv'
<1>0. /\ FInv /\ TypeOK /\ GoalInv /\ job \in Jobs /\ Undisturbed
      /\ desired' = desired /\ degraded' = degraded
  BY DEF Before, FInv, IInv, JobInv, TypeOK, Undisturbed, Validate, ArchiveYaml, ArchiveState,
         Insert, Replace, Remove, Reload, WaitHealthy, database
<1>1. CASE Validate \/ ArchiveYaml \/ ArchiveState \/ Insert
  <2>1. /\ pc \in {"candidate", "archive", "snapshot", "insert"} /\ pc' # "commit"
        /\ running' \in {running, Stopped}
    BY <1>0, <1>1, FailSame
       DEF Validate, ArchiveYaml, ArchiveState, Insert, Goto, GotoMark, Return, Finish, Release
  <2>2. ~Swapping /\ ~Marking
    BY <2>1 DEF Swapping, Marking
  <2> QED BY <1>0, <2>1, <2>2, CurrentStay
<1>2. CASE Replace
  <2>1. pc = "replace" /\ (Replaced \/ (Fail /\ running' = running))
    BY <1>2 DEF Replace
  <2>2. CASE Replaced
    <3>1. CASE Swapping
      <4>1. job.goal = "restore" /\ ~job.restart
        BY <2>1, <3>1 DEF Swapping
      <4>2. pc' = "reload" /\ job' = job
        BY <2>2, <4>1 DEF Replaced, Goto
      <4> QED BY <4>1, <4>2, CurrentElsewhere DEF Swapping, Writes
    <3>2. CASE ~Swapping
      <4>1. ~Marking /\ running' \in {running, Stopped}
        BY <2>1, <2>2 DEF Marking, Replaced, Goto, Finish
      <4>2. CASE pc' # "commit"
        BY <1>0, <3>2, <4>1, <4>2, CurrentStay
      <4>3. CASE pc' = "commit"
        <5>1. job.restart /\ job' = job
          BY <2>2, <4>3 DEF Replaced, Goto, Finish, Release
        <5>2. Known \/ degraded # "none"
          BY <3>2, <4>1 DEF Before, CurrentInv
        <5>3. Known' \/ degraded' # "none"
          BY <1>0, <4>1, <5>2, KnownKept
        <5> QED BY <5>1, <5>3 DEF CurrentInv
      <4> QED BY <4>2, <4>3
    <3> QED BY <3>1, <3>2
  <2> QED BY <1>0, <2>1, <2>2, CurrentFail
<1>3. CASE Remove
  <2>1. pc = "remove" /\ ((Fail /\ running' = running) \/ (running' = Stopped /\ pc' = "record"))
    BY <1>3 DEF Remove
  <2>2. running' = Stopped /\ pc' = "record" => CurrentInv'
    BY CurrentElsewhere DEF Known
  <2> QED BY <1>0, <2>1, <2>2, CurrentFail
<1>4. CASE Reload
  <2>1. /\ pc = "reload" /\ yaml' = yaml
        /\ \/ running' = yaml /\ pc' = "health" /\ job' = job
           \/ Fail /\ running' \in {running, Stopped}
    BY <1>4 DEF Reload, files
  <2>2. CASE running' = yaml /\ pc' = "health" /\ job' = job
    <3>1. CASE Writes
      <4>1. ~job.restart
        BY <2>1, <3>1 DEF Before, RestartInv
      <4> QED BY <2>2, <3>1, <4>1, CurrentElsewhere DEF Swapping, Writes
    <3>2. CASE ~Writes
      <4>1. job.goal \in {"repair", "verify"}
        BY <1>0, <2>1, <3>2 DEF FInv, OwnerInv, RouteInv, Jobs, Goals, Writes, FileInv
      <4>2. Active # 0 /\ Agrees
        BY <1>0, <2>1, <4>1 DEF FInv, RowsInv, ActInv, AgreeInv
      <4>3. Known'
        BY <1>0, <2>2, <4>2, KnownFromFile DEF Before
      <4> QED BY <2>2, <4>3, CurrentElsewhere
    <3> QED BY <3>1, <3>2
  <2> QED BY <1>0, <2>1, <2>2, CurrentFail
<1>5. CASE WaitHealthy
  <2>1. /\ pc = "health" /\ yaml' = yaml /\ running' = running
        /\ \/ running # Stopped /\ Healthy
           \/ Fail
    BY <1>5 DEF WaitHealthy, Healthy, Goto, files
  <2>2. CASE running # Stopped /\ Healthy
    <3>1. running = yaml /\ job' = job
      BY <1>0, <2>1, <2>2 DEF Before, RunInv, Healthy, Goto
    <3>2. CASE job.goal = "forward"
      <4>1. ~job.restart
        BY <2>1, <3>2 DEF Before, RestartInv, Writes
      <4>2. pc' = "commit"
        BY <2>2, <3>2 DEF Healthy, Goto
      <4> QED BY <2>1, <3>1, <3>2, <4>1, <4>2 DEF CurrentInv, Swapping, Writes
    <3>3. CASE job.goal # "forward"
      <4>1. pc' # "commit"
        BY <2>2, <3>3 DEF Healthy, Goto
      <4>2. Active # 0 /\ Agrees
        <5>1. CASE job.goal = "restore"
          <6>1. ~job.restart /\ yaml = job.prev
            BY <1>0, <2>1, <5>1 DEF Before, FInv, RestartInv, Writes, FileInv
          <6>2. job.kind = "publication"
            BY <5>1, <6>1 DEF Before, FInv, OwnerInv, RouteInv, ParkedInv, Supervised
          <6>3. Active # 0
            BY <6>2 DEF Before, FInv, OwnerInv, PhaseInv, RowsInv, ActInv
          <6>4. Agrees
            BY <1>0, <2>1, <5>1, <6>1, BaseAgrees DEF FInv, Writes, BeforeOutcome
          <6> QED BY <6>3, <6>4
        <5>2. CASE job.goal # "restore"
          <6>1. job.goal \in {"repair", "verify"}
            BY <1>0, <2>1, <3>3, <5>2 DEF FInv, OwnerInv, RouteInv, Jobs, Goals, FileInv
          <6> QED BY <1>0, <2>1, <6>1 DEF FInv, RowsInv, ActInv, AgreeInv
        <5> QED BY <5>1, <5>2
      <4>3. Known'
        BY <1>0, <2>1, <3>1, <4>2, KnownFromFile DEF Before
      <4> QED BY <4>1, <4>3, CurrentElsewhere
    <3> QED BY <3>2, <3>3
  <2> QED BY <1>0, <2>1, <2>2, CurrentFail
<1> QED BY <1>1, <1>2, <1>3, <1>4, <1>5

LEMMA CurrentCommit ==
  ASSUME Supervised, Before, [Next]_vars, drifts = 0, Commit
  PROVE  CurrentInv'
<1>0. /\ FInv /\ TypeOK /\ GoalInv /\ job \in Jobs /\ Undisturbed /\ pc = "commit"
      /\ job.goal = "forward" /\ Undecided /\ yaml = Candidate
      /\ UNCHANGED <<archive, snapshot, yaml>>
  BY DEF Before, FInv, IInv, JobInv, GoalInv, OutcomeInv, BeforeOutcome, TypeOK, Undisturbed,
         FileInv, Commit, files
<1>1. CASE Committed /\ pc' \in {"prune", "uncertain"} /\ job' = job /\ running' = running
  <2>1. CASE ~job.restart
    <3>1. running \in {Candidate, Stopped}
      BY <1>0, <2>1 DEF Before, CurrentInv
    <3>2. Known'
      BY <1>1, <3>1, KnownFromCandidate DEF Before, Committed
    <3> QED BY <1>1, <3>2, CurrentElsewhere
  <2>2. CASE job.restart
    <3>1. job.cfg = desired
      BY <1>0, <2>2 DEF Before, RestartInv, Supervised, Writes
    <3>2. ~Swapping /\ ~Marking
      BY <1>0, <2>2 DEF Swapping, Marking
    <3> QED BY <1>1, <3>1, <3>2, CurrentStay DEF Before, Committed
  <2> QED BY <2>1, <2>2
<1>2. CASE UNCHANGED database /\ Fail /\ running' = running
  BY <1>0, <1>2, CurrentFail DEF database
<1>3. CASE UNCHANGED database /\ Goto("uncertain")
  <2>1. pc' = "uncertain" /\ job' = job /\ running' = running
        /\ UNCHANGED <<desired, status, degraded>>
    BY <1>3 DEF Goto, database
  <2>2. CASE ~job.restart
    <3>1. running \in {yaml, Stopped}
      BY <1>0, <2>2 DEF Before, CurrentInv
    <3>2. Swapping'
      BY <1>0, <2>1, <2>2, <3>1 DEF Swapping, Writes, Undecided
    <3> QED BY <2>1, <3>2, CurrentElsewhere
  <2>3. CASE job.restart
    <3>1. ~Swapping /\ ~Marking
      BY <1>0, <2>3 DEF Swapping, Marking
    <3> QED BY <2>1, <3>1, CurrentStay
  <2> QED BY <2>2, <2>3
<1> QED BY <1>1, <1>2, <1>3 DEF Commit, Goto

LEMMA CurrentUncertain ==
  ASSUME Supervised, Before, [Next]_vars, drifts = 0, ReconcileCommit
  PROVE  CurrentInv'
<1>0. /\ FInv /\ TypeOK /\ job \in Jobs /\ Undisturbed /\ pc = "uncertain"
      /\ job.goal = "forward" /\ yaml = Candidate /\ job.id \in Ids
      /\ desired' = desired /\ degraded' = degraded /\ yaml' = yaml /\ running' = running
  BY DEF Before, FInv, IInv, JobInv, GoalInv, OutcomeInv, TypeOK, Undisturbed, FileInv,
         ReconcileCommit, files, database
<1>1. \/ \E reason : reason # "none" /\ GotoMark(reason)
      \/ DurableOutcome = "new" /\ pc' = "prune"
      \/ DurableOutcome = "old" /\ yaml = job.prev /\ pc' = "record"
      \/ /\ DurableOutcome = "old" /\ job' = WriteBack
         /\ pc' \in {"remove", "replace"}
  BY <1>0 DEF ReconcileCommit
<1>2. CASE \E reason : reason # "none" /\ GotoMark(reason)
  BY <1>0, <1>2, CurrentMark
<1>3. CASE DurableOutcome = "new" /\ pc' = "prune"
  <2>1. ~Undecided
    <3>1. Active = job.id
      BY <1>3 DEF DurableOutcome
    <3> QED BY <1>0, <3>1, ActiveType, BoundsAssumption DEF ActiveIds, Ids, Undecided
  <2>2. ~Swapping /\ ~Marking
    BY <1>0, <2>1 DEF Swapping, Marking
  <2> QED BY <1>0, <1>3, <2>2, CurrentStay
<1>4. CASE DurableOutcome = "old" /\ yaml = job.prev /\ pc' = "record"
  <2>1. CASE Swapping
    <3>1. running \in {yaml, Stopped} /\ ~job.restart /\ Undecided
      BY <1>0, <2>1 DEF Swapping
    <3>2. job.kind = "publication"
      BY <1>0, <3>1 DEF Before, FInv, OwnerInv, RouteInv, ParkedInv, Supervised
    <3>3. Active # 0
      BY <3>2 DEF Before, FInv, OwnerInv, PhaseInv, RowsInv, ActInv
    <3>4. Agrees
      BY <1>0, <1>4, <3>1, BaseAgrees DEF FInv, Writes
    <3>5. Known'
      BY <1>0, <3>1, <3>3, <3>4, KnownFromFile DEF Before
    <3> QED BY <1>4, <3>5, CurrentElsewhere
  <2>2. CASE ~Swapping
    <3>1. ~Marking
      BY <1>0 DEF Marking
    <3> QED BY <1>0, <1>4, <2>2, <3>1, CurrentStay
  <2> QED BY <2>1, <2>2
<1>5. CASE job' = WriteBack /\ pc' \in {"remove", "replace"}
  <2>1. job'.goal = "restore" /\ job'.restart = job.restart
    BY <1>0, <1>5 DEF WriteBack, Jobs
  <2>2. CASE ~job.restart
    BY <1>5, <2>1, <2>2, CurrentElsewhere DEF Swapping, Writes
  <2>3. CASE job.restart
    <3>1. ~Swapping /\ ~Marking
      BY <1>0, <2>3 DEF Swapping, Marking
    <3> QED BY <1>0, <1>5, <3>1, CurrentStay
  <2> QED BY <2>2, <2>3
<1> QED BY <1>1, <1>2, <1>3, <1>4, <1>5

\* A job with a mark comes to its mark.
LEMMA CurrentClose ==
  ASSUME Supervised, Before, [Next]_vars, drifts = 0, RecordFailure \/ Prune \/ Mark
  PROVE  CurrentInv'
<1>0. /\ TypeOK /\ job \in Jobs /\ pc \in {"record", "prune", "mark"} /\ desired' = desired
      /\ ~Swapping
  BY DEF Before, FInv, IInv, TypeOK, RecordFailure, Prune, Mark, Swapping
<1>1. CASE Mark
  <2>1. degraded' # "none" /\ pc' # "commit"
    BY <1>1 DEF Mark, Before, FInv, OwnerInv, RouteInv, Supervised, GotoMark, Finish, Release
  <2> QED BY <2>1, CurrentElsewhere
<1>2. CASE RecordFailure \/ Prune
  <2>1. /\ degraded' = degraded
        /\ \/ pc' = "prune" /\ job' = job /\ running' = running
           \/ Return(job.mark)
    BY <1>2 DEF RecordFailure, Prune, Goto
  <2>2. CASE pc' = "prune" /\ job' = job /\ running' = running
    <3>1. CASE Marking
      BY <2>2, <3>1, CurrentElsewhere DEF Marking
    <3>2. CASE ~Marking
      BY <1>0, <2>1, <2>2, <3>2, CurrentStay
    <3> QED BY <3>1, <3>2
  <2>3. CASE Return(job.mark)
    <3>1. \/ \E reason : reason # "none" /\ GotoMark(reason)
          \/ job.mark = "none" /\ Finish("ok")
      BY <2>3 DEF Return
    <3>2. CASE \E reason : reason # "none" /\ GotoMark(reason)
      BY <1>0, <3>2, CurrentMark
    <3>3. CASE job.mark = "none" /\ Finish("ok")
      <4>1. ~Marking /\ pc' = "idle" /\ running' \in {running, Stopped}
        BY <3>3 DEF Marking, Finish, Release
      <4> QED BY <1>0, <2>1, <4>1, CurrentStay
    <3> QED BY <3>1, <3>2, <3>3
  <2> QED BY <2>1, <2>2, <2>3
<1> QED BY <1>1, <1>2

LEMMA CurrentReconcile ==
  ASSUME Supervised, Before, [Next]_vars, drifts = 0,
         Inspect \/ Settle \/ Clear \/ RuntimeHealthy
  PROVE  CurrentInv'
<1>0. /\ FInv /\ TypeOK /\ job \in Jobs /\ Undisturbed /\ desired' = desired
      /\ pc \in {"reconcile", "settle", "clear", "boundary"}
  BY DEF Before, FInv, IInv, TypeOK, Undisturbed, Inspect, Settle, Clear, RuntimeHealthy,
         database
<1>1. ~Swapping /\ ~Marking
  BY <1>0 DEF Swapping, Marking
<1>2. CASE \E reason : reason # "none" /\ GotoMark(reason)
  BY <1>0, <1>2, CurrentMark
<1>3. CASE (degraded # "none" => degraded' # "none") /\ pc' # "commit"
           /\ running' \in {running, Stopped}
  BY <1>0, <1>1, <1>3, CurrentStay
<1>4. CASE Inspect
  <2>1. pc = "reconcile"
    BY <1>4 DEF Inspect
  <2> DEFINE Cut == Active = 0 \/ desired.nodes # NoNodes \/ (phase # "prerun" /\ pending)
  <2>2. CASE Cut /\ InspectCutover /\ pc' = "candidate" /\ running' = running
    <3>1. phase = "prerun"
      BY <2>2 DEF InspectCutover, Finish, Release, GotoMark
    <3>2. running' = Stopped
      BY <2>2, <3>1 DEF Before, ParkedInv, Supervised
    <3> QED BY <2>2, <3>2, CurrentElsewhere DEF Known
  <2>3. CASE ~(Cut /\ InspectCutover /\ pc' = "candidate" /\ running' = running)
    <3>1. \/ \E reason : reason # "none" /\ GotoMark(reason)
          \/ degraded' = degraded /\ \E result : Finish(result)
          \/ degraded' = degraded /\ \E goal : Resume(goal)
      BY <1>4, <2>3
         DEF Inspect, InspectCutover, InspectRevision, InspectMatching, InspectFails,
             FinishAsMarked
    <3>2. degraded' = degraded /\ ((\E result : Finish(result)) \/ \E goal : Resume(goal))
            => pc' # "commit" /\ running' \in {running, Stopped}
      BY DEF Finish, Release, Resume
    <3> QED BY <1>2, <1>3, <3>1, <3>2
  <2> QED BY <2>2, <2>3
<1>5. CASE Settle
  <2>1. \/ GotoMark("publication")
        \/ degraded' = degraded /\ pc' # "commit" /\ running' \in {running, Stopped}
    BY <1>5 DEF Settle, FinishAsMarked, Finish, Release, Goto, database
  <2> QED BY <1>2, <1>3, <2>1
<1>6. CASE Clear
  <2>1. /\ pc = "clear" /\ yaml' = yaml
        /\ \/ GotoMark("r3")
           \/ degraded' = "publication" /\ Finish("degraded")
           \/ degraded' = "none" /\ Finish("ok")
    BY <1>6 DEF Clear, Supervised, files
  <2>2. pc' = "idle" => CurrentInv'
    <3>1. SUFFICES ASSUME pc' = "idle" PROVE CurrentInv'
      OBVIOUS
    <3>2. running \in {yaml, Stopped} /\ Active # 0 /\ Agrees
      BY <1>0, <2>1 DEF Before, FInv, RunInv, RestartInv, Supervised, RowsInv, ActInv, AgreeInv
    <3>3. running' \in {running, Stopped}
      BY <2>1, <3>1 DEF Finish, GotoMark
    <3>4. Known'
      BY <1>0, <3>2, <3>3, KnownFromFile DEF Before
    <3> QED BY <3>1, <3>4, CurrentElsewhere
  <2>3. ~GotoMark("r3") => pc' = "idle"
    BY <2>1 DEF Finish, Release
  <2> QED BY <1>2, <2>2, <2>3
<1>7. CASE RuntimeHealthy
  <2>1. degraded' = degraded /\ pc' = "idle" /\ running' \in {running, Stopped}
    BY <1>7 DEF RuntimeHealthy, Finish, Release
  <2> QED BY <1>3, <2>1
<1> QED BY <1>4, <1>5, <1>6, <1>7

LEMMA CurrentOthers ==
  ASSUME Supervised, Before, [Next]_vars, drifts = 0, drifts' = 0,
         Request \/ Startup \/ Runtime \/ Environment \/ UNCHANGED vars
  PROVE  CurrentInv'
<1>0. FInv /\ TypeOK /\ desired' = desired /\ degraded' = degraded
  BY DEF Before, FInv, IInv, Request, Manage, UpdateEndpoints, Expire, Rollback, Publish,
         RefuseUnverified, Startup, Boot, ReconcileAfterRuntime, Runtime, RunRuntime,
         ReloadRuntime, FinalizeRuntime, Environment, MihomoExits, InitStarts, Crash, Drift,
         Tick, vars, database
<1>1. ASSUME pc = "idle", pc' # "commit", running' \in {running, Stopped}
      PROVE  CurrentInv'
  <2>1. ~Swapping /\ ~Marking
    BY <1>1 DEF Swapping, Marking
  <2> QED BY <1>0, <1>1, <2>1, CurrentStay
<1>2. CASE Request \/ Startup
  BY <1>1, <1>2
     DEF Request, Manage, UpdateEndpoints, Expire, Rollback, Publish, MayPublish,
         RefuseUnverified, Startup, Boot, ReconcileAfterRuntime
<1>3. CASE RunRuntime \/ ReloadRuntime
  <2>1. /\ pc = "idle" /\ Serving /\ pc' \in {"idle", "boundary"}
        /\ running' \in {yaml, Stopped}
    BY <1>3 DEF RunRuntime, ReloadRuntime, Listening, Serving, Supervised, control
  <2>2. CASE degraded = "none"
    <3>1. Active # 0 /\ Agrees
      BY <2>1, <2>2 DEF Before, FInv, RowsInv, ActInv, ClaimInv, Supervised
    <3>2. Known'
      BY <1>0, <2>1, <3>1, KnownFromFile DEF Before
    <3> QED BY <2>1, <3>2, CurrentElsewhere
  <2>3. CASE degraded # "none"
    BY <1>0, <2>1, <2>3, CurrentElsewhere
  <2> QED BY <2>2, <2>3
<1>4. CASE MihomoExits \/ Crash \/ Tick \/ UNCHANGED vars
  <2>1. CASE running' = Stopped /\ (running # Stopped \/ pc' # pc \/ job' # job)
    <3>1. Known'
      BY <2>1 DEF Known
    <3> QED BY <2>1, <3>1 DEF CurrentInv
  <2>2. CASE UNCHANGED <<pc, job, running>>
    <3>1. yaml' = yaml /\ status' = status
      BY <1>4 DEF MihomoExits, Crash, Tick, vars, files, database
    <3>2. Known => Known'
      BY <1>0, <2>2, KnownKept
    <3> QED BY <1>0, <2>2, <3>1, <3>2
            DEF Before, CurrentInv, Swapping, Marking, Writes, Undecided
  <2> QED BY <1>4, <2>1, <2>2 DEF MihomoExits, Crash, Tick, Supervised, control, vars
<1>5. ~Drift /\ ~InitStarts /\ ~FinalizeRuntime
  BY WhoWrites DEF Drift, InitStarts, FinalizeRuntime, Supervised, Before, PanelInv, FInv,
                   IInv, TypeOK
<1> QED BY <1>2, <1>3, <1>4, <1>5 DEF Runtime, Environment

LEMMA CurrentStep ==
  ASSUME Supervised
  PROVE  Before /\ [Next]_vars => CurrentInv'
<1> SUFFICES ASSUME Before, [Next]_vars, drifts' = 0 PROVE CurrentInv'
  BY DEF CurrentInv
<1>0. drifts = 0
  BY WhoWrites DEF Before, FInv, IInv
<1> QED BY <1>0, CurrentWrite, CurrentCommit, CurrentUncertain, CurrentClose,
           CurrentReconcile, CurrentOthers DEF Next, Work

\* In every instance with a supervised Mihomo and one endpoint, in which marks
\* can be written and nobody edits the YAML: a panel that settled leaves Mihomo
\* with the active YAML, whatever failed before, unless an expiry is due.
THEOREM MihomoRunsWhatIsActive ==
  ASSUME Supervised
  PROVE  Spec => [](drifts = 0 => RunningAgreement)
<1>1. Init => Before
  <2> SUFFICES ASSUME Init PROVE Before
    OBVIOUS
  <2>1. FInv
    BY FInvInit
  <2>2. RunInv /\ PanelInv /\ ClaimInv
    BY NoJobFields DEF Init, RunInv, PanelInv, ClaimInv, Serving
  <2>3. RestartInv
    <3>1. Binds = {FirstBind} => applied = FirstBind
      BY DEF Init
    <3> QED BY <3>1, NoJobFields DEF Init, RestartInv, Writes
  <2>t. TimesInv /\ ParkedInv
    <3>1. NoJob.asOf = 0
      BY DEF NoJob
    <3> QED BY <3>1, NoJobFields DEF Init, TimesInv, ParkedInv
  <2>4. CurrentInv
    BY DEF Init, CurrentInv, Known
  <2> QED BY <2>1, <2>2, <2>3, <2>4, <2>t DEF Before
<1>2. Before /\ [Next]_vars => Before'
  BY FInvStep, RunStep, PanelStep, ClaimStep, TimesStep, RestartStep, ParkedStep, CurrentStep
     DEF Before
<1>3. Before => (drifts = 0 => RunningAgreement)
  <2> SUFFICES ASSUME Before, drifts = 0, pc = "idle", phase = "steady", degraded = "none",
                      running # Stopped, ExpiresAt[desired.nodes] > now
               PROVE  running = yaml
    BY DEF RunningAgreement
  <2>0. now \in Nat /\ ExpiresAt[desired.nodes] \in Nat
    BY BoundsAssumption, SectionsAssumption DEF Before, FInv, IInv, TypeOK, Times, Desired
  <2>1. Rendered
    BY DEF Before, CurrentInv, Known, Marking, Swapping
  <2>2. Active # 0 /\ Agrees
    BY DEF Before, FInv, RowsInv, ActInv, ClaimInv, Supervised, Serving
  <2>3. /\ Active \in Ids /\ snapshot[Active] # None
        /\ yaml = Compile(desired, snapshot[Active].asOf)
    BY <2>2, ActiveType, ActiveDigest DEF Before, FInv, IInv, ActiveIds, ArtifactsIntact, Agrees
  <2>4. snapshot[Active].asOf \in 0 .. now
    BY <2>0, <2>3, BoundsAssumption DEF Before, TimesInv, FInv, IInv, TypeOK, Times
  <2>5. ASSUME NEW t \in 0 .. now
        PROVE  Compile(desired, t) = [desired EXCEPT !.nodes = desired.nodes]
    BY <2>0, <2>5 DEF Compile
  <2> QED BY <2>1, <2>3, <2>4, <2>5 DEF Rendered
<1> QED BY <1>1, <1>2, <1>3, PTL DEF Spec
=============================================================================
