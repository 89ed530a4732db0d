---------------------------- MODULE Publication ----------------------------
(***************************************************************************)
(* The publication transaction of internal/publisher together with what    *)
(* it acts on: the SQLite rows of internal/store, the revision archive,    *)
(* the active Mihomo YAML, the running Mihomo, and the startup and runtime *)
(* boundaries of internal/app and internal/service that share its          *)
(* coordinator.  One process at a time owns the coordinator, so the steps  *)
(* of one job (a publication, a startup reconciliation, a runtime action)  *)
(* interleave only with the environment: the clock, an external edit of    *)
(* the YAML, Mihomo exiting or being respawned, and a crash of the panel.  *)
(***************************************************************************)
EXTENDS Integers, FiniteSets, FiniteSetsExt

CONSTANTS
  Nodes,         \* the node sections a desired state may have
  NoNodes,       \* the empty one, which the R3 cutover baseline publishes
  Disabled,      \* [Nodes -> Nodes]: the section once its expired users are disabled
  ExpiresAt,     \* [Nodes -> Nat]: when a user of the section expires
  Binds,         \* the external-controller settings of Mihomo (bind address, CORS
                 \* origins) behind one connect address
  FirstBind,     \* the endpoint the installation starts with
  HistoryLimit,  \* inactive revisions kept by prune
  Native,        \* TRUE: an init system runs Mihomo; FALSE: the panel supervises it
  Faults,        \* the classes of steps that may fail
  DriftAt,       \* the control points at which somebody may edit the YAML
  MaxRevisions, MaxTime, MaxCrashes, MaxDrifts,   \* bounds for TLC
  Absent,        \* no YAML file
  Unmanaged,     \* a YAML that is no revision: the installer's, or a hand edit
  Stopped,       \* Mihomo is not running
  None           \* no archived file

FaultClasses == {"validate", "archive", "database", "replace", "runtime",
                 "commit", "read", "record", "prune", "clear", "mark", "exit"}

ASSUME SectionsAssumption ==
  /\ NoNodes \in Nodes
  /\ Disabled \in [Nodes -> Nodes]
  /\ ExpiresAt \in [Nodes -> Nat]
  /\ FirstBind \in Binds
ASSUME BoundsAssumption ==
  /\ HistoryLimit \in Nat \ {0}
  /\ MaxRevisions \in Nat /\ MaxTime \in Nat
  /\ MaxCrashes \in Nat /\ MaxDrifts \in Nat
ASSUME SwitchesAssumption ==
  Native \in BOOLEAN /\ Faults \subseteq FaultClasses

Ids     == 1 .. MaxRevisions
Times   == 0 .. MaxTime
Desired == [nodes : Nodes, bind : Binds]   \* also the rendered YAML of one
Yamls   == Desired \cup {Unmanaged}

ASSUME DistinctAssumption ==
  /\ {Absent, Unmanaged, Stopped} \cap Desired = {}
  /\ Absent # Unmanaged /\ Stopped # Unmanaged
  /\ None \notin Desired \cup [state : Desired, asOf : Times]

VARIABLES
  \* SQLite
  desired,   \* the managed desired state (settings, nodes, users)
  status,    \* config_revisions: the status of every row, "none" without one
  digest,    \* config_revisions: the SHA-256 of the rendered YAML
  degraded,  \* system_state: "none", or the cause: "r3", "publication"
  r3,        \* runtime_convergence_state.r3_cutover_pending
  applied,   \* endpoint_settings_last_applied: Mihomo's endpoint
  pending,   \* endpoint_settings_pending.requires_mihomo_restart
  \* the file system
  yaml,      \* the active configuration file
  archive,   \* revisions/<id>.yaml
  snapshot,  \* revisions/<id>.json
  \* processes
  running,   \* the configuration Mihomo runs with, or Stopped
  finalizer, \* the init system waits for the finalizer of a Mihomo it started
  phase,     \* of the panel: before, between and after its two reconciliations
  pc, job,   \* the job that owns the coordinator
  \* the environment
  now, crashes, drifts

database == <<desired, status, digest, degraded, r3, applied, pending>>
files    == <<yaml, archive, snapshot>>
control  == <<pc, job>>
env      == <<finalizer, now, crashes, drifts>>
vars == <<desired, status, digest, degraded, r3, applied, pending, yaml,
          archive, snapshot, running, finalizer, phase, pc, job, now, crashes,
          drifts>>

-----------------------------------------------------------------------------
(* Data. *)

\* The compiler drops the users that have expired at the effective time.
Compile(state, asOf) ==
  [state EXCEPT !.nodes = IF ExpiresAt[@] <= asOf THEN Disabled[@] ELSE @]

ActiveIds   == {i \in Ids : status[i] = "active"}
InactiveIds == {i \in Ids : status[i] \in {"rolled_back", "failed"}}
Active      == IF ActiveIds = {} THEN 0 ELSE Max(ActiveIds)

\* A fresh identifier, larger than every one a row or a file still carries.
NewId == 1 + Max({0} \cup {i \in Ids : \/ status[i] # "none"
                                       \/ archive[i] # None
                                       \/ snapshot[i] # None})

\* Mutants: one row too many expires; failed rows are not counted.
ExpiredEarly == {i \in InactiveIds :
                   Cardinality({j \in InactiveIds : j > i}) >= HistoryLimit - 1}
ExpiredSuccessful ==
  {i \in InactiveIds : /\ status[i] = "rolled_back"
                       /\ Cardinality({j \in InactiveIds : j > i}) >= HistoryLimit}

\* InactiveRevisionsBeyond: all but the HistoryLimit newest inactive rows.
Expired == {i \in InactiveIds :
              Cardinality({j \in InactiveIds : j > i}) >= HistoryLimit}

\* The archived YAML and the archived state of revision i are the ones whose
\* digest the row records.
ArtifactsIntact(i) ==
  /\ archive[i] = digest[i]
  /\ snapshot[i] # None
  /\ Compile(snapshot[i].state, snapshot[i].asOf) = digest[i]

\* Mutant: the desired state is rendered at the current time.
DesiredMatchesNow(i) == Compile(desired, now) = digest[i]

\* The desired state still renders to the revision, at the revision's time.
DesiredMatches(i) == Compile(desired, snapshot[i].asOf) = digest[i]

\* verifyActivePublication, when there is an active revision.
ActiveVerified ==
  Active # 0 =>
    ArtifactsIntact(Active) /\ DesiredMatches(Active) /\ yaml = digest[Active]

NoJob == [kind |-> "none", goal |-> "none", cfg |-> [nodes |-> NoNodes, bind |-> FirstBind],
          asOf |-> 0, restart |-> FALSE, id |-> 0, base |-> 0,
          before |-> [nodes |-> NoNodes, bind |-> FirstBind], prev |-> Absent,
          prevAsOf |-> 0, mark |-> "none"]

\* A reconciliation: of a "startup", or of the "finalizer" of a Mihomo start.
ReconcileJob(kind) == [NoJob EXCEPT !.kind = kind]

PublicationJob(kind, cfg, asOf, restart) ==
  [kind |-> kind, goal |-> "forward", cfg |-> cfg, asOf |-> asOf,
   restart |-> restart, id |-> NewId, base |-> Active, before |-> desired,
   prev |-> yaml, prevAsOf |-> IF Active = 0 THEN asOf ELSE snapshot[Active].asOf,
   mark |-> "none"]

Candidate == Compile(job.cfg, job.asOf)
Content   == IF job.goal = "restore" THEN job.prev ELSE Candidate

\* Past the first reconciliation.
Serving == phase \notin {"down", "prerun"}

\* The HTTP server accepts requests: a native panel listens before the runtime
\* is reconciled, a managed one after.
Listening == IF Native THEN Serving ELSE phase \in {"steady", "readonly"}

-----------------------------------------------------------------------------
(* Control.  A job walks through pc; goal says which direction it writes. *)

Goto(label) == pc' = label /\ UNCHANGED <<job, phase, running>>

GotoMark(reason) ==
  /\ pc' = "mark"
  /\ job' = [job EXCEPT !.mark = reason]
  /\ UNCHANGED phase

\* Mutants: a startup whose marker could not be written, or whose cutover
\* baseline is missing, serves all the same.
PhaseAfterLenient(result) ==
  CASE job.kind \in {"startup", "baseline"} /\ phase = "prerun" ->
         IF Native THEN "serving" ELSE IF result = "degraded" THEN "held" ELSE "starting"
    [] job.kind \in {"startup", "baseline"} /\ phase \in {"serving", "held"} ->
         IF degraded' = "none" THEN "steady" ELSE "readonly"
    [] job.kind = "boundary" /\ phase = "starting" ->
         IF result = "ok" THEN "serving" ELSE "down"
    [] OTHER -> phase

\* The panel after a startup job that returned result.  The supervised Mihomo
\* is started next, or held back when the first reconciliation says degraded.
PhaseAfter(result) ==
  CASE job.kind \in {"startup", "baseline"} /\ phase = "prerun" ->
         IF result = "fatal" \/ (result = "degraded" /\ r3 /\ Active = 0) THEN "down"
         ELSE IF Native THEN "serving"
         ELSE IF result = "degraded" THEN "held" ELSE "starting"
    [] job.kind \in {"startup", "baseline"} /\ phase \in {"serving", "held"} ->
         IF result = "fatal" \/ (result = "degraded" /\ degraded' = "none")
         THEN IF Native THEN "readonly" ELSE "down"
         ELSE IF degraded' = "none" THEN "steady" ELSE "readonly"
    [] job.kind = "boundary" /\ phase = "starting" ->
         IF result = "ok" THEN "serving" ELSE "down"
    [] OTHER -> phase

Release == pc' = "idle" /\ job' = NoJob

\* The job releases the coordinator.  A supervised Mihomo goes with the panel,
\* and the init system stops a Mihomo whose finalizer fails.
Finish(result) ==
  /\ Release
  /\ phase' = PhaseAfter(result)
  /\ running' = IF \/ phase' = "down" /\ ~Native
                   \/ job.kind = "finalizer" /\ result # "ok"
                THEN Stopped ELSE running

\* The publication returns: a baseline that did not become active is recorded
\* by the startup reconciliation that asked for it.
Return(mark) ==
  LET reason == IF mark = "none" /\ job.kind = "baseline" /\ Active # job.id
                THEN "r3" ELSE mark
  IN IF reason = "none" THEN Finish("ok")
     ELSE GotoMark(reason) /\ UNCHANGED running

WriteBack == [job EXCEPT !.goal = "restore"]

\* Mutant: a failed publication is recorded without restoring the file.
FailWithoutRestore ==
  IF job.goal \in {"forward", "restore"}
  THEN pc' = "record" /\ UNCHANGED <<job, phase>>
  ELSE GotoMark(IF job.goal = "verify" /\ r3 THEN "r3" ELSE "publication")

\* What follows a failed replacement, reload or health check.
Fail ==
  CASE job.goal = "forward" ->
         /\ pc' = IF job.prev = Absent THEN "remove" ELSE "replace"
         /\ job' = WriteBack
         /\ UNCHANGED phase
    [] job.goal = "restore" ->
         /\ pc' = "record"
         /\ job' = [job EXCEPT !.mark = "publication"]
         /\ UNCHANGED phase
    [] OTHER -> GotoMark(IF job.goal = "verify" /\ r3 THEN "r3" ELSE "publication")

\* What follows a healthy Mihomo.
Healthy ==
  Goto(CASE job.goal = "forward"   -> "commit"
         [] job.goal = "restore"   -> "record"
         [] job.goal = "republish" -> "prune"
         [] job.goal = "repair"    -> "settle"
         [] OTHER                  -> "clear")

\* Mutant: the new file is committed without a reload.
ReplacedWithoutReload ==
  CASE job.goal \in {"forward", "restore"} ->
         Goto(IF job.goal = "forward" THEN "commit" ELSE "record")
    [] job.goal = "republish" -> Goto("prune")
    [] job.goal = "repair" /\ phase = "prerun" -> Finish("ok")
    [] OTHER -> Goto("settle")

\* What follows a replaced YAML: a request that needs a Mihomo restart, a file
\* repaired while one is pending, and a file repaired for a Mihomo that does
\* not run are not reloaded.
Replaced ==
  CASE job.goal \in {"forward", "restore"} /\ job.restart ->
         Goto(IF job.goal = "forward" THEN "commit" ELSE "record")
    [] job.goal = "republish" /\ (pending \/ running = Stopped) -> Goto("prune")
    [] job.goal = "repair" /\ phase = "prerun" -> Finish("ok")
    [] job.goal = "repair" /\ phase # "prerun" /\ (pending \/ running = Stopped) ->
         Goto("settle")
    [] OTHER -> Goto("reload")

-----------------------------------------------------------------------------
(* Requests: publishLocked up to the candidate file. *)

\* The gates in front of BEGIN IMMEDIATE.
MayPublish(restart) ==
  /\ pc = "idle" /\ Listening
  /\ ~r3
  /\ degraded = "none"
  /\ restart \/ ~pending

Publish(cfg, asOf, restart) ==
  /\ MayPublish(restart)
  /\ NewId \in Ids
  /\ ActiveVerified
  /\ job' = PublicationJob("publication", cfg, asOf, restart)
  /\ pc' = "candidate"
  /\ UNCHANGED <<database, files, running, phase, env>>

\* A management operation on nodes, users or settings other than endpoints.
Manage(nodes) == Publish([desired EXCEPT !.nodes = nodes], now, FALSE)

\* An endpoint change is never reloaded, whatever it changes.
UpdateEndpoints(bind) == Publish([desired EXCEPT !.bind = bind], now, TRUE)

\* The expiry batch; its time was read before the coordinator was acquired.
Expire(batch) ==
  /\ phase = "steady"
  /\ batch <= now /\ ExpiresAt[desired.nodes] <= batch
  /\ Publish([desired EXCEPT !.nodes = Disabled[@]], batch, FALSE)

\* Only successful revisions with intact artifacts are published again.
Rollback(i) ==
  /\ status[i] \in {"active", "rolled_back"}
  /\ ArtifactsIntact(i)
  /\ Publish(snapshot[i].state, now,
             pending \/ snapshot[i].state.bind # applied)

\* The active revision fails its integrity check: nothing is overwritten.
RefuseUnverified ==
  /\ \E restart \in BOOLEAN : MayPublish(restart)
  /\ ~ActiveVerified
  /\ job' = [NoJob EXCEPT !.kind = "publication", !.mark = "publication"]
  /\ pc' = "mark"
  /\ UNCHANGED <<database, files, running, phase, env>>

-----------------------------------------------------------------------------
(* The steps of a publication. *)

\* Mihomo checks the candidate file.  A rejected publication is archived.
Validate ==
  /\ pc = "candidate"
  /\ \/ /\ IF job.goal = "verify" /\ running = Stopped THEN Fail
           ELSE /\ pc' = CASE job.goal = "forward" -> "archive"
                           [] job.goal = "verify"  -> "reload"
                           [] OTHER                -> "replace"
                /\ job' = IF job.goal = "forward" /\ job.base = 0
                          THEN [job EXCEPT !.prev = yaml] ELSE job
                /\ UNCHANGED phase
        /\ UNCHANGED <<archive, snapshot>>
     \/ /\ "validate" \in Faults
        /\ IF job.goal = "forward"
           THEN /\ \/ /\ archive' = [archive EXCEPT ![job.id] = Candidate]
                      /\ snapshot' = [snapshot EXCEPT ![job.id] =
                                        [state |-> job.cfg, asOf |-> job.asOf]]
                   \/ "archive" \in Faults /\ UNCHANGED <<archive, snapshot>>
                /\ pc' = "record" /\ UNCHANGED <<job, phase>>
           ELSE Fail /\ UNCHANGED <<archive, snapshot>>
  /\ UNCHANGED <<database, yaml, running, env>>

ArchiveYaml ==
  /\ pc = "archive"
  /\ \/ archive' = [archive EXCEPT ![job.id] = Candidate] /\ Goto("snapshot")
     \/ "archive" \in Faults /\ Return("none") /\ UNCHANGED archive
  /\ UNCHANGED <<database, yaml, snapshot, env>>

ArchiveState ==
  /\ pc = "snapshot"
  /\ \/ /\ snapshot' = [snapshot EXCEPT ![job.id] =
                          [state |-> job.cfg, asOf |-> job.asOf]]
        /\ Goto("insert")
        /\ UNCHANGED archive
     \/ /\ "archive" \in Faults
        /\ archive' = [archive EXCEPT ![job.id] = None]
        /\ Return("none")
        /\ UNCHANGED snapshot
  /\ UNCHANGED <<database, yaml, env>>

\* Mutant: the active YAML is not read again.
ChangedSinceVerifiedNever == FALSE

\* The active YAML changed after its integrity check.
ChangedSinceVerified == job.base # 0 /\ yaml # digest[job.base]

\* The pending row is inserted in the transaction, then the active YAML is
\* read again: a change since the integrity check aborts the publication.
Insert ==
  /\ pc = "insert"
  /\ \/ "database" \in Faults /\ Goto("record") /\ UNCHANGED <<archive, snapshot>>
     \/ IF ChangedSinceVerified
        THEN /\ archive' = [archive EXCEPT ![job.id] = None]
             /\ snapshot' = [snapshot EXCEPT ![job.id] = None]
             /\ GotoMark("publication") /\ UNCHANGED running
        ELSE Goto("replace") /\ UNCHANGED <<archive, snapshot>>
  /\ UNCHANGED <<database, yaml, env>>

\* rename and fsync; a failure may come before or after the rename.
Replace ==
  /\ pc = "replace"
  /\ \/ yaml' = Content /\ Replaced
     \/ "replace" \in Faults /\ yaml' \in {yaml, Content} /\ Fail /\ UNCHANGED running
  /\ UNCHANGED <<database, archive, snapshot, env>>

\* restorePrevious when there was no file: remove it and stop Mihomo.
Remove ==
  /\ pc = "remove"
  /\ \/ /\ yaml' = Absent /\ running' = Stopped
        /\ pc' = "record" /\ UNCHANGED <<job, phase>>
     \/ "replace" \in Faults /\ yaml' \in {yaml, Absent} /\ Fail /\ UNCHANGED running
  /\ UNCHANGED <<database, archive, snapshot, env>>

\* Controller reload, with the process restart as the fallback.
Reload ==
  /\ pc = "reload"
  /\ \/ /\ yaml # Absent
        /\ running' = yaml
        /\ pc' = "health" /\ UNCHANGED <<job, phase>>
     \/ /\ "runtime" \in Faults \/ yaml \notin Desired
        /\ running' \in {running, Stopped}
        /\ Fail
  /\ UNCHANGED <<database, files, env>>

WaitHealthy ==
  /\ pc = "health"
  /\ \/ running # Stopped /\ Healthy
     \/ ("runtime" \in Faults \/ running = Stopped) /\ Fail /\ UNCHANGED running
  /\ UNCHANGED <<database, files, env>>

\* Mutants: the row stays pending; the previous active row is not retired.
CommittedPending ==
  /\ desired' = job.cfg
  /\ pending' = (job.cfg.bind # applied)
  /\ status' = [status EXCEPT ![job.id] = "pending"]
  /\ digest' = [digest EXCEPT ![job.id] = Candidate]
  /\ UNCHANGED <<degraded, r3, applied>>
CommittedTwice ==
  /\ desired' = job.cfg
  /\ pending' = (job.cfg.bind # applied)
  /\ status' = [status EXCEPT ![job.id] = "active"]
  /\ digest' = [digest EXCEPT ![job.id] = Candidate]
  /\ UNCHANGED <<degraded, r3, applied>>

\* The rows once the job's revision is active.
Activated == [i \in Ids |-> CASE i = job.id -> "active"
                              [] i # job.id /\ status[i] = "active" -> "rolled_back"
                              [] OTHER -> status[i]]

\* The transaction: desired state, endpoint restart marker, revision rows.
Committed ==
  /\ desired' = job.cfg
  /\ pending' = (job.cfg.bind # applied)
  /\ status' = Activated
  /\ digest' = [digest EXCEPT ![job.id] = Candidate]
  /\ UNCHANGED <<degraded, r3, applied>>

\* COMMIT may report an error for a transaction that is durable or lost.
Commit ==
  /\ pc = "commit"
  /\ \/ Committed /\ Goto("prune")
     \/ "database" \in Faults /\ Fail /\ UNCHANGED <<database, running>>
     \/ "commit" \in Faults /\ (Committed \/ UNCHANGED database) /\ Goto("uncertain")
  /\ UNCHANGED <<files, env>>

\* Mutant: an error of COMMIT is taken as proof that nothing was committed.
DurableOutcomeFromError == "old"

\* Which of the two states SQLite holds after the error.
DurableOutcome ==
  CASE Active = job.id /\ Compile(desired, job.asOf) = digest[job.id] -> "new"
    [] Active = job.base /\ Compile(desired, job.prevAsOf) =
                            Compile(job.before, job.prevAsOf) -> "old"
    [] OTHER -> "unknown"

\* reconcileCommit: classify by what is durable and by what the YAML holds.
ReconcileCommit ==
  LET outcome   == DurableOutcome
      yamlIsNew == yaml = Candidate
      yamlIsOld == yaml = job.prev
  IN
  /\ pc = "uncertain"
  /\ \/ "read" \in Faults /\ GotoMark("publication")
     \/ CASE outcome = "new" /\ yamlIsNew -> pc' = "prune" /\ UNCHANGED <<job, phase>>
          [] outcome = "old" /\ yamlIsOld -> pc' = "record" /\ UNCHANGED <<job, phase>>
          [] outcome = "old" /\ yamlIsNew /\ ~yamlIsOld ->
               /\ pc' = IF job.prev = Absent THEN "remove" ELSE "replace"
               /\ job' = WriteBack
               /\ UNCHANGED phase
          [] outcome = "new" /\ ~yamlIsNew /\ (yaml = Absent \/ yamlIsOld) ->
               /\ pc' = "candidate"
               /\ job' = [job EXCEPT !.goal = "republish"]
               /\ UNCHANGED phase
          [] OTHER -> GotoMark("publication")
  /\ UNCHANGED <<database, files, running, env>>

\* recordFailure: the row of a publication that did not become durable.
RecordFailure ==
  /\ pc = "record"
  /\ \/ /\ status' = [status EXCEPT ![job.id] = "failed"]
        /\ digest' = [digest EXCEPT ![job.id] = Candidate]
        /\ Goto("prune")
     \/ "record" \in Faults /\ Return(job.mark) /\ UNCHANGED <<status, digest>>
  /\ UNCHANGED <<desired, degraded, r3, applied, pending, files, env>>

\* prune, newest expired row first: both files, then the row.
Prune ==
  /\ pc = "prune"
  /\ \/ Expired = {} /\ Return(job.mark) /\ UNCHANGED <<status, digest, archive, snapshot>>
     \/ /\ Expired # {}
        /\ LET i == Max(Expired) IN
           CASE archive[i] # None ->
                  /\ archive' = [archive EXCEPT ![i] = None]
                  /\ UNCHANGED <<status, digest, snapshot>>
             [] archive[i] = None /\ snapshot[i] # None ->
                  /\ snapshot' = [snapshot EXCEPT ![i] = None]
                  /\ UNCHANGED <<status, digest, archive>>
             [] OTHER ->
                  /\ status' = [status EXCEPT ![i] = "none"]
                  /\ digest' = [digest EXCEPT ![i] = None]
                  /\ UNCHANGED <<archive, snapshot>>
        /\ Goto("prune")
     \/ /\ "prune" \in Faults /\ Return(job.mark)
        /\ UNCHANGED <<status, digest, archive, snapshot>>
  /\ UNCHANGED <<desired, degraded, r3, applied, pending, yaml, env>>

\* MarkDegraded.  An error of it is only joined to a publication's error, but
\* ends a startup.  A failed baseline is marked once more by its startup.
Mark ==
  LET again == job.kind = "baseline" /\ job.mark = "publication" IN
  /\ pc = "mark"
  /\ \/ degraded' = job.mark /\ IF again THEN GotoMark("r3") /\ UNCHANGED running
                                ELSE Finish("degraded")
     \/ "mark" \in Faults /\ UNCHANGED degraded
        /\ IF again THEN GotoMark("r3") /\ UNCHANGED running ELSE Finish("fatal")
  /\ UNCHANGED <<desired, status, digest, r3, applied, pending, files, env>>

-----------------------------------------------------------------------------
(* Startup reconciliation. *)

Boot ==
  /\ phase = "down" /\ pc = "idle"
  /\ phase' = "prerun" /\ pc' = "reconcile" /\ job' = ReconcileJob("startup")
  /\ UNCHANGED <<database, files, running, env>>

\* The second pass, once the native Mihomo answers; the supervised one was
\* started, or held back, before.
ReconcileAfterRuntime ==
  /\ phase \in {"serving", "held"} /\ pc = "idle"
  /\ running # Stopped \/ ~Native
  /\ pc' = "reconcile" /\ job' = ReconcileJob("startup")
  /\ UNCHANGED <<database, files, running, phase, env>>

\* A pending R3 cutover before the rest: it wants the empty baseline.
InspectCutover ==
  LET behindRestart == phase # "prerun" /\ pending
      refused == desired.nodes # NoNodes \/ (Active = 0 /\ phase # "prerun")
  IN
  \/ behindRestart /\ UNCHANGED degraded /\ Finish("degraded")
  \/ ~behindRestart /\ refused /\ GotoMark("r3") /\ UNCHANGED <<degraded, running>>
  \/ /\ ~behindRestart /\ ~refused /\ degraded = "publication"
     /\ UNCHANGED degraded /\ Finish("degraded")
  \/ /\ ~behindRestart /\ ~refused /\ degraded # "publication"
     /\ degraded' = "none"
     /\ NewId \in Ids
     /\ job' = PublicationJob("baseline", desired, now, TRUE)
     /\ pc' = "candidate"
     /\ UNCHANGED <<phase, running>>

\* The startup job goes on with the durable configuration.
Resume(goal) ==
  /\ pc' = "candidate"
  /\ job' = [job EXCEPT !.goal = goal, !.cfg = desired, !.asOf = snapshot[Active].asOf]
  /\ UNCHANGED <<phase, running>>

\* Reconciliation returns what system_state says.
FinishAsMarked == Finish(IF degraded = "none" THEN "ok" ELSE "degraded")

\* Mutants: degraded is cleared without a look at the runtime; the cutover is
\* never completed.
InspectMatchingEager ==
  CASE r3 -> IF phase = "prerun" THEN Finish("ok") ELSE Resume("verify")
    [] ~r3 /\ pending -> FinishAsMarked
    [] ~r3 /\ ~pending /\ (degraded = "none" \/ phase = "prerun") -> Finish("ok")
    [] OTHER -> Goto("clear")
InspectMatchingForgetful ==
  IF r3 \/ (~pending /\ (degraded = "none" \/ phase = "prerun"))
  THEN Finish("ok") ELSE FinishAsMarked

\* The active YAML is the active revision's: only a pending cutover or a
\* degraded state is taken to the runtime, and only behind its boundary.
InspectMatching ==
  CASE r3 -> IF phase = "prerun" THEN Finish("ok") ELSE Resume("verify")
    [] ~r3 /\ pending -> FinishAsMarked
    [] ~r3 /\ ~pending /\ (degraded = "none" \/ phase = "prerun") -> Finish("ok")
    [] OTHER -> Resume("verify")

\* The rest of reconcileStartupLocked up to its first write.
InspectRevision ==
  CASE Active = 0 -> FinishAsMarked
    [] Active # 0 /\ ~(ArtifactsIntact(Active) /\ DesiredMatches(Active)) ->
         GotoMark("publication") /\ UNCHANGED running
    [] Active # 0 /\ ArtifactsIntact(Active) /\ DesiredMatches(Active)
         /\ yaml # digest[Active] -> Resume("repair")
    [] OTHER -> InspectMatching

\* Something the reconciliation looks at cannot be read.
InspectFails ==
  /\ "read" \in Faults
  /\ UNCHANGED degraded
  /\ \/ Finish("fatal")
     \/ (\E reason \in {"r3", "publication"} : GotoMark(reason)) /\ UNCHANGED running

Inspect ==
  /\ pc = "reconcile"
  /\ \/ IF r3 /\ (Active = 0 \/ desired.nodes # NoNodes \/ (phase # "prerun" /\ pending))
        THEN InspectCutover
        ELSE UNCHANGED degraded /\ InspectRevision
     \/ InspectFails
  /\ UNCHANGED <<desired, status, digest, r3, applied, pending, files, env>>

\* The end of a repair behind the runtime boundary.
Settle ==
  /\ pc = "settle"
  /\ UNCHANGED <<database, files, env>>
  /\ \/ CASE running = Stopped -> GotoMark("publication") /\ UNCHANGED running
          [] running # Stopped /\ ~r3 /\ pending -> FinishAsMarked
          [] OTHER -> Goto("clear")
     \/ "read" \in Faults /\ GotoMark("publication") /\ UNCHANGED running

\* clearStartupDegraded, or completeR3ProtocolCutover while the cutover is
\* pending: that one refuses a degraded state of another cause.
Clear ==
  /\ pc = "clear"
  /\ \/ /\ ~(r3 /\ degraded = "publication")
        /\ degraded' = "none" /\ r3' = FALSE
        /\ Finish("ok")
     \/ /\ r3 /\ (degraded = "publication" \/ "clear" \in Faults)
        /\ GotoMark("r3") /\ UNCHANGED <<degraded, r3, running>>
     \/ /\ ~r3 /\ "clear" \in Faults
        /\ \/ degraded' = "publication" /\ Finish("degraded")
           \/ "mark" \in Faults /\ UNCHANGED degraded /\ Finish("fatal")
        /\ UNCHANGED r3
  /\ UNCHANGED <<desired, status, digest, applied, pending, files, env>>

-----------------------------------------------------------------------------
(* The runtime boundary of internal/service and the environment. *)

\* Start of a stopped Mihomo, or a restart; the process reads the YAML.
RunRuntime ==
  /\ pc = "idle" /\ Serving /\ phase # "held"
  /\ running' = IF yaml = Absent THEN Stopped ELSE yaml
  /\ pc' = "boundary" /\ job' = [NoJob EXCEPT !.kind = "boundary"]
  /\ UNCHANGED <<database, files, phase, env>>

\* Reload is refused while a restart is pending.
ReloadRuntime ==
  /\ pc = "idle" /\ Listening
  /\ ~pending /\ yaml # Absent /\ running # Stopped
  /\ running' = yaml
  /\ UNCHANGED <<database, files, phase, control, env>>

\* A healthy Mihomo clears the restart marker; the attempt is aborted otherwise.
RuntimeHealthy ==
  /\ pc = "boundary"
  /\ \/ /\ running # Stopped
        /\ \/ pending' = FALSE /\ applied' = (IF pending THEN desired.bind ELSE applied)
              /\ Finish("ok")
           \/ "database" \in Faults /\ UNCHANGED <<pending, applied>> /\ Finish("fatal")
     \/ /\ running = Stopped \/ "runtime" \in Faults
        /\ running' = IF Native THEN running ELSE Stopped
        /\ Release /\ phase' = PhaseAfter("fatal")
        /\ UNCHANGED <<pending, applied>>
  /\ UNCHANGED <<desired, status, digest, degraded, r3, files, env>>

\* ExecStartPost of a Mihomo the init system started: under the coordinator it
\* checks the process, clears the marker and reconciles.  The panel's own
\* starts are told apart by the lifecycle marker and have no finalizer.
FinalizeRuntime ==
  /\ finalizer /\ pc = "idle" /\ Serving
  /\ finalizer' = FALSE
  /\ \/ /\ pending' = FALSE
        /\ applied' = IF pending THEN desired.bind ELSE applied
        /\ pc' = "reconcile" /\ job' = ReconcileJob("finalizer")
        /\ UNCHANGED running
     \/ /\ "runtime" \in Faults
        /\ running' = Stopped
        /\ UNCHANGED <<pending, applied, control>>
  /\ UNCHANGED <<desired, status, digest, degraded, r3, files, phase, now, crashes, drifts>>

\* Mihomo exits, or is stopped by an operator.
MihomoExits ==
  /\ "exit" \in Faults
  /\ running # Stopped
  /\ running' = Stopped /\ finalizer' = FALSE
  /\ UNCHANGED <<database, files, phase, control, now, crashes, drifts>>

\* The init system starts Mihomo at any moment the panel is ready.
InitStarts ==
  /\ Native /\ Serving /\ running = Stopped /\ yaml # Absent
  /\ running' = yaml /\ finalizer' = TRUE
  /\ UNCHANGED <<database, files, phase, control, now, crashes, drifts>>

\* The panel is killed.  SQLite rolls the open transaction back; a supervised
\* Mihomo dies with the panel, a native one may survive, with its finalizer.
Crash ==
  /\ phase # "down" /\ crashes < MaxCrashes
  /\ crashes' = crashes + 1
  /\ phase' = "down"
  /\ \/ /\ Native /\ UNCHANGED <<running, finalizer>>
        /\ IF job.kind = "finalizer" THEN UNCHANGED control ELSE Release
     \/ running' = Stopped /\ finalizer' = FALSE /\ Release
  /\ UNCHANGED <<database, files, now, drifts>>

\* Somebody edits or removes the active YAML.
Drift ==
  /\ drifts < MaxDrifts /\ pc \in DriftAt
  /\ drifts' = drifts + 1
  /\ yaml' \in {Unmanaged, Absent} \ {yaml}
  /\ UNCHANGED <<database, archive, snapshot, running, finalizer, phase, control,
                 now, crashes>>

Tick ==
  /\ now < MaxTime
  /\ now' = now + 1
  /\ UNCHANGED <<database, files, running, finalizer, phase, control, crashes, drifts>>

-----------------------------------------------------------------------------
Init ==
  /\ desired = [nodes |-> NoNodes, bind |-> FirstBind]
  /\ status = [i \in Ids |-> "none"]
  /\ digest = [i \in Ids |-> None]
  /\ degraded = "none" /\ r3 = TRUE
  /\ applied \in Binds /\ pending = (applied # FirstBind)
  /\ yaml \in {Unmanaged, Absent}
  /\ archive = [i \in Ids |-> None] /\ snapshot = [i \in Ids |-> None]
  /\ running = Stopped /\ finalizer = FALSE
  /\ phase = "down" /\ pc = "idle" /\ job = NoJob
  /\ now = 0 /\ crashes = 0 /\ drifts = 0

Request ==
  \/ \E nodes \in Nodes : Manage(nodes)
  \/ \E bind \in Binds : UpdateEndpoints(bind)
  \/ \E batch \in Times : Expire(batch)
  \/ \E i \in Ids : Rollback(i)
  \/ RefuseUnverified

\* The steps of the job that owns the coordinator.
Work ==
  \/ Validate \/ ArchiveYaml \/ ArchiveState \/ Insert \/ Replace \/ Remove
  \/ Reload \/ WaitHealthy \/ Commit \/ ReconcileCommit \/ RecordFailure
  \/ Prune \/ Mark \/ Inspect \/ Settle \/ Clear \/ RuntimeHealthy

Startup == Boot \/ ReconcileAfterRuntime
Runtime == RunRuntime \/ ReloadRuntime \/ FinalizeRuntime

Environment == MihomoExits \/ InitStarts \/ Crash \/ Drift \/ Tick

Next == Request \/ Work \/ Startup \/ Runtime \/ Environment

Spec == Init /\ [][Next]_vars

-----------------------------------------------------------------------------
(* Properties. *)

\* Where the panel and a job can be, and what a job carries.
Phases == {"down", "prerun", "starting", "held", "serving", "steady", "readonly"}
Labels == {"idle", "candidate", "archive", "snapshot", "insert", "replace",
           "remove", "reload", "health", "commit", "uncertain", "record",
           "prune", "mark", "reconcile", "settle", "clear", "boundary"}
Goals  == {"none", "forward", "restore", "republish", "repair", "verify"}
Jobs   == [kind : {"none", "publication", "baseline", "startup", "finalizer",
                   "boundary"},
           goal : Goals, cfg : Desired, asOf : Times, restart : BOOLEAN,
           id : Ids \cup {0}, base : Ids \cup {0}, before : Desired,
           prev : Yamls \cup {Absent}, prevAsOf : Times,
           mark : {"none", "r3", "publication"}]

\* Every variable keeps its type: rows, files and job fields of the publication.
TypeOK ==
  /\ desired \in Desired
  /\ status \in [Ids -> {"none", "active", "rolled_back", "failed"}]
  /\ digest \in [Ids -> Desired \cup {None}]
  /\ degraded \in {"none", "r3", "publication"}
  /\ r3 \in BOOLEAN /\ applied \in Binds /\ pending \in BOOLEAN
  /\ yaml \in Yamls \cup {Absent}
  /\ archive \in [Ids -> Desired \cup {None}]
  /\ snapshot \in [Ids -> [state : Desired, asOf : Times] \cup {None}]
  /\ running \in Yamls \cup {Stopped} /\ finalizer \in BOOLEAN
  /\ phase \in Phases /\ pc \in Labels /\ job \in Jobs
  /\ now \in Times /\ crashes \in 0 .. MaxCrashes /\ drifts \in 0 .. MaxDrifts

(* The README says which run checks which property, and which is proved. *)

\* The promise of the transaction: whenever no job holds the coordinator and
\* the system is not degraded, SQLite, the active revision, its two artifacts
\* and the active YAML agree, after every failure, uncertain commit and crash.
SettledAgreement == pc = "idle" /\ Serving /\ degraded = "none" => ActiveVerified

\* In every state, in the middle of a job or after a crash too, at most one row
\* is active, its artifacts are intact and the desired state renders to it:
\* what the startup reconciliation needs to repair the YAML.
OneActive         == \A i, j \in ActiveIds : i = j
ActiveRecoverable == \A i \in ActiveIds : ArtifactsIntact(i) /\ DesiredMatches(i)
DurableConsistent == OneActive /\ ActiveRecoverable

\* A job that settled leaves Mihomo with the active YAML, except while an
\* endpoint restart is pending or an expiry batch is due: saving an endpoint
\* renders the expiry but does not reload.
RunningAgreement ==
  /\ pc = "idle" /\ phase = "steady" /\ degraded = "none" /\ ~pending
  /\ running # Stopped /\ ExpiresAt[desired.nodes] > now
  => running = yaml

\* Crashes alone, at any step, never make a startup mark the system degraded.
NeverDegraded == degraded = "none"

\* A publication is recorded as failed only if it is not durable, however its
\* COMMIT ended.
FailureIsHonest == pc = "record" => status[job.id] = "none" /\ desired = job.before

\* Pruning, interrupted anywhere, never takes an artifact of a successful
\* revision inside the history limit: each is still a target of Rollback.
RetainedRevisionsRestorable ==
  \A i \in Ids :
    status[i] = "rolled_back" /\ Cardinality({j \in InactiveIds : j > i}) < HistoryLimit
    => ArtifactsIntact(i)

\* A system that settled without failed maintenance keeps HistoryLimit inactive
\* rows; a crash before the pruning keeps at most one more.
RetentionBound ==
  pc = "idle" /\ degraded = "none" => Cardinality(InactiveIds) <= HistoryLimit + crashes

\* The panel releases the service order only once the configuration from
\* before the R3 cutover is gone from the active YAML.
CutoverHoldsOldConfiguration == Serving => yaml # Unmanaged

\* A startup reaches the next phase only with agreement or a durable marker,
\* also when writing the marker fails.
StartupFailsClosed ==
  [][phase' # phase /\ phase' \in {"starting", "held", "serving", "steady"}
       => degraded' # "none" \/ ActiveVerified']_vars

\* What a settled panel shows; while it is not settled, what SQLite says it is
\* going to show once it is.
Shown == IF pc = "idle" /\ Serving /\ degraded = "none" THEN yaml
         ELSE IF Active = 0 THEN None ELSE digest[Active]

C == INSTANCE Configuration WITH
       Renderings <- {[state |-> d, file |-> Compile(d, t)] : d \in Desired, t \in Times},
       Blank <- [nodes |-> NoNodes, bind |-> FirstBind],
       Nothing <- None, state <- desired, file <- Shown

\* The desired state and the file change together, in the step that commits:
\* no failure, uncertain commit, undo, crash or repair shows another pair.
ImplementsConfiguration == C!Spec

\* Degraded is cleared only with the active revision in the YAML and in the
\* running Mihomo (or none running).
DegradedClearedVerified ==
  [][degraded # "none" /\ degraded' = "none" /\ ~r3
       => Active # 0 /\ yaml = digest[Active] /\ running \in {yaml, Stopped}]_vars

\* A publication overwrites the YAML it verified, never a later edit.
VerifiedBeforeOverwrite ==
  [][pc = "replace" /\ job.goal = "forward" /\ job.base # 0 /\ yaml' # yaml
       => yaml = job.prev]_vars

\* The restart marker is gone only once Mihomo runs with the new endpoint.
MarkerHonest ==
  pc = "idle" /\ Serving /\ ~pending /\ running \in Desired => running.bind = applied

-----------------------------------------------------------------------------
(* Liveness.  The job that owns the coordinator runs on (its waits are bounded *)
(* by timeouts), the init system starts the panel and Mihomo, and waiters on   *)
(* the coordinator's channel are served in order.                              *)

FairSpec ==
  /\ Spec
  /\ WF_vars(Work) /\ WF_vars(Boot) /\ WF_vars(InitStarts)
  /\ SF_vars(ReconcileAfterRuntime)

\* After the last crash the panel reconciles, completes the cutover and runs
\* its background services.
Recovers == phase = "down" ~> phase = "steady" /\ degraded = "none" /\ ~r3
=============================================================================
