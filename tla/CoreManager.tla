---------------------------- MODULE CoreManager ----------------------------
(***************************************************************************)
(* internal/core: the managed Mihomo core as a directory that updates,     *)
(* rollbacks and bootstraps replace (filesystem.go) under the runtime      *)
(* coordinator (manager.go), its row in the database (internal/store/      *)
(* core.go), the settings requests that write that row without the         *)
(* coordinator, and the scheduler of automatic updates (internal/          *)
(* scheduler/core.go).  One action per rename, restart or statement.       *)
(***************************************************************************)
EXTENDS Naturals, Sequences

CONSTANTS
  Cores,         \* core builds: an asset, its digest and the version it reports
  NoCore,        \* no directory, no manifest, no process
  Packaged,      \* the core that bootstrap installs or adoption copies
  Channels,
  FirstChannel,
  Builds,        \* Builds[ch]: what Resolve can answer for a channel
  Panel,
  Command,       \* one m-ui command at a time beside the panel
  Operations,    \* <<process, kind>>: who asks for what
  Gated,         \* the processes whose manager has an EndpointGate
  Endpoints,     \* whether endpoint changes wait for a restart of Mihomo
  Overlap,       \* whether settings are saved while an operation runs
  Faults,        \* the places at which a step may fail
  MaxBackups     \* bound: no crash with more backups than this

Processes == {Panel, Command}
Kinds == {"check", "update", "auto", "rollback", "bootstrap", "settings"}
Places == {"mark", "resolve", "check", "audit", "noop", "stage", "validate",
           "backup", "switch", "prune", "restart", "commit", "record",
           "clear", "remove", "restore", "swap", "again", "restored",
           "sentinel", "degrade", "stop", "install", "unblock",
           "marker", "reopen", "adopt", "save"}

ASSUME CoreAssumption ==
  /\ NoCore \notin Cores /\ Packaged \in Cores
  /\ "no" \notin Cores \cup {NoCore} /\ {"no", "marked"} \cap Processes = {}
  /\ FirstChannel \in Channels /\ NoCore \notin Channels
  /\ Builds \in [Channels -> SUBSET Cores]
  /\ Panel # Command
  /\ Operations \subseteq (Processes \X Kinds) /\ Gated \subseteq Processes
  /\ Endpoints \in BOOLEAN /\ Overlap \in BOOLEAN
  /\ Faults \subseteq Places /\ MaxBackups \in Nat

VARIABLES
  current, backups,      \* core/current; core/backups, the newest first
  staged, failed,        \* core/staging: the candidate; what Restore moved out
  sentinel,              \* .m-ui-fail-closed
  row, settings,         \* core_state, core_settings
  degraded,              \* the mark in system_state
  external,              \* the binary path of the settings is not the managed one
  pendingRestart,        \* an endpoint change waits for a restart of Mihomo
  running,               \* the core of the running Mihomo
  open, failClosed,      \* of each process: how far it is; Manager.failClosed
  job,                   \* the operation that holds the coordinator
  save,                  \* a settings request, or ScheduleStartupCheck
  sched, wake,           \* the scheduler's loop and its channel of one
  good,                  \* observed: the core last committed, installed or found
  replaced,              \* observed: what an unfinished activation replaced
  unsafe                 \* observed: "marked", or the process that alone knows,
                         \* after a failed restore

files == <<current, backups, staged, failed>>
blocks == <<sentinel, degraded, failClosed>>
observed == <<good, replaced, unsafe>>
background == <<save, sched, wake>>
coreVars == <<files, blocks, row, settings, external, pendingRestart, running,
              open, job, background, observed>>

OneOf == Cores \cup {NoCore}

\* core_state.  asked is the channel of the check that set last_check_at and
\* with it next_check_at.
Rows == [current : OneOf, available : OneOf, next : {"none", "due", "later"},
         updating : BOOLEAN, asked : Channels \cup {NoCore}]
Settings == [channel : Channels, auto : BOOLEAN]

\* at: the next step.  had: the core that was current when the operation
\* replaced it (activation.backupPath, previous and hadPrevious).  cut: observed
\* only, it replaced an unfinished activation.  seen: the row it read and will
\* write back.
NoRow == [current |-> NoCore, available |-> NoCore, next |-> "none",
          updating |-> FALSE, asked |-> NoCore]
NoJob == [by |-> Panel, kind |-> "none", at |-> "none", channel |-> FirstChannel,
          target |-> NoCore, had |-> NoCore, cut |-> FALSE,
          read |-> FALSE, seen |-> NoRow]
NoSave == [at |-> "none", by |-> Panel, startup |-> FALSE, was |-> FirstChannel,
           want |-> [channel |-> FirstChannel, auto |-> FALSE], seen |-> NoRow]

Job(p, kind, at) == [NoJob EXCEPT !.by = p, !.kind = kind, !.at = at,
                                  !.channel = settings.channel]
Goto(at) == job' = [job EXCEPT !.at = at, !.read = FALSE, !.seen = NoRow]
Free == job.kind = "none"
Updating == job.kind \in {"update", "auto"}

\* systemDegraded, which every operation and the publisher's SafetyGate ask.
Blocked(p) == failClosed[p] \/ sentinel \/ degraded
Outcomes(at) == IF at \in Faults THEN BOOLEAN ELSE {TRUE}

-----------------------------------------------------------------------------
\* The first installation has no core and takes over the binary it finds;
\* later the row knows the core on disk.
CoreInit ==
  /\ \E c \in {NoCore, Packaged} :
       /\ current = c /\ good = c /\ external = (c = NoCore)
       /\ row = [NoRow EXCEPT !.current = c]
  /\ backups = <<>> /\ staged = NoCore /\ failed = NoCore
  /\ sentinel = FALSE /\ degraded = FALSE
  /\ settings = [channel |-> FirstChannel, auto |-> FALSE]
  /\ pendingRestart = FALSE /\ running = NoCore
  /\ open = [p \in Processes |-> "down"]
  /\ failClosed = [p \in Processes |-> FALSE]
  /\ job = NoJob /\ save = NoSave /\ sched = "off" /\ wake = FALSE
  /\ replaced = "no" /\ unsafe = "no"

\* RemoveStage and the release.  An update clears its marker in between.
Finish ==
  IF Updating
  THEN Goto("clear") /\ UNCHANGED staged
  ELSE job' = NoJob /\ staged' = NoCore

\* A failed update records its failure; a check or a rollback returns it.
FailBefore ==
  IF Updating THEN Goto("record") /\ UNCHANGED staged ELSE Finish

\* CoreState: the row as it is now, of which a later statement writes back
\* every column.
ReadRow ==
  /\ job.at \in {"mark", "check", "noop", "commit", "record", "clear",
                 "restored", "install"}
  /\ ~job.read
  /\ job' = [job EXCEPT !.read = TRUE, !.seen = row]
  /\ UNCHANGED <<files, blocks, row, settings, external, pendingRestart,
                 running, open, background, observed>>

\* SaveCoreState at a place: the row that was read with some columns changed.
Write(at, new, ok) ==
  /\ job.at = at /\ job.read
  /\ row' = IF ok THEN new ELSE row
  /\ UNCHANGED <<settings, external, pendingRestart, open, background>>

-----------------------------------------------------------------------------
\* An endpoint change that waits for its restart refuses the caller, if its
\* manager has the gate.
RejectsPending(p) == p \in Gated /\ pendingRestart

\* The guards of Check, Update and Rollback, up to the settings they use.  A
\* marker file that is found sets the flag of the process.
May(p, kind) ==
  /\ Free /\ open[p] = "open" /\ <<p, kind>> \in Operations
  /\ Overlap \/ save.at = "none"
  /\ kind # "check" => ~RejectsPending(p)
  /\ ~Blocked(p)

\* They change nothing but the coordinator before their first step.
Unstarted == UNCHANGED <<current, backups, failed, blocks, row, settings,
                         external, pendingRestart, running, open, save, observed>>

CheckCore(p) ==
  /\ May(p, "check")
  /\ job' = Job(p, "check", "resolve")
  /\ UNCHANGED staged /\ Unstarted

UpdateCore(p, kind) ==
  /\ May(p, kind)
  /\ job' = Job(p, kind, "mark")
  /\ UNCHANGED staged /\ Unstarted

LatestBackup == Head(backups)

\* A copy of the newest backup is what Activate installs.
RollbackCore(p) ==
  /\ May(p, "rollback") /\ backups # <<>>
  /\ staged' = LatestBackup
  /\ job' = [Job(p, "rollback", "backup") EXCEPT !.target = LatestBackup]
  /\ Unstarted

Request ==
  /\ \E p \in Processes : CheckCore(p) \/ UpdateCore(p, "update") \/ RollbackCore(p)
  /\ UNCHANGED <<sched, wake>>

\* Bootstrap asks for none of those guards: it is how an operator leaves the
\* fail-closed state.  The core that is current already changes nothing.
Bootstrap ==
  /\ Free /\ open[Command] = "open" /\ <<Command, "bootstrap">> \in Operations
  /\ Overlap \/ save.at = "none"
  /\ current # Packaged
  /\ staged' = Packaged
  /\ job' = [Job(Command, "bootstrap", "validate") EXCEPT !.target = Packaged]
  /\ UNCHANGED <<current, backups, failed, blocks, row, settings, external,
                 pendingRestart, running, open, background, observed>>

MarkUpdate ==
  \E ok \in Outcomes("mark") :
    /\ Write("mark", [job.seen EXCEPT !.updating = TRUE], ok)
    /\ IF ok THEN Goto("resolve") ELSE job' = NoJob
    /\ UNCHANGED <<files, blocks, running, observed>>

\* checkLocked: the answer of the upstream for the channel that was read.
Resolve ==
  /\ job.at = "resolve"
  /\ \E c \in Builds[job.channel] \cup {NoCore} :
       /\ c = NoCore => "resolve" \in Faults
       /\ job' = [job EXCEPT !.at = "check", !.target = c]
  /\ UNCHANGED <<files, blocks, row, settings, external, pendingRestart,
                 running, open, background, observed>>

\* Both results count as a check and set the next one.
Checked ==
  [job.seen EXCEPT !.asked = job.channel, !.next = "later",
                   !.available = IF job.target = NoCore THEN @ ELSE job.target]

SaveCheck ==
  \E ok \in Outcomes("check"), told \in Outcomes("audit") :
    /\ Write("check", Checked, ok)
    /\ IF ~ok \/ ~told \/ job.target = NoCore THEN FailBefore
       ELSE IF ~Updating THEN Finish
       ELSE /\ Goto(IF current = job.target THEN "noop" ELSE "stage")
            /\ UNCHANGED staged
    /\ UNCHANGED <<current, backups, failed, blocks, running, observed>>

SaveNoop ==
  \E ok \in Outcomes("noop") :
    /\ Write("noop", [job.seen EXCEPT !.current = current, !.updating = FALSE], ok)
    /\ Finish
    /\ UNCHANGED <<current, backups, failed, blocks, running, observed>>

\* Download and unpack; then the candidate, whatever its source but a backup,
\* answers its version and validates the configuration.
Stage ==
  /\ job.at = "stage"
  /\ \E ok \in Outcomes("stage") :
       IF ok THEN Goto("validate") /\ staged' = job.target ELSE FailBefore
  /\ UNCHANGED <<current, backups, failed, blocks, row, settings, external,
                 pendingRestart, running, open, background, observed>>

Validate ==
  /\ job.at = "validate"
  /\ \E ok \in Outcomes("validate") :
       IF ok THEN Goto("backup") /\ UNCHANGED staged ELSE FailBefore
  /\ UNCHANGED <<current, backups, failed, blocks, row, settings, external,
                 pendingRestart, running, open, background, observed>>

-----------------------------------------------------------------------------
\* Activate: two renames and the pruning.  Without a core there is nothing to
\* back up.
Backup ==
  /\ job.at = "backup"
  /\ \E ok \in Outcomes("backup") :
       IF ok
       THEN /\ current' = NoCore
            /\ backups' = IF current = NoCore THEN backups ELSE <<current>> \o backups
            /\ job' = [job EXCEPT !.at = "switch", !.had = current,
                                  !.cut = (replaced # "no")]
            /\ replaced' = current
            /\ UNCHANGED staged
       ELSE FailBefore /\ UNCHANGED <<current, backups, replaced>>
  /\ UNCHANGED <<failed, blocks, row, settings, external, pendingRestart,
                 running, open, background, good, unsafe>>

\* The activation is undone; what it replaced may itself be unfinished.
Undone == IF job.cut THEN job.had ELSE "no"

Switch ==
  /\ job.at = "switch"
  /\ \E ok \in Outcomes("switch") :
       IF ok
       THEN /\ current' = staged /\ staged' = NoCore
            /\ Goto("prune")
            /\ UNCHANGED <<backups, replaced>>
       ELSE /\ current' = job.had
            /\ backups' = IF job.had = NoCore THEN backups ELSE Tail(backups)
            /\ replaced' = Undone
            /\ FailBefore
  /\ UNCHANGED <<failed, blocks, row, settings, external, pendingRestart,
                 running, open, background, good, unsafe>>

\* From here on a failure undoes the activation.
Installing == job.kind \in {"bootstrap", "adopt"}
Undo == IF job.had = NoCore THEN "remove" ELSE "restore"

\* Mutant: the newest backup is skipped.
KeptOlder == SubSeq(backups, 2, Len(backups))

Kept == SubSeq(backups, 1, IF Len(backups) < 2 THEN Len(backups) ELSE 2)

\* The synchronisation of the directory may fail before, and the removal of
\* old backups half-way.
Prune ==
  /\ job.at = "prune"
  /\ \E ok \in Outcomes("prune") :
       /\ backups' \in (IF ok THEN {Kept} ELSE {Kept, backups})
       /\ Goto(IF ~ok THEN Undo ELSE IF Installing THEN "install" ELSE "restart")
  /\ UNCHANGED <<current, staged, failed, blocks, row, settings, external,
                 pendingRestart, running, open, background, observed>>

\* restartAndVerify: a restart that fails, or whose versions do not match, may
\* leave the old process, the new one or none.
Restarted(ok) ==
  running' \in (IF ok THEN {current} ELSE {running, current, NoCore})

Restart ==
  /\ job.at = "restart"
  /\ \E ok \in Outcomes("restart") :
       Restarted(ok) /\ Goto(IF ok THEN "commit" ELSE Undo)
  /\ UNCHANGED <<files, blocks, row, settings, external, pendingRestart,
                 open, background, observed>>

\* Mutant: the row goes on naming the previous core.
CommittedSilently ==
  [job.seen EXCEPT !.available = job.target, !.updating = FALSE]

Committed ==
  IF Updating
  THEN [job.seen EXCEPT !.current = job.target, !.available = job.target,
                        !.updating = FALSE]
  ELSE [job.seen EXCEPT !.current = job.target]

\* SaveCoreState, then the audit record.
Commit ==
  \E ok \in Outcomes("commit"), told \in Outcomes("audit") :
    /\ Write("commit", Committed, ok)
    /\ IF ok /\ told
       THEN Finish /\ good' = current /\ replaced' = "no"
       ELSE Goto(Undo) /\ UNCHANGED <<staged, good, replaced>>
    /\ UNCHANGED <<current, backups, failed, blocks, running, unsafe>>

-----------------------------------------------------------------------------
\* RevertActivation without a backup.  After an update there is then no core
\* to go back to: Mihomo is stopped and the failure is final.
Remove ==
  /\ job.at = "remove"
  /\ \E ok \in Outcomes("remove"), stopped \in Outcomes("stop") :
       /\ current' = IF ok THEN NoCore ELSE current
       /\ running' = IF stopped /\ ~Installing THEN NoCore ELSE running
  /\ IF Installing THEN Finish ELSE Goto("sentinel") /\ UNCHANGED staged
  /\ UNCHANGED <<backups, failed, blocks, row, settings, external,
                 pendingRestart, open, background, observed>>

\* Restore: what failed goes to staging, the backup becomes current.
Restore ==
  /\ job.at = "restore"
  /\ \E ok \in Outcomes("restore") :
       IF ok
       THEN /\ failed' = current /\ current' = NoCore
            /\ Goto("swap") /\ UNCHANGED staged
       ELSE /\ IF Installing THEN Finish ELSE Goto("sentinel") /\ UNCHANGED staged
            /\ UNCHANGED <<current, failed>>
  /\ UNCHANGED <<backups, blocks, row, settings, external, pendingRestart,
                 running, open, background, observed>>

\* A failure either puts the failed core back or, when it is the cleaning
\* that fails, leaves it in staging.
Swap ==
  /\ job.at = "swap"
  /\ \E ok \in Outcomes("swap"), swapped \in BOOLEAN :
       /\ ok => swapped
       /\ current' = IF swapped THEN job.had ELSE failed
       /\ backups' = IF swapped THEN Tail(backups) ELSE backups
       /\ failed' = IF swapped /\ ~ok THEN failed ELSE NoCore
       /\ replaced' = IF swapped /\ Installing THEN Undone ELSE replaced
       /\ IF Installing THEN Finish
          ELSE Goto(IF ok THEN "again" ELSE "sentinel") /\ UNCHANGED staged
  /\ UNCHANGED <<blocks, row, settings, external, pendingRestart, running, open,
                 background, good, unsafe>>

Again ==
  /\ job.at = "again"
  /\ \E ok \in Outcomes("again") :
       Restarted(ok) /\ Goto(IF ok THEN "restored" ELSE "sentinel")
  /\ UNCHANGED <<files, blocks, row, settings, external, pendingRestart,
                 open, background, observed>>

SaveRestored ==
  \E ok \in Outcomes("restored") :
    /\ Write("restored", [job.seen EXCEPT !.current = job.had, !.updating = FALSE], ok)
    /\ IF ok
       THEN FailBefore /\ good' = current /\ replaced' = "no"
       ELSE Goto("sentinel") /\ UNCHANGED <<staged, good, replaced>>
    /\ UNCHANGED <<current, backups, failed, blocks, running, unsafe>>

\* Mutant: the flag is set only behind a marker file that was written.
MarkFailClosedByFile ==
  /\ job.at = "sentinel"
  /\ \E ok \in Outcomes("sentinel") :
       /\ failClosed' = [failClosed EXCEPT ![job.by] = ok \/ @]
       /\ sentinel' = (ok \/ sentinel)
       /\ unsafe' = IF sentinel' THEN "marked" ELSE job.by
  /\ Goto("degrade")
  /\ UNCHANGED <<files, degraded, row, settings, external, pendingRestart,
                 running, open, background, good, replaced>>

\* failAfterActivation when the restore failed too: the flag of this process,
\* the marker file, then the mark in the database.
MarkFailClosed ==
  /\ job.at = "sentinel"
  /\ failClosed' = [failClosed EXCEPT ![job.by] = TRUE]
  /\ \E ok \in Outcomes("sentinel") :
       /\ sentinel' = (ok \/ sentinel)
       /\ unsafe' = IF sentinel' THEN "marked" ELSE job.by
  /\ Goto("degrade")
  /\ UNCHANGED <<files, degraded, row, settings, external, pendingRestart,
                 running, open, background, good, replaced>>

MarkDegraded ==
  /\ job.at = "degrade"
  /\ \E ok \in Outcomes("degrade"), stopped \in Outcomes("stop") :
       /\ degraded' = (ok \/ degraded)
       /\ running' = IF stopped /\ ~sentinel THEN NoCore ELSE running
  /\ FailBefore
  /\ UNCHANGED <<current, backups, failed, sentinel, failClosed, row, settings,
                 external, pendingRestart, open, background, observed>>

\* Both writes are attempts whose errors are dropped.
RecordFailure ==
  \E ok \in Outcomes("record") :
    /\ Write("record", [job.seen EXCEPT !.updating = FALSE], ok)
    /\ Goto("clear")
    /\ UNCHANGED <<files, blocks, running, observed>>

ClearMarker ==
  \E ok \in Outcomes("clear") :
    /\ Write("clear", [job.seen EXCEPT !.updating = FALSE], ok)
    /\ job' = NoJob /\ staged' = NoCore
    /\ UNCHANGED <<current, backups, failed, blocks, running, observed>>

-----------------------------------------------------------------------------
\* Bootstrap and AdoptExternal write the row and lift the block, if this
\* process knows of it; the mark in the database stays.
Install ==
  \E ok \in Outcomes("install") :
    /\ Write("install", [job.seen EXCEPT !.current = job.target], ok)
    /\ Goto(IF ok THEN "unblock" ELSE Undo)
    /\ good' = IF ok THEN current ELSE good
    /\ replaced' = IF ok THEN "no" ELSE replaced
    /\ UNCHANGED <<files, blocks, running, unsafe>>

Unblock ==
  /\ job.at = "unblock"
  /\ \E ok \in Outcomes("unblock") :
       IF failClosed[job.by] /\ ok
       THEN /\ sentinel' = FALSE /\ unsafe' = "no"
            /\ failClosed' = [failClosed EXCEPT ![job.by] = FALSE]
       ELSE UNCHANGED <<sentinel, failClosed, unsafe>>
  /\ open' = IF job.kind = "adopt" THEN [open EXCEPT ![Panel] = "adopted"] ELSE open
  /\ Finish
  /\ UNCHANGED <<current, backups, failed, degraded, row, settings, external,
                 pendingRestart, running, background, good, replaced>>

-----------------------------------------------------------------------------
\* Recover, with which the panel and every command start.
Start(p) ==
  /\ open[p] = "down" /\ Free /\ (Overlap \/ save.at = "none")
  /\ staged' = NoCore /\ failed' = NoCore
  /\ failClosed' = [failClosed EXCEPT ![p] = sentinel]
  /\ \E ok \in Outcomes("marker") :
       /\ degraded' = (degraded \/ (sentinel /\ ok))
       /\ job' = IF sentinel /\ ~ok THEN NoJob
                 ELSE [Job(p, "recover", "reopen") EXCEPT !.read = TRUE, !.seen = row]
  /\ UNCHANGED <<current, backups, sentinel, row, settings, external,
                 pendingRestart, running, open, background, observed>>

\* What is on disk is the core; without one the row keeps what it said.
Reopen ==
  \E ok \in Outcomes("reopen") :
    /\ job.at = "reopen" /\ job.read
    /\ row' = IF ~ok THEN row
              ELSE [job.seen EXCEPT !.updating = FALSE,
                      !.current = IF current = NoCore THEN @ ELSE current]
    /\ open' = [open EXCEPT ![job.by] = IF ~ok THEN "down" ELSE
                              IF job.by = Panel THEN "recovered" ELSE "open"]
    /\ job' = NoJob
    /\ IF ok /\ current # NoCore
       THEN good' = current /\ replaced' = "no"
       ELSE UNCHANGED <<good, replaced>>
    /\ UNCHANGED <<files, blocks, settings, external, pendingRestart, running,
                   background, unsafe>>

\* The first start with no managed core copies the configured binary and then
\* records the managed path; a later one refuses to run without a core.
Adopt ==
  /\ open[Panel] = "recovered" /\ current = NoCore /\ ~save.startup
  /\ Overlap \/ save.at = "none"
  /\ IF external /\ Free
     THEN /\ job' = [Job(Panel, "adopt", "validate") EXCEPT !.target = Packaged]
          /\ staged' = Packaged
          /\ open' = [open EXCEPT ![Panel] = "adopting"]
     ELSE open' = [open EXCEPT ![Panel] = "down"] /\ UNCHANGED <<job, staged>>
  /\ UNCHANGED <<current, backups, failed, blocks, row, settings, external,
                 pendingRestart, running, background, observed>>

SetMihomoBinaryPath ==
  /\ open[Panel] = "adopted" \/ (open[Panel] = "adopting" /\ Free)
  /\ \E ok \in Outcomes("adopt") :
       LET stays == open[Panel] = "adopted" /\ ok IN
       /\ external' = (external /\ ~stays)
       /\ open' = [open EXCEPT ![Panel] = IF stays THEN "recovered" ELSE "down"]
  /\ UNCHANGED <<files, blocks, row, settings, pendingRestart, running, job,
                 background, observed>>

\* ScheduleStartupCheck: with automatic updates every start asks for a check,
\* without the coordinator; then the scheduler runs.
ScheduleStartupCheck ==
  /\ open[Panel] = "recovered" /\ current # NoCore /\ save.at = "none"
  /\ Overlap \/ Free
  /\ IF settings.auto
     THEN /\ save' = [NoSave EXCEPT !.at = "read", !.startup = TRUE, !.want = settings]
          /\ UNCHANGED <<open, sched>>
     ELSE /\ open' = [open EXCEPT ![Panel] = "open"] /\ sched' = "look"
          /\ UNCHANGED save
  /\ UNCHANGED <<files, blocks, row, settings, external, pendingRestart,
                 running, job, wake, observed>>

\* The end of a process: all its calls stop where they are.  A managed Mihomo
\* ends with its panel.
Die(p) ==
  /\ job' = IF job.by = p THEN NoJob ELSE job
  /\ save' = IF save.by = p THEN NoSave ELSE save
  /\ open' = [open EXCEPT ![p] = "down"]
  /\ failClosed' = [failClosed EXCEPT ![p] = FALSE]
  /\ unsafe' = IF unsafe = p THEN "no" ELSE unsafe
  /\ running' \in (IF p = Panel THEN {running, NoCore} ELSE {running})
  /\ IF p = Panel THEN sched' = "off" /\ wake' = FALSE ELSE UNCHANGED <<sched, wake>>
  /\ UNCHANGED <<files, sentinel, degraded, row, settings, external,
                 pendingRestart, good, replaced>>

Crash(p) ==
  /\ Len(backups) <= MaxBackups
  /\ open[p] # "down" \/ (job.kind = "recover" /\ job.by = p)
  /\ Die(p)

CommandReturns ==
  /\ open[Command] = "open" /\ ~(job.kind # "none" /\ job.by = Command)
  /\ ~(save.at # "none" /\ save.by = Command)
  /\ Die(Command)

-----------------------------------------------------------------------------
\* UpdateSettings takes no coordinator: it reads the settings, then the row,
\* and commits both in one transaction.
AskSettings(p) ==
  /\ open[p] = "open" /\ <<p, "settings">> \in Operations
  /\ save.at = "none" /\ ~Blocked(p)
  /\ Overlap \/ Free
  /\ \E want \in Settings :
       save' = [NoSave EXCEPT !.at = "read", !.by = p, !.was = settings.channel,
                              !.want = want]
  /\ UNCHANGED <<files, blocks, row, settings, external, pendingRestart,
                 running, open, job, sched, wake, observed>>

ReadSettingsRow ==
  /\ save.at = "read"
  /\ save' = [save EXCEPT !.at = "write", !.seen = row]
  /\ UNCHANGED <<files, blocks, row, settings, external, pendingRestart,
                 running, open, job, sched, wake, observed>>

\* The next check: none without automatic updates, now for a new channel, else
\* an interval after the last check, which may have passed.
NextCheck ==
  IF save.startup THEN {"due"}
  ELSE IF ~save.want.auto THEN {"none"}
  ELSE IF save.want.channel # save.was THEN {"due"}
  ELSE IF save.seen.asked = NoCore THEN {"later"} ELSE {"due", "later"}

SaveSettings ==
  /\ save.at = "write"
  /\ \E ok \in Outcomes("save"), next \in NextCheck :
       /\ row' = IF ~ok THEN row
                 ELSE [save.seen EXCEPT !.next = next,
                         !.available = IF save.startup \/ save.want.channel = save.was
                                       THEN @ ELSE NoCore]
       /\ settings' = IF ok /\ ~save.startup THEN save.want ELSE settings
       /\ wake' = (wake \/ (ok /\ save.by = Panel))
       /\ open' = IF ~save.startup THEN open
                  ELSE [open EXCEPT ![Panel] = IF ok THEN "open" ELSE "down"]
       /\ sched' = IF save.startup /\ ok THEN "look" ELSE sched
  /\ save' = NoSave
  /\ UNCHANGED <<files, blocks, external, pendingRestart, running, job,
                 observed>>

-----------------------------------------------------------------------------
\* The scheduler's loop: Due, Update, then a wait that a wake-up or the timer
\* ends.  A busy coordinator and an error are other lengths of the wait.
Due == settings.auto /\ ~Blocked(Panel) /\ row.next \in {"none", "due"}

Look ==
  /\ sched = "look"
  /\ IF Due /\ May(Panel, "auto")
     THEN UpdateCore(Panel, "auto") /\ sched' = "run"
     ELSE /\ sched' = "wait"
          /\ UNCHANGED <<files, blocks, row, settings, external, pendingRestart,
                         running, open, job, save, observed>>
  /\ UNCHANGED wake

UpdateReturns ==
  /\ sched = "run" /\ job.kind # "auto"
  /\ sched' = "wait"
  /\ UNCHANGED <<files, blocks, row, settings, external, pendingRestart,
                 running, open, job, save, wake, observed>>

Wake ==
  /\ sched = "wait" /\ wake
  /\ sched' = "look" /\ wake' = FALSE
  /\ UNCHANGED <<files, blocks, row, settings, external, pendingRestart,
                 running, open, job, save, observed>>

\* Mutant: only a wake-up ends the wait.
PollWoken == Wake

Poll ==
  /\ sched = "wait"
  /\ sched' = "look"
  /\ UNCHANGED <<files, blocks, row, settings, external, pendingRestart,
                 running, open, job, save, wake, observed>>

Schedule == Look \/ UpdateReturns \/ Wake \/ Poll

-----------------------------------------------------------------------------
\* The rest of the system.  The interval passes; a publication leaves an
\* endpoint change to be restarted or the runtime boundary restarts Mihomo; the
\* start of the panel that finds the configuration sound clears the mark.
TimePasses ==
  /\ row.next = "later"
  /\ row' = [row EXCEPT !.next = "due"]
  /\ UNCHANGED <<files, blocks, settings, external, pendingRestart, running,
                 open, job, background, observed>>

OtherHolder ==
  /\ Free /\ open[Panel] = "open" /\ current # NoCore
  /\ \E waits \in (IF Endpoints /\ ~Blocked(Panel) THEN BOOLEAN ELSE {FALSE}) :
       /\ pendingRestart' = waits
       /\ running' = IF waits THEN running ELSE current
  /\ UNCHANGED <<files, blocks, row, settings, external, open, job,
                 background, observed>>

Reconcile ==
  /\ Free /\ open[Panel] = "open" /\ degraded
  /\ degraded' = FALSE
  /\ UNCHANGED <<files, sentinel, failClosed, row, settings, external,
                 pendingRestart, running, open, job, background, observed>>

-----------------------------------------------------------------------------
Step ==
  \/ ReadRow \/ MarkUpdate \/ Resolve \/ SaveCheck \/ SaveNoop \/ Stage
  \/ Validate \/ Backup \/ Switch \/ Prune \/ Restart \/ Commit
  \/ Remove \/ Restore \/ Swap \/ Again \/ SaveRestored
  \/ MarkFailClosed \/ MarkDegraded \/ RecordFailure \/ ClearMarker
  \/ Install \/ Unblock \/ Reopen

CoreNext ==
  \/ Step \/ Request \/ Bootstrap
  \/ \E p \in Processes : Start(p) \/ Crash(p) \/ AskSettings(p)
  \/ CommandReturns \/ Adopt \/ SetMihomoBinaryPath \/ ScheduleStartupCheck
  \/ ReadSettingsRow \/ SaveSettings
  \/ Schedule
  \/ TimePasses \/ OtherHolder \/ Reconcile

\* The scheduler's goroutine runs on, and so does an operation.
CoreSpec ==
  /\ CoreInit /\ [][CoreNext]_coreVars
  /\ WF_coreVars(Step) /\ WF_coreVars(Schedule)

-----------------------------------------------------------------------------
CoreTypeOK ==
  /\ current \in OneOf /\ staged \in OneOf /\ failed \in OneOf
  /\ backups \in Seq(Cores)
  /\ sentinel \in BOOLEAN /\ degraded \in BOOLEAN /\ external \in BOOLEAN
  /\ failClosed \in [Processes -> BOOLEAN]
  /\ row \in Rows /\ settings \in Settings
  /\ pendingRestart \in BOOLEAN /\ running \in OneOf
  /\ open \in [Processes -> {"down", "recovered", "adopting", "adopted", "open"}]
  /\ job.by \in Processes /\ job.target \in OneOf /\ job.had \in OneOf
  /\ job.seen \in Rows /\ save.seen \in Rows
  /\ sched \in {"off", "look", "wait", "run"} /\ wake \in BOOLEAN
  /\ good \in OneOf /\ replaced \in OneOf \cup {"no"}

\* Between operations the managed core is the one last committed, installed or
\* found at a start, and the database names it: whichever step failed, the
\* operation went through or was undone.  (An activation that a crash cut short
\* waits for the next start; a failed restore is UnsafeCoreBlocked's.)
SettledCore ==
  Free /\ replaced = "no" /\ unsafe = "no"
    => current = good /\ row.current = current

\* "The previous core remains a bounded backup until the new process and
\* authenticated Controller are healthy and durable state is committed": also
\* across a crash, until a start takes over what it finds.
PreviousCoreKept ==
  replaced \in Cores
    => replaced = current \/ \E i \in DOMAIN backups : backups[i] = replaced

\* After a restore that failed no check, update or rollback may start and
\* nothing is published until bootstrap installs a core: in every process when
\* the marker file was written, else in the process that failed.
UnsafeCoreBlocked ==
  \A p \in Processes :
    open[p] = "open" /\ unsafe \in {"marked", p} => Blocked(p)

\* An automatic check that is due is not left alone for ever while nobody holds
\* the coordinator: no wake-up is needed for it.
DueIsChecked ==
  []<>~(open[Panel] = "open" /\ Due /\ Free /\ save.at = "none" /\ ~pendingRestart)

\* Mihomo is not restarted for a core while an endpoint change still waits for
\* its explicit restart.
EndpointChangeWaits ==
  [][running' # running /\ job.at \in {"restart", "again"} => ~pendingRestart]_coreVars

\* A deadline that is set belongs to a check of the selected channel.
DeadlineOfChannel ==
  row.next = "later" /\ row.asked # NoCore => row.asked = settings.channel
=============================================================================
