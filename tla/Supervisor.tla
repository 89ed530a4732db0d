----------------------------- MODULE Supervisor -----------------------------
(***************************************************************************)
(* internal/mihomo/managed.go: the supervised Mihomo process, driven by    *)
(* the operations that hold the runtime coordinator (one at a time, see    *)
(* Coordinator), by the goroutine that waits for the child, by the         *)
(* recovery loop, whose callback is itself such an operation, and by the   *)
(* goroutine that stops everything when the panel ends.  Each action is    *)
(* one section under the mutex, or what happens between two of them.       *)
(***************************************************************************)
EXTENDS Integers, FiniteSets

CONSTANTS
  Attempts,     \* of one recovery loop (five in the code)
  MaxStarts,    \* bound: children the panel starts
  MaxRequests   \* bound: operations other than boot and recovery

ASSUME BoundsAssumption ==
  Attempts \in Nat \ {0} /\ MaxStarts \in Nat /\ MaxRequests \in Nat

VARIABLES
  foreign,             \* a Mihomo that an earlier panel left behind is alive
  running,             \* the generations of our children that are alive
  signalled,           \* the generations that were sent a signal
  command,             \* commandGeneration: 0 when there is no command
  nextGeneration,
  desired, restarting, recoveryPending,
  exitGeneration, recoveryGeneration,
  loop,                \* where the recovery loop is
  attempt,             \* its attempt
  job,                 \* the operation that holds the coordinator
  requests,            \* operations asked for
  root                 \* the panel's context, and the goroutine that waits for it

child    == <<foreign, running, signalled, command, nextGeneration>>
recovery == <<restarting, recoveryPending, exitGeneration, recoveryGeneration>>
vars == <<child, desired, recovery, loop, attempt, job, requests, root>>

Generations == 0..MaxStarts

\* A rollback is the second restart of a failed publication or core update.
Kinds == {"none", "boot", "recovery", "start", "restart", "publish",
          "rollback", "stop"}
\* Of an operation: Stop up to the unlock, its signal, its poll; StartAttempt
\* up to the scan of /proc, its second section; the health check;
\* AbortAttempt up to the unlock, its signal, its poll.
Places == {"none", "stop", "signal", "stopping", "start", "launch", "health",
           "abort", "abortSignal", "aborting"}
\* Of the loop: in the backoff; in the callback; the callback succeeded; after
\* the last attempt; before finishRecoveryLoop.
LoopPlaces == {"none", "waiting", "calling", "succeeded", "limit", "leaving"}

\* since: nextGeneration when the operation began.  fresh: the operation has
\* to replace the process (an endpoint restart is pending, or it restarts).
\* token: the attempt it started.  target: the command it signals.
Jobs ==
  [kind : Kinds, at : Places, fresh : BOOLEAN, since : Generations,
   token : Generations, target : Generations]
Job(kind, at, fresh) ==
  [kind |-> kind, at |-> at, fresh |-> fresh, since |-> nextGeneration,
   token |-> 0, target |-> 0]
NoJob == [kind |-> "none", at |-> "none", fresh |-> FALSE, since |-> 0,
          token |-> 0, target |-> 0]

Live == root = "live"
\* active, which every section sets together with command.
Active == command # 0
\* managedProcessActive: what the scan of /proc finds.
ProcessFound == foreign \/ running # {}
IsActive == Active \/ ProcessFound

-----------------------------------------------------------------------------
\* Mutant: one attempt more.
RetryOnceMore ==
  /\ attempt' = attempt + 1
  /\ loop' = IF attempt <= Attempts THEN "waiting" ELSE "limit"

\* The next attempt of the loop, if there is one left.
Retry ==
  /\ attempt' = attempt + 1
  /\ loop' = IF attempt + 1 < Attempts THEN "waiting" ELSE "limit"

\* An operation returns and releases the coordinator.  The callback's result
\* goes to the loop; a boot that fails ends the panel.
Return(ok) ==
  /\ job' = NoJob
  /\ IF job.kind # "recovery" THEN UNCHANGED <<loop, attempt>>
     ELSE IF ok THEN loop' = "succeeded" /\ UNCHANGED attempt
     ELSE Retry
  /\ root' = IF job.kind = "boot" /\ ~ok /\ Live THEN "cancelled" ELSE root

\* The operation fails.  A failed publication or core update still holds the
\* coordinator: it restores and restarts, or, with no earlier configuration or
\* core to restore, stops.
Fails ==
  \/ Return(FALSE)
  \/ \E kind \in {"rollback", "stop"} :
       /\ job.kind = "publish" \/ (job.kind = "rollback" /\ kind = "stop")
       /\ job' = Job(kind, "stop", kind = "rollback")
       /\ UNCHANGED <<loop, attempt, root>>

Goto(place) ==
  job' = [job EXCEPT !.at = place] /\ UNCHANGED <<loop, attempt, root>>

Init ==
  /\ foreign \in BOOLEAN
  /\ running = {} /\ signalled = {} /\ command = 0 /\ nextGeneration = 0
  /\ desired = FALSE /\ restarting = FALSE /\ recoveryPending = FALSE
  /\ exitGeneration = 0 /\ recoveryGeneration = 0
  /\ loop = "none" /\ attempt = 0
  /\ requests = 0 /\ root = "live"
  \* The boot starts Mihomo, or holds it while the publication is degraded.
  /\ job \in {NoJob} \cup {[NoJob EXCEPT !.kind = "boot", !.at = "start",
                                         !.fresh = f] : f \in BOOLEAN}

\* RuntimeBoundary.runLocked, and the restarts and stops of the publisher and
\* of the core manager, which have no attempt to abort.  A start with an
\* endpoint restart pending is refused while Mihomo is active.
Request ==
  /\ job.kind = "none" /\ requests < MaxRequests
  /\ requests' = requests + 1
  /\ \/ \E kind \in {"restart", "publish"} : job' = Job(kind, "stop", TRUE)
     \/ job' = Job("stop", "stop", FALSE)
     \/ \E pending \in BOOLEAN :
          (pending => ~IsActive) /\ job' = Job("start", "start", pending)
  /\ UNCHANGED <<child, desired, recovery, loop, attempt, root>>

-----------------------------------------------------------------------------
\* Stop, and after it StartAttempt when this is a restart.
Stopped == IF job.kind = "stop" THEN Return(TRUE) ELSE Goto("start")

\* Mutant: Stop returns once it has sent the signal.
StopUnwaited ==
  /\ job.at = "signal"
  /\ signalled' = signalled \cup {job.target}
  /\ Stopped
  /\ UNCHANGED <<foreign, running, command, nextGeneration, desired, recovery,
                 requests>>

Stop ==
  /\ job.at = "stop"
  /\ desired' = FALSE
  /\ IF Active
     THEN /\ job' = [job EXCEPT !.at = "signal", !.target = command]
          /\ UNCHANGED <<loop, attempt, root>>
     ELSE Stopped
  /\ UNCHANGED <<child, recovery, requests>>

\* Mutant: the process is waited for but never signalled.
StopSignalLost ==
  job.at = "signal" /\ Goto("stopping")
    /\ UNCHANGED <<child, desired, recovery, requests>>

\* The signal fails when the child was reaped since the unlock.
StopSignal ==
  /\ job.at = "signal"
  /\ IF command = job.target
     THEN signalled' = signalled \cup {job.target} /\ Goto("stopping")
     ELSE UNCHANGED signalled /\ Fails
  /\ UNCHANGED <<foreign, running, command, nextGeneration, desired, recovery,
                 requests>>

\* The poll of active.
StopPoll ==
  /\ job.at = "stopping" /\ ~Active
  /\ Stopped
  /\ UNCHANGED <<child, desired, recovery, requests>>

\* The caller's deadline, if it has one: the target is killed and not waited
\* for.
StopDeadline ==
  /\ job.at = "stopping" /\ Active
  /\ Fails
  /\ UNCHANGED <<child, desired, recovery, requests>>

-----------------------------------------------------------------------------
\* Mutant: nobody looks for a process of an earlier panel.
StartUnscanned ==
  /\ job.at = "start"
  /\ IF Active THEN desired' = TRUE /\ Goto("health")
     ELSE UNCHANGED desired /\ (IF Live THEN Goto("launch") ELSE Return(FALSE))
  /\ UNCHANGED <<child, recovery, requests>>

\* StartAttempt up to its second section: an active process is kept and the
\* token is empty; the scan may find a process of an earlier panel, or fail.
Start ==
  /\ job.at = "start"
  /\ IF Active THEN desired' = TRUE /\ Goto("health")
     ELSE /\ UNCHANGED desired
          /\ \/ Live /\ ~ProcessFound /\ Goto("launch")
             \/ Fails
  /\ UNCHANGED <<child, recovery, requests>>

\* Mutant: the child does not depend on the panel's context.
LaunchDetached ==
  /\ job.at = "launch"
  /\ desired' = TRUE
  /\ \/ /\ nextGeneration < MaxStarts
        /\ nextGeneration' = nextGeneration + 1
        /\ command' = nextGeneration'
        /\ running' = running \cup {nextGeneration'}
        /\ job' = [job EXCEPT !.at = "health", !.token = nextGeneration']
        /\ UNCHANGED <<loop, attempt, root>>
     \/ Return(FALSE) /\ UNCHANGED <<nextGeneration, command, running>>
  /\ UNCHANGED <<foreign, signalled, recovery, requests>>

\* The second section of StartAttempt, with startLocked: the command starts,
\* unless the panel ends or the executable does not run.
Launch ==
  /\ job.at = "launch"
  /\ desired' = TRUE
  /\ \/ /\ ~Active /\ Live /\ nextGeneration < MaxStarts
        /\ nextGeneration' = nextGeneration + 1
        /\ command' = nextGeneration'
        /\ running' = running \cup {nextGeneration'}
        /\ job' = [job EXCEPT !.at = "health", !.token = nextGeneration']
        /\ UNCHANGED <<loop, attempt, root>>
     \/ /\ ~Active /\ Fails
        /\ UNCHANGED <<nextGeneration, command, running>>
  /\ UNCHANGED <<foreign, signalled, recovery, requests>>

\* The health check, and what may fail after it: the removal of the pending
\* marker, the rest of a publication or of a core update.
HealthPasses ==
  /\ job.at = "health" /\ running # {}
  /\ Return(TRUE) \/ (job.fresh /\ Fails)
  /\ UNCHANGED <<child, desired, recovery, requests>>

\* The boundary aborts its attempt; the publisher and the core manager have
\* none.
HealthFails ==
  /\ job.at = "health"
  /\ IF job.kind \in {"publish", "rollback"} THEN Fails ELSE Goto("abort")
  /\ UNCHANGED <<child, desired, recovery, requests>>

\* Mutant: the current command is aborted, whoever started it.
AbortCurrent ==
  /\ job.at = "abort"
  /\ IF Active
     THEN /\ job' = [job EXCEPT !.at = "abortSignal", !.target = command]
          /\ UNCHANGED <<loop, attempt, root>>
     ELSE Return(FALSE)
  /\ UNCHANGED <<child, desired, recovery, requests>>

\* AbortAttempt: only the command of this attempt, if it is still there.
Abort ==
  /\ job.at = "abort"
  /\ IF job.token # 0 /\ command = job.token
     THEN /\ job' = [job EXCEPT !.at = "abortSignal", !.target = command]
          /\ UNCHANGED <<loop, attempt, root>>
     ELSE Return(FALSE)
  /\ UNCHANGED <<child, desired, recovery, requests>>

AbortSignal ==
  /\ job.at = "abortSignal"
  /\ IF command = job.target
     THEN signalled' = signalled \cup {job.target} /\ Goto("aborting")
     ELSE UNCHANGED signalled /\ Return(FALSE)
  /\ UNCHANGED <<foreign, running, command, nextGeneration, desired, recovery,
                 requests>>

\* The poll ends with the process, or at its deadline.
AbortPoll ==
  /\ job.at = "aborting" /\ Return(FALSE)
  /\ UNCHANGED <<child, desired, recovery, requests>>

-----------------------------------------------------------------------------
\* A child ends: by itself, by a signal, or with the panel's context.
Exit ==
  /\ \E g \in running : running' = running \ {g}
  /\ UNCHANGED <<foreign, signalled, command, nextGeneration, desired,
                 recovery, loop, attempt, job, requests, root>>

ForeignExit ==
  /\ foreign /\ foreign' = FALSE
  /\ UNCHANGED <<running, signalled, command, nextGeneration, desired,
                 recovery, loop, attempt, job, requests, root>>

\* wait: the child was reaped.  An exit nobody asked for starts the recovery
\* loop, or is left to the loop that runs.
Reap ==
  /\ Active /\ command \notin running
  /\ command' = 0
  /\ exitGeneration' = exitGeneration + 1
  /\ IF ~(desired /\ Live)
     THEN UNCHANGED <<restarting, recoveryPending, recoveryGeneration, loop>>
     ELSE IF restarting
     THEN recoveryPending' = TRUE
       /\ UNCHANGED <<restarting, recoveryGeneration, loop>>
     ELSE /\ restarting' = TRUE
          /\ recoveryGeneration' = exitGeneration'
          /\ recoveryPending' = FALSE
          /\ loop' = "waiting"
  /\ UNCHANGED <<foreign, running, signalled, nextGeneration, desired, attempt,
                 job, requests, root>>

-----------------------------------------------------------------------------
LoopEnds == loop' = "none" /\ attempt' = 0

\* After the backoff, which the end of the panel cuts short.
LoopCall ==
  /\ loop = "waiting"
  /\ IF desired /\ Live
     THEN /\ loop' = "calling"
          /\ recoveryPending' = FALSE
          /\ recoveryGeneration' = exitGeneration
     ELSE loop' = "leaving" /\ UNCHANGED <<recoveryPending, recoveryGeneration>>
  /\ UNCHANGED <<child, desired, restarting, exitGeneration, attempt, job,
                 requests, root>>

\* The callback, Manager.StartManagedProcess: it acquires the coordinator and
\* reads the endpoints; it fails when the panel ends, when the read fails, or
\* when an endpoint restart is pending and Mihomo is active.
Recover ==
  /\ loop = "calling" /\ job.kind = "none"
  /\ \E pending \in BOOLEAN :
       /\ pending => ~IsActive
       /\ job' = Job("recovery", "start", pending)
  /\ UNCHANGED <<child, desired, recovery, loop, attempt, requests, root>>
RecoverRefused ==
  /\ loop = "calling"
  /\ job.kind = "none" \/ (job.kind # "recovery" /\ ~Live)
  /\ Retry
  /\ UNCHANGED <<child, desired, recovery, job, requests, root>>

\* Mutant: a callback that returned nil is the end of the recovery.
LoopSucceededForgetful ==
  /\ loop = "succeeded"
  /\ restarting' = FALSE /\ recoveryPending' = FALSE /\ LoopEnds
  /\ UNCHANGED <<child, desired, exitGeneration, recoveryGeneration, job,
                 requests, root>>

\* The callback returned nil: an exit it did not see belongs to this loop.
NewExit == ~Active \/ recoveryPending \/ exitGeneration # recoveryGeneration
LoopSucceeded ==
  /\ loop = "succeeded"
  /\ recoveryPending' = FALSE
  /\ IF desired /\ Live /\ NewExit
     THEN /\ recoveryGeneration' = exitGeneration
          /\ Retry
          /\ UNCHANGED restarting
     ELSE restarting' = FALSE /\ LoopEnds /\ UNCHANGED recoveryGeneration
  /\ UNCHANGED <<child, desired, exitGeneration, job, requests, root>>

\* Mutant: the restart limit leaves desired set.
LoopLimitDesired ==
  /\ loop = "limit" /\ loop' = "leaving"
  /\ UNCHANGED <<child, desired, recovery, attempt, job, requests, root>>

\* The restart limit, in a section of its own.
LoopLimit ==
  /\ loop = "limit"
  /\ desired' = FALSE
  /\ loop' = "leaving"
  /\ UNCHANGED <<child, recovery, attempt, job, requests, root>>

\* Mutant: the owner of the recovery is not given up.
LoopLeavesRestarting ==
  /\ loop = "leaving"
  /\ recoveryPending' = FALSE /\ LoopEnds
  /\ UNCHANGED <<child, desired, restarting, exitGeneration,
                 recoveryGeneration, job, requests, root>>

\* finishRecoveryLoop.
LoopLeaves ==
  /\ loop = "leaving"
  /\ restarting' = FALSE /\ recoveryPending' = FALSE /\ LoopEnds
  /\ UNCHANGED <<child, desired, exitGeneration, recoveryGeneration, job,
                 requests, root>>

-----------------------------------------------------------------------------
\* The panel ends: its context kills the child, and a goroutine runs Stop.
Cancel ==
  /\ Live /\ root' = "cancelled"
  /\ UNCHANGED <<child, desired, recovery, loop, attempt, job, requests>>
ShutdownStop ==
  /\ root = "cancelled" /\ root' = "stopped"
  /\ desired' = FALSE
  /\ signalled' = signalled \cup ({command} \ {0})
  /\ UNCHANGED <<foreign, running, command, nextGeneration, recovery, loop,
                 attempt, job, requests>>
\* Nothing is left of it.
Ended ==
  /\ root = "stopped" /\ job = NoJob /\ loop = "none" /\ ~Active /\ ~foreign
  /\ UNCHANGED vars

Operation ==
  Stop \/ StopSignal \/ StopPoll \/ Start \/ Launch \/ HealthPasses
    \/ HealthFails \/ Abort \/ AbortSignal \/ AbortPoll
Loop ==
  LoopCall \/ Recover \/ RecoverRefused \/ LoopSucceeded \/ LoopLimit
    \/ LoopLeaves
Next ==
  Request \/ Operation \/ StopDeadline \/ Loop \/ Exit \/ ForeignExit \/ Reap \/ Cancel
    \/ ShutdownStop \/ Ended

\* A child that was signalled, or whose panel has ended, exits.
Ends == (running \subseteq signalled \/ ~Live) /\ Exit

Spec ==
  /\ Init /\ [][Next]_vars
  /\ WF_vars(Operation) /\ WF_vars(Loop) /\ WF_vars(Ends) /\ WF_vars(Reap)
  /\ WF_vars(ShutdownStop)

-----------------------------------------------------------------------------
TypeOK ==
  /\ foreign \in BOOLEAN
  /\ running \subseteq Generations \ {0} /\ signalled \subseteq Generations
  /\ command \in Generations /\ nextGeneration \in Generations
  /\ desired \in BOOLEAN /\ restarting \in BOOLEAN /\ recoveryPending \in BOOLEAN
  /\ exitGeneration \in Generations /\ recoveryGeneration \in Generations
  /\ loop \in LoopPlaces /\ attempt \in 0..Attempts
  /\ job \in Jobs
  /\ requests \in 0..MaxRequests
  /\ root \in {"live", "cancelled", "stopped"}

\* A second Mihomo is never started beside one that is alive, ours or one that
\* an earlier panel left behind (StartAttempt, managedProcessActive).
OneMihomo ==
  /\ foreign => running = {}
  /\ \A g, h \in running : g = h

\* An operation that has to replace the process, because it restarts it or
\* because an endpoint restart is pending, only ever passes its health check
\* against the child it started itself (Stop waits for the exit, and nobody
\* else starts a child: RestartAttempt, RuntimeBoundary.startLocked).
HealthOfItsOwn ==
  job.at = "health" /\ job.fresh =>
    /\ job.token > job.since
    /\ running \subseteq {job.token}

\* An abort signals no child that its operation did not start: neither one
\* it found active, nor a later one (AbortAttempt, ProcessAttempt).
AbortsItsOwn ==
  [][job.at = "abortSignal" =>
       \A g \in signalled' \ signalled : g > job.since]_vars

\* The flag that makes wait leave an exit to the loop is set exactly while
\* there is a loop: else an exit starts a second one, or nobody restarts.
RestartingIsOwned == restarting <=> loop # "none"

\* A callback that returns nil over a child that has exited does not end the
\* recovery of a process that is still desired (restartLoop).
CallbackKeepsExit ==
  [][loop = "succeeded" /\ loop' # loop /\ ~Active /\ desired /\ Live
       => restarting']_vars

\* What the comment in restartLoop says of that case: the current owner keeps
\* the exit and "the next attempt remains scheduled".
NextAttemptScheduled ==
  [][loop = "succeeded" /\ loop' # loop /\ ~Active /\ desired /\ Live
       => loop' = "waiting"]_vars

\* As long as nobody operates it, a desired Mihomo that is not active is
\* started again or given up: its supervisor never forgets it (wait,
\* restartLoop).
Recovers ==
  desired /\ ~Active /\ Live ~> Active \/ ~desired \/ ~Live \/ requests > 0

\* Every operation returns: Stop and AbortAttempt do not wait for a process
\* that they did not tell to go.
OperationsReturn == job.kind # "none" ~> job.kind = "none"

\* Once the panel has stopped Mihomo for good, every child that is still
\* alive has been told to go: none is started, or missed, after that Stop
\* (NewManagedProcess, StartAttempt).
StoppedForGood == root = "stopped" => running \subseteq signalled
=============================================================================
