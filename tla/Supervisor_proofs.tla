------------------------- MODULE Supervisor_proofs -------------------------
(***************************************************************************)
(* Proofs about Supervisor, for every number of attempts, starts and       *)
(* operations.  The invariant ties the flags of the supervisor to the      *)
(* child (ChildInv), to the recovery loop (LoopInv) and to the operation   *)
(* that holds the coordinator (JobInv).                                    *)
(***************************************************************************)
EXTENDS Supervisor, TLAPS

\* Only the current command can be alive, and every earlier generation was
\* reaped; a foreign Mihomo is older than every child.
ChildInv ==
  /\ \A g \in running : g = command
  /\ command \in {0, nextGeneration}
  /\ exitGeneration = IF command = 0 THEN nextGeneration ELSE nextGeneration - 1
  /\ foreign => nextGeneration = 0

\* The flag, the attempts and the callback belong to the loop.
LoopInv ==
  /\ RestartingIsOwned
  /\ loop \in {"waiting", "calling", "succeeded"} => attempt < Attempts
  /\ loop = "none" => attempt = 0
  /\ job.kind = "recovery" => loop = "calling"

\* What an operation has found or done is still so, because nobody else
\* starts a child.
JobInv ==
  /\ job.since <= nextGeneration
  /\ job.token # 0 => job.token = nextGeneration /\ job.token > job.since
  /\ job.at = "launch" => ~foreign /\ command = 0
  /\ job.fresh /\ job.at \in {"start", "launch"} => command = 0
  /\ job.fresh /\ job.at = "health" => job.token # 0
  /\ job.at = "abortSignal" => job.target = job.token /\ job.token # 0

Inv == TypeOK /\ ChildInv /\ LoopInv /\ JobInv /\ StoppedForGood

-----------------------------------------------------------------------------
\* What an operation that returns or moves on hands over: a job, a loop and a
\* context that are as they should be, whatever the rest of its section does.
Handed ==
  /\ job' \in Jobs /\ loop' \in LoopPlaces /\ attempt' \in 0..Attempts
  /\ root' \in {"live", "cancelled", "stopped"}
  /\ root' = "stopped" <=> root = "stopped"
  /\ loop' = "none" <=> loop = "none"
  /\ loop' = "none" => attempt' = 0
  /\ loop' \in {"waiting", "calling", "succeeded"} => attempt' < Attempts
  /\ job'.kind = "recovery" => loop' = "calling"

\* An operation that has started nothing yet, or that is over.
AtRest ==
  job.since <= nextGeneration /\ job.token = 0 /\ job.at \in {"none", "stop"}

LEMMA RestingJob == AtRest => JobInv
  BY DEF AtRest, JobInv

LEMMA NoJobRests ==
  ASSUME TypeOK, nextGeneration' \in Generations, job' = NoJob
  PROVE  AtRest' /\ job' \in Jobs /\ job'.kind = "none"
  BY BoundsAssumption
  DEF AtRest, NoJob, Jobs, Kinds, Places, Generations, TypeOK

\* A new operation, at its first section.
LEMMA NewJob ==
  ASSUME TypeOK, NEW kind \in Kinds, NEW at \in Places, NEW fresh \in BOOLEAN
  PROVE  /\ Job(kind, at, fresh) \in Jobs
         /\ Job(kind, at, fresh).kind = kind
         /\ Job(kind, at, fresh).at = at
         /\ Job(kind, at, fresh).fresh = fresh
         /\ Job(kind, at, fresh).since = nextGeneration
         /\ Job(kind, at, fresh).token = 0
  BY BoundsAssumption DEF Job, Jobs, TypeOK, Generations

\* Another attempt of the loop, while there is one.
LEMMA RetryBounded ==
  ASSUME TypeOK, attempt < Attempts, Retry
  PROVE  /\ loop' \in {"waiting", "limit"} /\ attempt' \in 0..Attempts
         /\ loop' = "waiting" => attempt' < Attempts
  BY BoundsAssumption DEF Retry, TypeOK

LEMMA ReturnHands ==
  ASSUME TypeOK, LoopInv, NEW ok \in BOOLEAN, Return(ok),
         nextGeneration' = nextGeneration
  PROVE  Handed /\ JobInv'
<1>1. AtRest' /\ job' \in Jobs /\ job'.kind = "none"
  BY NoJobRests DEF Return, TypeOK
<1>2. JobInv'
  BY <1>1, RestingJob DEF AtRest, JobInv
<1>3. root' \in {"live", "cancelled", "stopped"} /\ (root' = "stopped" <=> root = "stopped")
  BY DEF Return, Live, TypeOK
<1>4. CASE job.kind # "recovery"
  BY <1>1, <1>2, <1>3, <1>4 DEF Handed, Return, TypeOK, LoopInv
<1>5. CASE job.kind = "recovery" /\ ok
  BY <1>1, <1>2, <1>3, <1>5 DEF Handed, Return, TypeOK, LoopInv, LoopPlaces
<1>6. CASE job.kind = "recovery" /\ ~ok
  <2>1. Retry /\ loop = "calling" /\ attempt < Attempts
    BY <1>6 DEF Return, LoopInv
  <2> QED
    BY <1>1, <1>2, <1>3, <2>1, RetryBounded DEF Handed, LoopPlaces
<1> QED
  BY <1>4, <1>5, <1>6

LEMMA FailsHands ==
  ASSUME TypeOK, LoopInv, Fails, nextGeneration' = nextGeneration
  PROVE  Handed /\ JobInv'
<1>1. CASE Return(FALSE)
  BY <1>1, ReturnHands
<1>2. ASSUME NEW kind \in {"rollback", "stop"},
             job' = Job(kind, "stop", kind = "rollback"),
             UNCHANGED <<loop, attempt, root>>
      PROVE  Handed /\ JobInv'
  <2>1. kind \in Kinds /\ "stop" \in Places /\ kind # "recovery"
    BY DEF Kinds, Places
  <2> DEFINE fresh == kind = "rollback"
  <2>a. fresh \in BOOLEAN /\ job' = Job(kind, "stop", fresh)
    BY <1>2
  <2>b. nextGeneration \in Nat
    BY BoundsAssumption DEF TypeOK, Generations
  <2>2. job' \in Jobs /\ job'.kind = kind /\ AtRest'
    <3> HIDE DEF fresh
    <3>1. job' \in Jobs /\ job'.kind = kind /\ job'.at = "stop"
            /\ job'.since = nextGeneration /\ job'.token = 0
      BY <2>1, <2>a, NewJob
    <3> QED
      BY <3>1, <2>b DEF AtRest
  <2>3. JobInv'
    BY <2>2, RestingJob DEF AtRest, JobInv
  <2> QED
    BY <1>2, <2>1, <2>2, <2>3 DEF Handed, TypeOK, LoopInv
<1> QED
  BY <1>1, <1>2 DEF Fails

\* The same operation at another place, or with another token or target.
LEMMA MovedHands ==
  ASSUME TypeOK, LoopInv, job' \in Jobs, job'.kind = job.kind,
         UNCHANGED <<loop, attempt, root>>
  PROVE  Handed
  BY DEF Handed, TypeOK, LoopInv

LEMMA GotoHands ==
  ASSUME TypeOK, LoopInv, NEW place \in Places, Goto(place)
  PROVE  /\ Handed
         /\ job'.at = place /\ job'.since = job.since /\ job'.token = job.token
         /\ job'.fresh = job.fresh /\ job'.target = job.target
<1>1. job' = [job EXCEPT !.at = place] /\ job \in Jobs
  BY DEF Goto, TypeOK
<1>2. job' \in Jobs /\ job'.kind = job.kind
  BY <1>1 DEF Jobs
<1>3. Handed
  BY <1>2, MovedHands DEF Goto
<1> QED
  BY <1>1, <1>3 DEF Jobs

\* A section that hands over and keeps the child preserves the invariant.
LEMMA HandedKeeps ==
  ASSUME Inv, Handed, JobInv', desired' \in BOOLEAN, requests' = requests,
         UNCHANGED <<foreign, running, command, nextGeneration, recovery>>,
         signalled \subseteq signalled', signalled' \subseteq Generations
  PROVE  Inv'
<1> USE DEF Inv
<1>1. TypeOK'
  BY DEF TypeOK, Handed, recovery, Generations
<1>2. ChildInv'
  BY DEF ChildInv, recovery
<1>3. LoopInv'
  BY DEF LoopInv, RestartingIsOwned, Handed, recovery
<1>4. StoppedForGood'
  BY DEF StoppedForGood, Handed
<1> QED
  BY <1>1, <1>2, <1>3, <1>4

\* The invariant holds initially.
LEMMA InitInv == Init => Inv
<1> SUFFICES ASSUME Init PROVE Inv
  OBVIOUS
<1>1. job \in Jobs /\ job.token = 0 /\ job.since = 0 /\ job.kind # "recovery"
        /\ job.at \in {"none", "start"}
  <2>1. 0 \in Generations
    BY BoundsAssumption DEF Generations
  <2>2. CASE job = NoJob
    BY <2>1, <2>2 DEF NoJob, Jobs, Kinds, Places
  <2>3. ASSUME NEW f \in BOOLEAN,
               job = [NoJob EXCEPT !.kind = "boot", !.at = "start", !.fresh = f]
        PROVE  /\ job \in Jobs /\ job.token = 0 /\ job.since = 0
               /\ job.kind = "boot" /\ job.at = "start"
    BY <2>1, <2>3 DEF NoJob, Jobs, Kinds, Places
  <2> QED
    BY <2>2, <2>3 DEF Init
<1>2. TypeOK
  <2>1. /\ running = {} /\ signalled = {} /\ command = 0 /\ nextGeneration = 0
        /\ exitGeneration = 0 /\ recoveryGeneration = 0 /\ attempt = 0
        /\ requests = 0 /\ loop = "none" /\ root = "live"
    BY DEF Init
  <2>2. foreign \in BOOLEAN /\ desired \in BOOLEAN /\ restarting \in BOOLEAN
          /\ recoveryPending \in BOOLEAN
    BY DEF Init
  <2> QED
    BY <1>1, <2>1, <2>2, BoundsAssumption DEF TypeOK, Generations, LoopPlaces
<1>3. ChildInv /\ StoppedForGood
  BY BoundsAssumption DEF Init, ChildInv, StoppedForGood
<1>a. LoopInv
  <2>1. restarting = FALSE /\ loop = "none" /\ attempt = 0
    BY DEF Init
  <2> QED
    BY <1>1, <2>1 DEF LoopInv, RestartingIsOwned
<1>4. JobInv
  <2>1. nextGeneration = 0 /\ command = 0
    BY DEF Init
  <2> QED
    BY <1>1, <2>1 DEF JobInv
<1> QED
  BY <1>2, <1>3, <1>a, <1>4 DEF Inv

\* The sections of an operation.
LEMMA OperationInv == Inv /\ (Operation \/ StopDeadline) => Inv'
<1> SUFFICES ASSUME Inv, Operation \/ StopDeadline PROVE Inv'
  OBVIOUS
<1> USE DEF Inv
<1>0. /\ job \in Jobs /\ command \in Generations /\ signalled \subseteq Generations
      /\ {"start", "signal", "stopping", "launch", "health", "abort",
          "abortSignal", "aborting"} \subseteq Places
  BY DEF TypeOK, Places
<1>1. CASE Stop
  <2>1. CASE Active
    <3>1. job' = [job EXCEPT !.at = "signal", !.target = command]
      BY <1>1, <2>1 DEF Stop
    <3>2. job' \in Jobs /\ job'.kind = job.kind /\ job'.at = "signal"
            /\ job'.since = job.since /\ job'.token = job.token
      BY <1>0, <3>1 DEF Jobs
    <3>3. Handed
      BY <1>1, <2>1, <3>2, MovedHands DEF Stop
    <3>4. JobInv'
      BY <1>1, <3>2 DEF Stop, child, JobInv
    <3> QED
      BY <1>0, <1>1, <3>3, <3>4, HandedKeeps DEF Stop, child
  <2>2. CASE ~Active
    <3>1. Handed /\ JobInv'
      <4>1. CASE job.kind = "stop"
        BY <1>1, <2>2, <4>1, ReturnHands DEF Stop, Stopped, child
      <4>2. CASE job.kind # "stop"
        <5>1. Goto("start")
          BY <1>1, <2>2, <4>2 DEF Stop, Stopped
        <5> QED
          BY <1>0, <1>1, <2>2, <5>1, GotoHands DEF Stop, child, JobInv, Active
      <4> QED
        BY <4>1, <4>2
    <3> QED
      BY <1>0, <1>1, <3>1, HandedKeeps DEF Stop, child
  <2> QED
    BY <2>1, <2>2
<1>2. CASE StopSignal
  <2>1. Handed /\ JobInv'
    <3>1. CASE command = job.target
      BY <1>0, <1>2, <3>1, GotoHands DEF StopSignal, JobInv
    <3>2. CASE command # job.target
      BY <1>2, <3>2, FailsHands DEF StopSignal
    <3> QED
      BY <3>1, <3>2
  <2>2. signalled \subseteq signalled' /\ signalled' \subseteq Generations
    BY <1>0, <1>2 DEF StopSignal
  <2> QED
    BY <1>2, <2>1, <2>2, HandedKeeps DEF StopSignal, TypeOK
<1>3. CASE StopPoll
  <2>1. Handed /\ JobInv'
    <3>1. CASE job.kind = "stop"
      BY <1>3, <3>1, ReturnHands DEF StopPoll, Stopped, child
    <3>2. CASE job.kind # "stop"
      <4>1. Goto("start")
        BY <1>3, <3>2 DEF StopPoll, Stopped
      <4> QED
        BY <1>0, <1>3, <4>1, GotoHands DEF StopPoll, child, JobInv, Active
    <3> QED
      BY <3>1, <3>2
  <2> QED
    BY <1>0, <1>3, <2>1, HandedKeeps DEF StopPoll, child, TypeOK
<1>4. CASE StopDeadline
  <2>1. Handed /\ JobInv'
    BY <1>4, FailsHands DEF StopDeadline, child
  <2> QED
    BY <1>0, <1>4, <2>1, HandedKeeps DEF StopDeadline, child, TypeOK
<1>5. CASE Start
  <2>1. Handed /\ JobInv'
    <3>1. CASE Active
      BY <1>0, <1>5, <3>1, GotoHands DEF Start, child, JobInv, Active
    <3>2. CASE ~Active /\ ~ProcessFound /\ Goto("launch")
      BY <1>0, <1>5, <3>2, GotoHands
      DEF Start, child, JobInv, Active, ProcessFound
    <3>3. CASE Fails
      BY <1>5, <3>3, FailsHands DEF Start, child
    <3> QED
      BY <1>5, <3>1, <3>2, <3>3 DEF Start
  <2> QED
    BY <1>0, <1>5, <2>1, HandedKeeps DEF Start, child, TypeOK
<1>6. CASE Launch
  <2>1. CASE Fails /\ UNCHANGED <<nextGeneration, command, running>>
    <3>1. Handed /\ JobInv'
      BY <2>1, FailsHands
    <3> QED
      BY <1>0, <1>6, <2>1, <3>1, HandedKeeps DEF Launch
  <2>2. CASE ~(Fails /\ UNCHANGED <<nextGeneration, command, running>>)
    <3> DEFINE next == nextGeneration + 1
    <3>1. /\ ~Active /\ Live /\ nextGeneration < MaxStarts
          /\ nextGeneration' = next /\ command' = next
          /\ running' = running \cup {next}
          /\ job' = [job EXCEPT !.at = "health", !.token = next]
          /\ job.at = "launch" /\ desired' = TRUE
          /\ UNCHANGED <<loop, attempt, root, foreign, signalled, recovery,
                         requests>>
      BY <1>6, <2>2 DEF Launch
    <3>2. /\ next \in Generations \ {0} /\ nextGeneration \in Nat /\ next \in Nat
          /\ command = 0 /\ ~foreign /\ running = {} /\ job.since <= nextGeneration
          /\ exitGeneration = nextGeneration
      <4>1. next \in Generations \ {0} /\ nextGeneration \in Nat /\ next \in Nat
        BY <3>1, BoundsAssumption DEF TypeOK, Generations
      <4>2. command = 0 /\ ~foreign /\ job.since <= nextGeneration
        BY <3>1 DEF JobInv, Active
      <4>3. running = {}
        BY <4>2 DEF TypeOK, ChildInv
      <4> QED
        BY <4>1, <4>2, <4>3 DEF ChildInv
    <3>3. /\ job' \in Jobs /\ job'.kind = job.kind /\ job'.at = "health"
          /\ job'.since = job.since /\ job'.token = next
      BY <1>0, <3>1, <3>2 DEF Jobs
    <3>4. Handed
      BY <3>1, <3>3, MovedHands
    <3>5. TypeOK'
      BY <3>1, <3>2, <3>4 DEF TypeOK, Handed, recovery, Generations
    <3>6. ChildInv'
      BY <3>1, <3>2 DEF ChildInv, recovery
    <3>7. LoopInv'
      BY <3>1, <3>4 DEF LoopInv, RestartingIsOwned, Handed, recovery
    <3>8. JobInv'
      BY <3>1, <3>2, <3>3, <1>0 DEF JobInv, Jobs, Generations
    <3>9. StoppedForGood'
      BY <3>1 DEF StoppedForGood, Live
    <3> QED
      BY <3>5, <3>6, <3>7, <3>8, <3>9
  <2> QED
    BY <2>1, <2>2
<1>7. CASE HealthPasses
  <2>1. Handed /\ JobInv'
    BY <1>7, ReturnHands, FailsHands DEF HealthPasses, child
  <2> QED
    BY <1>0, <1>7, <2>1, HandedKeeps DEF HealthPasses, child, TypeOK
<1>8. CASE HealthFails
  <2>1. Handed /\ JobInv'
    <3>1. CASE Fails
      BY <1>8, <3>1, FailsHands DEF HealthFails, child
    <3>2. CASE Goto("abort")
      BY <1>0, <1>8, <3>2, GotoHands DEF HealthFails, child, JobInv
    <3> QED
      BY <1>8, <3>1, <3>2 DEF HealthFails
  <2> QED
    BY <1>0, <1>8, <2>1, HandedKeeps DEF HealthFails, child, TypeOK
<1>9. CASE Abort
  <2>1. Handed /\ JobInv'
    <3>1. CASE job.token # 0 /\ command = job.token
      <4>1. job' = [job EXCEPT !.at = "abortSignal", !.target = command]
        BY <1>9, <3>1 DEF Abort
      <4>2. /\ job' \in Jobs /\ job'.kind = job.kind /\ job'.at = "abortSignal"
            /\ job'.since = job.since /\ job'.token = job.token
            /\ job'.target = command
        BY <1>0, <4>1 DEF Jobs
      <4>3. Handed
        BY <1>9, <3>1, <4>2, MovedHands DEF Abort
      <4>4. JobInv'
        BY <1>9, <3>1, <4>2 DEF Abort, child, JobInv
      <4> QED
        BY <4>3, <4>4
    <3>2. CASE ~(job.token # 0 /\ command = job.token)
      BY <1>9, <3>2, ReturnHands DEF Abort, child
    <3> QED
      BY <3>1, <3>2
  <2> QED
    BY <1>0, <1>9, <2>1, HandedKeeps DEF Abort, child, TypeOK
<1>10. CASE AbortSignal
  <2>1. Handed /\ JobInv'
    <3>1. CASE command = job.target
      BY <1>0, <1>10, <3>1, GotoHands DEF AbortSignal, JobInv
    <3>2. CASE command # job.target
      BY <1>10, <3>2, ReturnHands DEF AbortSignal
    <3> QED
      BY <3>1, <3>2
  <2>2. signalled \subseteq signalled' /\ signalled' \subseteq Generations
    BY <1>0, <1>10 DEF AbortSignal
  <2> QED
    BY <1>10, <2>1, <2>2, HandedKeeps DEF AbortSignal, TypeOK
<1>11. CASE AbortPoll
  <2>1. Handed /\ JobInv'
    BY <1>11, ReturnHands DEF AbortPoll, child
  <2> QED
    BY <1>0, <1>11, <2>1, HandedKeeps DEF AbortPoll, child, TypeOK
<1> QED
  BY <1>1, <1>2, <1>3, <1>4, <1>5, <1>6, <1>7, <1>8, <1>9, <1>10, <1>11
  DEF Operation

\* The sections of the recovery loop, and the operations it and the panel
\* begin.
LEMMA LoopInvariant == Inv /\ (Loop \/ Request) => Inv'
<1> SUFFICES ASSUME Inv, Loop \/ Request PROVE Inv'
  OBVIOUS
<1> USE DEF Inv
<1>0. {"boot", "recovery", "start", "restart", "publish", "stop"} \subseteq Kinds
        /\ {"stop", "start"} \subseteq Places
  BY DEF Kinds, Places
<1>1. CASE LoopCall
  BY <1>1, BoundsAssumption
  DEF LoopCall, Live, child, TypeOK, LoopPlaces, ChildInv, LoopInv,
      RestartingIsOwned, JobInv, StoppedForGood
<1>2. CASE Recover
  <2>1. PICK pending \in BOOLEAN :
          (pending => ~IsActive) /\ job' = Job("recovery", "start", pending)
    BY <1>2 DEF Recover
  <2>2. /\ job' \in Jobs /\ job'.kind = "recovery" /\ job'.at = "start"
        /\ job'.fresh = pending /\ job'.since = nextGeneration /\ job'.token = 0
    BY <1>0, <2>1, NewJob
  <2>3. TypeOK'
    BY <1>2, <2>2 DEF Recover, child, recovery, TypeOK
  <2>4. ChildInv' /\ LoopInv' /\ StoppedForGood'
    BY <1>2, <2>2
    DEF Recover, child, recovery, ChildInv, LoopInv, RestartingIsOwned,
        StoppedForGood
  <2>5. JobInv'
    BY <1>2, <2>1, <2>2
    DEF Recover, child, JobInv, IsActive, Active, TypeOK, Generations
  <2> QED
    BY <2>3, <2>4, <2>5
<1>3. CASE RecoverRefused
  <2>1. /\ loop' \in {"waiting", "limit"} /\ attempt' \in 0..Attempts
        /\ loop' = "waiting" => attempt' < Attempts
    BY <1>3, RetryBounded DEF RecoverRefused, LoopInv
  <2> QED
    BY <1>3, <2>1
    DEF RecoverRefused, child, recovery, TypeOK, LoopPlaces, ChildInv, LoopInv,
        RestartingIsOwned, JobInv, StoppedForGood
<1>4. CASE LoopSucceeded
  <2>1. loop' \in {"none", "waiting", "limit"} /\ attempt' \in 0..Attempts
          /\ (loop' = "waiting" => attempt' < Attempts)
          /\ (loop' = "none" => attempt' = 0)
          /\ (restarting' <=> loop' # "none")
          /\ recoveryGeneration' \in Generations /\ restarting' \in BOOLEAN
    <3>1. CASE desired /\ Live /\ NewExit
      BY <1>4, <3>1, RetryBounded
      DEF LoopSucceeded, LoopInv, RestartingIsOwned, TypeOK
    <3>2. CASE ~(desired /\ Live /\ NewExit)
      <4>1. restarting' = FALSE /\ LoopEnds /\ UNCHANGED recoveryGeneration
        BY <1>4, <3>2 DEF LoopSucceeded
      <4>2. 0 \in 0..Attempts
        BY BoundsAssumption
      <4> QED
        BY <4>1, <4>2 DEF LoopEnds, TypeOK
    <3> QED
      BY <3>1, <3>2
  <2>2. job.kind # "recovery"
    BY <1>4 DEF LoopSucceeded, LoopInv
  <2>3. TypeOK'
    BY <1>4, <2>1 DEF LoopSucceeded, child, TypeOK, LoopPlaces
  <2>4. LoopInv'
    BY <1>4, <2>1, <2>2 DEF LoopSucceeded, LoopInv, RestartingIsOwned
  <2> QED
    BY <1>4, <2>3, <2>4 DEF LoopSucceeded, child, ChildInv, JobInv, StoppedForGood
<1>5. CASE LoopLimit
  BY <1>5
  DEF LoopLimit, child, recovery, TypeOK, LoopPlaces, ChildInv, LoopInv,
      RestartingIsOwned, JobInv, StoppedForGood
<1>6. CASE LoopLeaves
  <2>1. /\ restarting' = FALSE /\ recoveryPending' = FALSE
        /\ loop' = "none" /\ attempt' = 0 /\ job.kind # "recovery"
        /\ 0 \in 0..Attempts
    BY <1>6, BoundsAssumption DEF LoopLeaves, LoopEnds, LoopInv
  <2>2. TypeOK'
    BY <1>6, <2>1 DEF LoopLeaves, child, TypeOK, LoopPlaces
  <2>3. LoopInv'
    BY <1>6, <2>1 DEF LoopLeaves, LoopInv, RestartingIsOwned
  <2> QED
    BY <1>6, <2>2, <2>3 DEF LoopLeaves, child, ChildInv, JobInv, StoppedForGood
<1>7. CASE Request
  <2>1. PICK kind \in {"restart", "publish", "stop", "start"},
             at \in {"stop", "start"}, fresh \in BOOLEAN :
          /\ job' = Job(kind, at, fresh)
          /\ at = "start" /\ fresh => command = 0
    BY <1>7 DEF Request, IsActive, Active
  <2>2. /\ job' \in Jobs /\ job'.kind = kind /\ job'.at = at
        /\ job'.fresh = fresh /\ job'.since = nextGeneration /\ job'.token = 0
    BY <1>0, <2>1, NewJob
  <2>3. TypeOK'
    BY <1>7, <2>2, BoundsAssumption DEF Request, child, recovery, TypeOK
  <2>4. ChildInv' /\ LoopInv' /\ StoppedForGood'
    BY <1>7, <2>2
    DEF Request, child, recovery, ChildInv, LoopInv, RestartingIsOwned,
        StoppedForGood
  <2>5. JobInv'
    BY <1>7, <2>1, <2>2 DEF Request, child, JobInv, TypeOK, Generations
  <2> QED
    BY <2>3, <2>4, <2>5
<1> QED
  BY <1>1, <1>2, <1>3, <1>4, <1>5, <1>6, <1>7 DEF Loop

\* What happens to the child and to the panel.
LEMMA ProcessInv ==
  Inv /\ (Exit \/ ForeignExit \/ Reap \/ Cancel \/ ShutdownStop) => Inv'
<1> SUFFICES ASSUME Inv, Exit \/ ForeignExit \/ Reap \/ Cancel \/ ShutdownStop
             PROVE  Inv'
  OBVIOUS
<1> USE DEF Inv
<1>1. CASE Exit
  BY <1>1
  DEF Exit, recovery, TypeOK, ChildInv, LoopInv, RestartingIsOwned, JobInv,
      StoppedForGood
<1>2. CASE ForeignExit
  BY <1>2
  DEF ForeignExit, recovery, TypeOK, ChildInv, LoopInv, RestartingIsOwned,
      JobInv, StoppedForGood
<1>3. CASE Reap
  <2>1. running = {} /\ command = nextGeneration /\ command # 0
          /\ exitGeneration' = nextGeneration /\ nextGeneration \in Nat
    BY <1>3, BoundsAssumption
    DEF Reap, Active, ChildInv, TypeOK, Generations
  <2>2. /\ loop' \in LoopPlaces /\ recoveryPending' \in BOOLEAN
        /\ restarting' \in BOOLEAN /\ recoveryGeneration' \in Generations
        /\ restarting' <=> loop' # "none"
        /\ loop' # loop => loop = "none" /\ loop' = "waiting"
    BY <1>3, <2>1 DEF Reap, LoopInv, RestartingIsOwned, TypeOK, LoopPlaces
  <2>3. TypeOK'
    BY <1>3, <2>1, <2>2, BoundsAssumption DEF Reap, TypeOK, Generations
  <2>4. ChildInv' /\ JobInv' /\ StoppedForGood'
    BY <1>3, <2>1 DEF Reap, ChildInv, JobInv, StoppedForGood
  <2>5. LoopInv'
    BY <1>3, <2>2, BoundsAssumption DEF Reap, LoopInv, RestartingIsOwned
  <2> QED
    BY <2>3, <2>4, <2>5
<1>4. CASE Cancel
  BY <1>4
  DEF Cancel, child, recovery, TypeOK, ChildInv, LoopInv, RestartingIsOwned,
      JobInv, StoppedForGood
<1>5. CASE ShutdownStop
  BY <1>5
  DEF ShutdownStop, recovery, TypeOK, ChildInv, LoopInv, RestartingIsOwned,
      JobInv, StoppedForGood
<1> QED
  BY <1>1, <1>2, <1>3, <1>4, <1>5

\* Every step preserves the invariant.
LEMMA NextInv == Inv /\ [Next]_vars => Inv'
<1> SUFFICES ASSUME Inv, [Next]_vars PROVE Inv'
  OBVIOUS
<1>1. CASE UNCHANGED vars
  BY <1>1
  DEF vars, child, recovery, Inv, TypeOK, ChildInv, LoopInv,
      RestartingIsOwned, JobInv, StoppedForGood
<1>2. CASE Ended
  BY <1>1, <1>2 DEF Ended
<1> QED
  BY <1>1, <1>2, OperationInv, LoopInvariant, ProcessInv DEF Next

\* The invariant holds in every reachable state.
THEOREM SupervisorInvariant == Spec => []Inv
<1> QED
  BY InitInv, NextInv, PTL DEF Spec

-----------------------------------------------------------------------------
\* The types of the supervisor's variables, and the bounds of its counters.
THEOREM SupervisorTypeCorrect == Spec => []TypeOK
<1>1. Inv => TypeOK
  BY DEF Inv
<1> QED
  BY <1>1, SupervisorInvariant, PTL

\* At most one Mihomo is alive, whatever interleaving of operations, exits,
\* recovery attempts and the end of the panel led here.
THEOREM AtMostOneMihomo == Spec => []OneMihomo
<1>1. Inv => OneMihomo
  BY BoundsAssumption DEF Inv, TypeOK, Generations, ChildInv, OneMihomo
<1> QED
  BY <1>1, SupervisorInvariant, PTL

\* The health check of a restart only ever sees the child of that restart.
THEOREM RestartIsReal == Spec => []HealthOfItsOwn
<1>1. Inv => HealthOfItsOwn
  <2> SUFFICES ASSUME Inv, job.at = "health", job.fresh PROVE HealthOfItsOwn
    BY DEF HealthOfItsOwn
  <2>1. job.token = nextGeneration /\ job.token > job.since /\ job.token # 0
    BY DEF Inv, JobInv
  <2>2. \A g \in running : g = nextGeneration
    BY DEF Inv, ChildInv, TypeOK, Generations
  <2> QED
    BY <2>1, <2>2 DEF HealthOfItsOwn
<1> QED
  BY <1>1, SupervisorInvariant, PTL

\* The flag restarting is set exactly while the loop runs, and no child
\* outlives the panel unsignalled.
THEOREM RecoveryIsOwned == Spec => [](RestartingIsOwned /\ StoppedForGood)
<1>1. Inv => RestartingIsOwned /\ StoppedForGood
  BY DEF Inv, LoopInv
<1> QED
  BY <1>1, SupervisorInvariant, PTL

\* An abort never signals a child of another operation.
THEOREM AbortIsExact == Spec => AbortsItsOwn
<1>1. ASSUME Inv, [Next]_vars
      PROVE  [job.at = "abortSignal" =>
                \A g \in signalled' \ signalled : g > job.since]_vars
  <2> SUFFICES ASSUME Next, job.at = "abortSignal",
                      NEW g \in signalled' \ signalled
               PROVE  g > job.since
    BY <1>1 DEF vars, child
  <2>1. job.target = job.token /\ job.token # 0 /\ job.token > job.since
          /\ job.token = nextGeneration
    BY <1>1 DEF Inv, JobInv
  <2>2. CASE AbortSignal
    BY <2>1, <2>2 DEF AbortSignal
  <2>3. CASE ShutdownStop
    BY <1>1, <2>1, <2>3 DEF ShutdownStop, Inv, ChildInv
  <2>4. CASE ~(AbortSignal \/ ShutdownStop)
    BY <2>4
    DEF Next, Request, Operation, Stop, StopSignal, StopPoll, StopDeadline,
        Start, Launch, HealthPasses, HealthFails, Abort, AbortPoll, Loop,
        LoopCall, Recover, RecoverRefused, LoopSucceeded, LoopLimit,
        LoopLeaves, Exit, ForeignExit, Reap, Cancel, Ended, vars, child
  <2> QED
    BY <2>2, <2>3, <2>4
<1> QED
  BY <1>1, SupervisorInvariant, PTL DEF Spec, AbortsItsOwn

\* While the callback has succeeded, no section but the loop's own moves it:
\* every other one that could belongs to a callback or finds no loop.
LEMMA OnlyLoopMoves ==
  ASSUME Inv, Next, loop = "succeeded", loop' # loop
  PROVE  LoopSucceeded
<1> USE DEF Inv
<1>1. job.kind # "recovery" /\ restarting
  BY DEF LoopInv, RestartingIsOwned
<1>2. \A ok \in BOOLEAN : Return(ok) => loop' = loop
  BY <1>1 DEF Return
<1>3. \A place \in Places : Goto(place) => loop' = loop
  BY DEF Goto
<1>4. Fails => loop' = loop
  BY <1>2 DEF Fails
<1>5. Stopped => loop' = loop
  BY <1>2, <1>3 DEF Stopped, Places
<1>6. ~(Operation \/ StopDeadline)
  <2>1. ~(Stop \/ StopPoll)
    BY <1>5 DEF Stop, StopPoll
  <2>2. ~(StopSignal \/ StopDeadline)
    BY <1>3, <1>4 DEF StopSignal, StopDeadline, Places
  <2>3. ~(Start \/ Launch)
    BY <1>3, <1>4 DEF Start, Launch, Places
  <2>4. ~(HealthPasses \/ HealthFails)
    BY <1>2, <1>3, <1>4 DEF HealthPasses, HealthFails, Places
  <2>5. ~(Abort \/ AbortSignal \/ AbortPoll)
    BY <1>2, <1>3 DEF Abort, AbortSignal, AbortPoll, Places
  <2> QED
    BY <2>1, <2>2, <2>3, <2>4, <2>5 DEF Operation
<1>7. ~Reap
  BY <1>1 DEF Reap
<1>8. ~(Request \/ Exit \/ ForeignExit \/ Cancel \/ ShutdownStop \/ Ended)
  BY DEF Request, Exit, ForeignExit, Cancel, ShutdownStop, Ended, vars
<1>9. Loop
  BY <1>6, <1>7, <1>8 DEF Next
<1> QED
  BY <1>9 DEF Loop, LoopCall, Recover, RecoverRefused, LoopLimit, LoopLeaves

\* A callback that returns nil over a child that has exited leaves the
\* recovery its owner.
THEOREM SuccessKeepsExit == Spec => CallbackKeepsExit
<1>1. ASSUME Inv, [Next]_vars
      PROVE  [loop = "succeeded" /\ loop' # loop /\ ~Active /\ desired /\ Live
                => restarting']_vars
  <2> SUFFICES ASSUME Next, loop = "succeeded", loop' # loop, ~Active, desired, Live
               PROVE  restarting'
    BY <1>1 DEF vars
  <2>1. LoopSucceeded
    BY <1>1, OnlyLoopMoves
  <2>2. restarting' = restarting
    BY <2>1 DEF LoopSucceeded, NewExit
  <2> QED
    BY <1>1, <2>2 DEF Inv, LoopInv, RestartingIsOwned
<1> QED
  BY <1>1, SupervisorInvariant, PTL DEF Spec, CallbackKeepsExit
=============================================================================
