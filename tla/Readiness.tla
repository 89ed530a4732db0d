----------------------------- MODULE Readiness -----------------------------
(***************************************************************************)
(* The three lock files between m-ui and a Mihomo that systemd or OpenRC   *)
(* runs: the startup lease and the ready lock (internal/mihomo/            *)
(* startup_readiness.go) and the lifecycle marker (lifecycle_marker.go),   *)
(* as panels, one m-ui command and the post-start hook of the Mihomo       *)
(* service use them (internal/app/commands.go).  A flock belongs to a      *)
(* process and ends with it.  One action per lock, token or answer.        *)
(***************************************************************************)
EXTENDS Naturals

CONSTANTS
  Panels,       \* processes that run m-ui server, old and new
  Client,       \* the process of an m-ui command
  Hook,         \* the process m-ui runtime finalize-mihomo-start of the service
  Nobody,
  MaxTokens     \* bound: starts of a panel

Procs == Panels \cup {Client, Hook}
Owners == Panels \cup {Client}     \* who may start or restart Mihomo

ASSUME ReadinessAssumption ==
  /\ Client \notin Panels /\ Hook \notin Panels /\ Hook # Client
  /\ Nobody \notin Procs /\ MaxTokens \in Nat \ {0}

VARIABLES
  lease, ready, marker,    \* the locks: who holds each, exclusively or shared
  leaseToken, readyToken,  \* the contents of the first two; 0 is none
  coordinator,             \* the holder of the runtime coordinator
  at,                      \* where each process is
  token,                   \* a panel's own token
  seen,                    \* the lease token that an observer read
  hookOf, verdict,         \* the owner whose command waits for the hook, and
                           \* what the last hook answered
  published                \* observed: the tokens that were made ready

locks == <<lease, ready, marker>>
tokens == <<leaseToken, readyToken>>
hooks == <<hookOf, verdict>>
readinessVars == <<locks, tokens, coordinator, at, token, seen, hooks, published>>

Tokens == 0..MaxTokens
Lock == [ex : Procs \cup {Nobody}, sh : SUBSET Procs]
Starting == {"leased", "checked", "named", "recovering", "publishing", "writing"}
Acting == {"running", "marked", "waiting", "leaving"}
Finalizing == {"acquired", "reprobed", "finalizing", "leaving"}
Stages == {"none", "serving", "poll", "read", "look", "stale", "compare",
           "guarded", "probe", "probed", "try"}
            \cup Starting \cup Acting \cup Finalizing

Unlocked == [ex |-> Nobody, sh |-> {}]
Exclusive(l) == l.ex = Nobody /\ l.sh = {}     \* flock LOCK_EX would succeed
Shared(l) == l.ex = Nobody                     \* LOCK_SH would
Taken(l, p) == [l EXCEPT !.ex = p]
Joined(l, p) == [l EXCEPT !.sh = @ \cup {p}]
Left(l, p) == [ex |-> IF l.ex = p THEN Nobody ELSE l.ex, sh |-> l.sh \ {p}]

Goes(p, from, to) == at[p] = from /\ at' = [at EXCEPT ![p] = to]
Rest(p) == IF p \in Panels THEN "serving" ELSE "none"

-----------------------------------------------------------------------------
ReadinessInit ==
  /\ lease = Unlocked /\ ready = Unlocked /\ marker = Unlocked
  /\ leaseToken = 0 /\ readyToken = 0 /\ coordinator = Nobody
  /\ at = [p \in Procs |-> "none"] /\ token = [p \in Panels |-> 0]
  /\ seen = [p \in Procs |-> 0] /\ hookOf = Nobody /\ verdict = "none"
  /\ published = {}

\* BeginRuntimeStartup.  A lock that is busy ends the new process; the old
\* token of the lease stays until the ready lock was found free.
TakeLease(p) ==
  /\ Goes(p, "none", "leased") /\ Exclusive(lease)
  /\ lease' = Taken(lease, p)
  /\ UNCHANGED <<ready, marker, tokens, coordinator, token, seen, hooks, published>>

\* Mutant: the lease was named before the ready lock was found busy.
CheckReadyNamed(p) ==
  /\ at[p] = "leased"
  /\ IF Exclusive(ready)
     THEN /\ at' = [at EXCEPT ![p] = "checked"]
          /\ ready' = Taken(ready, p) /\ UNCHANGED <<lease, leaseToken>>
     ELSE /\ at' = [at EXCEPT ![p] = "none"]
          /\ leaseToken < MaxTokens /\ leaseToken' = leaseToken + 1
          /\ lease' = Left(lease, p) /\ UNCHANGED ready
  /\ UNCHANGED <<marker, readyToken, coordinator, token, seen, hooks, published>>

CheckReady(p) ==
  /\ at[p] = "leased"
  /\ IF Exclusive(ready)
     THEN /\ at' = [at EXCEPT ![p] = "checked"]
          /\ ready' = Taken(ready, p) /\ UNCHANGED lease
     ELSE /\ at' = [at EXCEPT ![p] = "none"]
          /\ lease' = Left(lease, p) /\ UNCHANGED ready
  /\ UNCHANGED <<marker, tokens, coordinator, token, seen, hooks, published>>

NameLease(p) ==
  /\ Goes(p, "checked", "named") /\ leaseToken < MaxTokens
  /\ leaseToken' = leaseToken + 1
  /\ token' = [token EXCEPT ![p] = leaseToken + 1]
  /\ UNCHANGED <<locks, readyToken, coordinator, seen, hooks, published>>

ResetReady(p) ==
  /\ Goes(p, "named", "recovering")
  /\ readyToken' = 0 /\ ready' = Left(ready, p)
  /\ UNCHANGED <<lease, marker, leaseToken, coordinator, token, seen, hooks, published>>

\* What the panel does before it is ready, under the coordinator.
Recover(p) ==
  /\ at[p] = "recovering"
  /\ \/ coordinator = Nobody /\ coordinator' = p
     \/ coordinator = p /\ coordinator' = Nobody
  /\ UNCHANGED <<locks, tokens, at, token, seen, hooks, published>>

\* PublishReady: the listener is bound.
LockReady(p) ==
  /\ Goes(p, "recovering", "publishing") /\ coordinator # p /\ Exclusive(ready)
  /\ ready' = Taken(ready, p)
  /\ UNCHANGED <<lease, marker, tokens, coordinator, token, seen, hooks, published>>

WriteReady(p) ==
  /\ Goes(p, "publishing", "writing")
  /\ readyToken' = token[p]
  /\ UNCHANGED <<locks, leaseToken, coordinator, token, seen, hooks, published>>

PublishReady(p) ==
  /\ Goes(p, "writing", "serving")
  /\ lease' = Left(lease, p) /\ published' = published \cup {token[p]}
  /\ UNCHANGED <<ready, marker, tokens, coordinator, token, seen, hooks>>

-----------------------------------------------------------------------------
\* The hook answers the service, which may be waited for.
Returns(p, answer) ==
  UNCHANGED hookOf /\ verdict' = (IF p = Hook THEN answer ELSE verdict)

\* AcquireRuntimeReadyGuard: an action asked of the panel, m-ui runtime start or
\* restart, and the hook behind its first probe.
AskGuard(p) ==
  /\ p \in Owners /\ Goes(p, Rest(p), "poll")
  /\ UNCHANGED <<locks, tokens, coordinator, token, seen, hooks, published>>

ShareLease(p) ==
  /\ Goes(p, "poll", "read") /\ Shared(lease)
  /\ lease' = Joined(lease, p)
  /\ UNCHANGED <<ready, marker, tokens, coordinator, token, seen, hooks, published>>

\* Mutant: the lease is a sample, not a guard.
ReadLeaseOnce(p) ==
  /\ Goes(p, "read", IF leaseToken = 0 THEN "poll" ELSE "look")
  /\ lease' = Left(lease, p) /\ seen' = [seen EXCEPT ![p] = leaseToken]
  /\ UNCHANGED <<ready, marker, tokens, coordinator, token, hooks, published>>

ReadLease(p) ==
  /\ at[p] = "read"
  /\ IF leaseToken = 0
     THEN /\ lease' = Left(lease, p) /\ at' = [at EXCEPT ![p] = "poll"]
          /\ UNCHANGED seen
     ELSE /\ at' = [at EXCEPT ![p] = "look"] /\ UNCHANGED lease
          /\ seen' = [seen EXCEPT ![p] = leaseToken]
  /\ UNCHANGED <<ready, marker, tokens, coordinator, token, hooks, published>>

LookReady(p) ==
  /\ at[p] = "look"
  /\ IF Shared(ready)
     THEN ready' = Joined(ready, p) /\ at' = [at EXCEPT ![p] = "stale"]
     ELSE at' = [at EXCEPT ![p] = "compare"] /\ UNCHANGED ready
  /\ UNCHANGED <<lease, marker, tokens, coordinator, token, seen, hooks, published>>

NotReady(p) ==
  /\ Goes(p, "stale", "poll")
  /\ ready' = Left(ready, p) /\ lease' = Left(lease, p)
  /\ UNCHANGED <<marker, tokens, coordinator, token, seen, hooks, published>>

CompareTokens(p) ==
  /\ at[p] = "compare"
  /\ IF readyToken = seen[p]
     THEN at' = [at EXCEPT ![p] = "guarded"] /\ UNCHANGED lease
     ELSE at' = [at EXCEPT ![p] = "poll"] /\ lease' = Left(lease, p)
  /\ UNCHANGED <<ready, marker, tokens, coordinator, token, seen, hooks, published>>

GiveUp(p) ==
  /\ Goes(p, "poll", Rest(p))
  /\ Returns(p, "refused")
  /\ UNCHANGED <<locks, tokens, coordinator, token, seen, published>>

-----------------------------------------------------------------------------
\* Under the guard the coordinator is taken, or found busy.
WithCoordinator(p) ==
  /\ Goes(p, "guarded", IF p = Hook THEN "acquired" ELSE "running")
  /\ coordinator = Nobody /\ coordinator' = p
  /\ UNCHANGED <<locks, tokens, token, seen, hooks, published>>

Busy(p) ==
  /\ Goes(p, "guarded", Rest(p)) /\ coordinator # Nobody
  /\ lease' = Left(lease, p)
  /\ Returns(p, "refused")
  /\ UNCHANGED <<ready, marker, tokens, coordinator, token, seen, published>>

\* A publication, a core update or a rollback restarts Mihomo under the
\* coordinator alone.
Operate(p) ==
  /\ p \in Owners /\ Goes(p, Rest(p), "running")
  /\ coordinator = Nobody /\ coordinator' = p
  /\ UNCHANGED <<locks, tokens, token, seen, hooks, published>>

\* runWithRuntimeLifecycleMarker: a marker that is locked, if only by a probe, is
\* an error and nothing is started.
Mark(p) ==
  /\ Goes(p, "running", "marked") /\ Exclusive(marker)
  /\ marker' = Taken(marker, p)
  /\ UNCHANGED <<lease, ready, tokens, coordinator, token, seen, hooks, published>>

\* The service starts Mihomo and with it a hook; one of an earlier start is
\* killed.
StartService(p) ==
  /\ at[p] = "marked"
  /\ at' = [at EXCEPT ![p] = "waiting", ![Hook] = "probe"]
  /\ lease' = Left(lease, Hook) /\ ready' = Left(ready, Hook)
  /\ marker' = Left(marker, Hook)
  /\ coordinator' = IF coordinator = Hook THEN Nobody ELSE coordinator
  /\ hookOf' = p /\ verdict' = "none"
  /\ UNCHANGED <<tokens, token, seen, published>>

\* The command answers after its hook, or it runs out of time.
ServiceAnswers(p) ==
  /\ Goes(p, "waiting", "running")
  /\ marker' = Left(marker, p) /\ hookOf' = Nobody
  /\ UNCHANGED <<lease, ready, tokens, coordinator, token, seen, verdict, published>>

\* The coordinator is released before the guard.
Release(p) ==
  /\ at[p] \in {"running", "finalizing"}
  /\ at' = [at EXCEPT ![p] = "leaving"]
  /\ coordinator' = Nobody
  /\ UNCHANGED <<locks, tokens, token, seen, hooks, published>>

CloseGuard(p) ==
  /\ Goes(p, "leaving", Rest(p))
  /\ lease' = Left(lease, p)
  /\ Returns(p, "finalized")
  /\ UNCHANGED <<ready, marker, tokens, coordinator, token, seen, published>>

-----------------------------------------------------------------------------
\* The init system or an administrator starts Mihomo.
ServiceStarts ==
  /\ Goes(Hook, "none", "probe")
  /\ hookOf = Nobody /\ verdict' = "none"
  /\ UNCHANGED <<locks, tokens, coordinator, token, seen, hookOf, published>>

\* Mutant: readiness comes before the marker.
ProbeMarkerLater ==
  /\ Goes(Hook, "probe", "poll")
  /\ UNCHANGED <<locks, tokens, coordinator, token, seen, hooks, published>>

\* preflightNativeFinalizerCore.
ProbeMarker ==
  /\ at[Hook] = "probe"
  /\ IF Shared(marker)
     THEN marker' = Joined(marker, Hook) /\ at' = [at EXCEPT ![Hook] = "probed"]
     ELSE at' = [at EXCEPT ![Hook] = "try"] /\ UNCHANGED marker
  /\ UNCHANGED <<lease, ready, tokens, coordinator, token, seen, hooks, published>>

CloseProbe ==
  /\ Goes(Hook, "probed", "poll")
  /\ marker' = Left(marker, Hook)
  /\ UNCHANGED <<lease, ready, tokens, coordinator, token, seen, hooks, published>>

\* A live marker: who owns it must own the coordinator.
TryLive ==
  /\ Goes(Hook, "try", "none")
  /\ Returns(Hook, IF coordinator = Nobody THEN "refused" ELSE "handled")
  /\ UNCHANGED <<locks, tokens, coordinator, token, seen, published>>

Reprobe ==
  /\ at[Hook] = "acquired"
  /\ IF Shared(marker)
     THEN /\ marker' = Joined(marker, Hook) /\ at' = [at EXCEPT ![Hook] = "reprobed"]
          /\ UNCHANGED <<lease, coordinator, verdict>>
     ELSE /\ lease' = Left(lease, Hook) /\ coordinator' = Nobody
          /\ at' = [at EXCEPT ![Hook] = "none"] /\ verdict' = "refused"
          /\ UNCHANGED marker
  /\ UNCHANGED <<ready, tokens, token, seen, hookOf, published>>

Finalize ==
  /\ Goes(Hook, "reprobed", "finalizing")
  /\ marker' = Left(marker, Hook)
  /\ UNCHANGED <<lease, ready, tokens, coordinator, token, seen, hooks, published>>

\* The end of a process, at any moment.  A command fails with its hook.
Dies(p) ==
  /\ at[p] # "none"
  /\ at' = [at EXCEPT ![p] = "none"]
  /\ lease' = Left(lease, p) /\ ready' = Left(ready, p) /\ marker' = Left(marker, p)
  /\ coordinator' = IF coordinator = p THEN Nobody ELSE coordinator
  /\ hookOf' = IF p \in {hookOf, Hook} THEN Nobody ELSE hookOf
  /\ UNCHANGED <<tokens, token, seen, verdict, published>>

ReadinessNext ==
  \/ \E p \in Panels : \/ TakeLease(p) \/ CheckReady(p) \/ NameLease(p) \/ ResetReady(p)
                       \/ Recover(p) \/ LockReady(p) \/ WriteReady(p) \/ PublishReady(p)
  \/ \E p \in Procs : \/ AskGuard(p) \/ ShareLease(p) \/ ReadLease(p) \/ LookReady(p)
                      \/ NotReady(p) \/ CompareTokens(p) \/ GiveUp(p)
                      \/ WithCoordinator(p) \/ Busy(p) \/ Operate(p) \/ Mark(p)
                      \/ StartService(p) \/ ServiceAnswers(p)
                      \/ Release(p) \/ CloseGuard(p) \/ Dies(p)
  \/ ServiceStarts \/ ProbeMarker \/ CloseProbe \/ TryLive \/ Reprobe \/ Finalize

ReadinessSpec == ReadinessInit /\ [][ReadinessNext]_readinessVars

-----------------------------------------------------------------------------
ReadinessTypeOK ==
  /\ lease \in Lock /\ ready \in Lock /\ marker \in Lock
  /\ leaseToken \in Tokens /\ readyToken \in Tokens
  /\ coordinator \in Procs \cup {Nobody}
  /\ at \in [Procs -> Stages] /\ token \in [Panels -> Tokens]
  /\ seen \in [Procs -> Tokens]
  /\ hookOf \in Owners \cup {Nobody}
  /\ verdict \in {"none", "handled", "refused", "finalized"}
  /\ published \subseteq Tokens

Guarding(p) ==
  \/ at[p] \in {"guarded", "acquired", "reprobed", "finalizing"}
  \/ p \in lease.sh /\ at[p] \in Acting

\* "Holding this guard prevents a new m-ui process from resetting the readiness
\* token and acquiring the coordinator after the caller has observed readiness":
\* the newest panel that ever named the lease is one that became ready, and none
\* is on its way to become another.
GuardPinsGeneration ==
  \A p \in Procs : Guarding(p) =>
    leaseToken \in published /\ \A q \in Panels : at[q] \notin Starting

\* "A failed second startup cannot invalidate a currently published ready owner":
\* while a panel has the ready lock and is past its start, both files name it, so
\* that those who wait for it find it.
ReadyStaysPublished ==
  \A p \in Panels :
    ready.ex = p /\ at[p] \notin Starting
      => leaseToken = token[p] /\ readyToken = token[p]

\* The hook of a service command whose owner still waits for it answers at once
\* that the owner does the rest; it neither waits for a panel to be ready nor takes
\* the coordinator.  A hook that finalizes meets no other owner's command.
HookDecides ==
  /\ hookOf # Nobody =>
       at[Hook] \in {"probe", "try"} \/ (at[Hook] = "none" /\ verdict = "handled")
  /\ at[Hook] = "finalizing" => coordinator = Hook /\ marker.ex = Nobody
=============================================================================
