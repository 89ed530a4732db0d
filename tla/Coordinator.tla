---------------------------- MODULE Coordinator ----------------------------
(***************************************************************************)
(* internal/operation: the coordinator of all operations that can change   *)
(* the published configuration, the managed core or the Mihomo process.    *)
(* Every process (the panel, a command, a finalizer) has a channel with    *)
(* one token, on which its goroutines wait in order, and takes a lock on a *)
(* file the processes share, which is polled.  A release runs the other    *)
(* way: unlock, clear the active flag, put the token back.                 *)
(***************************************************************************)
EXTENDS Integers, FiniteSets

CONSTANTS
  Processes,   \* the processes of the host
  Tasks,       \* the goroutines that ask for the coordinator
  Home,        \* [Tasks -> Processes]: where a task runs
  LockFile,    \* FALSE: no lock path (a build without flock, an embedded use)
  Free         \* nobody has locked the file

ASSUME HomeAssumption == Home \in [Tasks -> Processes]
\* Without a lock file there is one process.
ASSUME LockAssumption ==
  LockFile \in BOOLEAN /\ (~LockFile => \A p, q \in Processes : p = q)
ASSUME FreeAssumption == Free \notin Tasks

VARIABLES
  token,   \* of a process: the token is in its channel
  active,  \* of a process: the flag that Active() reads
  lock,    \* the task whose file descriptor has the flock, or Free
  at,      \* of a task: where it is
  ahead,   \* of a waiting task: who waits for the same channel before it
  spent    \* of a task: it keeps the release function of a lease that ended

vars == <<token, active, lock, at, ahead, spent>>

\* idle; queued on the channel; polling the file (Acquire) or trying it once
\* (TryAcquire); locked, not yet active; holding the lease; unlocked and
\* inactive, the two steps of a release.
Places == {"idle", "queued", "polling", "trying", "locked", "holding",
           "unlocked", "inactive"}

\* Past the receive from the channel, and before the send.
Inside == Places \ {"idle", "queued"}

Of(p) == {t \in Tasks : Home[t] = p}

\* Who receives the next token of process p.
First(p) == {t \in Of(p) : at[t] = "queued" /\ ahead[t] = {}}

-----------------------------------------------------------------------------
\* Mutants: the token is sent and the first waiter runs as well; the send does
\* not look for a waiter.
GiveTokenTwice(t) ==
  LET p == Home[t] IN
  /\ token' = [token EXCEPT ![p] = TRUE]
  /\ \/ First(p) = {} /\ at' = [at EXCEPT ![t] = "idle"] /\ UNCHANGED ahead
     \/ \E w \in First(p) :
          /\ at' = [at EXCEPT ![t] = "idle", ![w] = "polling"]
          /\ ahead' = [u \in Tasks |-> ahead[u] \ {w}]
GiveTokenUnseen(t) ==
  /\ token' = [token EXCEPT ![Home[t]] = TRUE]
  /\ at' = [at EXCEPT ![t] = "idle"]
  /\ UNCHANGED ahead

\* Task t leaves the inside, and the send hands the token to the first waiter
\* of the process; without one it stays in the channel.
GiveToken(t) ==
  LET p == Home[t] IN
  \/ /\ First(p) = {}
     /\ token' = [token EXCEPT ![p] = TRUE]
     /\ at' = [at EXCEPT ![t] = "idle"]
     /\ UNCHANGED ahead
  \/ \E w \in First(p) :
       /\ at' = [at EXCEPT ![t] = "idle", ![w] = "polling"]
       /\ ahead' = [u \in Tasks |-> ahead[u] \ {w}]
       /\ UNCHANGED token

\* Mutant: the waiters of all processes are one queue.
AcquireBehindAll(t) ==
  LET p == Home[t] IN
  /\ at[t] = "idle"
  /\ \/ /\ token[p]
        /\ token' = [token EXCEPT ![p] = FALSE]
        /\ at' = [at EXCEPT ![t] = "polling"]
        /\ UNCHANGED ahead
     \/ /\ ~token[p]
        /\ at' = [at EXCEPT ![t] = "queued"]
        /\ ahead' = [ahead EXCEPT ![t] = {u \in Tasks : at[u] = "queued"}]
        /\ UNCHANGED token
  /\ UNCHANGED <<active, lock, spent>>

\* Acquire up to the receive from the channel.
Acquire(t) ==
  LET p == Home[t] IN
  /\ at[t] = "idle"
  /\ \/ /\ token[p]
        /\ token' = [token EXCEPT ![p] = FALSE]
        /\ at' = [at EXCEPT ![t] = "polling"]
        /\ UNCHANGED ahead
     \/ /\ ~token[p]
        /\ at' = [at EXCEPT ![t] = "queued"]
        /\ ahead' = [ahead EXCEPT ![t] = {u \in Of(p) : at[u] = "queued"}]
        /\ UNCHANGED token
  /\ UNCHANGED <<active, lock, spent>>

\* TryAcquire with the token in the channel; it is ErrBusy without one.
TryAcquire(t) ==
  /\ at[t] = "idle" /\ token[Home[t]]
  /\ token' = [token EXCEPT ![Home[t]] = FALSE]
  /\ at' = [at EXCEPT ![t] = "trying"]
  /\ UNCHANGED <<active, lock, ahead, spent>>

\* Mutant: a lock that somebody has is taken all the same.
TakeLockBusy(t) ==
  /\ at[t] \in {"polling", "trying"}
  /\ lock' = IF LockFile THEN t ELSE Free
  /\ at' = [at EXCEPT ![t] = "locked"]
  /\ UNCHANGED <<token, active, ahead, spent>>

\* tryPlatformFileLock succeeds.
TakeLock(t) ==
  /\ at[t] \in {"polling", "trying"} /\ lock = Free
  /\ lock' = IF LockFile THEN t ELSE Free
  /\ at' = [at EXCEPT ![t] = "locked"]
  /\ UNCHANGED <<token, active, ahead, spent>>

\* Mutant: an attempt that fails keeps the token.
FailLockKeepingToken(t) ==
  /\ at[t] \in {"polling", "trying"}
  /\ at' = [at EXCEPT ![t] = "idle"]
  /\ UNCHANGED <<token, ahead, active, lock, spent>>

\* The file cannot be locked: it is unsafe, or TryAcquire finds it busy.
FailLock(t) ==
  /\ at[t] \in {"polling", "trying"}
  /\ GiveToken(t)
  /\ UNCHANGED <<active, lock, spent>>

\* Mutant: a waiter that leaves is not taken out of the order.
CancelUnordered(t) ==
  /\ \/ /\ at[t] = "queued"
        /\ at' = [at EXCEPT ![t] = "idle"]
        /\ UNCHANGED <<token, ahead>>
     \/ at[t] = "polling" /\ GiveToken(t)
  /\ UNCHANGED <<active, lock, spent>>

\* The context of an Acquire is done.
Cancel(t) ==
  /\ \/ /\ at[t] = "queued"
        /\ at' = [at EXCEPT ![t] = "idle"]
        /\ ahead' = [u \in Tasks |-> ahead[u] \ {t}]
        /\ UNCHANGED token
     \/ at[t] = "polling" /\ GiveToken(t)
  /\ UNCHANGED <<active, lock, spent>>

Activate(t) ==
  /\ at[t] = "locked"
  /\ at' = [at EXCEPT ![t] = "holding"]
  /\ active' = [active EXCEPT ![Home[t]] = TRUE]
  /\ UNCHANGED <<token, lock, ahead, spent>>

\* The three steps of a release.
Unlock(t) ==
  /\ at[t] = "holding"
  /\ at' = [at EXCEPT ![t] = "unlocked"]
  /\ lock' = Free
  /\ UNCHANGED <<token, active, ahead, spent>>

Deactivate(t) ==
  /\ at[t] = "unlocked"
  /\ at' = [at EXCEPT ![t] = "inactive"]
  /\ active' = [active EXCEPT ![Home[t]] = FALSE]
  /\ UNCHANGED <<token, lock, ahead, spent>>

ReturnToken(t) ==
  /\ at[t] = "inactive"
  /\ GiveToken(t)
  /\ spent' = [spent EXCEPT ![t] = TRUE]
  /\ UNCHANGED <<active, lock>>

\* Mutant: without the compare-and-swap a second call clears the flag.
ReleaseAgainUnguarded(t) ==
  /\ spent[t]
  /\ spent' = [spent EXCEPT ![t] = FALSE]
  /\ active' = [active EXCEPT ![Home[t]] = FALSE]
  /\ UNCHANGED <<token, lock, at, ahead>>

\* A release function called a second time does nothing.
ReleaseAgain(t) ==
  /\ spent[t]
  /\ spent' = [spent EXCEPT ![t] = FALSE]
  /\ UNCHANGED <<token, active, lock, at, ahead>>

\* A process dies and comes back: the kernel drops its file lock.  The panel
\* restarts itself that way, with a lease it took and never releases.
Die(p) ==
  /\ token' = [token EXCEPT ![p] = TRUE]
  /\ active' = [active EXCEPT ![p] = FALSE]
  /\ lock' = IF lock \in Of(p) THEN Free ELSE lock
  /\ at' = [t \in Tasks |-> IF Home[t] = p THEN "idle" ELSE at[t]]
  /\ ahead' = [t \in Tasks |-> IF Home[t] = p THEN {} ELSE ahead[t]]
  /\ spent' = [t \in Tasks |-> IF Home[t] = p THEN FALSE ELSE spent[t]]

-----------------------------------------------------------------------------
Init ==
  /\ token = [p \in Processes |-> TRUE]
  /\ active = [p \in Processes |-> FALSE]
  /\ lock = Free
  /\ at = [t \in Tasks |-> "idle"]
  /\ ahead = [t \in Tasks |-> {}]
  /\ spent = [t \in Tasks |-> FALSE]

Step(t) ==
  \/ Acquire(t) \/ TryAcquire(t) \/ TakeLock(t) \/ FailLock(t) \/ Cancel(t)
  \/ Activate(t) \/ Unlock(t) \/ Deactivate(t) \/ ReturnToken(t) \/ ReleaseAgain(t)

Next == (\E t \in Tasks : Step(t)) \/ (\E p \in Processes : Die(p))

Spec == Init /\ [][Next]_vars

\* A goroutine past the channel runs on: the file is polled every 50 ms and
\* every operation that holds the lease is bounded by timeouts.
FairSpec ==
  /\ Spec
  /\ \A t \in Tasks :
       /\ WF_vars(TakeLock(t))
       /\ WF_vars(Activate(t))
       /\ WF_vars(Unlock(t))
       /\ WF_vars(Deactivate(t))
       /\ WF_vars(ReturnToken(t))

-----------------------------------------------------------------------------
(* Properties. *)

\* Every variable keeps its type; waiters wait behind their own process only.
TypeOK ==
  /\ token \in [Processes -> BOOLEAN]
  /\ active \in [Processes -> BOOLEAN]
  /\ lock \in Tasks \cup {Free}
  /\ at \in [Tasks -> Places]
  /\ ahead \in [Tasks -> SUBSET Tasks] /\ \A t \in Tasks : ahead[t] \subseteq Of(Home[t])
  /\ spent \in [Tasks -> BOOLEAN]

Holders == {t \in Tasks : at[t] = "holding"}

L == INSTANCE Lease WITH holders <- Holders

\* The coordinator implements the lease, whatever the processes do and
\* whichever of them dies: at most one task holds it.
ImplementsLease == L!Spec

\* A process has one token: it is in the channel or with exactly one task, on
\* every path through a failure, a cancellation or a second release.
TokenConserved ==
  \A p \in Processes :
    Cardinality({t \in Of(p) : at[t] \in Inside}) = IF token[p] THEN 0 ELSE 1

\* No waiter misses the token: while it is in the channel nobody is queued.
NoLostWakeup ==
  \A t \in Tasks : at[t] = "queued" => ~token[Home[t]]

\* Active() is true for as long as a task of the process holds the lease: the
\* flag is cleared by the release of that lease only.
ActiveWhileHeld == \A t \in Tasks : at[t] = "holding" => active[Home[t]]

\* A waiter is served or gives up: the others ahead of it fail, are cancelled
\* or release, and always pass the token on.  It may have to wait for another
\* process to leave the file, as often as that takes it again.
Served ==
  \A t \in Tasks :
    at[t] = "queued" ~> at[t] # "queued" \/ lock \notin Of(Home[t]) \cup {Free}
=============================================================================
