------------------------ MODULE Coordinator_proofs -------------------------
(***************************************************************************)
(* The coordinator implements the lease for any number of processes and    *)
(* tasks.  The inductive invariant joins the two locks: a process has one  *)
(* task past its channel, and the file is locked by the task that says so. *)
(***************************************************************************)
EXTENDS Coordinator, TLAPS, WellFoundedInduction, FiniteSetTheorems

TokenInv ==
  /\ \A t, u \in Tasks : at[t] \in Inside /\ at[u] \in Inside /\ Home[t] = Home[u] => t = u
  /\ \A t \in Tasks : at[t] \in Inside => ~token[Home[t]]

LockInv == LockFile => \A t \in Tasks : at[t] \in {"locked", "holding"} => lock = t

CInv == TypeOK /\ TokenInv /\ LockInv

\* The variables that a task touches when it passes the token on.
ChannelOK ==
  /\ token \in [Processes -> BOOLEAN]
  /\ at \in [Tasks -> Places]
  /\ ahead \in [Tasks -> SUBSET Tasks] /\ \A t \in Tasks : ahead[t] \subseteq Of(Home[t])

-----------------------------------------------------------------------------
\* A task that passes the token on keeps the types, its process still has one
\* task inside at most, and nobody comes closer to the file lock.
LEMMA GiveTokenInv ==
  ASSUME TypeOK, TokenInv, NEW t \in Tasks, at[t] \in Inside, GiveToken(t)
  PROVE  /\ ChannelOK' /\ TokenInv'
         /\ \A u \in Tasks : at'[u] \in {"locked", "holding"} => at[u] = at'[u]
         /\ \A u \in Tasks \ {t} : at[u] \in {"locked", "holding"} => at[u] = at'[u]
         /\ at'[t] = "idle"
<1> USE HomeAssumption DEF TypeOK, Places, ChannelOK
<1>1. CASE /\ First(Home[t]) = {}
           /\ token' = [token EXCEPT ![Home[t]] = TRUE]
           /\ at' = [at EXCEPT ![t] = "idle"]
           /\ UNCHANGED ahead
  <2>1. \A u \in Tasks : at'[u] \in Inside => u # t /\ at[u] = at'[u]
    BY <1>1 DEF Inside
  <2>2. \A u \in Tasks : at'[u] \in Inside => Home[u] # Home[t]
    BY <2>1 DEF TokenInv
  <2>3. TokenInv'
    BY <1>1, <2>1, <2>2 DEF TokenInv
  <2> QED BY <1>1, <2>1, <2>3 DEF Inside, Of
<1>2. ASSUME NEW w \in First(Home[t]),
             at' = [at EXCEPT ![t] = "idle", ![w] = "polling"],
             ahead' = [u \in Tasks |-> ahead[u] \ {w}],
             UNCHANGED token
      PROVE  /\ ChannelOK' /\ TokenInv'
             /\ \A u \in Tasks : at'[u] \in {"locked", "holding"} => at[u] = at'[u]
             /\ \A u \in Tasks \ {t} : at[u] \in {"locked", "holding"} => at[u] = at'[u]
             /\ at'[t] = "idle"
  <2>1. w \in Tasks /\ Home[w] = Home[t] /\ at[w] = "queued" /\ w # t
    BY DEF First, Of, Inside
  <2>2. \A u \in Tasks : at'[u] \in Inside => u # t /\ (u = w \/ at[u] = at'[u])
    BY <1>2, <2>1 DEF Inside
  <2>3. \A u \in Tasks : at'[u] \in Inside => u = w \/ Home[u] # Home[t]
    BY <2>2 DEF TokenInv
  <2>4. ~token[Home[t]]
    BY DEF TokenInv
  <2>5. TokenInv'
    BY <1>2, <2>1, <2>2, <2>3, <2>4 DEF TokenInv
  <2>6. ChannelOK'
    BY <1>2, <2>1 DEF Of
  <2> QED BY <1>2, <2>1, <2>5, <2>6
<1> QED BY <1>1, <1>2 DEF GiveToken

\* Two tasks that have locked the file, or hold the lease, are one: of two
\* processes because of the file, of one process because of its token.
LEMMA OneLocked ==
  ASSUME CInv, NEW t \in Tasks, NEW u \in Tasks,
         at[t] \in {"locked", "holding"}, at[u] \in {"locked", "holding"}
  PROVE  t = u
<1>1. CASE LockFile
  BY <1>1 DEF CInv, LockInv
<1>2. CASE ~LockFile
  <2>1. Home[t] = Home[u]
    BY <1>2, LockAssumption, HomeAssumption
  <2> QED BY <2>1 DEF CInv, TokenInv, Inside, Places
<1> QED BY <1>1, <1>2, LockAssumption

-----------------------------------------------------------------------------
LEMMA InitCInv ==
  ASSUME Init
  PROVE  CInv
BY FreeAssumption, HomeAssumption
   DEF Init, CInv, TypeOK, TokenInv, LockInv, Places, Inside, Of

\* The way into the process: the token is taken, or waited for.
LEMMA EnterInv ==
  ASSUME CInv, NEW t \in Tasks, Acquire(t) \/ TryAcquire(t)
  PROVE  CInv' /\ Holders' = Holders
<1> USE HomeAssumption DEF CInv, TypeOK, Places
<1>1. /\ at[t] = "idle" /\ UNCHANGED <<active, lock, spent>>
      /\ \A u \in Tasks \ {t} : at'[u] = at[u]
      /\ at'[t] \in {"queued", "polling", "trying"}
  <2>1. CASE Acquire(t)
    <3>1. at[t] = "idle" /\ UNCHANGED <<active, lock, spent>>
      BY <2>1 DEF Acquire
    <3>2. at' = [at EXCEPT ![t] = "polling"] \/ at' = [at EXCEPT ![t] = "queued"]
      BY <2>1 DEF Acquire
    <3> QED BY <3>1, <3>2
  <2>2. CASE TryAcquire(t)
    BY <2>2 DEF TryAcquire
  <2> QED BY <2>1, <2>2
<1>2. TypeOK'
  <2>1. token' \in [Processes -> BOOLEAN] /\ at' \in [Tasks -> Places]
    <3>1. CASE Acquire(t)
      <4>1. token' = token \/ token' = [token EXCEPT ![Home[t]] = FALSE]
        BY <3>1 DEF Acquire
      <4>2. at' = [at EXCEPT ![t] = "polling"] \/ at' = [at EXCEPT ![t] = "queued"]
        BY <3>1 DEF Acquire
      <4> QED BY <4>1, <4>2
    <3>2. CASE TryAcquire(t)
      BY <3>2 DEF TryAcquire
    <3> QED BY <3>1, <3>2
  <2>2. \/ ahead' = ahead
        \/ ahead' = [ahead EXCEPT ![t] = {u \in Of(Home[t]) : at[u] = "queued"}]
    BY DEF Acquire, TryAcquire
  <2>3. /\ ahead' \in [Tasks -> SUBSET Tasks]
        /\ \A u \in Tasks : ahead'[u] \subseteq Of(Home[u])
    BY <2>2 DEF Of
  <2> QED BY <1>1, <2>1, <2>3
<1>3. TokenInv'
  <2>1. CASE token[Home[t]] /\ token' = [token EXCEPT ![Home[t]] = FALSE]
    BY <1>1, <2>1 DEF TokenInv, Inside
  <2>2. CASE at'[t] = "queued" /\ token' = token
    BY <1>1, <2>2 DEF TokenInv, Inside
  <2> QED BY <1>1, <2>1, <2>2 DEF Acquire, TryAcquire
<1>4. LockInv'
  BY <1>1 DEF LockInv
<1>5. Holders' = Holders
  BY <1>1 DEF Holders
<1> QED BY <1>2, <1>3, <1>4, <1>5

\* The ways out: a failed lock, a cancellation, the end of a release.
LEMMA LeaveInv ==
  ASSUME CInv, NEW t \in Tasks, FailLock(t) \/ Cancel(t) \/ ReturnToken(t)
  PROVE  CInv' /\ Holders' = Holders
<1> USE HomeAssumption DEF CInv, TypeOK
<1>1. CASE at[t] \in {"polling", "trying", "inactive"} /\ GiveToken(t)
  <2>1. at[t] \in Inside
    BY <1>1 DEF Inside, Places
  <2>2. UNCHANGED <<active, lock>> /\ spent' \in [Tasks -> BOOLEAN]
    BY DEF FailLock, Cancel, ReturnToken
  <2>3. TypeOK' /\ TokenInv'
    BY <1>1, <2>1, <2>2, GiveTokenInv DEF ChannelOK
  <2>4. \A u \in Tasks : at'[u] \in {"locked", "holding"} => at[u] = at'[u]
    BY <1>1, <2>1, GiveTokenInv
  <2>5. \A u \in Tasks : at[u] = "holding" <=> at'[u] = "holding"
    BY <1>1, <2>1, <2>4, GiveTokenInv
  <2>6. LockInv'
    BY <2>2, <2>4 DEF LockInv
  <2> QED BY <2>3, <2>5, <2>6 DEF Holders
<1>2. CASE /\ at[t] = "queued" /\ at' = [at EXCEPT ![t] = "idle"]
           /\ ahead' = [u \in Tasks |-> ahead[u] \ {t}]
           /\ UNCHANGED <<token, active, lock, spent>>
  <2>1. TypeOK'
    BY <1>2 DEF Places, Of
  <2>2. TokenInv' /\ LockInv'
    BY <1>2 DEF TokenInv, LockInv, Inside, Places
  <2>3. Holders' = Holders
    BY <1>2 DEF Holders, Places
  <2> QED BY <2>1, <2>2, <2>3
<1> QED BY <1>1, <1>2 DEF FailLock, Cancel, ReturnToken

\* The steps of a task that is inside: from one place there to the next.
LEMMA InsideInv ==
  ASSUME CInv, NEW t \in Tasks,
         \/ TakeLock(t) \/ Activate(t) \/ Unlock(t) \/ Deactivate(t) \/ ReleaseAgain(t)
  PROVE  CInv'
<1> USE HomeAssumption DEF CInv, TypeOK
<1>1. TypeOK'
  BY DEF TakeLock, Activate, Unlock, Deactivate, ReleaseAgain, Places
<1>2. \A u \in Tasks : at'[u] \in Inside => at[u] \in Inside
  BY DEF TakeLock, Activate, Unlock, Deactivate, ReleaseAgain, Inside, Places
<1>3. TokenInv'
  <2>1. token' = token
    BY DEF TakeLock, Activate, Unlock, Deactivate, ReleaseAgain
  <2> QED BY <1>2, <2>1 DEF TokenInv
<1>4. LockInv'
  <2>1. CASE TakeLock(t)
    BY <2>1, FreeAssumption DEF TakeLock, LockInv, Places
  <2>2. CASE Unlock(t)
    <3>1. \A u \in Tasks : at'[u] \in {"locked", "holding"} => u # t /\ at[u] = at'[u]
      BY <2>2 DEF Unlock, Places
    <3>2. \A u \in Tasks : at'[u] \notin {"locked", "holding"}
      BY <2>2, <3>1, OneLocked DEF Unlock
    <3> QED BY <3>2 DEF LockInv
  <2>3. CASE Activate(t) \/ Deactivate(t) \/ ReleaseAgain(t)
    BY <2>3 DEF Activate, Deactivate, ReleaseAgain, LockInv, Places
  <2> QED BY <2>1, <2>2, <2>3
<1> QED BY <1>1, <1>3, <1>4

LEMMA DieInv ==
  ASSUME CInv, NEW p \in Processes, Die(p)
  PROVE  CInv' /\ (Holders' = Holders \/ Holders' = {})
<1> USE HomeAssumption DEF CInv, TypeOK
<1>1. TypeOK'
  BY DEF Die, Places, Of
<1>2. \A u \in Tasks : at'[u] # "idle" => Home[u] # p /\ at'[u] = at[u]
  BY DEF Die
<1>3. TokenInv'
  BY <1>2 DEF Die, TokenInv, Inside, Places
<1>4. LockInv'
  BY <1>2 DEF Die, LockInv, Of
<1>5. Holders' = Holders \/ Holders' = {}
  <2>1. Holders' \subseteq Holders
    BY <1>2 DEF Holders
  <2>2. \A t, u \in Holders : t = u
    BY OneLocked DEF Holders
  <2> QED BY <2>1, <2>2
<1> QED BY <1>1, <1>3, <1>4, <1>5

\* Every step keeps the invariant.
LEMMA NextCInv ==
  ASSUME CInv, [Next]_vars
  PROVE  CInv'
<1>1. CASE UNCHANGED vars
  BY <1>1 DEF vars, CInv, TypeOK, TokenInv, LockInv
<1>2. ASSUME NEW t \in Tasks, Step(t)
      PROVE  CInv'
  BY <1>2, EnterInv, LeaveInv, InsideInv DEF Step
<1>3. ASSUME NEW p \in Processes, Die(p)
      PROVE  CInv'
  BY <1>3, DieInv
<1> QED BY <1>1, <1>2, <1>3 DEF Next

\* Only Activate begins a lease, and nobody holds one then.
LEMMA LeaseStep ==
  ASSUME CInv, CInv', [Next]_vars
  PROVE  [L!Next]_Holders
<1>1. CASE UNCHANGED vars
  BY <1>1 DEF vars, Holders
<1>2. ASSUME NEW t \in Tasks, Step(t)
      PROVE  [L!Next]_Holders
  <2>1. CASE Activate(t)
    <3>1. Holders = {}
      <4>1. \A u \in Tasks : at[u] = "holding" => u = t
        BY <2>1, OneLocked DEF Activate
      <4> QED BY <2>1, <4>1 DEF Holders, Activate
    <3>2. Holders' = {t}
      BY <2>1, <3>1 DEF Activate, Holders, CInv, TypeOK
    <3> QED BY <3>1, <3>2 DEF L!Next, L!Grant
  <2>2. CASE Unlock(t)
    <3>1. t \in Holders /\ \A u \in Holders : u = t
      BY <2>2, OneLocked DEF Unlock, Holders
    <3>2. Holders' = {}
      BY <2>2, <3>1 DEF Unlock, Holders, CInv, TypeOK
    <3> QED BY <3>1, <3>2 DEF L!Next, L!End
  <2>3. CASE TakeLock(t) \/ Deactivate(t) \/ ReleaseAgain(t)
    <3>1. Holders' = Holders
      BY <2>3 DEF TakeLock, Deactivate, ReleaseAgain, Holders, CInv, TypeOK
    <3> QED BY <3>1
  <2>4. CASE Acquire(t) \/ TryAcquire(t) \/ FailLock(t) \/ Cancel(t) \/ ReturnToken(t)
    BY <2>4, EnterInv, LeaveInv
  <2> QED BY <1>2, <2>1, <2>2, <2>3, <2>4 DEF Step
<1>3. ASSUME NEW p \in Processes, Die(p)
      PROVE  [L!Next]_Holders
  <2>1. Holders' = Holders \/ (Holders # {} /\ Holders' = {})
    BY <1>3, DieInv
  <2> QED BY <2>1 DEF L!Next, L!End
<1> QED BY <1>1, <1>2, <1>3 DEF Next

-----------------------------------------------------------------------------
\* The inductive invariant holds in every state.
THEOREM CoordinatorInvariant == Spec => []CInv
<1>1. Init => CInv
  BY InitCInv
<1>2. CInv /\ [Next]_vars => CInv'
  BY NextCInv
<1> QED BY <1>1, <1>2, PTL DEF Spec

\* The coordinator implements the lease: whatever the processes of the host do
\* and whichever of them dies, one task at a time holds it.
THEOREM LeaseImplemented == Spec => ImplementsLease
<1>1. Init => L!Init
  BY DEF Init, L!Init, Holders
<1>2. CInv /\ CInv' /\ [Next]_vars => [L!Next]_Holders
  BY LeaseStep
<1> QED BY <1>1, <1>2, CoordinatorInvariant, PTL DEF Spec, ImplementsLease, L!Spec

\* Every variable keeps its type, and no two processes mix their waiters.
THEOREM CoordinatorTypeCorrect == Spec => []TypeOK
<1>1. CInv => TypeOK
  BY DEF CInv
<1> QED BY <1>1, CoordinatorInvariant, PTL
-----------------------------------------------------------------------------
(* The token is never lost.  Of the tasks that wait on a channel there is     *)
(* always a first one, as the sets of those ahead are finite and nested; so   *)
(* a send that finds nobody leaves nobody waiting.                            *)

Queued == {t \in Tasks : at[t] = "queued"}

QueueInv ==
  /\ IsFiniteSet(Queued)
  /\ \A t \in Queued : \A u \in ahead[t] :
       u # t /\ u \in Queued /\ ahead[u] \subseteq ahead[t]

\* A token that is not in the channel is with a task of the process.
CarriedInv == \A p \in Processes : ~token[p] => \E t \in Of(p) : at[t] \in Inside

WInv == CInv /\ QueueInv /\ CarriedInv /\ NoLostWakeup /\ ActiveWhileHeld

\* Somebody is first among those that wait for a channel.
LEMMA FirstExists ==
  ASSUME TypeOK, QueueInv, NEW t \in Queued
  PROVE  First(Home[t]) # {}
<1> DEFINE Waiting == {u \in Queued : Home[u] = Home[t]}
           T == {ahead[u] : u \in Waiting}
<1>1. t \in Waiting
  OBVIOUS
<1>2. \A u \in Waiting : u \in Tasks /\ ahead[u] \subseteq Waiting
  BY DEF TypeOK, QueueInv, Queued, Of
<1>3. IsFiniteSet(Waiting)
  BY FS_Subset DEF QueueInv
<1>4. T \subseteq FiniteSubsetsOf(Tasks)
  <2>1. \A u \in Waiting : ahead[u] \in SUBSET Tasks /\ IsFiniteSet(ahead[u])
    BY <1>2, <1>3, FS_Subset DEF TypeOK
  <2> QED BY <2>1 DEF FiniteSubsetsOf
<1>5. IsWellFoundedOn(StrictSubsetOrdering(Tasks), FiniteSubsetsOf(Tasks))
  BY FS_StrictSubsetOrderingWellFounded
<1>6. PICK a \in T : \A b \in T : <<b, a>> \notin StrictSubsetOrdering(Tasks)
  <2> HIDE DEF T
  <2>1. T # {}
    BY <1>1 DEF T
  <2> QED BY <1>4, <1>5, <2>1, WFMin
<1>7. PICK w \in Waiting : a = ahead[w]
  OBVIOUS
<1>8. ahead[w] = {}
  <2> SUFFICES ASSUME NEW u \in ahead[w] PROVE FALSE
    OBVIOUS
  <2>1. u \in Waiting /\ w \in Queued
    BY <1>2
  <2>2. ahead[u] \subseteq ahead[w] /\ u \notin ahead[u]
    BY <2>1 DEF QueueInv
  <2>3. ahead[u] \in SUBSET Tasks /\ ahead[w] \in SUBSET Tasks
    BY <1>2, <2>1 DEF TypeOK
  <2>4. <<ahead[u], ahead[w]>> \in StrictSubsetOrdering(Tasks)
    BY <2>2, <2>3 DEF StrictSubsetOrdering
  <2> QED BY <1>6, <1>7, <2>1, <2>4
<1>9. w \in First(Home[t])
  BY <1>2, <1>8 DEF First, Of, Queued
<1> QED BY <1>9

\* The queue stays one when some tasks leave it and all forget them.
LEMMA QueueShrinks ==
  ASSUME TypeOK, QueueInv, NEW Gone \in SUBSET Tasks,
         Queued' = Queued \ Gone,
         \A u \in Tasks : u \notin Gone => ahead'[u] = ahead[u] \ Gone
  PROVE  QueueInv'
<1>1. IsFiniteSet(Queued')
  BY FS_Subset DEF QueueInv
<1>2. ASSUME NEW u \in Queued', NEW v \in ahead'[u]
      PROVE  v # u /\ v \in Queued' /\ ahead'[v] \subseteq ahead'[u]
  <2>1. u \in Queued /\ u \notin Gone /\ u \in Tasks /\ v \in ahead[u] /\ v \notin Gone
    BY <1>2 DEF Queued
  <2>2. v # u /\ v \in Queued /\ ahead[v] \subseteq ahead[u] /\ v \in Tasks
    BY <2>1 DEF QueueInv, Queued
  <2> QED BY <2>1, <2>2
<1> QED BY <1>1, <1>2 DEF QueueInv

\* Nobody waits for a token that is sent without a receiver.
LEMMA GiveTokenWakes ==
  ASSUME WInv, NEW t \in Tasks, at[t] \in Inside, GiveToken(t)
  PROVE  /\ QueueInv' /\ CarriedInv' /\ NoLostWakeup'
         /\ \A u \in Tasks : at'[u] = "holding" => at[u] = "holding"
<1> USE HomeAssumption DEF WInv, CInv, TypeOK
<1>1. CASE /\ First(Home[t]) = {}
           /\ token' = [token EXCEPT ![Home[t]] = TRUE]
           /\ at' = [at EXCEPT ![t] = "idle"]
           /\ UNCHANGED ahead
  <2>1. \A u \in Queued : Home[u] # Home[t]
    BY <1>1, FirstExists
  <2>2. Queued' = Queued
    BY <1>1 DEF Queued, Inside
  <2>3. QueueInv'
    BY <1>1, <2>2 DEF QueueInv
  <2>4. CarriedInv'
    <3> SUFFICES ASSUME NEW p \in Processes, ~token'[p]
                 PROVE  \E u \in Of(p) : at'[u] \in Inside
      BY DEF CarriedInv, Of
    <3>1. p # Home[t] /\ ~token[p]
      BY <1>1
    <3>2. PICK u \in Of(p) : at[u] \in Inside
      BY <3>1 DEF CarriedInv
    <3>3. at'[u] = at[u]
      BY <1>1, <3>1 DEF Of
    <3> QED BY <3>2, <3>3
  <2>5. NoLostWakeup'
    <3> SUFFICES ASSUME NEW u \in Tasks, at'[u] = "queued"
                 PROVE  ~token'[Home[u]]
      BY DEF NoLostWakeup
    <3>1. u \in Queued
      BY <2>2 DEF Queued
    <3>2. ~token[Home[u]] /\ Home[u] # Home[t]
      BY <2>1, <3>1 DEF NoLostWakeup, Queued
    <3> QED BY <1>1, <3>2
  <2> QED BY <1>1, <2>3, <2>4, <2>5
<1>2. ASSUME NEW w \in First(Home[t]),
             at' = [at EXCEPT ![t] = "idle", ![w] = "polling"],
             ahead' = [u \in Tasks |-> ahead[u] \ {w}],
             UNCHANGED token
      PROVE  /\ QueueInv' /\ CarriedInv' /\ NoLostWakeup'
             /\ \A u \in Tasks : at'[u] = "holding" => at[u] = "holding"
  <2>1. w \in Tasks /\ Home[w] = Home[t] /\ at[w] = "queued" /\ w # t
    BY DEF First, Of, Inside
  <2>2. Queued' = Queued \ {w}
    BY <1>2, <2>1 DEF Queued, Inside
  <2>3. QueueInv'
    BY <1>2, <2>1, <2>2, QueueShrinks
  <2>4. CarriedInv'
    <3> SUFFICES ASSUME NEW p \in Processes, ~token'[p]
                 PROVE  \E u \in Of(p) : at'[u] \in Inside
      BY DEF CarriedInv, Of
    <3>1. CASE p = Home[t]
      BY <1>2, <2>1, <3>1 DEF Of, Inside, Places
    <3>2. CASE p # Home[t]
      <4>1. PICK u \in Of(p) : at[u] \in Inside
        BY <1>2 DEF CarriedInv
      <4>2. at'[u] = at[u]
        BY <1>2, <2>1, <3>2 DEF Of
      <4> QED BY <4>1, <4>2
    <3> QED BY <3>1, <3>2
  <2>5. NoLostWakeup'
    BY <1>2, <2>1 DEF NoLostWakeup
  <2> QED BY <1>2, <2>1, <2>3, <2>4, <2>5
<1> QED BY <1>1, <1>2 DEF GiveToken

\* A task that comes in takes the token, or waits behind those that wait.
LEMMA EnterWakes ==
  ASSUME WInv, NEW t \in Tasks, Acquire(t) \/ TryAcquire(t)
  PROVE  QueueInv' /\ CarriedInv' /\ NoLostWakeup' /\ ActiveWhileHeld'
<1> USE HomeAssumption DEF WInv, CInv, TypeOK
<1>1. CASE /\ at[t] = "idle" /\ token[Home[t]]
           /\ token' = [token EXCEPT ![Home[t]] = FALSE]
           /\ \E place \in {"polling", "trying"} : at' = [at EXCEPT ![t] = place]
           /\ UNCHANGED <<active, ahead>>
  <2>1. Queued' = Queued
    BY <1>1 DEF Queued
  <2>2. QueueInv'
    BY <1>1, <2>1 DEF QueueInv
  <2>3. CarriedInv'
    <3> SUFFICES ASSUME NEW p \in Processes, ~token'[p]
                 PROVE  \E u \in Of(p) : at'[u] \in Inside
      BY DEF CarriedInv, Of
    <3>1. CASE p = Home[t]
      BY <1>1, <3>1 DEF Of, Inside, Places
    <3>2. CASE p # Home[t]
      <4>1. PICK u \in Of(p) : at[u] \in Inside
        BY <1>1, <3>2 DEF CarriedInv
      <4>2. at'[u] = at[u]
        BY <1>1, <3>2 DEF Of
      <4> QED BY <4>1, <4>2
    <3> QED BY <3>1, <3>2
  <2>4. NoLostWakeup'
    BY <1>1 DEF NoLostWakeup
  <2>5. ActiveWhileHeld'
    BY <1>1 DEF ActiveWhileHeld
  <2> QED BY <2>2, <2>3, <2>4, <2>5
<1>2. CASE /\ at[t] = "idle" /\ ~token[Home[t]]
           /\ at' = [at EXCEPT ![t] = "queued"]
           /\ ahead' = [ahead EXCEPT ![t] = {u \in Of(Home[t]) : at[u] = "queued"}]
           /\ UNCHANGED <<token, active>>
  <2>1. Queued' = Queued \cup {t} /\ t \notin Queued
    BY <1>2 DEF Queued
  <2>2. IsFiniteSet(Queued')
    BY <2>1, FS_AddElement DEF QueueInv
  <2>3. ahead'[t] \subseteq Queued /\ \A u \in Queued : ahead'[u] = ahead[u]
    BY <1>2, <2>1 DEF Queued, Of
  <2>4. \A u \in Queued : Home[u] = Home[t] => ahead[u] \subseteq ahead'[t]
    <3> SUFFICES ASSUME NEW u \in Queued, Home[u] = Home[t], NEW v \in ahead[u]
                 PROVE  v \in ahead'[t]
      OBVIOUS
    <3>1. v \in Queued /\ v \in Of(Home[t])
      BY DEF QueueInv, Queued
    <3> QED BY <1>2, <3>1 DEF Queued
  <2>5. ASSUME NEW u \in Queued', NEW v \in ahead'[u]
        PROVE  v # u /\ v \in Queued' /\ ahead'[v] \subseteq ahead'[u]
    <3>1. CASE u = t
      <4>1. v \in Queued /\ Home[v] = Home[t]
        BY <1>2, <2>5, <3>1 DEF Of, Queued
      <4> QED BY <2>1, <2>3, <2>4, <3>1, <4>1
    <3>2. CASE u # t
      <4>1. u \in Queued /\ v \in ahead[u]
        BY <2>1, <2>3, <2>5, <3>2
      <4>2. v # u /\ v \in Queued /\ ahead[v] \subseteq ahead[u]
        BY <4>1 DEF QueueInv
      <4> QED BY <2>1, <2>3, <4>1, <4>2
    <3> QED BY <3>1, <3>2
  <2>6. QueueInv'
    BY <2>2, <2>5 DEF QueueInv
  <2>7. CarriedInv'
    <3> SUFFICES ASSUME NEW p \in Processes, ~token[p]
                 PROVE  \E u \in Of(p) : at'[u] \in Inside
      BY <1>2 DEF CarriedInv, Of
    <3>1. PICK u \in Of(p) : at[u] \in Inside
      BY DEF CarriedInv
    <3>2. at'[u] = at[u]
      BY <1>2, <3>1 DEF Of, Inside
    <3> QED BY <3>1, <3>2
  <2>8. NoLostWakeup'
    BY <1>2 DEF NoLostWakeup
  <2>9. ActiveWhileHeld'
    BY <1>2 DEF ActiveWhileHeld
  <2> QED BY <2>6, <2>7, <2>8, <2>9
<1>3. CASE Acquire(t)
  BY <1>1, <1>2, <1>3 DEF Acquire
<1>4. CASE TryAcquire(t)
  BY <1>1, <1>4 DEF TryAcquire
<1> QED BY <1>3, <1>4

LEMMA LeaveWakes ==
  ASSUME WInv, NEW t \in Tasks, FailLock(t) \/ Cancel(t) \/ ReturnToken(t)
  PROVE  QueueInv' /\ CarriedInv' /\ NoLostWakeup' /\ ActiveWhileHeld'
<1> USE HomeAssumption DEF WInv, CInv, TypeOK
<1>1. CASE at[t] \in {"polling", "trying", "inactive"} /\ GiveToken(t)
  <2>1. at[t] \in Inside /\ active' = active
    BY <1>1 DEF Inside, Places, FailLock, Cancel, ReturnToken
  <2>2. /\ QueueInv' /\ CarriedInv' /\ NoLostWakeup'
        /\ \A u \in Tasks : at'[u] = "holding" => at[u] = "holding"
    BY <1>1, <2>1, GiveTokenWakes
  <2> QED BY <2>1, <2>2 DEF ActiveWhileHeld
<1>2. CASE /\ at[t] = "queued" /\ at' = [at EXCEPT ![t] = "idle"]
           /\ ahead' = [u \in Tasks |-> ahead[u] \ {t}]
           /\ UNCHANGED <<token, active, lock, spent>>
  <2>1. Queued' = Queued \ {t}
    BY <1>2 DEF Queued
  <2>2. QueueInv'
    BY <1>2, <2>1, QueueShrinks
  <2>3. CarriedInv'
    <3> SUFFICES ASSUME NEW p \in Processes, ~token[p]
                 PROVE  \E u \in Of(p) : at'[u] \in Inside
      BY <1>2 DEF CarriedInv, Of
    <3>1. PICK u \in Of(p) : at[u] \in Inside
      BY DEF CarriedInv
    <3>2. at'[u] = at[u]
      BY <1>2, <3>1 DEF Of, Inside
    <3> QED BY <3>1, <3>2
  <2>4. NoLostWakeup' /\ ActiveWhileHeld'
    BY <1>2 DEF NoLostWakeup, ActiveWhileHeld
  <2> QED BY <2>2, <2>3, <2>4
<1> QED BY <1>1, <1>2 DEF FailLock, Cancel, ReturnToken

\* Only the holder's release clears the flag: while one task of a process is
\* at that step no other is inside.
LEMMA InsideWakes ==
  ASSUME WInv, NEW t \in Tasks,
         \/ TakeLock(t) \/ Activate(t) \/ Unlock(t) \/ Deactivate(t) \/ ReleaseAgain(t)
  PROVE  QueueInv' /\ CarriedInv' /\ NoLostWakeup' /\ ActiveWhileHeld'
<1> USE HomeAssumption DEF WInv, CInv, TypeOK
<1>1. UNCHANGED <<token, ahead>>
  BY DEF TakeLock, Activate, Unlock, Deactivate, ReleaseAgain
<1>2. \A u \in Tasks : /\ at'[u] \in Inside <=> at[u] \in Inside
                       /\ at'[u] = "queued" <=> at[u] = "queued"
  BY DEF TakeLock, Activate, Unlock, Deactivate, ReleaseAgain, Inside, Places
<1>3. Queued' = Queued
  BY <1>2 DEF Queued
<1>4. QueueInv'
  BY <1>1, <1>3 DEF QueueInv
<1>5. CarriedInv'
  BY <1>1, <1>2 DEF CarriedInv, Of
<1>6. NoLostWakeup'
  BY <1>1, <1>2 DEF NoLostWakeup
<1>7. ActiveWhileHeld'
  <2> SUFFICES ASSUME NEW u \in Tasks, at'[u] = "holding" PROVE active'[Home[u]]
    BY DEF ActiveWhileHeld
  <2>1. CASE Activate(t)
    BY <2>1 DEF Activate, ActiveWhileHeld
  <2>2. CASE Deactivate(t)
    <3>1. u # t /\ at[u] = "holding" /\ at[t] = "unlocked"
      BY <2>2 DEF Deactivate
    <3>2. Home[u] # Home[t]
      BY <3>1 DEF TokenInv, Inside, Places
    <3> QED BY <2>2, <3>1, <3>2 DEF Deactivate, ActiveWhileHeld
  <2>3. CASE TakeLock(t) \/ Unlock(t) \/ ReleaseAgain(t)
    BY <2>3 DEF TakeLock, Unlock, ReleaseAgain, ActiveWhileHeld
  <2> QED BY <2>1, <2>2, <2>3
<1> QED BY <1>4, <1>5, <1>6, <1>7

LEMMA DieWakes ==
  ASSUME WInv, NEW p \in Processes, Die(p)
  PROVE  QueueInv' /\ CarriedInv' /\ NoLostWakeup' /\ ActiveWhileHeld'
<1> USE HomeAssumption DEF WInv, CInv, TypeOK
<1>1. \A u \in Tasks : Home[u] # p => at'[u] = at[u] /\ ahead'[u] = ahead[u]
  BY DEF Die
<1>2. \A u \in Tasks : Home[u] = p => at'[u] = "idle"
  BY DEF Die
<1>3. Queued' = Queued \ Of(p)
  BY <1>1, <1>2 DEF Queued, Of
<1>4. \A u \in Tasks : u \notin Of(p) => ahead'[u] = ahead[u] \ Of(p)
  BY <1>1 DEF Of
<1>5. QueueInv'
  BY <1>3, <1>4, QueueShrinks DEF Of
<1>6. CarriedInv'
  <2> SUFFICES ASSUME NEW q \in Processes, ~token'[q]
               PROVE  \E u \in Of(q) : at'[u] \in Inside
    BY DEF CarriedInv, Of
  <2>1. q # p /\ ~token[q]
    BY DEF Die
  <2>2. PICK u \in Of(q) : at[u] \in Inside
    BY <2>1 DEF CarriedInv
  <2> QED BY <1>1, <2>1, <2>2 DEF Of
<1>7. NoLostWakeup'
  BY <1>1, <1>2 DEF NoLostWakeup, Die
<1>8. ActiveWhileHeld'
  BY <1>1, <1>2 DEF ActiveWhileHeld, Die
<1> QED BY <1>5, <1>6, <1>7, <1>8

LEMMA InitWInv == Init => WInv
<1> SUFFICES ASSUME Init PROVE WInv
  OBVIOUS
<1>1. Queued = {}
  BY DEF Init, Queued
<1>2. QueueInv
  BY <1>1, FS_EmptySet DEF QueueInv
<1>3. CarriedInv /\ NoLostWakeup /\ ActiveWhileHeld
  BY DEF Init, CarriedInv, NoLostWakeup, ActiveWhileHeld
<1> QED BY <1>2, <1>3, InitCInv DEF WInv

LEMMA NextWInv == WInv /\ [Next]_vars => WInv'
<1> SUFFICES ASSUME WInv, [Next]_vars PROVE WInv'
  OBVIOUS
<1>1. CInv'
  BY NextCInv DEF WInv
<1>2. CASE UNCHANGED vars
  <2>1. Queued' = Queued
    BY <1>2 DEF vars, Queued
  <2> QED BY <1>1, <1>2, <2>1
          DEF vars, WInv, QueueInv, CarriedInv, NoLostWakeup, ActiveWhileHeld, Of
<1>3. ASSUME NEW t \in Tasks, Step(t)
      PROVE  QueueInv' /\ CarriedInv' /\ NoLostWakeup' /\ ActiveWhileHeld'
  BY <1>3, EnterWakes, LeaveWakes, InsideWakes DEF Step
<1>4. ASSUME NEW p \in Processes, Die(p)
      PROVE  QueueInv' /\ CarriedInv' /\ NoLostWakeup' /\ ActiveWhileHeld'
  BY <1>4, DieWakes
<1> QED BY <1>1, <1>2, <1>3, <1>4 DEF Next, WInv

LEMMA WaitersInvariant == Spec => []WInv
BY InitWInv, NextWInv, PTL DEF Spec

\* While the token is in the channel of a process nobody waits for it: on no
\* path through a failure, a cancellation or a death a wake-up is lost.
THEOREM NoWakeupIsLost == Spec => []NoLostWakeup
<1>1. WInv => NoLostWakeup
  BY DEF WInv
<1> QED BY <1>1, WaitersInvariant, PTL

\* Active() says so for as long as a lease of the process lasts.
THEOREM ActiveThroughLease == Spec => []ActiveWhileHeld
<1>1. WInv => ActiveWhileHeld
  BY DEF WInv
<1> QED BY <1>1, WaitersInvariant, PTL

\* A process has one token: it is in the channel or with exactly one task.
THEOREM OneToken == Spec => []TokenConserved
<1>1. WInv => TokenConserved
  <2> SUFFICES ASSUME WInv, NEW p \in Processes
               PROVE  Cardinality({t \in Of(p) : at[t] \in Inside})
                        = IF token[p] THEN 0 ELSE 1
    BY DEF TokenConserved
  <2>1. CASE token[p]
    <3>1. {t \in Of(p) : at[t] \in Inside} = {}
      BY <2>1 DEF WInv, CInv, TokenInv, Of
    <3> QED BY <2>1, <3>1, FS_EmptySet
  <2>2. CASE ~token[p]
    <3>1. PICK t \in Of(p) : at[t] \in Inside
      BY <2>2 DEF WInv, CarriedInv
    <3>2. {u \in Of(p) : at[u] \in Inside} = {t}
      BY <3>1 DEF WInv, CInv, TokenInv, Of
    <3>3. Cardinality({t}) = 1
      BY FS_Singleton
    <3> QED BY <2>2, <3>2, <3>3
  <2> QED BY <2>1, <2>2
<1> QED BY <1>1, WaitersInvariant, PTL
=============================================================================
