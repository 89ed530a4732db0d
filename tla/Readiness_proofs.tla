-------------------------- MODULE Readiness_proofs --------------------------
(***************************************************************************)
(* Theorems about Readiness.  The inductive invariant ReadinessInv says    *)
(* for each of the three locks and the coordinator which stage of a        *)
(* process holds it, and what the two files say while it does.             *)
(***************************************************************************)
EXTENDS Readiness, Integers, TLAPS

USE ReadinessAssumption

\* The lease: exclusive for a panel that starts, shared for those who look or hold
\* a guard.  Past the comparison the generation it names has become ready.
LeaseInv ==
  /\ lease.ex # Nobody => lease.sh = {}
  /\ \A p \in Procs :
       /\ at[p] \in Starting => p \in Panels /\ lease.ex = p
       /\ at[p] \in {"read", "look", "stale", "compare", "guarded",
                     "acquired", "reprobed", "finalizing"} => p \in lease.sh
       /\ p \in lease.sh => at[p] \notin {"none", "serving", "poll", "probe", "probed", "try"}
       /\ p \in lease.sh /\ at[p] \notin {"read", "look", "stale"} => leaseToken \in published

\* The ready lock: a panel that names, resets or publishes has it, and one that
\* has it after its start is the generation that both files name.
ReadyInv ==
  /\ ready.ex # Nobody => ready.sh = {}
  /\ \A p \in Procs :
       /\ at[p] \in {"checked", "named", "publishing", "writing"} => ready.ex = p
       /\ at[p] = "stale" => p \in ready.sh
       /\ ready.ex = p => p \in Panels /\ at[p] \notin {"none", "leased", "recovering"}
  /\ \A p \in Panels :
       /\ at[p] \in {"named", "recovering", "publishing", "writing"} => token[p] = leaseToken
       /\ at[p] = "writing" => readyToken = token[p]
       /\ ready.ex = p /\ at[p] \notin Starting =>
            leaseToken = token[p] /\ readyToken = token[p] /\ leaseToken \in published

\* The coordinator and the marker: who acts has the first, who waits for the
\* service has both, and a hook that finalizes leaves nobody to wait.
CommandInv ==
  /\ marker.ex # Nobody => marker.sh = {}
  /\ \A p \in Procs :
       /\ at[p] \in {"marked", "waiting"} => marker.ex = p
       /\ at[p] \in {"running", "marked", "waiting", "acquired", "reprobed", "finalizing"}
            => coordinator = p
       /\ at[p] \in {"running", "marked", "waiting"} => p \in Owners
       /\ at[p] \in {"acquired", "reprobed", "finalizing"} => p = Hook
  /\ at[Hook] = "reprobed" => Hook \in marker.sh
  /\ hookOf # Nobody => hookOf \in Owners /\ at[hookOf] = "waiting"
  /\ HookDecides

ReadinessInv == ReadinessTypeOK /\ LeaseInv /\ ReadyInv /\ CommandInv

-----------------------------------------------------------------------------
LEMMA ReadinessInvInit == ReadinessInit => ReadinessInv
  BY DEF ReadinessInit, ReadinessInv, ReadinessTypeOK, LeaseInv, ReadyInv, CommandInv,
     HookDecides, Unlocked, Lock, Tokens, Stages, Starting, Acting, Finalizing, Procs, Owners

\* What a process does to a lock.
LEMMA LockLaws ==
  ASSUME NEW l \in Lock, NEW p \in Procs
  PROVE  /\ Taken(l, p) \in Lock /\ Taken(l, p).ex = p /\ Taken(l, p).sh = l.sh
         /\ Joined(l, p) \in Lock /\ Joined(l, p).ex = l.ex /\ Joined(l, p).sh = l.sh \cup {p}
         /\ Left(l, p) \in Lock /\ Left(l, p).ex = (IF l.ex = p THEN Nobody ELSE l.ex)
         /\ Left(l, p).sh = l.sh \ {p}
         /\ l.ex \in Procs \cup {Nobody} /\ l.sh \in SUBSET Procs
  BY DEF Lock, Taken, Joined, Left

LEMMA StageLaws ==
  {"none", "serving", "poll", "read", "look", "stale", "compare", "guarded", "probe",
   "probed", "try", "leased", "checked", "named", "recovering", "publishing", "writing",
   "running", "marked", "waiting", "leaving", "acquired", "reprobed", "finalizing"}
    \subseteq Stages
  BY DEF Stages, Starting, Acting, Finalizing

LEMMA ProcLaws ==
  /\ Hook \in Procs /\ Owners \subseteq Procs /\ Panels \subseteq Procs /\ Nobody \notin Procs
  /\ Hook \notin Owners /\ Hook \notin Panels
  /\ \A p \in Procs : Rest(p) \in Stages /\ Rest(p) = IF p \in Panels THEN "serving" ELSE "none"
  BY DEF Procs, Owners, Rest, Stages

\* Whose service command waits, and who has a lock.
LEMMA HolderLaws ==
  ASSUME ReadinessInv
  PROVE  /\ lease.ex \in Procs \cup {Nobody} /\ ready.ex \in Procs \cup {Nobody}
         /\ hookOf # Nobody => /\ hookOf \in Procs /\ hookOf # Hook
                               /\ coordinator = hookOf /\ marker.ex = hookOf
  BY ProcLaws DEF ReadinessInv, ReadinessTypeOK, Lock, CommandInv

-----------------------------------------------------------------------------

\* A panel that starts: it has the lease to itself, so no guard counts on what it
\* changes.
LEMMA StartKeeps ==
  ASSUME ReadinessInv, NEW p \in Panels,
         TakeLease(p) \/ CheckReady(p) \/ NameLease(p) \/ ResetReady(p) \/
         Recover(p) \/ LockReady(p) \/ WriteReady(p) \/ PublishReady(p)
  PROVE  ReadinessInv'
<1> USE DEF ReadinessInv
<1>0. /\ lease \in Lock /\ ready \in Lock /\ marker \in Lock
      /\ at \in [Procs -> Stages] /\ ReadinessTypeOK /\ Hook \in Procs /\ p \in Procs
  BY ProcLaws DEF ReadinessTypeOK
<1>1. CASE TakeLease(p)
  <2>1. /\ at[p] = "none"
        /\ at' = [at EXCEPT ![p] = "leased"]
        /\ lease' = Taken(lease, p)
        /\ ready' = ready /\ marker' = marker /\ leaseToken' = leaseToken
        /\ readyToken' = readyToken /\ coordinator' = coordinator /\ token' = token
        /\ seen' = seen /\ hookOf' = hookOf /\ verdict' = verdict
        /\ published' = published
    BY <1>0, <1>1
    DEF TakeLease, Goes, tokens, hooks, Exclusive
  <2>2. /\ at' \in [Procs -> Stages] /\ at'[p] = "leased"
        /\ \A q \in Procs \ {p} : at'[q] = at[q]
    BY <1>0, <2>1, StageLaws, ProcLaws
  <2>3. /\ lease' \in Lock /\ lease'.ex = p /\ lease'.sh = lease.sh
    <3>1. lease' \in Lock
      BY <1>0, <2>1, LockLaws
    <3>2. lease'.ex = p
      BY <1>0, <2>1 DEF Taken, Lock
    <3>3. lease'.sh = lease.sh
      BY <1>0, <2>1, LockLaws
    <3> QED BY <3>1, <3>2, <3>3
  <2>4. /\ lease.ex = Nobody /\ lease.sh = {}
    BY <1>1 DEF TakeLease, Exclusive
  <2>5. ReadinessTypeOK'
    BY <1>0, <2>1, <2>2, <2>3, <2>4, ProcLaws DEF ReadinessTypeOK, Tokens
  <2>6. LeaseInv'
    BY <1>0, <2>1, <2>2, <2>3, <2>4, ProcLaws DEF LeaseInv, Starting
  <2>7. ReadyInv'
    BY <1>0, <2>1, <2>2, <2>3, <2>4, ProcLaws DEF ReadyInv, LeaseInv, Starting
  <2>8. CommandInv'
    BY <1>0, <2>1, <2>2, <2>3, <2>4, ProcLaws, HolderLaws DEF CommandInv, HookDecides
  <2> QED BY <2>5, <2>6, <2>7, <2>8
<1>2. CASE CheckReady(p)
  <2>1. CASE Exclusive(ready)
    <3>1. /\ at[p] = "leased"
          /\ at' = [at EXCEPT ![p] = "checked"]
          /\ ready' = Taken(ready, p)
          /\ lease' = lease /\ marker' = marker /\ leaseToken' = leaseToken
          /\ readyToken' = readyToken /\ coordinator' = coordinator /\ token' = token
          /\ seen' = seen /\ hookOf' = hookOf /\ verdict' = verdict
          /\ published' = published
      BY <1>0, <1>2, <2>1
      DEF CheckReady, tokens, hooks, Exclusive
    <3>2. /\ at' \in [Procs -> Stages] /\ at'[p] = "checked"
          /\ \A q \in Procs \ {p} : at'[q] = at[q]
      BY <1>0, <3>1, StageLaws, ProcLaws
    <3>3. /\ ready' \in Lock /\ ready'.ex = p /\ ready'.sh = ready.sh
      <4>1. ready' \in Lock
        BY <1>0, <3>1, LockLaws
      <4>2. ready'.ex = p
        BY <1>0, <3>1 DEF Taken, Lock
      <4>3. ready'.sh = ready.sh
        BY <1>0, <3>1, LockLaws
      <4> QED BY <4>1, <4>2, <4>3
    <3>4. /\ ready.ex = Nobody /\ ready.sh = {}
      BY <1>2, <2>1 DEF CheckReady, Exclusive
    <3>5. ReadinessTypeOK'
      BY <1>0, <3>1, <3>2, <3>3, <3>4, ProcLaws DEF ReadinessTypeOK, Tokens
    <3>6. LeaseInv'
      BY <1>0, <3>1, <3>2, <3>3, <3>4, ProcLaws DEF LeaseInv, Starting
    <3>7. ReadyInv'
      BY <1>0, <3>1, <3>2, <3>3, <3>4, ProcLaws DEF ReadyInv, LeaseInv, Starting
    <3>8. CommandInv'
      BY <1>0, <3>1, <3>2, <3>3, <3>4, ProcLaws, HolderLaws DEF CommandInv, HookDecides
    <3> QED BY <3>5, <3>6, <3>7, <3>8
  <2>2. CASE ~Exclusive(ready)
    <3>1. /\ at[p] = "leased"
          /\ at' = [at EXCEPT ![p] = "none"]
          /\ lease' = Left(lease, p)
          /\ ready' = ready /\ marker' = marker /\ leaseToken' = leaseToken
          /\ readyToken' = readyToken /\ coordinator' = coordinator /\ token' = token
          /\ seen' = seen /\ hookOf' = hookOf /\ verdict' = verdict
          /\ published' = published
      BY <1>0, <1>2, <2>2
      DEF CheckReady, tokens, hooks, Exclusive
    <3>2. /\ at' \in [Procs -> Stages] /\ at'[p] = "none"
          /\ \A q \in Procs \ {p} : at'[q] = at[q]
      BY <1>0, <3>1, StageLaws, ProcLaws
    <3>3. /\ lease' \in Lock /\ lease'.sh = lease.sh \ {p}
          /\ lease'.ex = IF lease.ex = p THEN Nobody ELSE lease.ex
      BY <1>0, <3>1, LockLaws
    <3>4. ReadinessTypeOK'
      BY <1>0, <3>1, <3>2, <3>3, ProcLaws DEF ReadinessTypeOK, Tokens
    <3>5. LeaseInv'
      BY <1>0, <3>1, <3>2, <3>3, ProcLaws DEF LeaseInv, Starting
    <3>6. ReadyInv'
      BY <1>0, <3>1, <3>2, <3>3, ProcLaws DEF ReadyInv, LeaseInv, Starting
    <3>7. CommandInv'
      BY <1>0, <3>1, <3>2, <3>3, ProcLaws, HolderLaws DEF CommandInv, HookDecides
    <3> QED BY <3>4, <3>5, <3>6, <3>7
  <2> QED BY <2>1, <2>2
<1>3. CASE NameLease(p)
  <2>1. /\ at[p] = "checked"
        /\ at' = [at EXCEPT ![p] = "named"]
        /\ leaseToken' = leaseToken + 1 /\ leaseToken < MaxTokens
        /\ token' = [token EXCEPT ![p] = leaseToken + 1]
        /\ lease' = lease /\ ready' = ready /\ marker' = marker
        /\ readyToken' = readyToken /\ coordinator' = coordinator /\ seen' = seen
        /\ hookOf' = hookOf /\ verdict' = verdict /\ published' = published
    BY <1>0, <1>3, ProcLaws
    DEF NameLease, Goes, locks, hooks, ReadinessTypeOK, Tokens
  <2>2. /\ at' \in [Procs -> Stages] /\ at'[p] = "named"
        /\ \A q \in Procs \ {p} : at'[q] = at[q]
        /\ token' \in [Panels -> Tokens] /\ token'[p] = leaseToken'
        /\ \A q \in Panels \ {p} : token'[q] = token[q]
    BY <1>0, <2>1, StageLaws, ProcLaws DEF ReadinessTypeOK, Tokens
  <2>3. ReadinessTypeOK'
    BY <1>0, <2>1, <2>2, ProcLaws DEF ReadinessTypeOK, Tokens
  <2>4. LeaseInv'
    BY <1>0, <2>1, <2>2, ProcLaws DEF LeaseInv, Starting, ReadyInv
  <2>5. ReadyInv'
    BY <1>0, <2>1, <2>2, ProcLaws DEF ReadyInv, LeaseInv, Starting
  <2>6. CommandInv'
    BY <1>0, <2>1, <2>2, ProcLaws, HolderLaws DEF CommandInv, HookDecides
  <2> QED BY <2>3, <2>4, <2>5, <2>6
<1>4. CASE ResetReady(p)
  <2>1. /\ at[p] = "named"
        /\ at' = [at EXCEPT ![p] = "recovering"]
        /\ ready' = Left(ready, p)
        /\ readyToken' = 0
        /\ lease' = lease /\ marker' = marker /\ leaseToken' = leaseToken
        /\ coordinator' = coordinator /\ token' = token /\ seen' = seen
        /\ hookOf' = hookOf /\ verdict' = verdict /\ published' = published
    BY <1>0, <1>4
    DEF ResetReady, Goes, hooks
  <2>2. /\ at' \in [Procs -> Stages] /\ at'[p] = "recovering"
        /\ \A q \in Procs \ {p} : at'[q] = at[q]
    BY <1>0, <2>1, StageLaws, ProcLaws
  <2>3. /\ ready' \in Lock /\ ready'.sh = ready.sh \ {p}
        /\ ready'.ex = IF ready.ex = p THEN Nobody ELSE ready.ex
    BY <1>0, <2>1, LockLaws
  <2>4. ReadinessTypeOK'
    BY <1>0, <2>1, <2>2, <2>3, ProcLaws DEF ReadinessTypeOK, Tokens
  <2>5. LeaseInv'
    BY <1>0, <2>1, <2>2, <2>3, ProcLaws DEF LeaseInv, Starting
  <2>6. ReadyInv'
    BY <1>0, <2>1, <2>2, <2>3, ProcLaws DEF ReadyInv, LeaseInv, Starting
  <2>7. CommandInv'
    BY <1>0, <2>1, <2>2, <2>3, ProcLaws, HolderLaws DEF CommandInv, HookDecides
  <2> QED BY <2>4, <2>5, <2>6, <2>7
<1>5. CASE Recover(p)
  <2>1. /\ at[p] = "recovering"
        /\ at' = at
        /\ \/ coordinator = Nobody /\ coordinator' = p
           \/ coordinator = p /\ coordinator' = Nobody
        /\ lease' = lease /\ ready' = ready /\ marker' = marker
        /\ leaseToken' = leaseToken /\ readyToken' = readyToken /\ token' = token
        /\ seen' = seen /\ hookOf' = hookOf /\ verdict' = verdict
        /\ published' = published
    BY <1>0, <1>5
    DEF Recover, locks, tokens, hooks
  <2>2. ReadinessTypeOK'
    BY <1>0, <2>1, ProcLaws DEF ReadinessTypeOK, Tokens
  <2>3. LeaseInv'
    BY <1>0, <2>1, ProcLaws DEF LeaseInv, Starting
  <2>4. ReadyInv'
    BY <1>0, <2>1, ProcLaws DEF ReadyInv, LeaseInv, Starting
  <2>5. CommandInv'
    BY <1>0, <2>1, ProcLaws, HolderLaws DEF CommandInv, HookDecides
  <2> QED BY <2>2, <2>3, <2>4, <2>5
<1>6. CASE LockReady(p)
  <2>1. /\ at[p] = "recovering"
        /\ at' = [at EXCEPT ![p] = "publishing"]
        /\ ready' = Taken(ready, p)
        /\ lease' = lease /\ marker' = marker /\ leaseToken' = leaseToken
        /\ readyToken' = readyToken /\ coordinator' = coordinator /\ token' = token
        /\ seen' = seen /\ hookOf' = hookOf /\ verdict' = verdict
        /\ published' = published
    BY <1>0, <1>6
    DEF LockReady, Goes, tokens, hooks, Exclusive
  <2>2. /\ at' \in [Procs -> Stages] /\ at'[p] = "publishing"
        /\ \A q \in Procs \ {p} : at'[q] = at[q]
    BY <1>0, <2>1, StageLaws, ProcLaws
  <2>3. /\ ready' \in Lock /\ ready'.ex = p /\ ready'.sh = ready.sh
    <3>1. ready' \in Lock
      BY <1>0, <2>1, LockLaws
    <3>2. ready'.ex = p
      BY <1>0, <2>1 DEF Taken, Lock
    <3>3. ready'.sh = ready.sh
      BY <1>0, <2>1, LockLaws
    <3> QED BY <3>1, <3>2, <3>3
  <2>4. /\ ready.ex = Nobody /\ ready.sh = {}
    BY <1>6 DEF LockReady, Exclusive
  <2>5. ReadinessTypeOK'
    BY <1>0, <2>1, <2>2, <2>3, <2>4, ProcLaws DEF ReadinessTypeOK, Tokens
  <2>6. LeaseInv'
    BY <1>0, <2>1, <2>2, <2>3, <2>4, ProcLaws DEF LeaseInv, Starting
  <2>7. ReadyInv'
    BY <1>0, <2>1, <2>2, <2>3, <2>4, ProcLaws DEF ReadyInv, LeaseInv, Starting
  <2>8. CommandInv'
    BY <1>0, <2>1, <2>2, <2>3, <2>4, ProcLaws, HolderLaws DEF CommandInv, HookDecides
  <2> QED BY <2>5, <2>6, <2>7, <2>8
<1>7. CASE WriteReady(p)
  <2>1. /\ at[p] = "publishing"
        /\ at' = [at EXCEPT ![p] = "writing"]
        /\ readyToken' = token[p]
        /\ lease' = lease /\ ready' = ready /\ marker' = marker
        /\ leaseToken' = leaseToken /\ coordinator' = coordinator /\ token' = token
        /\ seen' = seen /\ hookOf' = hookOf /\ verdict' = verdict
        /\ published' = published
    BY <1>0, <1>7
    DEF WriteReady, Goes, locks, hooks
  <2>2. /\ at' \in [Procs -> Stages] /\ at'[p] = "writing"
        /\ \A q \in Procs \ {p} : at'[q] = at[q]
    BY <1>0, <2>1, StageLaws, ProcLaws
  <2>3. ReadinessTypeOK'
    BY <1>0, <2>1, <2>2, ProcLaws DEF ReadinessTypeOK, Tokens
  <2>4. LeaseInv'
    BY <1>0, <2>1, <2>2, ProcLaws DEF LeaseInv, Starting
  <2>5. ReadyInv'
    BY <1>0, <2>1, <2>2, ProcLaws DEF ReadyInv, LeaseInv, Starting
  <2>6. CommandInv'
    BY <1>0, <2>1, <2>2, ProcLaws, HolderLaws DEF CommandInv, HookDecides
  <2> QED BY <2>3, <2>4, <2>5, <2>6
<1>8. CASE PublishReady(p)
  <2>1. /\ at[p] = "writing"
        /\ at' = [at EXCEPT ![p] = "serving"]
        /\ lease' = Left(lease, p)
        /\ published' = published \cup {token[p]}
        /\ ready' = ready /\ marker' = marker /\ leaseToken' = leaseToken
        /\ readyToken' = readyToken /\ coordinator' = coordinator /\ token' = token
        /\ seen' = seen /\ hookOf' = hookOf /\ verdict' = verdict
    BY <1>0, <1>8
    DEF PublishReady, Goes, tokens, hooks
  <2>2. /\ at' \in [Procs -> Stages] /\ at'[p] = "serving"
        /\ \A q \in Procs \ {p} : at'[q] = at[q]
        /\ token[p] \in Tokens /\ published' \in SUBSET Tokens
    BY <1>0, <2>1, StageLaws, ProcLaws DEF ReadinessTypeOK, Tokens
  <2>3. /\ lease' \in Lock /\ lease'.sh = lease.sh \ {p}
        /\ lease'.ex = IF lease.ex = p THEN Nobody ELSE lease.ex
    BY <1>0, <2>1, LockLaws
  <2>4. ReadinessTypeOK'
    BY <1>0, <2>1, <2>2, <2>3, ProcLaws DEF ReadinessTypeOK, Tokens
  <2>5. LeaseInv'
    BY <1>0, <2>1, <2>2, <2>3, ProcLaws DEF LeaseInv, Starting, ReadyInv
  <2>6. ReadyInv'
    BY <1>0, <2>1, <2>2, <2>3, ProcLaws DEF ReadyInv, LeaseInv, Starting
  <2>7. CommandInv'
    BY <1>0, <2>1, <2>2, <2>3, ProcLaws, HolderLaws DEF CommandInv, HookDecides
  <2> QED BY <2>4, <2>5, <2>6, <2>7
<1> QED BY <1>1, <1>2, <1>3, <1>4, <1>5, <1>6, <1>7, <1>8

\* Who looks for a ready panel.
LEMMA GuardKeeps ==
  ASSUME ReadinessInv, NEW p \in Procs,
         AskGuard(p) \/ ShareLease(p) \/ ReadLease(p) \/ LookReady(p) \/
         NotReady(p) \/ CompareTokens(p) \/ GiveUp(p)
  PROVE  ReadinessInv'
<1> USE DEF ReadinessInv
<1>0. /\ lease \in Lock /\ ready \in Lock /\ marker \in Lock
      /\ at \in [Procs -> Stages] /\ ReadinessTypeOK /\ Hook \in Procs /\ p \in Procs
  BY ProcLaws DEF ReadinessTypeOK
<1>1. CASE AskGuard(p)
  <2>1. /\ at[p] = Rest(p) /\ p \in Owners
        /\ at' = [at EXCEPT ![p] = "poll"]
        /\ lease' = lease /\ ready' = ready /\ marker' = marker
        /\ leaseToken' = leaseToken /\ readyToken' = readyToken
        /\ coordinator' = coordinator /\ token' = token /\ seen' = seen
        /\ hookOf' = hookOf /\ verdict' = verdict /\ published' = published
    BY <1>0, <1>1
    DEF AskGuard, Goes, locks, tokens, hooks
  <2>2. /\ at' \in [Procs -> Stages] /\ at'[p] = "poll"
        /\ \A q \in Procs \ {p} : at'[q] = at[q]
    BY <1>0, <2>1, StageLaws, ProcLaws
  <2>3. ReadinessTypeOK'
    BY <1>0, <2>1, <2>2, ProcLaws DEF ReadinessTypeOK, Tokens
  <2>4. LeaseInv'
    BY <1>0, <2>1, <2>2, ProcLaws DEF LeaseInv, Starting
  <2>5. ReadyInv'
    BY <1>0, <2>1, <2>2, ProcLaws DEF ReadyInv, LeaseInv, Starting
  <2>6. CommandInv'
    BY <1>0, <2>1, <2>2, ProcLaws, HolderLaws DEF CommandInv, HookDecides
  <2> QED BY <2>3, <2>4, <2>5, <2>6
<1>2. CASE ShareLease(p)
  <2>1. /\ at[p] = "poll"
        /\ at' = [at EXCEPT ![p] = "read"]
        /\ lease' = Joined(lease, p)
        /\ ready' = ready /\ marker' = marker /\ leaseToken' = leaseToken
        /\ readyToken' = readyToken /\ coordinator' = coordinator /\ token' = token
        /\ seen' = seen /\ hookOf' = hookOf /\ verdict' = verdict
        /\ published' = published
    BY <1>0, <1>2
    DEF ShareLease, Goes, tokens, hooks, Shared
  <2>2. /\ at' \in [Procs -> Stages] /\ at'[p] = "read"
        /\ \A q \in Procs \ {p} : at'[q] = at[q]
    BY <1>0, <2>1, StageLaws, ProcLaws
  <2>3. /\ lease' \in Lock /\ lease'.ex = lease.ex /\ lease'.sh = lease.sh \cup {p}
    BY <1>0, <2>1, LockLaws
  <2>4. /\ lease.ex = Nobody
    BY <1>2 DEF ShareLease, Shared
  <2>5. ReadinessTypeOK'
    BY <1>0, <2>1, <2>2, <2>3, <2>4, ProcLaws DEF ReadinessTypeOK, Tokens
  <2>6. LeaseInv'
    BY <1>0, <2>1, <2>2, <2>3, <2>4, ProcLaws DEF LeaseInv, Starting
  <2>7. ReadyInv'
    BY <1>0, <2>1, <2>2, <2>3, <2>4, ProcLaws DEF ReadyInv, LeaseInv, Starting
  <2>8. CommandInv'
    BY <1>0, <2>1, <2>2, <2>3, <2>4, ProcLaws, HolderLaws DEF CommandInv, HookDecides
  <2> QED BY <2>5, <2>6, <2>7, <2>8
<1>3. CASE ReadLease(p)
  <2>1. CASE leaseToken = 0
    <3>1. /\ at[p] = "read"
          /\ at' = [at EXCEPT ![p] = "poll"]
          /\ lease' = Left(lease, p)
          /\ ready' = ready /\ marker' = marker /\ leaseToken' = leaseToken
          /\ readyToken' = readyToken /\ coordinator' = coordinator /\ token' = token
          /\ seen' = seen /\ hookOf' = hookOf /\ verdict' = verdict
          /\ published' = published
      BY <1>0, <1>3, <2>1
      DEF ReadLease, tokens, hooks
    <3>2. /\ at' \in [Procs -> Stages] /\ at'[p] = "poll"
          /\ \A q \in Procs \ {p} : at'[q] = at[q]
      BY <1>0, <3>1, StageLaws, ProcLaws
    <3>3. /\ lease' \in Lock /\ lease'.sh = lease.sh \ {p}
          /\ lease'.ex = IF lease.ex = p THEN Nobody ELSE lease.ex
      BY <1>0, <3>1, LockLaws
    <3>4. ReadinessTypeOK'
      BY <1>0, <3>1, <3>2, <3>3, ProcLaws DEF ReadinessTypeOK, Tokens
    <3>5. LeaseInv'
      BY <1>0, <3>1, <3>2, <3>3, ProcLaws DEF LeaseInv, Starting
    <3>6. ReadyInv'
      BY <1>0, <3>1, <3>2, <3>3, ProcLaws DEF ReadyInv, LeaseInv, Starting
    <3>7. CommandInv'
      BY <1>0, <3>1, <3>2, <3>3, ProcLaws, HolderLaws DEF CommandInv, HookDecides
    <3> QED BY <3>4, <3>5, <3>6, <3>7
  <2>2. CASE leaseToken # 0
    <3>1. /\ at[p] = "read"
          /\ at' = [at EXCEPT ![p] = "look"]
          /\ seen' = [seen EXCEPT ![p] = leaseToken]
          /\ lease' = lease /\ ready' = ready /\ marker' = marker
          /\ leaseToken' = leaseToken /\ readyToken' = readyToken
          /\ coordinator' = coordinator /\ token' = token /\ hookOf' = hookOf
          /\ verdict' = verdict /\ published' = published
      BY <1>0, <1>3, <2>2
      DEF ReadLease, locks, tokens, hooks
    <3>2. /\ at' \in [Procs -> Stages] /\ at'[p] = "look"
          /\ \A q \in Procs \ {p} : at'[q] = at[q]
          /\ seen' \in [Procs -> Tokens]
      BY <1>0, <3>1, StageLaws, ProcLaws DEF ReadinessTypeOK, Tokens
    <3>3. ReadinessTypeOK'
      BY <1>0, <3>1, <3>2, ProcLaws DEF ReadinessTypeOK, Tokens
    <3>4. LeaseInv'
      BY <1>0, <3>1, <3>2, ProcLaws DEF LeaseInv, Starting
    <3>5. ReadyInv'
      BY <1>0, <3>1, <3>2, ProcLaws DEF ReadyInv, LeaseInv, Starting
    <3>6. CommandInv'
      BY <1>0, <3>1, <3>2, ProcLaws, HolderLaws DEF CommandInv, HookDecides
    <3> QED BY <3>3, <3>4, <3>5, <3>6
  <2> QED BY <2>1, <2>2
<1>4. CASE LookReady(p)
  <2>1. CASE Shared(ready)
    <3>1. /\ at[p] = "look"
          /\ at' = [at EXCEPT ![p] = "stale"]
          /\ ready' = Joined(ready, p)
          /\ lease' = lease /\ marker' = marker /\ leaseToken' = leaseToken
          /\ readyToken' = readyToken /\ coordinator' = coordinator /\ token' = token
          /\ seen' = seen /\ hookOf' = hookOf /\ verdict' = verdict
          /\ published' = published
      BY <1>0, <1>4, <2>1
      DEF LookReady, tokens, hooks, Shared
    <3>2. /\ at' \in [Procs -> Stages] /\ at'[p] = "stale"
          /\ \A q \in Procs \ {p} : at'[q] = at[q]
      BY <1>0, <3>1, StageLaws, ProcLaws
    <3>3. /\ ready' \in Lock /\ ready'.ex = ready.ex /\ ready'.sh = ready.sh \cup {p}
      BY <1>0, <3>1, LockLaws
    <3>4. /\ ready.ex = Nobody
      BY <1>4, <2>1 DEF LookReady, Shared
    <3>5. ReadinessTypeOK'
      BY <1>0, <3>1, <3>2, <3>3, <3>4, ProcLaws DEF ReadinessTypeOK, Tokens
    <3>6. LeaseInv'
      BY <1>0, <3>1, <3>2, <3>3, <3>4, ProcLaws, HolderLaws DEF LeaseInv, ReadyInv, CommandInv, Starting
    <3>7. ReadyInv'
      BY <1>0, <3>1, <3>2, <3>3, <3>4, ProcLaws DEF ReadyInv, LeaseInv, Starting
    <3>8. CommandInv'
      BY <1>0, <3>1, <3>2, <3>3, <3>4, ProcLaws, HolderLaws DEF CommandInv, HookDecides
    <3> QED BY <3>5, <3>6, <3>7, <3>8
  <2>2. CASE ~Shared(ready)
    <3>1. /\ at[p] = "look" /\ ready.ex # Nobody
          /\ at' = [at EXCEPT ![p] = "compare"]
          /\ lease' = lease /\ ready' = ready /\ marker' = marker
          /\ leaseToken' = leaseToken /\ readyToken' = readyToken
          /\ coordinator' = coordinator /\ token' = token /\ seen' = seen
          /\ hookOf' = hookOf /\ verdict' = verdict /\ published' = published
      BY <1>0, <1>4, <2>2
      DEF LookReady, locks, tokens, hooks, Shared
    <3>2. /\ at' \in [Procs -> Stages] /\ at'[p] = "compare"
          /\ \A q \in Procs \ {p} : at'[q] = at[q]
      BY <1>0, <3>1, StageLaws, ProcLaws
    <3>3. ReadinessTypeOK'
      BY <1>0, <3>1, <3>2, ProcLaws DEF ReadinessTypeOK, Tokens
    <3>4. LeaseInv'
      BY <1>0, <3>1, <3>2, ProcLaws, HolderLaws DEF LeaseInv, ReadyInv, CommandInv, Starting
    <3>5. ReadyInv'
      BY <1>0, <3>1, <3>2, ProcLaws DEF ReadyInv, LeaseInv, Starting
    <3>6. CommandInv'
      BY <1>0, <3>1, <3>2, ProcLaws, HolderLaws DEF CommandInv, HookDecides
    <3> QED BY <3>3, <3>4, <3>5, <3>6
  <2> QED BY <2>1, <2>2
<1>5. CASE NotReady(p)
  <2>1. /\ at[p] = "stale"
        /\ at' = [at EXCEPT ![p] = "poll"]
        /\ lease' = Left(lease, p)
        /\ ready' = Left(ready, p)
        /\ marker' = marker /\ leaseToken' = leaseToken /\ readyToken' = readyToken
        /\ coordinator' = coordinator /\ token' = token /\ seen' = seen
        /\ hookOf' = hookOf /\ verdict' = verdict /\ published' = published
    BY <1>0, <1>5
    DEF NotReady, Goes, tokens, hooks
  <2>2. /\ at' \in [Procs -> Stages] /\ at'[p] = "poll"
        /\ \A q \in Procs \ {p} : at'[q] = at[q]
    BY <1>0, <2>1, StageLaws, ProcLaws
  <2>3. /\ lease' \in Lock /\ lease'.sh = lease.sh \ {p}
        /\ lease'.ex = IF lease.ex = p THEN Nobody ELSE lease.ex
        /\ ready' \in Lock /\ ready'.sh = ready.sh \ {p}
        /\ ready'.ex = IF ready.ex = p THEN Nobody ELSE ready.ex
    BY <1>0, <2>1, LockLaws
  <2>4. ReadinessTypeOK'
    BY <1>0, <2>1, <2>2, <2>3, ProcLaws DEF ReadinessTypeOK, Tokens
  <2>5. LeaseInv'
    BY <1>0, <2>1, <2>2, <2>3, ProcLaws DEF LeaseInv, Starting
  <2>6. ReadyInv'
    BY <1>0, <2>1, <2>2, <2>3, ProcLaws DEF ReadyInv, LeaseInv, Starting
  <2>7. CommandInv'
    BY <1>0, <2>1, <2>2, <2>3, ProcLaws, HolderLaws DEF CommandInv, HookDecides
  <2> QED BY <2>4, <2>5, <2>6, <2>7
<1>6. CASE CompareTokens(p)
  <2>1. CASE readyToken = seen[p]
    <3>1. /\ at[p] = "compare"
          /\ at' = [at EXCEPT ![p] = "guarded"]
          /\ lease' = lease /\ ready' = ready /\ marker' = marker
          /\ leaseToken' = leaseToken /\ readyToken' = readyToken
          /\ coordinator' = coordinator /\ token' = token /\ seen' = seen
          /\ hookOf' = hookOf /\ verdict' = verdict /\ published' = published
      BY <1>0, <1>6, <2>1
      DEF CompareTokens, locks, tokens, hooks
    <3>2. /\ at' \in [Procs -> Stages] /\ at'[p] = "guarded"
          /\ \A q \in Procs \ {p} : at'[q] = at[q]
      BY <1>0, <3>1, StageLaws, ProcLaws
    <3>3. ReadinessTypeOK'
      BY <1>0, <3>1, <3>2, ProcLaws DEF ReadinessTypeOK, Tokens
    <3>4. LeaseInv'
      BY <1>0, <3>1, <3>2, ProcLaws DEF LeaseInv, Starting
    <3>5. ReadyInv'
      BY <1>0, <3>1, <3>2, ProcLaws DEF ReadyInv, LeaseInv, Starting
    <3>6. CommandInv'
      BY <1>0, <3>1, <3>2, ProcLaws, HolderLaws DEF CommandInv, HookDecides
    <3> QED BY <3>3, <3>4, <3>5, <3>6
  <2>2. CASE readyToken # seen[p]
    <3>1. /\ at[p] = "compare"
          /\ at' = [at EXCEPT ![p] = "poll"]
          /\ lease' = Left(lease, p)
          /\ ready' = ready /\ marker' = marker /\ leaseToken' = leaseToken
          /\ readyToken' = readyToken /\ coordinator' = coordinator /\ token' = token
          /\ seen' = seen /\ hookOf' = hookOf /\ verdict' = verdict
          /\ published' = published
      BY <1>0, <1>6, <2>2
      DEF CompareTokens, tokens, hooks
    <3>2. /\ at' \in [Procs -> Stages] /\ at'[p] = "poll"
          /\ \A q \in Procs \ {p} : at'[q] = at[q]
      BY <1>0, <3>1, StageLaws, ProcLaws
    <3>3. /\ lease' \in Lock /\ lease'.sh = lease.sh \ {p}
          /\ lease'.ex = IF lease.ex = p THEN Nobody ELSE lease.ex
      BY <1>0, <3>1, LockLaws
    <3>4. ReadinessTypeOK'
      BY <1>0, <3>1, <3>2, <3>3, ProcLaws DEF ReadinessTypeOK, Tokens
    <3>5. LeaseInv'
      BY <1>0, <3>1, <3>2, <3>3, ProcLaws DEF LeaseInv, Starting
    <3>6. ReadyInv'
      BY <1>0, <3>1, <3>2, <3>3, ProcLaws DEF ReadyInv, LeaseInv, Starting
    <3>7. CommandInv'
      BY <1>0, <3>1, <3>2, <3>3, ProcLaws, HolderLaws DEF CommandInv, HookDecides
    <3> QED BY <3>4, <3>5, <3>6, <3>7
  <2> QED BY <2>1, <2>2
<1>7. CASE GiveUp(p)
  <2>1. /\ at[p] = "poll"
        /\ at' = [at EXCEPT ![p] = Rest(p)]
        /\ verdict' \in {"refused", verdict} /\ (p # Hook => verdict' = verdict)
        /\ lease' = lease /\ ready' = ready /\ marker' = marker
        /\ leaseToken' = leaseToken /\ readyToken' = readyToken
        /\ coordinator' = coordinator /\ token' = token /\ seen' = seen
        /\ hookOf' = hookOf /\ published' = published
    BY <1>0, <1>7
    DEF GiveUp, Goes, locks, tokens, Returns
  <2>2. /\ at' \in [Procs -> Stages] /\ at'[p] = Rest(p)
        /\ \A q \in Procs \ {p} : at'[q] = at[q]
    BY <1>0, <2>1, StageLaws, ProcLaws
  <2>3. ReadinessTypeOK'
    BY <1>0, <2>1, <2>2, ProcLaws DEF ReadinessTypeOK, Tokens
  <2>4. LeaseInv'
    BY <1>0, <2>1, <2>2, ProcLaws DEF LeaseInv, Starting
  <2>5. ReadyInv'
    BY <1>0, <2>1, <2>2, ProcLaws DEF ReadyInv, LeaseInv, Starting
  <2>6. CommandInv'
    BY <1>0, <2>1, <2>2, ProcLaws, HolderLaws DEF CommandInv, HookDecides
  <2> QED BY <2>3, <2>4, <2>5, <2>6
<1> QED BY <1>1, <1>2, <1>3, <1>4, <1>5, <1>6, <1>7

\* What is done under the coordinator.
LEMMA OperationKeeps ==
  ASSUME ReadinessInv, NEW p \in Procs,
         WithCoordinator(p) \/ Busy(p) \/ Operate(p) \/ Mark(p) \/
         StartService(p) \/ ServiceAnswers(p) \/ Release(p) \/ CloseGuard(p)
         \/ Dies(p)
  PROVE  ReadinessInv'
<1> USE DEF ReadinessInv
<1>0. /\ lease \in Lock /\ ready \in Lock /\ marker \in Lock
      /\ at \in [Procs -> Stages] /\ ReadinessTypeOK /\ Hook \in Procs /\ p \in Procs
  BY ProcLaws DEF ReadinessTypeOK
<1>1. CASE WithCoordinator(p)
  <2>1. CASE p = Hook
    <3>1. /\ at[p] = "guarded"
          /\ at' = [at EXCEPT ![p] = "acquired"]
          /\ coordinator = Nobody /\ coordinator' = p
          /\ lease' = lease /\ ready' = ready /\ marker' = marker
          /\ leaseToken' = leaseToken /\ readyToken' = readyToken /\ token' = token
          /\ seen' = seen /\ hookOf' = hookOf /\ verdict' = verdict
          /\ published' = published
      BY <1>0, <1>1, <2>1
      DEF WithCoordinator, Goes, locks, tokens, hooks
    <3>2. /\ at' \in [Procs -> Stages] /\ at'[p] = "acquired"
          /\ \A q \in Procs \ {p} : at'[q] = at[q]
      BY <1>0, <3>1, StageLaws, ProcLaws
    <3>3. /\ hookOf = Nobody
          /\ \A q \in Procs : at[q] \notin {"running", "marked", "waiting", "acquired",
                                        "reprobed", "finalizing"}
      BY <1>0, <3>1, ProcLaws, HolderLaws DEF CommandInv
    <3>4. ReadinessTypeOK'
      BY <1>0, <3>1, <3>2, <3>3, ProcLaws DEF ReadinessTypeOK, Tokens
    <3>5. LeaseInv'
      BY <1>0, <3>1, <3>2, <3>3, ProcLaws DEF LeaseInv, Starting
    <3>6. ReadyInv'
      BY <1>0, <3>1, <3>2, <3>3, ProcLaws DEF ReadyInv, LeaseInv, Starting
    <3>7. CommandInv'
      <4>1. ASSUME NEW q \in Procs
           PROVE  (/\ at[q] \in {"marked", "waiting"} => marker.ex = q
                   /\ at[q] \in {"running", "marked", "waiting", "acquired", "reprobed",
                                "finalizing"} => coordinator = q
                   /\ at[q] \in {"running", "marked", "waiting"} => q \in Owners
                   /\ at[q] \in {"acquired", "reprobed", "finalizing"} => q = Hook)'
        <5>1. CASE q = p
          BY <1>0, <3>1, <3>2, <3>3, <2>1, <5>1, ProcLaws DEF Procs, Owners
        <5>2. CASE q # p
          BY <1>0, <3>1, <3>2, <3>3, <5>2
        <5> QED BY <5>1, <5>2
      <4>2. HookDecides'
        BY <1>0, <3>1, <3>2, <3>3, <2>1, ProcLaws DEF HookDecides
      <4>3. (at[Hook] = "reprobed" => Hook \in marker.sh)'
        BY <1>0, <3>1, <3>2, <3>3, <2>1, ProcLaws
      <4> QED BY <1>0, <3>1, <3>2, <3>3, <4>1, <4>2, <4>3 DEF CommandInv
    <3> QED BY <3>4, <3>5, <3>6, <3>7
  <2>2. CASE p # Hook
    <3>1. /\ at[p] = "guarded"
          /\ at' = [at EXCEPT ![p] = "running"]
          /\ coordinator = Nobody /\ coordinator' = p
          /\ lease' = lease /\ ready' = ready /\ marker' = marker
          /\ leaseToken' = leaseToken /\ readyToken' = readyToken /\ token' = token
          /\ seen' = seen /\ hookOf' = hookOf /\ verdict' = verdict
          /\ published' = published
      BY <1>0, <1>1, <2>2
      DEF WithCoordinator, Goes, locks, tokens, hooks
    <3>2. /\ at' \in [Procs -> Stages] /\ at'[p] = "running"
          /\ \A q \in Procs \ {p} : at'[q] = at[q]
      BY <1>0, <3>1, StageLaws, ProcLaws
    <3>3. /\ hookOf = Nobody
          /\ \A q \in Procs : at[q] \notin {"running", "marked", "waiting", "acquired",
                                        "reprobed", "finalizing"}
      BY <1>0, <3>1, ProcLaws, HolderLaws DEF CommandInv
    <3>4. ReadinessTypeOK'
      BY <1>0, <3>1, <3>2, <3>3, ProcLaws DEF ReadinessTypeOK, Tokens
    <3>5. LeaseInv'
      BY <1>0, <3>1, <3>2, <3>3, ProcLaws DEF LeaseInv, Starting
    <3>6. ReadyInv'
      BY <1>0, <3>1, <3>2, <3>3, ProcLaws DEF ReadyInv, LeaseInv, Starting
    <3>7. CommandInv'
      <4>1. ASSUME NEW q \in Procs
           PROVE  (/\ at[q] \in {"marked", "waiting"} => marker.ex = q
                   /\ at[q] \in {"running", "marked", "waiting", "acquired", "reprobed",
                                "finalizing"} => coordinator = q
                   /\ at[q] \in {"running", "marked", "waiting"} => q \in Owners
                   /\ at[q] \in {"acquired", "reprobed", "finalizing"} => q = Hook)'
        <5>1. CASE q = p
          BY <1>0, <3>1, <3>2, <3>3, <2>2, <5>1, ProcLaws DEF Procs, Owners
        <5>2. CASE q # p
          BY <1>0, <3>1, <3>2, <3>3, <5>2
        <5> QED BY <5>1, <5>2
      <4>2. HookDecides'
        BY <1>0, <3>1, <3>2, <3>3, <2>2, ProcLaws DEF HookDecides
      <4>3. (at[Hook] = "reprobed" => Hook \in marker.sh)'
        BY <1>0, <3>1, <3>2, <3>3, <2>2, ProcLaws
      <4> QED BY <1>0, <3>1, <3>2, <3>3, <4>1, <4>2, <4>3 DEF CommandInv
    <3> QED BY <3>4, <3>5, <3>6, <3>7
  <2> QED BY <2>1, <2>2
<1>2. CASE Busy(p)
  <2>1. /\ at[p] = "guarded"
        /\ at' = [at EXCEPT ![p] = Rest(p)]
        /\ lease' = Left(lease, p)
        /\ verdict' \in {"refused", verdict} /\ (p # Hook => verdict' = verdict)
        /\ ready' = ready /\ marker' = marker /\ leaseToken' = leaseToken
        /\ readyToken' = readyToken /\ coordinator' = coordinator /\ token' = token
        /\ seen' = seen /\ hookOf' = hookOf /\ published' = published
    BY <1>0, <1>2
    DEF Busy, Goes, tokens, Returns
  <2>2. /\ at' \in [Procs -> Stages] /\ at'[p] = Rest(p)
        /\ \A q \in Procs \ {p} : at'[q] = at[q]
    BY <1>0, <2>1, StageLaws, ProcLaws
  <2>3. /\ lease' \in Lock /\ lease'.sh = lease.sh \ {p}
        /\ lease'.ex = IF lease.ex = p THEN Nobody ELSE lease.ex
    BY <1>0, <2>1, LockLaws
  <2>4. ReadinessTypeOK'
    BY <1>0, <2>1, <2>2, <2>3, ProcLaws DEF ReadinessTypeOK, Tokens
  <2>5. LeaseInv'
    BY <1>0, <2>1, <2>2, <2>3, ProcLaws DEF LeaseInv, Starting
  <2>6. ReadyInv'
    BY <1>0, <2>1, <2>2, <2>3, ProcLaws DEF ReadyInv, LeaseInv, Starting
  <2>7. CommandInv'
    BY <1>0, <2>1, <2>2, <2>3, ProcLaws, HolderLaws DEF CommandInv, HookDecides
  <2> QED BY <2>4, <2>5, <2>6, <2>7
<1>3. CASE Operate(p)
  <2>1. /\ at[p] = Rest(p) /\ p \in Owners
        /\ at' = [at EXCEPT ![p] = "running"]
        /\ coordinator = Nobody /\ coordinator' = p
        /\ lease' = lease /\ ready' = ready /\ marker' = marker
        /\ leaseToken' = leaseToken /\ readyToken' = readyToken /\ token' = token
        /\ seen' = seen /\ hookOf' = hookOf /\ verdict' = verdict
        /\ published' = published
    BY <1>0, <1>3
    DEF Operate, Goes, locks, tokens, hooks
  <2>2. /\ at' \in [Procs -> Stages] /\ at'[p] = "running"
        /\ \A q \in Procs \ {p} : at'[q] = at[q]
    BY <1>0, <2>1, StageLaws, ProcLaws
  <2>3. /\ hookOf = Nobody
        /\ \A q \in Procs : at[q] \notin {"running", "marked", "waiting", "acquired",
                                      "reprobed", "finalizing"}
    BY <1>0, <2>1, ProcLaws, HolderLaws DEF CommandInv
  <2>4. ReadinessTypeOK'
    BY <1>0, <2>1, <2>2, <2>3, ProcLaws DEF ReadinessTypeOK, Tokens
  <2>5. LeaseInv'
    BY <1>0, <2>1, <2>2, <2>3, ProcLaws DEF LeaseInv, Starting
  <2>6. ReadyInv'
    BY <1>0, <2>1, <2>2, <2>3, ProcLaws DEF ReadyInv, LeaseInv, Starting
  <2>7. CommandInv'
    BY <1>0, <2>1, <2>2, <2>3, ProcLaws, HolderLaws DEF CommandInv, HookDecides
  <2> QED BY <2>4, <2>5, <2>6, <2>7
<1>4. CASE Mark(p)
  <2>1. /\ at[p] = "running"
        /\ at' = [at EXCEPT ![p] = "marked"]
        /\ marker' = Taken(marker, p)
        /\ lease' = lease /\ ready' = ready /\ leaseToken' = leaseToken
        /\ readyToken' = readyToken /\ coordinator' = coordinator /\ token' = token
        /\ seen' = seen /\ hookOf' = hookOf /\ verdict' = verdict
        /\ published' = published
    BY <1>0, <1>4
    DEF Mark, Goes, tokens, hooks, Exclusive
  <2>2. /\ at' \in [Procs -> Stages] /\ at'[p] = "marked"
        /\ \A q \in Procs \ {p} : at'[q] = at[q]
    BY <1>0, <2>1, StageLaws, ProcLaws
  <2>3. /\ marker' \in Lock /\ marker'.ex = p /\ marker'.sh = marker.sh
    <3>1. marker' \in Lock
      BY <1>0, <2>1, LockLaws
    <3>2. marker'.ex = p
      BY <1>0, <2>1 DEF Taken, Lock
    <3>3. marker'.sh = marker.sh
      BY <1>0, <2>1, LockLaws
    <3> QED BY <3>1, <3>2, <3>3
  <2>4. /\ marker.ex = Nobody /\ marker.sh = {}
    BY <1>4 DEF Mark, Exclusive
  <2>5. ReadinessTypeOK'
    BY <1>0, <2>1, <2>2, <2>3, <2>4, ProcLaws DEF ReadinessTypeOK, Tokens
  <2>6. LeaseInv'
    BY <1>0, <2>1, <2>2, <2>3, <2>4, ProcLaws DEF LeaseInv, Starting
  <2>7. ReadyInv'
    BY <1>0, <2>1, <2>2, <2>3, <2>4, ProcLaws DEF ReadyInv, LeaseInv, Starting
  <2>8. CommandInv'
    BY <1>0, <2>1, <2>2, <2>3, <2>4, ProcLaws, HolderLaws DEF CommandInv, HookDecides
  <2> QED BY <2>5, <2>6, <2>7, <2>8
<1>5. CASE StartService(p)
  <2>1. /\ at[p] = "marked" /\ p # Hook
        /\ at' = [at EXCEPT ![p] = "waiting", ![Hook] = "probe"]
        /\ lease' = Left(lease, Hook)
        /\ ready' = Left(ready, Hook)
        /\ marker' = Left(marker, Hook)
        /\ coordinator' = IF coordinator = Hook THEN Nobody ELSE coordinator
        /\ hookOf' = p
        /\ verdict' = "none"
        /\ leaseToken' = leaseToken /\ readyToken' = readyToken /\ token' = token
        /\ seen' = seen /\ published' = published
    BY <1>0, <1>5, ProcLaws
    DEF StartService, tokens, CommandInv
  <2>2. /\ at' \in [Procs -> Stages] /\ at'[p] = "waiting" /\ at'[Hook] = "probe"
        /\ \A q \in Procs \ {p, Hook} : at'[q] = at[q]
    BY <1>0, <2>1, StageLaws, ProcLaws
  <2>3. /\ lease' \in Lock /\ lease'.sh = lease.sh \ {Hook}
        /\ lease'.ex = IF lease.ex = Hook THEN Nobody ELSE lease.ex
        /\ ready' \in Lock /\ ready'.sh = ready.sh \ {Hook}
        /\ ready'.ex = IF ready.ex = Hook THEN Nobody ELSE ready.ex
        /\ marker' \in Lock /\ marker'.sh = marker.sh \ {Hook}
        /\ marker'.ex = IF marker.ex = Hook THEN Nobody ELSE marker.ex
    <3>1. lease \in Lock /\ ready \in Lock /\ marker \in Lock /\ Hook \in Procs
      BY <1>0, ProcLaws DEF ReadinessTypeOK
    <3>2. /\ lease' \in Lock /\ lease'.sh = lease.sh \ {Hook}
          /\ lease'.ex = IF lease.ex = Hook THEN Nobody ELSE lease.ex
      BY <2>1, <3>1, LockLaws
    <3>3. /\ ready' \in Lock /\ ready'.sh = ready.sh \ {Hook}
          /\ ready'.ex = IF ready.ex = Hook THEN Nobody ELSE ready.ex
      BY <2>1, <3>1, LockLaws
    <3>4. /\ marker' \in Lock /\ marker'.sh = marker.sh \ {Hook}
          /\ marker'.ex = IF marker.ex = Hook THEN Nobody ELSE marker.ex
      BY <2>1, <3>1, LockLaws
    <3> QED BY <3>2, <3>3, <3>4
  <2>4. ReadinessTypeOK'
    <3>1. coordinator' \in Procs \cup {Nobody} /\ hookOf' \in Owners \cup {Nobody}
      BY <1>0, <1>5, <2>1, ProcLaws DEF ReadinessTypeOK, CommandInv
    <3> QED BY <1>0, <2>1, <2>2, <2>3, <3>1 DEF ReadinessTypeOK
  <2>5. LeaseInv'
    BY <1>0, <2>1, <2>2, <2>3, ProcLaws DEF LeaseInv, ReadyInv, CommandInv, Starting
  <2>6. ReadyInv'
    BY <1>0, <2>1, <2>2, <2>3, ProcLaws DEF ReadyInv, LeaseInv, Starting
  <2>7. CommandInv'
    BY <1>0, <2>1, <2>2, <2>3, ProcLaws, HolderLaws DEF CommandInv, HookDecides
  <2> QED BY <2>4, <2>5, <2>6, <2>7
<1>6. CASE ServiceAnswers(p)
  <2>1. /\ at[p] = "waiting"
        /\ at' = [at EXCEPT ![p] = "running"]
        /\ marker' = Left(marker, p)
        /\ hookOf' = Nobody
        /\ lease' = lease /\ ready' = ready /\ leaseToken' = leaseToken
        /\ readyToken' = readyToken /\ coordinator' = coordinator /\ token' = token
        /\ seen' = seen /\ verdict' = verdict /\ published' = published
    BY <1>0, <1>6
    DEF ServiceAnswers, Goes, tokens
  <2>2. /\ at' \in [Procs -> Stages] /\ at'[p] = "running"
        /\ \A q \in Procs \ {p} : at'[q] = at[q]
    BY <1>0, <2>1, StageLaws, ProcLaws
  <2>3. /\ marker' \in Lock /\ marker'.sh = marker.sh \ {p}
        /\ marker'.ex = IF marker.ex = p THEN Nobody ELSE marker.ex
    BY <1>0, <2>1, LockLaws
  <2>4. ReadinessTypeOK'
    BY <1>0, <2>1, <2>2, <2>3, ProcLaws DEF ReadinessTypeOK, Tokens
  <2>5. LeaseInv'
    BY <1>0, <2>1, <2>2, <2>3, ProcLaws DEF LeaseInv, Starting
  <2>6. ReadyInv'
    BY <1>0, <2>1, <2>2, <2>3, ProcLaws DEF ReadyInv, LeaseInv, Starting
  <2>7. CommandInv'
    BY <1>0, <2>1, <2>2, <2>3, ProcLaws, HolderLaws DEF CommandInv, HookDecides
  <2> QED BY <2>4, <2>5, <2>6, <2>7
<1>7. CASE Release(p)
  <2>1. /\ at[p] \in {"running", "finalizing"}
        /\ at' = [at EXCEPT ![p] = "leaving"]
        /\ coordinator' = Nobody
        /\ lease' = lease /\ ready' = ready /\ marker' = marker
        /\ leaseToken' = leaseToken /\ readyToken' = readyToken /\ token' = token
        /\ seen' = seen /\ hookOf' = hookOf /\ verdict' = verdict
        /\ published' = published
    BY <1>0, <1>7
    DEF Release, locks, tokens, hooks
  <2>2. /\ at' \in [Procs -> Stages] /\ at'[p] = "leaving"
        /\ \A q \in Procs \ {p} : at'[q] = at[q]
    BY <1>0, <2>1, StageLaws, ProcLaws
  <2>3. ReadinessTypeOK'
    BY <1>0, <2>1, <2>2, ProcLaws DEF ReadinessTypeOK, Tokens
  <2>4. LeaseInv'
    BY <1>0, <2>1, <2>2, ProcLaws DEF LeaseInv, Starting
  <2>5. ReadyInv'
    BY <1>0, <2>1, <2>2, ProcLaws DEF ReadyInv, LeaseInv, Starting
  <2>6. CommandInv'
    BY <1>0, <2>1, <2>2, ProcLaws, HolderLaws DEF CommandInv, HookDecides
  <2> QED BY <2>3, <2>4, <2>5, <2>6
<1>8. CASE CloseGuard(p)
  <2>1. /\ at[p] = "leaving"
        /\ at' = [at EXCEPT ![p] = Rest(p)]
        /\ lease' = Left(lease, p)
        /\ verdict' \in {"finalized", verdict} /\ (p # Hook => verdict' = verdict)
        /\ ready' = ready /\ marker' = marker /\ leaseToken' = leaseToken
        /\ readyToken' = readyToken /\ coordinator' = coordinator /\ token' = token
        /\ seen' = seen /\ hookOf' = hookOf /\ published' = published
    BY <1>0, <1>8
    DEF CloseGuard, Goes, tokens, Returns
  <2>2. /\ at' \in [Procs -> Stages] /\ at'[p] = Rest(p)
        /\ \A q \in Procs \ {p} : at'[q] = at[q]
    BY <1>0, <2>1, StageLaws, ProcLaws
  <2>3. /\ lease' \in Lock /\ lease'.sh = lease.sh \ {p}
        /\ lease'.ex = IF lease.ex = p THEN Nobody ELSE lease.ex
    BY <1>0, <2>1, LockLaws
  <2>4. ReadinessTypeOK'
    BY <1>0, <2>1, <2>2, <2>3, ProcLaws DEF ReadinessTypeOK, Tokens
  <2>5. LeaseInv'
    BY <1>0, <2>1, <2>2, <2>3, ProcLaws DEF LeaseInv, Starting
  <2>6. ReadyInv'
    BY <1>0, <2>1, <2>2, <2>3, ProcLaws DEF ReadyInv, LeaseInv, Starting
  <2>7. CommandInv'
    BY <1>0, <2>1, <2>2, <2>3, ProcLaws, HolderLaws DEF CommandInv, HookDecides
  <2> QED BY <2>4, <2>5, <2>6, <2>7
<1>9. CASE Dies(p)
  <2>1. /\ at[p] # "none"
        /\ at' = [at EXCEPT ![p] = "none"]
        /\ lease' = Left(lease, p)
        /\ ready' = Left(ready, p)
        /\ marker' = Left(marker, p)
        /\ coordinator' = IF coordinator = p THEN Nobody ELSE coordinator
        /\ hookOf' = IF p \in {hookOf, Hook} THEN Nobody ELSE hookOf
        /\ leaseToken' = leaseToken /\ readyToken' = readyToken /\ token' = token
        /\ seen' = seen /\ verdict' = verdict /\ published' = published
    BY <1>0, <1>9
    DEF Dies, tokens
  <2>2. /\ at' \in [Procs -> Stages] /\ at'[p] = "none"
        /\ \A q \in Procs \ {p} : at'[q] = at[q]
    BY <1>0, <2>1, StageLaws, ProcLaws
  <2>3. /\ lease' \in Lock /\ lease'.sh = lease.sh \ {p}
        /\ lease'.ex = IF lease.ex = p THEN Nobody ELSE lease.ex
        /\ ready' \in Lock /\ ready'.sh = ready.sh \ {p}
        /\ ready'.ex = IF ready.ex = p THEN Nobody ELSE ready.ex
        /\ marker' \in Lock /\ marker'.sh = marker.sh \ {p}
        /\ marker'.ex = IF marker.ex = p THEN Nobody ELSE marker.ex
    <3>1. lease \in Lock /\ ready \in Lock /\ marker \in Lock /\ p \in Procs
      BY <1>0, ProcLaws DEF ReadinessTypeOK
    <3>2. /\ lease' \in Lock /\ lease'.sh = lease.sh \ {p}
          /\ lease'.ex = IF lease.ex = p THEN Nobody ELSE lease.ex
      BY <2>1, <3>1, LockLaws
    <3>3. /\ ready' \in Lock /\ ready'.sh = ready.sh \ {p}
          /\ ready'.ex = IF ready.ex = p THEN Nobody ELSE ready.ex
      BY <2>1, <3>1, LockLaws
    <3>4. /\ marker' \in Lock /\ marker'.sh = marker.sh \ {p}
          /\ marker'.ex = IF marker.ex = p THEN Nobody ELSE marker.ex
      BY <2>1, <3>1, LockLaws
    <3> QED BY <3>2, <3>3, <3>4
  <2>4. ReadinessTypeOK'
    <3>1. coordinator' \in Procs \cup {Nobody} /\ hookOf' \in Owners \cup {Nobody}
      BY <1>0, <2>1 DEF ReadinessTypeOK
    <3> QED BY <1>0, <2>1, <2>2, <2>3, <3>1 DEF ReadinessTypeOK
  <2>5. LeaseInv'
    BY <1>0, <2>1, <2>2, <2>3, ProcLaws DEF LeaseInv, Starting
  <2>6. ReadyInv'
    BY <1>0, <2>1, <2>2, <2>3, ProcLaws DEF ReadyInv, LeaseInv, Starting
  <2>7. CommandInv'
    BY <1>0, <2>1, <2>2, <2>3, ProcLaws, HolderLaws DEF CommandInv, HookDecides
  <2> QED BY <2>4, <2>5, <2>6, <2>7
<1> QED BY <1>1, <1>2, <1>3, <1>4, <1>5, <1>6, <1>7, <1>8, <1>9

\* The hook before it acts.
LEMMA HookKeeps ==
  ASSUME ReadinessInv,
         ServiceStarts \/ ProbeMarker \/ CloseProbe \/ TryLive \/ Reprobe \/
         Finalize
  PROVE  ReadinessInv'
<1> USE DEF ReadinessInv
<1>0. /\ lease \in Lock /\ ready \in Lock /\ marker \in Lock
      /\ at \in [Procs -> Stages] /\ ReadinessTypeOK /\ Hook \in Procs
  BY ProcLaws DEF ReadinessTypeOK
<1>1. CASE ServiceStarts
  <2>1. /\ at[Hook] = "none"
        /\ at' = [at EXCEPT ![Hook] = "probe"]
        /\ hookOf = Nobody /\ verdict' = "none"
        /\ lease' = lease /\ ready' = ready /\ marker' = marker
        /\ leaseToken' = leaseToken /\ readyToken' = readyToken
        /\ coordinator' = coordinator /\ token' = token /\ seen' = seen
        /\ hookOf' = hookOf /\ published' = published
    BY <1>0, <1>1
    DEF ServiceStarts, Goes, locks, tokens
  <2>2. /\ at' \in [Procs -> Stages] /\ at'[Hook] = "probe"
        /\ \A q \in Procs \ {Hook} : at'[q] = at[q]
    BY <1>0, <2>1, StageLaws, ProcLaws
  <2>3. ReadinessTypeOK'
    BY <1>0, <2>1, <2>2, ProcLaws DEF ReadinessTypeOK, Tokens
  <2>4. LeaseInv'
    BY <1>0, <2>1, <2>2, ProcLaws DEF LeaseInv, Starting
  <2>5. ReadyInv'
    BY <1>0, <2>1, <2>2, ProcLaws DEF ReadyInv, LeaseInv, Starting
  <2>6. CommandInv'
    BY <1>0, <2>1, <2>2, ProcLaws, HolderLaws DEF CommandInv, HookDecides
  <2> QED BY <2>3, <2>4, <2>5, <2>6
<1>2. CASE ProbeMarker
  <2>1. CASE Shared(marker)
    <3>1. /\ at[Hook] = "probe"
          /\ at' = [at EXCEPT ![Hook] = "probed"]
          /\ marker' = Joined(marker, Hook)
          /\ lease' = lease /\ ready' = ready /\ leaseToken' = leaseToken
          /\ readyToken' = readyToken /\ coordinator' = coordinator /\ token' = token
          /\ seen' = seen /\ hookOf' = hookOf /\ verdict' = verdict
          /\ published' = published
      BY <1>0, <1>2, <2>1
      DEF ProbeMarker, tokens, hooks, Shared
    <3>2. /\ at' \in [Procs -> Stages] /\ at'[Hook] = "probed"
          /\ \A q \in Procs \ {Hook} : at'[q] = at[q]
      BY <1>0, <3>1, StageLaws, ProcLaws
    <3>3. /\ marker' \in Lock /\ marker'.ex = marker.ex /\ marker'.sh = marker.sh \cup {Hook}
      BY <1>0, <3>1, LockLaws
    <3>4. /\ marker.ex = Nobody
      BY <1>2, <2>1 DEF ProbeMarker, Shared
    <3>5. ReadinessTypeOK'
      BY <1>0, <3>1, <3>2, <3>3, <3>4, ProcLaws DEF ReadinessTypeOK, Tokens
    <3>6. LeaseInv'
      BY <1>0, <3>1, <3>2, <3>3, <3>4, ProcLaws DEF LeaseInv, Starting
    <3>7. ReadyInv'
      BY <1>0, <3>1, <3>2, <3>3, <3>4, ProcLaws DEF ReadyInv, LeaseInv, Starting
    <3>8. CommandInv'
      BY <1>0, <3>1, <3>2, <3>3, <3>4, ProcLaws, HolderLaws DEF CommandInv, HookDecides
    <3> QED BY <3>5, <3>6, <3>7, <3>8
  <2>2. CASE ~Shared(marker)
    <3>1. /\ at[Hook] = "probe"
          /\ at' = [at EXCEPT ![Hook] = "try"]
          /\ lease' = lease /\ ready' = ready /\ marker' = marker
          /\ leaseToken' = leaseToken /\ readyToken' = readyToken
          /\ coordinator' = coordinator /\ token' = token /\ seen' = seen
          /\ hookOf' = hookOf /\ verdict' = verdict /\ published' = published
      BY <1>0, <1>2, <2>2
      DEF ProbeMarker, locks, tokens, hooks, Shared
    <3>2. /\ at' \in [Procs -> Stages] /\ at'[Hook] = "try"
          /\ \A q \in Procs \ {Hook} : at'[q] = at[q]
      BY <1>0, <3>1, StageLaws, ProcLaws
    <3>3. ReadinessTypeOK'
      BY <1>0, <3>1, <3>2, ProcLaws DEF ReadinessTypeOK, Tokens
    <3>4. LeaseInv'
      BY <1>0, <3>1, <3>2, ProcLaws DEF LeaseInv, Starting
    <3>5. ReadyInv'
      BY <1>0, <3>1, <3>2, ProcLaws DEF ReadyInv, LeaseInv, Starting
    <3>6. CommandInv'
      BY <1>0, <3>1, <3>2, ProcLaws, HolderLaws DEF CommandInv, HookDecides
    <3> QED BY <3>3, <3>4, <3>5, <3>6
  <2> QED BY <2>1, <2>2
<1>3. CASE CloseProbe
  <2>1. /\ at[Hook] = "probed"
        /\ at' = [at EXCEPT ![Hook] = "poll"]
        /\ marker' = Left(marker, Hook)
        /\ lease' = lease /\ ready' = ready /\ leaseToken' = leaseToken
        /\ readyToken' = readyToken /\ coordinator' = coordinator /\ token' = token
        /\ seen' = seen /\ hookOf' = hookOf /\ verdict' = verdict
        /\ published' = published
    BY <1>0, <1>3
    DEF CloseProbe, Goes, tokens, hooks
  <2>2. /\ at' \in [Procs -> Stages] /\ at'[Hook] = "poll"
        /\ \A q \in Procs \ {Hook} : at'[q] = at[q]
    BY <1>0, <2>1, StageLaws, ProcLaws
  <2>3. /\ marker' \in Lock /\ marker'.sh = marker.sh \ {Hook}
        /\ marker'.ex = IF marker.ex = Hook THEN Nobody ELSE marker.ex
    BY <1>0, <2>1, LockLaws
  <2>4. ReadinessTypeOK'
    BY <1>0, <2>1, <2>2, <2>3, ProcLaws DEF ReadinessTypeOK, Tokens
  <2>5. LeaseInv'
    BY <1>0, <2>1, <2>2, <2>3, ProcLaws DEF LeaseInv, Starting
  <2>6. ReadyInv'
    BY <1>0, <2>1, <2>2, <2>3, ProcLaws DEF ReadyInv, LeaseInv, Starting
  <2>7. CommandInv'
    BY <1>0, <2>1, <2>2, <2>3, ProcLaws, HolderLaws DEF CommandInv, HookDecides
  <2> QED BY <2>4, <2>5, <2>6, <2>7
<1>4. CASE TryLive
  <2>1. /\ at[Hook] = "try"
        /\ at' = [at EXCEPT ![Hook] = "none"]
        /\ verdict' = IF coordinator = Nobody THEN "refused" ELSE "handled"
        /\ lease' = lease /\ ready' = ready /\ marker' = marker
        /\ leaseToken' = leaseToken /\ readyToken' = readyToken
        /\ coordinator' = coordinator /\ token' = token /\ seen' = seen
        /\ hookOf' = hookOf /\ published' = published
    BY <1>0, <1>4
    DEF TryLive, Goes, locks, tokens, Returns
  <2>2. /\ at' \in [Procs -> Stages] /\ at'[Hook] = "none"
        /\ \A q \in Procs \ {Hook} : at'[q] = at[q]
    BY <1>0, <2>1, StageLaws, ProcLaws
  <2>3. ReadinessTypeOK'
    BY <1>0, <2>1, <2>2, ProcLaws DEF ReadinessTypeOK, Tokens
  <2>4. LeaseInv'
    BY <1>0, <2>1, <2>2, ProcLaws DEF LeaseInv, Starting
  <2>5. ReadyInv'
    BY <1>0, <2>1, <2>2, ProcLaws DEF ReadyInv, LeaseInv, Starting
  <2>6. CommandInv'
    BY <1>0, <2>1, <2>2, ProcLaws, HolderLaws DEF CommandInv, HookDecides
  <2> QED BY <2>3, <2>4, <2>5, <2>6
<1>5. CASE Reprobe
  <2>1. CASE Shared(marker)
    <3>1. /\ at[Hook] = "acquired"
          /\ at' = [at EXCEPT ![Hook] = "reprobed"]
          /\ marker' = Joined(marker, Hook)
          /\ lease' = lease /\ ready' = ready /\ leaseToken' = leaseToken
          /\ readyToken' = readyToken /\ coordinator' = coordinator /\ token' = token
          /\ seen' = seen /\ hookOf' = hookOf /\ verdict' = verdict
          /\ published' = published
      BY <1>0, <1>5, <2>1
      DEF Reprobe, tokens, hooks, Shared
    <3>2. /\ at' \in [Procs -> Stages] /\ at'[Hook] = "reprobed"
          /\ \A q \in Procs \ {Hook} : at'[q] = at[q]
      BY <1>0, <3>1, StageLaws, ProcLaws
    <3>3. /\ marker' \in Lock /\ marker'.ex = marker.ex /\ marker'.sh = marker.sh \cup {Hook}
      BY <1>0, <3>1, LockLaws
    <3>4. /\ marker.ex = Nobody
      BY <1>5, <2>1 DEF Reprobe, Shared
    <3>5. ReadinessTypeOK'
      BY <1>0, <3>1, <3>2, <3>3, <3>4, ProcLaws DEF ReadinessTypeOK, Tokens
    <3>6. LeaseInv'
      BY <1>0, <3>1, <3>2, <3>3, <3>4, ProcLaws DEF LeaseInv, Starting
    <3>7. ReadyInv'
      BY <1>0, <3>1, <3>2, <3>3, <3>4, ProcLaws DEF ReadyInv, LeaseInv, Starting
    <3>8. CommandInv'
      BY <1>0, <3>1, <3>2, <3>3, <3>4, ProcLaws, HolderLaws DEF CommandInv, HookDecides
    <3> QED BY <3>5, <3>6, <3>7, <3>8
  <2>2. CASE ~Shared(marker)
    <3>1. /\ at[Hook] = "acquired"
          /\ at' = [at EXCEPT ![Hook] = "none"]
          /\ lease' = Left(lease, Hook)
          /\ coordinator' = Nobody
          /\ verdict' = "refused"
          /\ ready' = ready /\ marker' = marker /\ leaseToken' = leaseToken
          /\ readyToken' = readyToken /\ token' = token /\ seen' = seen
          /\ hookOf' = hookOf /\ published' = published
      BY <1>0, <1>5, <2>2
      DEF Reprobe, tokens, Shared
    <3>2. /\ at' \in [Procs -> Stages] /\ at'[Hook] = "none"
          /\ \A q \in Procs \ {Hook} : at'[q] = at[q]
      BY <1>0, <3>1, StageLaws, ProcLaws
    <3>3. /\ lease' \in Lock /\ lease'.sh = lease.sh \ {Hook}
          /\ lease'.ex = IF lease.ex = Hook THEN Nobody ELSE lease.ex
      BY <1>0, <3>1, LockLaws
    <3>4. ReadinessTypeOK'
      BY <1>0, <3>1, <3>2, <3>3, ProcLaws DEF ReadinessTypeOK, Tokens
    <3>5. LeaseInv'
      BY <1>0, <3>1, <3>2, <3>3, ProcLaws DEF LeaseInv, Starting
    <3>6. ReadyInv'
      BY <1>0, <3>1, <3>2, <3>3, ProcLaws DEF ReadyInv, LeaseInv, Starting
    <3>7. CommandInv'
      BY <1>0, <3>1, <3>2, <3>3, ProcLaws, HolderLaws DEF CommandInv, HookDecides
    <3> QED BY <3>4, <3>5, <3>6, <3>7
  <2> QED BY <2>1, <2>2
<1>6. CASE Finalize
  <2>1. /\ at[Hook] = "reprobed"
        /\ at' = [at EXCEPT ![Hook] = "finalizing"]
        /\ marker' = Left(marker, Hook)
        /\ lease' = lease /\ ready' = ready /\ leaseToken' = leaseToken
        /\ readyToken' = readyToken /\ coordinator' = coordinator /\ token' = token
        /\ seen' = seen /\ hookOf' = hookOf /\ verdict' = verdict
        /\ published' = published
    BY <1>0, <1>6
    DEF Finalize, Goes, tokens, hooks
  <2>2. /\ at' \in [Procs -> Stages] /\ at'[Hook] = "finalizing"
        /\ \A q \in Procs \ {Hook} : at'[q] = at[q]
    BY <1>0, <2>1, StageLaws, ProcLaws
  <2>3. /\ marker' \in Lock /\ marker'.sh = marker.sh \ {Hook}
        /\ marker'.ex = IF marker.ex = Hook THEN Nobody ELSE marker.ex
    BY <1>0, <2>1, LockLaws
  <2>4. ReadinessTypeOK'
    BY <1>0, <2>1, <2>2, <2>3, ProcLaws DEF ReadinessTypeOK, Tokens
  <2>5. LeaseInv'
    BY <1>0, <2>1, <2>2, <2>3, ProcLaws DEF LeaseInv, Starting
  <2>6. ReadyInv'
    BY <1>0, <2>1, <2>2, <2>3, ProcLaws DEF ReadyInv, LeaseInv, Starting
  <2>7. CommandInv'
    BY <1>0, <2>1, <2>2, <2>3, ProcLaws, HolderLaws DEF CommandInv, HookDecides
  <2> QED BY <2>4, <2>5, <2>6, <2>7
<1> QED BY <1>1, <1>2, <1>3, <1>4, <1>5, <1>6

-----------------------------------------------------------------------------
LEMMA ReadinessInvNext ==
  ReadinessInv /\ [ReadinessNext]_readinessVars => ReadinessInv'
<1> SUFFICES ASSUME ReadinessInv, [ReadinessNext]_readinessVars PROVE ReadinessInv'
  OBVIOUS
<1>1. CASE ReadinessNext
  BY <1>1, StartKeeps, GuardKeeps, OperationKeeps, HookKeeps DEF ReadinessNext
<1>2. CASE UNCHANGED readinessVars
  BY <1>2 DEF readinessVars, locks, tokens, hooks, ReadinessInv, ReadinessTypeOK,
     LeaseInv, ReadyInv, CommandInv, HookDecides
<1> QED BY <1>1, <1>2

LEMMA ReadinessInvAlways == ReadinessSpec => []ReadinessInv
  BY ReadinessInvInit, ReadinessInvNext, PTL DEF ReadinessSpec

\* For every set of panels and every number of starts: who holds the ready guard
\* works with the newest generation that took the lease, and no panel is on its way
\* to become another one (AcquireRuntimeReadyGuard).
THEOREM GuardIsSound == ReadinessSpec => []GuardPinsGeneration
<1>1. ReadinessInv => GuardPinsGeneration
  <2> SUFFICES ASSUME ReadinessInv, NEW p \in Procs, Guarding(p)
               PROVE  leaseToken \in published /\ \A q \in Panels : at[q] \notin Starting
    BY DEF GuardPinsGeneration
  <2>1. p \in lease.sh /\ at[p] \notin {"read", "look", "stale"}
    BY DEF ReadinessInv, LeaseInv, Guarding, Acting
  <2>2. lease.ex = Nobody /\ leaseToken \in published
    BY <2>1 DEF ReadinessInv, LeaseInv
  <2>3. ASSUME NEW q \in Panels PROVE at[q] \notin Starting
    BY <2>2, ProcLaws DEF ReadinessInv, LeaseInv
  <2> QED BY <2>2, <2>3
<1> QED BY <1>1, ReadinessInvAlways, PTL

\* A second panel that fails to start leaves a ready one published: both files name
\* the panel that has the ready lock (BeginRuntimeStartup).
THEOREM ReadyOwnerSurvives == ReadinessSpec => []ReadyStaysPublished
<1>1. ReadinessInv => ReadyStaysPublished
  BY DEF ReadinessInv, ReadyInv, ReadyStaysPublished
<1> QED BY <1>1, ReadinessInvAlways, PTL

\* The hook of a service command that is waited for takes neither a lock nor the
\* coordinator, and one that finalizes has nobody waiting for it: the command and
\* its own hook never wait on each other.
THEOREM HookNeverWaits == ReadinessSpec => []HookDecides
<1>1. ReadinessInv => HookDecides
  BY DEF ReadinessInv, CommandInv
<1> QED BY <1>1, ReadinessInvAlways, PTL

\* The locks, tokens and files keep their types, whoever dies where.
THEOREM ReadinessTypeCorrect == ReadinessSpec => []ReadinessTypeOK
<1>1. ReadinessInv => ReadinessTypeOK
  BY DEF ReadinessInv
<1> QED BY <1>1, ReadinessInvAlways, PTL

=============================================================================
