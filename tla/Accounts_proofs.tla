-------------------------- MODULE Accounts_proofs --------------------------
(***************************************************************************)
(* Theorems about Accounts.  Both invariants follow from AccountsInv: the  *)
(* tables and the answers agree, and a request under way knows what its    *)
(* next statement will find.                                               *)
(***************************************************************************)
EXTENDS Accounts, Integers, TLAPS

USE AccountsAssumption

\* A panel that is up has a bootstrap row.
PanelInv == panel # "down" => capability # "none"

\* What a request of c has seen, while its session and its answer are open.
CallInv(c) ==
  /\ call[c].what = "setup" => session[c] = 0 /\ (call[c].seen # 0 => admin # 0)
  /\ call[c].what = "login" /\ call[c].at \in {"lookup", "insert"} => session[c] = 0
  /\ call[c].what \in {"setup", "login"} => told[c] \in {"busy", "lost"}
  /\ call[c].what = "login" /\ call[c].at = "insert" =>
       call[c].seen # 0 /\ (call[c].seen = admin \/ late[c])

SetupInv ==
  /\ AccountsTypeOK /\ PanelInv /\ SetupOnce
  /\ \A c \in Callers : CallInv(c)

AccountsInv == SetupInv /\ ("delete" \notin StepsThatFail => SessionsAccounted)

-----------------------------------------------------------------------------
LEMMA AccountsInvInit == AccountsInit => AccountsInv
  BY DEF AccountsInit, AccountsInv, SetupInv, AccountsTypeOK, PanelInv, SetupOnce,
     CapabilityMatchesAccounts, AnswersMatchAccounts, CallInv, SessionsAccounted,
     NoCall, Calls, Answers

\* The answer to a request, and its next statement.
LEMMA AnswerTyped ==
  ASSUME AccountsTypeOK, NEW c \in Callers, NEW answer \in Answers,
         Answered(c, answer)
  PROVE  /\ call' \in [Callers -> Calls] /\ told' \in [Callers -> Answers]
         /\ call'[c].what = "none"
         /\ told'[c] = IF told[c] = "lost" THEN "lost" ELSE answer
         /\ \A d \in Callers \ {c} : call'[d] = call[d] /\ told'[d] = told[d]
  BY DEF Answered, AccountsTypeOK, NoCall, Calls, Answers

LEMMA StepTyped ==
  ASSUME AccountsTypeOK, NEW c \in Callers,
         NEW at \in {"state", "slot", "complete", "insert", "audit", "delete", "update"},
         NEW seen \in 0..MaxPasswords,
         call' = [call EXCEPT ![c].at = at, ![c].seen = seen]
  PROVE  /\ call' \in [Callers -> Calls]
         /\ call'[c].what = call[c].what /\ call'[c].at = at /\ call'[c].seen = seen
         /\ \A d \in Callers \ {c} : call'[d] = call[d]
<1>1. call[c] \in Calls
  BY DEF AccountsTypeOK
<1>2. [call[c] EXCEPT !.at = at, !.seen = seen] \in Calls
  BY <1>1 DEF Calls
<1> QED BY <1>2 DEF AccountsTypeOK, Calls

LEMMA GoTyped ==
  ASSUME AccountsTypeOK, NEW c \in Callers,
         NEW at \in {"state", "slot", "complete", "insert", "audit", "delete", "update"},
         Go(c, at)
  PROVE  /\ call' \in [Callers -> Calls]
         /\ call'[c].what = call[c].what /\ call'[c].at = at
         /\ call'[c].seen = call[c].seen
         /\ \A d \in Callers \ {c} : call'[d] = call[d]
<1>1. [call[c] EXCEPT !.at = at] \in Calls
  BY DEF AccountsTypeOK, Calls
<1> QED BY <1>1 DEF Go, AccountsTypeOK, Calls

LEMMA AskTyped ==
  ASSUME AccountsTypeOK, NEW c \in Callers,
         NEW what \in {"setup", "status", "login", "change"},
         NEW at \in {"count", "lookup", "verify"}, Ask(c, what, at)
  PROVE  /\ call' \in [Callers -> Calls]
         /\ call'[c].what = what /\ call'[c].at = at /\ call'[c].seen = 0
         /\ \A d \in Callers \ {c} : call'[d] = call[d]
<1>1. [what |-> what, at |-> at, seen |-> 0] \in Calls
  BY DEF Calls
<1> QED BY <1>1 DEF Ask, AccountsTypeOK

-----------------------------------------------------------------------------
\* The process of the panel.
LEMMA PanelKeeps ==
  ASSUME AccountsInv, EnsureBootstrap \/ DeleteExpiredSessions \/ PanelDies
  PROVE  AccountsInv'
<1> USE DEF AccountsInv, SetupInv
<1>1. CASE EnsureBootstrap
  BY <1>1 DEF EnsureBootstrap, AccountsTypeOK, PanelInv, SetupOnce,
     CapabilityMatchesAccounts, AnswersMatchAccounts, CallInv, SessionsAccounted
<1>2. CASE DeleteExpiredSessions
  <2>1. AccountsTypeOK' /\ \A c \in Callers : session'[c] \in {0, session[c]}
    BY <1>2 DEF DeleteExpiredSessions, AccountsTypeOK
  <2> QED
    BY <1>2, <2>1 DEF DeleteExpiredSessions, PanelInv, SetupOnce,
       CapabilityMatchesAccounts, AnswersMatchAccounts, CallInv, SessionsAccounted
<1>3. CASE PanelDies
  <2>1. NoCall \in Calls /\ NoCall.what = "none"
    BY DEF NoCall, Calls
  <2>2. /\ AccountsTypeOK'
        /\ \A c \in Callers : /\ call'[c].what = "none"
                              /\ told'[c] = IF told[c] = "busy" THEN "lost" ELSE told[c]
    BY <1>3, <2>1 DEF PanelDies, AccountsTypeOK, Answers
  <2> QED
    BY <1>3, <2>2 DEF PanelDies, PanelInv, SetupOnce,
       CapabilityMatchesAccounts, AnswersMatchAccounts, CallInv, SessionsAccounted
<1> QED BY <1>1, <1>2, <1>3

-----------------------------------------------------------------------------
\* The requests, before they write.
LEMMA AskKeeps ==
  ASSUME AccountsInv, NEW c \in Callers,
         AskSetup(c) \/ AskStatus(c) \/ AskLogin(c) \/ Authenticate(c) \/ HangUp(c)
  PROVE  AccountsInv'
<1> USE DEF AccountsInv, SetupInv
<1>1. CASE AskSetup(c)
  <2>1. /\ call' \in [Callers -> Calls]
        /\ call'[c].what = "setup" /\ call'[c].at = "count" /\ call'[c].seen = 0
        /\ \A d \in Callers \ {c} : call'[d] = call[d]
    BY <1>1, AskTyped DEF AskSetup
  <2>2. /\ told' \in [Callers -> Answers] /\ told'[c] = "busy"
        /\ \A d \in Callers \ {c} : told'[d] = told[d]
    BY <1>1 DEF AskSetup, AccountsTypeOK, Answers
  <2> QED
    BY <1>1, <2>1, <2>2 DEF AskSetup, AccountsTypeOK, PanelInv, SetupOnce,
       CapabilityMatchesAccounts, AnswersMatchAccounts, CallInv, SessionsAccounted
<1>2. CASE AskStatus(c)
  <2>1. /\ call' \in [Callers -> Calls] /\ call'[c].what = "status"
        /\ \A d \in Callers \ {c} : call'[d] = call[d]
    BY <1>2, AskTyped DEF AskStatus
  <2> QED
    BY <1>2, <2>1 DEF AskStatus, AccountsTypeOK, PanelInv, SetupOnce,
       CapabilityMatchesAccounts, AnswersMatchAccounts, CallInv, SessionsAccounted
<1>3. CASE AskLogin(c)
  <2>1. /\ call' \in [Callers -> Calls]
        /\ call'[c].what = "login" /\ call'[c].at = "lookup"
        /\ \A d \in Callers \ {c} : call'[d] = call[d]
    BY <1>3, AskTyped DEF AskLogin
  <2>2. /\ told' \in [Callers -> Answers] /\ told'[c] = "busy"
        /\ \A d \in Callers \ {c} : told'[d] = told[d]
    BY <1>3 DEF AskLogin, AccountsTypeOK, Answers
  <2>3. /\ late' \in [Callers -> BOOLEAN]
        /\ \A d \in Callers \ {c} : late'[d] = late[d]
    BY <1>3 DEF AskLogin, AccountsTypeOK
  <2> QED
    BY <1>3, <2>1, <2>2, <2>3 DEF AskLogin, AccountsTypeOK, PanelInv, SetupOnce,
       CapabilityMatchesAccounts, AnswersMatchAccounts, CallInv, SessionsAccounted
<1>4. CASE Authenticate(c)
  <2>1. /\ call' \in [Callers -> Calls] /\ call'[c].what = "change"
        /\ \A d \in Callers \ {c} : call'[d] = call[d]
    BY <1>4, AskTyped DEF Authenticate
  <2> QED
    BY <1>4, <2>1 DEF Authenticate, AccountsTypeOK, PanelInv, SetupOnce,
       CapabilityMatchesAccounts, AnswersMatchAccounts, CallInv, SessionsAccounted
<1>5. CASE HangUp(c)
  <2>1. /\ told' \in [Callers -> Answers] /\ told'[c] = "lost"
        /\ \A d \in Callers \ {c} : told'[d] = told[d]
    BY <1>5 DEF HangUp, AccountsTypeOK, Answers
  <2> QED
    BY <1>5, <2>1 DEF HangUp, AccountsTypeOK, PanelInv, SetupOnce,
       CapabilityMatchesAccounts, AnswersMatchAccounts, CallInv, SessionsAccounted
<1> QED BY <1>1, <1>2, <1>3, <1>4, <1>5

\* A setup is told that there is an account only when there is one.
LEMMA SetupKeeps ==
  ASSUME AccountsInv, NEW c \in Callers,
         AdminCount(c) \/ SetupStatus(c) \/ BootstrapState(c) \/ TakeSlot(c)
  PROVE  AccountsInv'
<1> USE DEF AccountsInv, SetupInv
<1>1. UNCHANGED <<admin, capability, session, panel, late>> /\ panel = "up"
  BY DEF AdminCount, SetupStatus, BootstrapState, TakeSlot, At
<1>2. CASE AdminCount(c)
  <2>1. admin \in 0..MaxPasswords
    BY DEF AccountsTypeOK
  <2>2. call' = [call EXCEPT ![c].at = "state", ![c].seen = admin]
    BY <1>2 DEF AdminCount
  <2>3. /\ call' \in [Callers -> Calls]
        /\ call'[c].what = call[c].what /\ call'[c].at = "state" /\ call'[c].seen = admin
        /\ \A d \in Callers \ {c} : call'[d] = call[d]
    BY <2>1, <2>2, StepTyped
  <2> QED
    BY <1>1, <1>2, <2>3 DEF AdminCount, AccountsTypeOK, PanelInv, SetupOnce, At,
       CapabilityMatchesAccounts, AnswersMatchAccounts, CallInv, SessionsAccounted
<1>3. CASE SetupStatus(c)
  <2>1. NoCall \in Calls /\ NoCall.what = "none"
    BY DEF NoCall, Calls
  <2>2. /\ call' \in [Callers -> Calls] /\ call'[c].what = "none"
        /\ \A d \in Callers \ {c} : call'[d] = call[d]
    BY <1>3, <2>1 DEF SetupStatus, AccountsTypeOK
  <2> QED
    BY <1>1, <1>3, <2>2 DEF SetupStatus, AccountsTypeOK, PanelInv, SetupOnce,
       CapabilityMatchesAccounts, AnswersMatchAccounts, CallInv, SessionsAccounted
<1>4. ASSUME NEW at \in {"slot", "complete"}, Go(c, at), UNCHANGED told, call[c].what = "setup"
      PROVE  AccountsInv'
  <2>1. /\ call' \in [Callers -> Calls]
        /\ call'[c].what = call[c].what /\ call'[c].at = at
        /\ call'[c].seen = call[c].seen
        /\ \A d \in Callers \ {c} : call'[d] = call[d]
    BY <1>4, GoTyped
  <2> QED
    BY <1>1, <1>4, <2>1 DEF AccountsTypeOK, PanelInv, SetupOnce,
       CapabilityMatchesAccounts, AnswersMatchAccounts, CallInv, SessionsAccounted
<1>5. ASSUME NEW answer \in {"error", "completed", "limited", "refused"},
             Answered(c, answer), call[c].what = "setup",
             answer = "completed" => admin # 0
      PROVE  AccountsInv'
  <2>1. /\ call' \in [Callers -> Calls] /\ told' \in [Callers -> Answers]
        /\ call'[c].what = "none"
        /\ told'[c] = IF told[c] = "lost" THEN "lost" ELSE answer
        /\ \A d \in Callers \ {c} : call'[d] = call[d] /\ told'[d] = told[d]
    BY <1>5, AnswerTyped DEF Answers
  <2> QED
    BY <1>1, <1>5, <2>1 DEF AccountsTypeOK, PanelInv, SetupOnce,
       CapabilityMatchesAccounts, AnswersMatchAccounts, CallInv, SessionsAccounted
<1>6. CASE BootstrapState(c)
  <2>1. call[c].what = "setup" /\ (call[c].seen # 0 => admin # 0)
    BY <1>6 DEF BootstrapState, At, CallInv
  <2>2. CASE Required(call[c].seen)
    BY <1>4, <1>6, <2>1, <2>2 DEF BootstrapState
  <2>3. CASE ~Required(call[c].seen) /\ Unavailable(call[c].seen)
    BY <1>5, <1>6, <2>1, <2>3 DEF BootstrapState
  <2>4. CASE ~Required(call[c].seen) /\ ~Unavailable(call[c].seen)
    <3>1. call[c].seen # 0
      BY <1>1, <2>4 DEF Required, Unavailable, PanelInv, AccountsTypeOK
    <3>2. Answered(c, "completed")
      BY <1>6, <2>4 DEF BootstrapState
    <3> QED BY <1>5, <2>1, <3>1, <3>2
  <2> QED BY <2>2, <2>3, <2>4
<1>7. CASE TakeSlot(c)
  BY <1>4, <1>5, <1>7 DEF TakeSlot, At
<1> QED BY <1>2, <1>3, <1>6, <1>7

\* The transaction that creates the account finds none, so no other session or
\* answer counts on one.
LEMMA CreationKeeps ==
  ASSUME AccountsInv, NEW c \in Callers, CompleteBootstrap(c)
  PROVE  AccountsInv'
<1> USE DEF AccountsInv, SetupInv
<1>1. /\ call[c].what = "setup" /\ panel' = panel /\ panel = "up"
      /\ told[c] \in {"busy", "lost"}
  BY DEF CompleteBootstrap, At, CallInv
<1>2. ASSUME NEW answer \in {"created", "completed", "error"}, Answered(c, answer)
      PROVE  /\ call' \in [Callers -> Calls] /\ told' \in [Callers -> Answers]
             /\ call'[c].what = "none"
             /\ told'[c] = IF told[c] = "lost" THEN "lost" ELSE answer
             /\ \A d \in Callers \ {c} : call'[d] = call[d] /\ told'[d] = told[d]
  BY <1>2, AnswerTyped DEF Answers
<1>3. ASSUME StillRequired, admin' = 1, capability' = "consumed",
             session' = [session EXCEPT ![c] = 1], late' = [late EXCEPT ![c] = FALSE],
             Answered(c, "created")
      PROVE  AccountsInv'
  <2>1. /\ session' \in [Callers -> 0..MaxPasswords] /\ session'[c] = 1
        /\ late' \in [Callers -> BOOLEAN] /\ ~late'[c]
        /\ \A d \in Callers \ {c} : session'[d] = session[d] /\ late'[d] = late[d]
    BY <1>3 DEF AccountsTypeOK
  <2>2. /\ call' \in [Callers -> Calls] /\ told' \in [Callers -> Answers]
        /\ call'[c].what = "none"
        /\ told'[c] = IF told[c] = "lost" THEN "lost" ELSE "created"
        /\ \A d \in Callers \ {c} : call'[d] = call[d] /\ told'[d] = told[d]
    BY <1>2, <1>3
  <2>3. admin = 0 /\ \A d \in Callers : told[d] \notin {"created", "completed"}
    BY <1>3 DEF StillRequired, SetupOnce, AnswersMatchAccounts
  <2>4. AccountsTypeOK' /\ PanelInv' /\ SetupOnce'
    BY <1>1, <1>3, <2>1, <2>2, <2>3 DEF AccountsTypeOK, PanelInv, SetupOnce,
       CapabilityMatchesAccounts, AnswersMatchAccounts
  <2>5. ASSUME NEW d \in Callers PROVE CallInv(d)'
    BY <1>3, <2>1, <2>2, <2>3 DEF CallInv
  <2>6. ("delete" \notin StepsThatFail => SessionsAccounted)'
    BY <1>1, <1>3, <2>1, <2>2, <2>3 DEF SessionsAccounted
  <2> QED BY <2>4, <2>5, <2>6
<1>4. ASSUME NEW answer \in {"completed", "error"}, Answered(c, answer),
             answer = "completed" => admin # 0,
             UNCHANGED <<admin, capability, session, late>>
      PROVE  AccountsInv'
  <2>1. /\ call' \in [Callers -> Calls] /\ told' \in [Callers -> Answers]
        /\ call'[c].what = "none"
        /\ told'[c] = IF told[c] = "lost" THEN "lost" ELSE answer
        /\ \A d \in Callers \ {c} : call'[d] = call[d] /\ told'[d] = told[d]
    BY <1>2, <1>4
  <2> QED
    BY <1>1, <1>4, <2>1 DEF AccountsTypeOK, PanelInv, SetupOnce,
       CapabilityMatchesAccounts, AnswersMatchAccounts, CallInv, SessionsAccounted
<1>5. ~StillRequired => admin # 0
  BY <1>1 DEF StillRequired, SetupOnce, CapabilityMatchesAccounts, PanelInv, AccountsTypeOK
<1>6. PICK ok \in BOOLEAN :
        IF StillRequired /\ ok
        THEN /\ admin' = 1 /\ capability' = "consumed"
             /\ session' = [session EXCEPT ![c] = 1] /\ late' = [late EXCEPT ![c] = FALSE]
             /\ Answered(c, "created")
        ELSE /\ Answered(c, IF ok THEN "completed" ELSE "error")
             /\ UNCHANGED <<admin, capability, session, late>>
  BY DEF CompleteBootstrap, Fallible
<1>7. CASE StillRequired /\ ok
  BY <1>3, <1>6, <1>7
<1>8. CASE ~(StillRequired /\ ok)
  BY <1>4, <1>5, <1>6, <1>8
<1> QED BY <1>7, <1>8

-----------------------------------------------------------------------------
LEMMA LoginKeeps ==
  ASSUME AccountsInv, NEW c \in Callers,
         Login(c) \/ CreateSession(c) \/ AuditLogin(c) \/ DeleteSession(c) \/ Logout(c)
  PROVE  AccountsInv'
<1> USE DEF AccountsInv, SetupInv
<1>1. ASSUME NEW answer \in {"refused", "error", "in"}, Answered(c, answer)
      PROVE  /\ call' \in [Callers -> Calls] /\ told' \in [Callers -> Answers]
             /\ call'[c].what = "none"
             /\ told'[c] = IF told[c] = "lost" THEN "lost" ELSE answer
             /\ \A d \in Callers \ {c} : call'[d] = call[d] /\ told'[d] = told[d]
  BY <1>1, AnswerTyped DEF Answers
<1>2. CASE Login(c)
  <2>1. CASE Answered(c, "refused")
    BY <1>1, <1>2, <2>1 DEF Login, At, AccountsTypeOK, PanelInv, SetupOnce,
       CapabilityMatchesAccounts, AnswersMatchAccounts, CallInv, SessionsAccounted
  <2>2. CASE admin # 0 /\ UNCHANGED told
             /\ call' = [call EXCEPT ![c].at = "insert", ![c].seen = admin]
    <3>1. admin \in 0..MaxPasswords
      BY DEF AccountsTypeOK
    <3>2. /\ call' \in [Callers -> Calls]
          /\ call'[c].what = call[c].what /\ call'[c].at = "insert"
          /\ call'[c].seen = admin
          /\ \A d \in Callers \ {c} : call'[d] = call[d]
      BY <2>2, <3>1, StepTyped
    <3> QED
      BY <1>2, <2>2, <3>2 DEF Login, At, AccountsTypeOK, PanelInv, SetupOnce,
         CapabilityMatchesAccounts, AnswersMatchAccounts, CallInv, SessionsAccounted
  <2> QED BY <1>2, <2>1, <2>2 DEF Login
<1>3. CASE CreateSession(c)
  <2>1. /\ call[c].what = "login" /\ call[c].at = "insert"
        /\ UNCHANGED <<admin, capability, panel, late>>
    BY <1>3 DEF CreateSession, At
  <2>2. CASE session' = [session EXCEPT ![c] = call[c].seen] /\ Go(c, "audit") /\ UNCHANGED told
    <3>1. /\ call' \in [Callers -> Calls]
          /\ call'[c].what = call[c].what /\ call'[c].at = "audit"
          /\ \A d \in Callers \ {c} : call'[d] = call[d]
      BY <2>2, GoTyped
    <3>2. /\ session' \in [Callers -> 0..MaxPasswords] /\ session'[c] = call[c].seen
          /\ \A d \in Callers \ {c} : session'[d] = session[d]
      BY <2>2 DEF AccountsTypeOK, Calls
    <3> QED
      BY <2>1, <2>2, <3>1, <3>2 DEF AccountsTypeOK, PanelInv, SetupOnce,
         CapabilityMatchesAccounts, AnswersMatchAccounts, CallInv, SessionsAccounted
  <2>3. CASE Answered(c, "error") /\ UNCHANGED session
    BY <1>1, <2>1, <2>3 DEF AccountsTypeOK, PanelInv, SetupOnce,
       CapabilityMatchesAccounts, AnswersMatchAccounts, CallInv, SessionsAccounted
  <2> QED BY <1>3, <2>2, <2>3 DEF CreateSession
<1>4. CASE AuditLogin(c)
  <2>1. /\ call[c].what = "login" /\ call[c].at = "audit"
        /\ UNCHANGED <<admin, capability, session, panel, late>>
    BY <1>4 DEF AuditLogin, At
  <2>2. CASE Answered(c, "in")
    BY <1>1, <2>1, <2>2 DEF AccountsTypeOK, PanelInv, SetupOnce,
       CapabilityMatchesAccounts, AnswersMatchAccounts, CallInv, SessionsAccounted
  <2>3. CASE Go(c, "delete") /\ UNCHANGED told
    <3>1. /\ call' \in [Callers -> Calls]
          /\ call'[c].what = call[c].what /\ call'[c].at = "delete"
          /\ \A d \in Callers \ {c} : call'[d] = call[d]
      BY <2>3, GoTyped
    <3> QED
      BY <2>1, <2>3, <3>1 DEF AccountsTypeOK, PanelInv, SetupOnce,
         CapabilityMatchesAccounts, AnswersMatchAccounts, CallInv, SessionsAccounted
  <2> QED BY <1>4, <2>2, <2>3 DEF AuditLogin
<1>5. CASE DeleteSession(c)
  <2>1. /\ call[c].what = "login" /\ Answered(c, "error")
        /\ UNCHANGED <<admin, capability, panel, late>>
        /\ told[c] \in {"busy", "lost"}
    BY <1>5 DEF DeleteSession, At, CallInv
  <2>2. /\ session' \in [Callers -> 0..MaxPasswords] /\ session'[c] \in {0, session[c]}
        /\ \A d \in Callers \ {c} : session'[d] = session[d]
    BY <1>5 DEF DeleteSession, AccountsTypeOK
  <2>3. "delete" \notin StepsThatFail /\ told[c] # "lost" => session'[c] = 0
    <3> SUFFICES ASSUME "delete" \notin StepsThatFail, told[c] # "lost"
                 PROVE  session'[c] = 0
      OBVIOUS
    <3>1. Fallible(c, "delete") = {TRUE}
      BY Zenon DEF Fallible
    <3>2. session' = [session EXCEPT ![c] = 0]
      BY <1>5, <3>1 DEF DeleteSession
    <3> QED BY <3>2 DEF AccountsTypeOK
  <2> QED
    BY <1>1, <2>1, <2>2, <2>3 DEF AccountsTypeOK, PanelInv, SetupOnce,
       CapabilityMatchesAccounts, AnswersMatchAccounts, CallInv, SessionsAccounted
<1>6. CASE Logout(c)
  <2>1. /\ session' \in [Callers -> 0..MaxPasswords] /\ session'[c] = 0
        /\ \A d \in Callers \ {c} : session'[d] = session[d]
    BY <1>6 DEF Logout, AccountsTypeOK
  <2> QED
    BY <1>6, <2>1 DEF Logout, AccountsTypeOK, PanelInv, SetupOnce,
       CapabilityMatchesAccounts, AnswersMatchAccounts, CallInv, SessionsAccounted
<1> QED BY <1>2, <1>3, <1>4, <1>5, <1>6

-----------------------------------------------------------------------------
\* A new password ends every session, and marks the logins that verified the old.
LEMMA ReplacementKeeps ==
  ASSUME AccountsInv, ReplacePassword, UNCHANGED <<capability, panel, told>>,
         call' \in [Callers -> Calls],
         \A d \in Callers : call'[d] = call[d] \/ call'[d].what = "none"
  PROVE  AccountsInv'
<1> USE DEF AccountsInv, SetupInv
<1>1. /\ admin' \in 0..MaxPasswords /\ admin # 0 /\ admin' # 0
      /\ \A d \in Callers : session'[d] = 0 /\ late'[d] = (late[d] \/ call[d].at = "insert")
      /\ session' \in [Callers -> 0..MaxPasswords] /\ late' \in [Callers -> BOOLEAN]
  BY DEF ReplacePassword, AccountsTypeOK
<1> QED
  BY <1>1 DEF AccountsTypeOK, PanelInv, SetupOnce,
     CapabilityMatchesAccounts, AnswersMatchAccounts, CallInv, SessionsAccounted

LEMMA ChangeKeeps ==
  ASSUME AccountsInv, NEW c \in Callers, VerifyPassword(c) \/ UpdateAdminPassword(c)
  PROVE  AccountsInv'
<1> USE DEF AccountsInv, SetupInv
<1>1. UNCHANGED <<capability, panel, told>> /\ call[c].what = "change"
  BY DEF VerifyPassword, UpdateAdminPassword, At
<1>2. ASSUME call' = [call EXCEPT ![c] = NoCall]
      PROVE  /\ call' \in [Callers -> Calls] /\ call'[c].what = "none"
             /\ \A d \in Callers \ {c} : call'[d] = call[d]
  BY <1>2 DEF AccountsTypeOK, NoCall, Calls
<1>3. ASSUME UNCHANGED <<admin, session, late>>, call' \in [Callers -> Calls],
             \A d \in Callers \ {c} : call'[d] = call[d],
             call'[c].what \in {"none", "change"}
      PROVE  AccountsInv'
  BY <1>1, <1>3 DEF AccountsTypeOK, PanelInv, SetupOnce,
     CapabilityMatchesAccounts, AnswersMatchAccounts, CallInv, SessionsAccounted
<1>4. CASE VerifyPassword(c)
  <2>1. CASE Go(c, "update")
    BY <1>1, <1>3, <1>4, <2>1, GoTyped DEF VerifyPassword
  <2> QED BY <1>2, <1>3, <1>4, <2>1 DEF VerifyPassword
<1>5. CASE UpdateAdminPassword(c)
  <2>1. /\ call' \in [Callers -> Calls] /\ call'[c].what = "none"
        /\ \A d \in Callers \ {c} : call'[d] = call[d]
    BY <1>2, <1>5 DEF UpdateAdminPassword
  <2>2. CASE ReplacePassword
    BY <1>1, <2>1, <2>2, ReplacementKeeps
  <2>3. CASE UNCHANGED <<admin, session, late>>
    BY <1>3, <2>1, <2>3
  <2> QED BY <1>5, <2>2, <2>3 DEF UpdateAdminPassword
<1> QED BY <1>4, <1>5

LEMMA ResetKeeps ==
  ASSUME AccountsInv, ResetAdminPassword
  PROVE  AccountsInv'
  BY ReplacementKeeps DEF ResetAdminPassword, AccountsInv, SetupInv, AccountsTypeOK

LEMMA AccountsInvNext ==
  AccountsInv /\ [AccountsNext]_accountsVars => AccountsInv'
<1> SUFFICES ASSUME AccountsInv, [AccountsNext]_accountsVars PROVE AccountsInv'
  OBVIOUS
<1>1. CASE AccountsNext
  BY <1>1, PanelKeeps, AskKeeps, SetupKeeps, CreationKeeps, LoginKeeps, ChangeKeeps,
     ResetKeeps
  DEF AccountsNext
<1>2. CASE UNCHANGED accountsVars
  BY <1>2 DEF accountsVars, AccountsInv, SetupInv, AccountsTypeOK, PanelInv, SetupOnce,
     CapabilityMatchesAccounts, AnswersMatchAccounts, CallInv, SessionsAccounted
<1> QED BY <1>1, <1>2

LEMMA AccountsInvAlways == AccountsSpec => []AccountsInv
  BY AccountsInvInit, AccountsInvNext, PTL DEF AccountsSpec

\* For every number of callers, setup slots and passwords, and whatever statements
\* fail: the first account is created once, one caller is answered with it, and the
\* bootstrap token is unused exactly as long as there is no account.
THEOREM SetupHappensOnce == AccountsSpec => []SetupOnce
<1>1. AccountsInv => SetupOnce
  BY DEF AccountsInv, SetupInv
<1> QED BY <1>1, AccountsInvAlways, PTL

\* If a session can be deleted while the browser waits: nobody who was refused or
\* told of an error while he waited holds a session, and a session was opened with
\* the current password unless the password was replaced while that login was under
\* way.
THEOREM SessionsAreAccounted ==
  ASSUME "delete" \notin StepsThatFail
  PROVE  AccountsSpec => []SessionsAccounted
<1>1. AccountsInv => SessionsAccounted
  BY DEF AccountsInv
<1> QED BY <1>1, AccountsInvAlways, PTL

\* Accounts, sessions, slots and calls keep their types, whatever statements fail.
THEOREM AccountsTypeCorrect == AccountsSpec => []AccountsTypeOK
<1>1. AccountsInv => AccountsTypeOK
  BY DEF AccountsInv, SetupInv
<1> QED BY <1>1, AccountsInvAlways, PTL

=============================================================================
