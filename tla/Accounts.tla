------------------------------ MODULE Accounts ------------------------------
(***************************************************************************)
(* The administrator account: its creation by the first setup, sessions,   *)
(* password changes and the local reset (internal/auth/service.go and      *)
(* bootstrap.go, over internal/store/bootstrap.go and auth.go, answered by *)
(* internal/httpapi/auth.go).  One action per statement or transaction;    *)
(* requests of several callers interleave between them, and the command    *)
(* line writes beside the panel.                                           *)
(***************************************************************************)
EXTENDS Naturals, FiniteSets

CONSTANTS
  Callers,       \* browsers, each with at most one stored session
  SetupSlots,    \* setups that may hash a password at the same time
  MaxPasswords,  \* bound: passwords the administrator ever has
  StepsThatFail  \* the statements that may fail while the browser waits

ASSUME AccountsAssumption ==
  /\ SetupSlots \in Nat \ {0} /\ MaxPasswords \in Nat \ {0}
  /\ StepsThatFail \subseteq {"complete", "insert", "audit", "delete", "change"}

VARIABLES
  admin,       \* admin_users: no row, or the count of passwords it has had
  capability,  \* bootstrap_state: no row, an unused token or consumed_at
  session,     \* sessions: of a caller, the password its login verified
  panel,       \* "down", "starting" or "up"
  call,        \* of a caller: the request under way
  told,        \* of a caller: the answer to its last setup or login
  late         \* observed: a login that read the password before it was replaced

accountsVars == <<admin, capability, session, panel, call, told, late>>

NoCall == [what |-> "none", at |-> "none", seen |-> 0]
Calls == [what : {"none", "setup", "status", "login", "change"},
          at : {"none", "count", "state", "slot", "complete", "lookup", "insert",
                "audit", "delete", "verify", "update"},
          seen : 0..MaxPasswords]
Answers == {"none", "busy", "lost", "created", "completed", "limited", "refused",
            "error", "in"}

Idle(c) == call[c].what = "none"
At(c, what, at) == panel = "up" /\ call[c].what = what /\ call[c].at = at
Ask(c, what, at) ==
  /\ panel = "up" /\ Idle(c)
  /\ call' = [call EXCEPT ![c] = [what |-> what, at |-> at, seen |-> 0]]
Go(c, at) == call' = [call EXCEPT ![c].at = at]
Answered(c, answer) ==
  /\ call' = [call EXCEPT ![c] = NoCall]
  /\ told' = [told EXCEPT ![c] = IF @ = "lost" THEN @ ELSE answer]
Fallible(c, step) ==
  IF step \in StepsThatFail \/ told[c] = "lost" THEN BOOLEAN ELSE {TRUE}

-----------------------------------------------------------------------------
\* An empty database, or one with an administrator from before there was a
\* bootstrap_state.
AccountsInit ==
  /\ admin \in {0, 1} /\ capability = "none"
  /\ session = [c \in Callers |-> 0] /\ panel = "down"
  /\ call = [c \in Callers |-> NoCall] /\ told = [c \in Callers |-> "none"]
  /\ late = [c \in Callers |-> FALSE]

\* EnsureBootstrap: its transaction; the reads before it only decide whether
\* there is a token to offer.
EnsureBootstrap ==
  /\ panel = "down"
  /\ capability' = IF admin # 0 THEN "consumed"
                   ELSE IF capability = "none" THEN "unused" ELSE capability
  /\ panel' = IF admin = 0 /\ capability = "consumed" THEN "down" ELSE "starting"
  /\ UNCHANGED <<admin, session, call, told, late>>

\* Any sessions may have expired by then.
DeleteExpiredSessions ==
  /\ panel = "starting" /\ panel' = "up"
  /\ \E expired \in SUBSET Callers :
       session' = [c \in Callers |-> IF c \in expired THEN 0 ELSE session[c]]
  /\ UNCHANGED <<admin, capability, call, told, late>>

PanelDies ==
  /\ panel # "down" /\ panel' = "down"
  /\ call' = [c \in Callers |-> NoCall]
  /\ told' = [c \in Callers |-> IF told[c] = "busy" THEN "lost" ELSE told[c]]
  /\ UNCHANGED <<admin, capability, session, late>>

\* The browser goes away: the context of its request ends, and with it any
\* later statement may fail.
HangUp(c) ==
  /\ panel = "up" /\ call[c].what \in {"setup", "login"} /\ told[c] = "busy"
  /\ told' = [told EXCEPT ![c] = "lost"]
  /\ UNCHANGED <<admin, capability, session, panel, call, late>>

-----------------------------------------------------------------------------
\* BootstrapState in its two statements, for CompleteSetup and for SetupStatus.
\* A request that finds the limiter closed changes nothing.
AskSetup(c) ==
  /\ Ask(c, "setup", "count")
  /\ session[c] = 0
  /\ told' = [told EXCEPT ![c] = "busy"]
  /\ UNCHANGED <<admin, capability, session, panel, late>>

AskStatus(c) ==
  /\ Ask(c, "status", "count")
  /\ UNCHANGED <<admin, capability, session, panel, told, late>>

AdminCount(c) ==
  /\ At(c, "setup", "count") \/ At(c, "status", "count")
  /\ call' = [call EXCEPT ![c].at = "state", ![c].seen = admin]
  /\ UNCHANGED <<admin, capability, session, panel, told, late>>

\* A row that is consumed while no administrator was counted is an error.
Required(counted) == counted = 0 /\ capability = "unused"
Unavailable(counted) == counted = 0 /\ capability = "consumed"

SetupStatus(c) ==
  /\ At(c, "status", "state")
  /\ call' = [call EXCEPT ![c] = NoCall]
  /\ UNCHANGED <<admin, capability, session, panel, told, late>>

BootstrapState(c) ==
  /\ At(c, "setup", "state")
  /\ IF Required(call[c].seen)
     THEN Go(c, "slot") /\ UNCHANGED told
     ELSE Answered(c, IF Unavailable(call[c].seen) THEN "error" ELSE "completed")
  /\ UNCHANGED <<admin, capability, session, panel, late>>

\* The slot is given back when the request returns; a name or a password that is
\* not allowed returns it at once.
Slots == Cardinality({c \in Callers : At(c, "setup", "complete")})

TakeSlot(c) ==
  /\ At(c, "setup", "slot")
  /\ IF Slots >= SetupSlots THEN Answered(c, "limited")
     ELSE \/ Go(c, "complete") /\ UNCHANGED told
          \/ Answered(c, "refused")
  /\ UNCHANGED <<admin, capability, session, panel, late>>

\* Mutant: what was found before the password was hashed is trusted.
StillRequiredUnchecked == TRUE

\* CompleteBootstrap checks everything again in its transaction, which creates
\* the account and the session and uses the token up.
StillRequired == admin = 0 /\ capability = "unused"

CompleteBootstrap(c) ==
  /\ At(c, "setup", "complete")
  /\ \E ok \in Fallible(c, "complete") :
       IF StillRequired /\ ok
       THEN /\ admin' = 1 /\ capability' = "consumed"
            /\ session' = [session EXCEPT ![c] = 1] /\ late' = [late EXCEPT ![c] = FALSE]
            /\ Answered(c, "created")
       ELSE /\ Answered(c, IF ok THEN "completed" ELSE "error")
            /\ UNCHANGED <<admin, capability, session, late>>
  /\ UNCHANGED panel

-----------------------------------------------------------------------------
AskLogin(c) ==
  /\ Ask(c, "login", "lookup")
  /\ session[c] = 0
  /\ told' = [told EXCEPT ![c] = "busy"]
  /\ late' = [late EXCEPT ![c] = FALSE]
  /\ UNCHANGED <<admin, capability, session, panel>>

\* A wrong password, or no such administrator, is refused after the same work.
Login(c) ==
  /\ At(c, "login", "lookup")
  /\ \/ Answered(c, "refused")
     \/ /\ admin # 0
        /\ call' = [call EXCEPT ![c].at = "insert", ![c].seen = admin]
        /\ UNCHANGED told
  /\ UNCHANGED <<admin, capability, session, panel, late>>

CreateSession(c) ==
  /\ At(c, "login", "insert")
  /\ \E ok \in Fallible(c, "insert") :
       IF ok
       THEN /\ session' = [session EXCEPT ![c] = call[c].seen]
            /\ Go(c, "audit") /\ UNCHANGED told
       ELSE Answered(c, "error") /\ UNCHANGED session
  /\ UNCHANGED <<admin, capability, panel, late>>

AuditLogin(c) ==
  /\ At(c, "login", "audit")
  /\ \E ok \in Fallible(c, "audit") :
       IF ok THEN Answered(c, "in") ELSE Go(c, "delete") /\ UNCHANGED told
  /\ UNCHANGED <<admin, capability, session, panel, late>>

\* Mutant: the session of a login that was answered as failed stays.
DeleteSessionForgotten(c) ==
  /\ At(c, "login", "delete")
  /\ Answered(c, "error")
  /\ UNCHANGED <<admin, capability, session, panel, late>>

\* A login that cannot be recorded takes its session back, with the context of
\* the request and whatever comes of it.
DeleteSession(c) ==
  /\ At(c, "login", "delete")
  /\ \E ok \in Fallible(c, "delete") :
       session' = IF ok THEN [session EXCEPT ![c] = 0] ELSE session
  /\ Answered(c, "error")
  /\ UNCHANGED <<admin, capability, panel, late>>

Logout(c) ==
  /\ panel = "up" /\ Idle(c) /\ session[c] # 0
  /\ session' = [session EXCEPT ![c] = 0]
  /\ UNCHANGED <<admin, capability, panel, call, told, late>>

-----------------------------------------------------------------------------
\* A new password, and all sessions end: one transaction.  Logins that have read
\* the old one go on.
ReplacePassword ==
  /\ admin # 0 /\ admin < MaxPasswords
  /\ admin' = admin + 1
  /\ session' = [c \in Callers |-> 0]
  /\ late' = [c \in Callers |-> late[c] \/ call[c].at = "insert"]

\* Authenticate reads the session with the hash that ChangePassword then verifies.
Authenticate(c) ==
  /\ Ask(c, "change", "verify")
  /\ session[c] # 0
  /\ UNCHANGED <<admin, capability, session, panel, told, late>>

VerifyPassword(c) ==
  /\ At(c, "change", "verify")
  /\ \/ Go(c, "update") \/ call' = [call EXCEPT ![c] = NoCall]
  /\ UNCHANGED <<admin, capability, session, panel, told, late>>

\* The audit record comes after the commit: when it fails the answer is that the
\* password could not be changed.
UpdateAdminPassword(c) ==
  /\ At(c, "change", "update")
  /\ \/ ReplacePassword
     \/ "change" \in StepsThatFail /\ UNCHANGED <<admin, session, late>>
  /\ call' = [call EXCEPT ![c] = NoCall]
  /\ UNCHANGED <<capability, panel, told>>

\* m-ui admin reset-password, whose audit record is part of the transaction.
ResetAdminPassword ==
  /\ ReplacePassword
  /\ UNCHANGED <<capability, panel, call, told>>

AccountsNext ==
  \/ EnsureBootstrap \/ DeleteExpiredSessions \/ PanelDies
  \/ \E c \in Callers :
       \/ AskSetup(c) \/ AskStatus(c) \/ AdminCount(c) \/ SetupStatus(c)
       \/ BootstrapState(c) \/ TakeSlot(c) \/ CompleteBootstrap(c)
       \/ AskLogin(c) \/ Login(c) \/ CreateSession(c) \/ AuditLogin(c)
       \/ DeleteSession(c) \/ HangUp(c) \/ Logout(c)
       \/ Authenticate(c) \/ VerifyPassword(c) \/ UpdateAdminPassword(c)
  \/ ResetAdminPassword

AccountsSpec == AccountsInit /\ [][AccountsNext]_accountsVars

-----------------------------------------------------------------------------
AccountsTypeOK ==
  /\ admin \in 0..MaxPasswords /\ capability \in {"none", "unused", "consumed"}
  /\ session \in [Callers -> 0..MaxPasswords]
  /\ panel \in {"down", "starting", "up"}
  /\ call \in [Callers -> Calls] /\ told \in [Callers -> Answers]
  /\ late \in [Callers -> BOOLEAN]

\* The two tables agree: the token can be used exactly as long as there is no
\* account (in a database of before there may be no row yet).
CapabilityMatchesAccounts ==
  /\ admin = 0 => capability # "consumed"
  /\ admin # 0 /\ panel # "down" => capability = "consumed"

\* However many setups run at once, one is answered with the account it created
\* and only then are others told that there is one.
AnswersMatchAccounts ==
  /\ \A c, d \in Callers : told[c] = "created" /\ told[d] = "created" => c = d
  /\ \A c \in Callers : told[c] \in {"created", "completed"} => admin # 0

SetupOnce == CapabilityMatchesAccounts /\ AnswersMatchAccounts

\* Nobody who was refused or told of an error holds a session, and every session
\* was opened with the password that is current, unless the password was replaced
\* while that login was under way.
SessionsAccounted ==
  \A c \in Callers : session[c] # 0 =>
    /\ told[c] \in {"busy", "lost", "created", "in"}
    /\ session[c] = admin \/ late[c]
=============================================================================
