----------------------------- MODULE Endpoints -----------------------------
(***************************************************************************)
(* The endpoint settings and the two restarts they wait for: of m-ui, for  *)
(* the address it listens on and the one it reaches Mihomo at, and of      *)
(* Mihomo, for its external controller (internal/store/managed.go,         *)
(* UpdateEndpointSettings of internal/service/management.go, the runtime   *)
(* boundary and the start of the panel in internal/app/app.go).  A         *)
(* publication is one step; a start and a restart are read, act and clear. *)
(***************************************************************************)
EXTENDS Naturals

CONSTANTS
  PanelHalves,    \* PanelUIBind with MihomoControllerConnect
  CoreHalves,     \* MihomoExternalControllerBind with the CORS origins
  FirstPanel, FirstCore,
  NoHalf, NoPending, NoDraft,
  Editors,        \* browser tabs with the endpoint form
  LastGeneration  \* bound: generations of the endpoints

VARIABLES
  active,     \* the settings, and what the YAML says
  applied,    \* endpoint_settings_last_applied
  waiting,    \* endpoint_settings_pending, or NoPending
  past,       \* the endpoints of the revisions
  drafts,     \* of each tab: what it was filled from and asks for
  panelAt, bound, read,  \* the panel: its start, its settings, its second read
  restart,    \* the restart of Mihomo that holds the coordinator
  served      \* what the running Mihomo was started with

stored == <<active, applied, waiting, past>>
panelState == <<panelAt, bound, read>>
endpointsVars == <<stored, drafts, panelState, restart, served>>

Generations == 1..LastGeneration
Endpoint == [panel : PanelHalves, core : CoreHalves]
Stored == [panel : PanelHalves, core : CoreHalves, generation : Generations]
Pending == [panel : PanelHalves, core : CoreHalves, generation : Generations,
            mui : BOOLEAN, mihomo : BOOLEAN]
Drafts == [seen : Stored, asks : Endpoint \cup {NoHalf}]
Restarts == [by : {"nobody", "panel", "command"}, at : {"none", "restart", "clear"},
             pending : BOOLEAN, generation : Generations]
NoRestart == [by |-> "nobody", at |-> "none", pending |-> FALSE, generation |-> 1]

Halves(s) == [panel |-> s.panel, core |-> s.core]
RequiresMUI == waiting # NoPending /\ waiting.mui
RequiresMihomo == waiting # NoPending /\ waiting.mihomo

ASSUME EndpointsAssumption ==
  /\ FirstPanel \in PanelHalves /\ FirstCore \in CoreHalves
  /\ NoHalf \notin PanelHalves \cup CoreHalves
  /\ NoPending \notin Pending /\ NoDraft \notin Drafts
  /\ LastGeneration \in Nat \ {0}

\* The lease of the runtime operation coordinator, which a requested restart of
\* the panel keeps until the process ends.
CoordinatorFree == restart.by = "nobody" /\ panelAt # "leaving"

-----------------------------------------------------------------------------
\* EnsureInitialSettings: the settings of the installation are the applied ones.
EndpointsInit ==
  /\ active = [panel |-> FirstPanel, core |-> FirstCore, generation |-> 1]
  /\ applied = active /\ waiting = NoPending /\ past = {Halves(active)}
  /\ drafts = [t \in Editors |-> NoDraft]
  /\ panelAt = "down" /\ bound = FirstPanel /\ read = active
  /\ restart = NoRestart /\ served = NoHalf

\* upsertPendingEndpointSettings: each half against the one that was applied.
PendingFor(s) ==
  [panel |-> s.panel, core |-> s.core, generation |-> s.generation,
   mui |-> s.panel # applied.panel, mihomo |-> s.core # applied.core]

\* ReplaceDesiredState counts a generation for other endpoints, whatever the
\* state that replaces says, and compares them with the applied ones.
ReplaceEndpoints(want) ==
  LET new == IF want = Halves(active) THEN active
             ELSE [panel |-> want.panel, core |-> want.core,
                   generation |-> active.generation + 1]
  IN  /\ new.generation \in Generations
      /\ active' = new /\ past' = past \cup {want}
      /\ waiting' = IF want = Halves(applied) THEN NoPending ELSE PendingFor(new)
      /\ UNCHANGED applied

-----------------------------------------------------------------------------
GetEndpointSettings(t) ==
  /\ panelAt = "serving"
  /\ drafts' = [drafts EXCEPT ![t] = [seen |-> active, asks |-> NoHalf]]
  /\ UNCHANGED <<stored, panelState, restart, served>>

\* UpdateEndpointSettings before the publication: the generation of the form is
\* the stored one.  The same settings are answered at once.
AskEndpoints(t) ==
  /\ panelAt = "serving" /\ drafts[t] # NoDraft /\ drafts[t].asks = NoHalf
  /\ drafts[t].seen.generation = active.generation
  /\ \E want \in Endpoint \ {Halves(active)} :
       drafts' = [drafts EXCEPT ![t].asks = want]
  /\ UNCHANGED <<stored, panelState, restart, served>>

\* Its transaction, behind whatever held the coordinator, asks once more.
SaveEndpoints(t) ==
  /\ panelAt = "serving" /\ CoordinatorFree
  /\ drafts[t] # NoDraft /\ drafts[t].asks # NoHalf
  /\ IF active.generation = drafts[t].seen.generation
     THEN ReplaceEndpoints(drafts[t].asks)
     ELSE UNCHANGED stored
  /\ drafts' = [drafts EXCEPT ![t] = NoDraft]
  /\ UNCHANGED <<panelState, restart, served>>

\* A rollback, asked of the panel or by m-ui rollback beside it, returns to the
\* endpoints of a revision.
RollbackEndpoints ==
  /\ CoordinatorFree
  /\ \E want \in past : ReplaceEndpoints(want)
  /\ UNCHANGED <<drafts, panelState, restart, served>>

-----------------------------------------------------------------------------
\* Mutant: the restart requirement of any endpoints is cleared.
MatchesAny(generation) == TRUE

\* The requirement that is stored is still that of the endpoints the caller
\* read: their generation names them.
Matches(generation) == waiting.generation = generation

\* ClearEndpointRestartRequirements: nothing to clear is a success; else the
\* half is applied, and the row goes with its last requirement.
Clear(mui, mihomo, generation) ==
  IF waiting = NoPending THEN UNCHANGED stored
  ELSE LET left == [panel |-> waiting.panel, core |-> waiting.core,
                   generation |-> waiting.generation,
                   mui |-> waiting.mui /\ ~mui, mihomo |-> waiting.mihomo /\ ~mihomo] IN
       /\ Matches(generation)
       /\ applied' = [panel |-> IF mui THEN waiting.panel ELSE applied.panel,
                      core |-> IF mihomo THEN waiting.core ELSE applied.core,
                      generation |-> waiting.generation]
       /\ waiting' = IF left.mui \/ left.mihomo THEN left ELSE NoPending
       /\ UNCHANGED <<active, past>>

\* The start of the panel: the settings it will run with, the second read and
\* the listener, the requirement that this start meets.  A failure ends it.
LoadSettings ==
  /\ panelAt = "down" /\ panelAt' = "loaded"
  /\ bound' = active.panel
  /\ UNCHANGED <<stored, drafts, read, restart, served>>

ReadEndpoints ==
  /\ panelAt = "loaded" /\ panelAt' = "read"
  /\ restart.by # "panel"
  /\ read' = active
  /\ UNCHANGED <<stored, drafts, bound, restart, served>>

Listen ==
  /\ panelAt = "read" /\ panelAt' \in {"listening", "down"}
  /\ UNCHANGED <<stored, drafts, bound, read, restart, served>>

ClearMUI ==
  /\ panelAt = "listening"
  /\ \/ Clear(TRUE, FALSE, read.generation) /\ panelAt' = "serving"
     \/ UNCHANGED stored /\ panelAt' = "down"
  /\ UNCHANGED <<drafts, bound, read, restart, served>>

RestartApplication ==
  /\ panelAt = "serving" /\ CoordinatorFree
  /\ panelAt' = "leaving"
  /\ UNCHANGED <<stored, drafts, bound, read, restart, served>>

-----------------------------------------------------------------------------
\* A start or a restart of Mihomo, by the panel (its API, its supervised start) or
\* a command.  To start an active Mihomo is not the restart an endpoint change
\* waits for.  (The finalizer of a service that starts alone is Publication's.)
Expect(by, action) ==
  /\ CoordinatorFree
  /\ by = "panel" => panelAt \in {"loaded", "serving"}
  /\ action = "start" => served = NoHalf
  /\ restart' = [by |-> by, at |-> "restart", pending |-> RequiresMihomo,
                 generation |-> IF waiting = NoPending THEN active.generation
                                ELSE waiting.generation]
  /\ UNCHANGED <<stored, drafts, panelState, served>>

\* Mihomo reads the YAML.  One that does not become healthy may be the old one,
\* the new one or none.
RestartMihomo ==
  /\ restart.at = "restart"
  /\ \/ served' = active.core /\ restart' = [restart EXCEPT !.at = "clear"]
     \/ served' \in {served, active.core, NoHalf} /\ restart' = NoRestart
  /\ UNCHANGED <<stored, drafts, panelState>>

ClearMihomo ==
  /\ restart.at = "clear"
  /\ \/ restart.pending /\ Clear(FALSE, TRUE, restart.generation)
     \/ UNCHANGED stored
  /\ restart' = NoRestart
  /\ UNCHANGED <<drafts, panelState, served>>

\* The end of the panel, or of a command, where it stands.
PanelEnds ==
  /\ panelAt # "down" /\ panelAt' = "down"
  /\ drafts' = [t \in Editors |->
       IF drafts[t] # NoDraft /\ drafts[t].asks # NoHalf THEN NoDraft ELSE drafts[t]]
  /\ restart' = IF restart.by = "panel" THEN NoRestart ELSE restart
  /\ served' \in {served, NoHalf}
  /\ UNCHANGED <<stored, bound, read>>

CommandEnds ==
  /\ restart.by = "command" /\ restart' = NoRestart
  /\ UNCHANGED <<stored, drafts, panelState, served>>

MihomoEnds ==
  /\ served # NoHalf /\ served' = NoHalf
  /\ UNCHANGED <<stored, drafts, panelState, restart>>

EndpointsNext ==
  \/ \E t \in Editors : GetEndpointSettings(t) \/ AskEndpoints(t) \/ SaveEndpoints(t)
  \/ RollbackEndpoints
  \/ LoadSettings \/ ReadEndpoints \/ Listen \/ ClearMUI \/ RestartApplication
  \/ \E by \in {"panel", "command"}, action \in {"start", "restart"} : Expect(by, action)
  \/ RestartMihomo \/ ClearMihomo
  \/ PanelEnds \/ CommandEnds \/ MihomoEnds

EndpointsSpec == EndpointsInit /\ [][EndpointsNext]_endpointsVars

-----------------------------------------------------------------------------
EndpointsTypeOK ==
  /\ active \in Stored /\ applied \in Stored
  /\ waiting \in Pending \cup {NoPending} /\ past \subseteq Endpoint
  /\ drafts \in [Editors -> Drafts \cup {NoDraft}]
  /\ panelAt \in {"down", "loaded", "read", "listening", "serving", "leaving"}
  /\ bound \in PanelHalves /\ read \in Stored
  /\ restart \in Restarts
  /\ served \in CoreHalves \cup {NoHalf}

\* The three tables agree: what is pending is exactly what differs from the
\* applied endpoints, under the generation of the settings.  So a start that
\* nobody overtakes is never refused with "endpoint restart state changed".
PendingIsDifference ==
  waiting = IF Halves(active) = Halves(applied) THEN NoPending ELSE PendingFor(active)

\* A form of the current generation shows the current endpoints, also after
\* rollbacks: nobody overwrites what he has not seen.
GenerationNamesEndpoints ==
  \A t \in Editors : drafts[t] # NoDraft /\ drafts[t].seen.generation = active.generation
    => drafts[t].seen = active

\* The panel runs, or is going to, with the endpoints of the settings, or a
\* requirement says that it does not, one that this start will not clear.
PanelTold ==
  panelAt \in {"read", "listening", "serving", "leaving"} =>
    \/ bound = active.panel
    \/ RequiresMUI /\ (panelAt \in {"read", "listening"} =>
                         waiting.generation # read.generation)

\* So does Mihomo, or a requirement says that it does not.
MihomoTold == served = NoHalf \/ served = active.core \/ RequiresMihomo

\* What may leave a process with other endpoints than the settings and nothing
\* that says so: a return to the applied endpoints, which drops the row whatever
\* the processes run with, and a start of the panel whose two reads differ; no
\* clear, no restart and no other change.  And Mihomo leaves the applied endpoints
\* only by a restart that a requirement was waiting for.
RequirementStep ==
  /\ MihomoTold /\ ~MihomoTold' => active' # active /\ active'.core = applied.core
  /\ PanelTold /\ ~PanelTold' =>
       \/ active' # active /\ active'.panel = applied.panel
       \/ panelAt = "loaded" /\ bound # active.panel
  /\ served \in {NoHalf, applied.core} /\ served' \notin {NoHalf, applied'.core} =>
       restart.at = "restart" /\ restart.pending

RequirementsKept == [][RequirementStep]_endpointsVars

\* Together: what the store says of the restarts it waits for.
MarkersAgree == [](PendingIsDifference /\ GenerationNamesEndpoints) /\ RequirementsKept

\* What the documents say of every start and restart: a restart is asked for as
\* long as a process does not run with the endpoints that are stored.  Neither
\* holds: the two reads of a start, and a return to the applied endpoints while
\* an uncleared restart, or a start, left the process on the others.
PanelMarkerHonest ==
  panelAt = "serving" /\ ~RequiresMUI => bound = active.panel
MihomoMarkerHonest ==
  served # NoHalf /\ ~RequiresMihomo => served = active.core
=============================================================================
