-------------------------- MODULE Endpoints_proofs --------------------------
(***************************************************************************)
(* Theorems about Endpoints.  MarkersAgree follows from the inductive      *)
(* invariant EndpointsInv: the pending row is what differs from the        *)
(* applied endpoints, what was read under the current generation is the    *)
(* current settings, and a restart without a requirement finds the applied *)
(* controller.  Its action part is proved of every step from EndpointsInv  *)
(* on both sides of the step.                                              *)
(***************************************************************************)
EXTENDS Endpoints, Integers, TLAPS

USE EndpointsAssumption

\* What somebody read under the current generation is the current settings.
SeenInv(s) ==
  s.generation <= active.generation /\ (s.generation = active.generation => s = active)

DraftInv == \A t \in Editors : drafts[t] # NoDraft => SeenInv(drafts[t].seen)

\* So is what a start has read for the second time.
StartInv == panelAt \in {"read", "listening"} => SeenInv(read)

\* A restart that no requirement waited for finds the applied controller, and what
\* a restart is about to clear is what Mihomo has read.
CoreInv ==
  /\ restart.by = "nobody" => restart.at = "none"
  /\ restart.at = "restart" /\ ~restart.pending => active.core = applied.core
  /\ restart.at = "clear" => served \in {active.core, NoHalf}

EndpointsInv ==
  /\ EndpointsTypeOK /\ PendingIsDifference
  /\ DraftInv /\ StartInv /\ CoreInv

-----------------------------------------------------------------------------
LEMMA EndpointsInvInit == EndpointsInit => EndpointsInv
<1> SUFFICES ASSUME EndpointsInit PROVE EndpointsInv
  OBVIOUS
<1>1. active \in Stored /\ NoRestart \in Restarts /\ Halves(active) \in Endpoint
  BY DEF EndpointsInit, Stored, Generations, NoRestart, Restarts, Halves, Endpoint
<1>2. EndpointsTypeOK
  BY <1>1 DEF EndpointsInit, EndpointsTypeOK, Stored
<1>3. PendingIsDifference
  BY DEF EndpointsInit, PendingIsDifference
<1>4. DraftInv /\ StartInv /\ CoreInv
  BY DEF EndpointsInit, DraftInv, StartInv, CoreInv, NoRestart
<1> QED
  BY <1>2, <1>3, <1>4 DEF EndpointsInv

-----------------------------------------------------------------------------
\* The two operations on the rows.
LEMMA PendingTyped ==
  ASSUME NEW s \in Stored, applied \in Stored
  PROVE  PendingFor(s) \in Pending /\ PendingFor(s) # NoPending
<1>1. PendingFor(s) \in Pending
  BY DEF PendingFor, Pending, Stored
<1> QED
  BY <1>1

LEMMA HalvesTyped ==
  ASSUME NEW s \in Stored
  PROVE  /\ Halves(s) \in Endpoint /\ Halves(s).panel = s.panel
         /\ Halves(s).core = s.core /\ s.generation \in Generations
  BY DEF Halves, Endpoint, Stored

LEMMA SameHalves ==
  ASSUME NEW s \in Stored, NEW r \in Stored
  PROVE  Halves(s) = Halves(r) <=> s.panel = r.panel /\ s.core = r.core
  BY DEF Halves

LEMMA ReplaceKeeps ==
  ASSUME EndpointsTypeOK, PendingIsDifference, NEW want \in Endpoint,
         ReplaceEndpoints(want)
  PROVE  /\ active' \in Stored /\ applied' = applied /\ past' \in SUBSET Endpoint
         /\ waiting' \in Pending \cup {NoPending}
         /\ PendingIsDifference'
         /\ active'.panel = want.panel
         /\ \A s \in Stored : SeenInv(s) => SeenInv(s)'
<1> DEFINE new == IF want = Halves(active) THEN active
                  ELSE [panel |-> want.panel, core |-> want.core,
                        generation |-> active.generation + 1]
<1>1. active \in Stored /\ applied \in Stored /\ active' = new /\ applied' = applied
  BY DEF EndpointsTypeOK, ReplaceEndpoints
<1>2. new \in Stored
  BY <1>1 DEF ReplaceEndpoints, Stored, Endpoint
<1>3. Halves(new) = want
  BY <1>1 DEF Halves, Endpoint, Stored
<1>4. /\ past' \in SUBSET Endpoint
      /\ waiting' \in Pending \cup {NoPending}
  BY <1>1, <1>2, PendingTyped DEF ReplaceEndpoints, EndpointsTypeOK
<1>5. PendingIsDifference'
  BY <1>1, <1>3 DEF PendingIsDifference, ReplaceEndpoints, PendingFor, Halves
<1>6. active'.panel = want.panel
  BY <1>1, <1>2, <1>3, HalvesTyped
<1>7. ASSUME NEW s \in Stored, SeenInv(s) PROVE SeenInv(s)'
  <2>1. s.generation \in Int /\ active.generation \in Int
    BY <1>1, HalvesTyped DEF Generations
  <2>2. CASE want = Halves(active)
    BY <1>1, <1>7, <2>2 DEF SeenInv
  <2>3. CASE want # Halves(active)
    BY <1>1, <1>7, <2>1, <2>3 DEF SeenInv
  <2> QED BY <2>2, <2>3
<1> QED BY <1>1, <1>2, <1>4, <1>5, <1>6, <1>7

LEMMA ClearKeeps ==
  ASSUME EndpointsTypeOK, PendingIsDifference, NEW mui \in BOOLEAN,
         NEW mihomo \in BOOLEAN, NEW generation \in Generations,
         Clear(mui, mihomo, generation)
  PROVE  /\ active' = active /\ past' = past /\ applied' \in Stored
         /\ waiting' \in Pending \cup {NoPending}
         /\ PendingIsDifference'
         /\ applied'.panel = IF mui THEN active.panel ELSE applied.panel
         /\ applied'.core = IF mihomo THEN active.core ELSE applied.core
         /\ waiting = NoPending \/ generation = active.generation
<1>1. active \in Stored /\ applied \in Stored
  BY DEF EndpointsTypeOK
<1>2. CASE waiting = NoPending
  <2>1. UNCHANGED stored
    BY <1>2 DEF Clear
  <2>2. Halves(active) = Halves(applied)
    BY <1>1, <1>2, PendingTyped DEF PendingIsDifference
  <2>3. PendingIsDifference'
    BY <2>1 DEF stored, PendingIsDifference, PendingFor, Halves
  <2> QED
    BY <1>1, <1>2, <2>1, <2>2, <2>3, SameHalves DEF stored, EndpointsTypeOK
<1>3. CASE waiting # NoPending
  <2> DEFINE left == [panel |-> waiting.panel, core |-> waiting.core,
                      generation |-> waiting.generation,
                      mui |-> waiting.mui /\ ~mui, mihomo |-> waiting.mihomo /\ ~mihomo]
  <2>1. /\ Halves(active) # Halves(applied) /\ waiting = PendingFor(active)
        /\ waiting \in Pending
    BY <1>1, <1>3, PendingTyped DEF PendingIsDifference
  <2>2. /\ Matches(generation)
        /\ applied' = [panel |-> IF mui THEN waiting.panel ELSE applied.panel,
                       core |-> IF mihomo THEN waiting.core ELSE applied.core,
                       generation |-> waiting.generation]
        /\ waiting' = IF left.mui \/ left.mihomo THEN left ELSE NoPending
        /\ active' = active /\ past' = past
    BY <1>3 DEF Clear
  <2>3. /\ waiting.panel = active.panel /\ waiting.core = active.core
        /\ waiting.generation = active.generation
        /\ waiting.mui = (active.panel # applied.panel)
        /\ waiting.mihomo = (active.core # applied.core)
    BY <2>1 DEF PendingFor
  <2>4. applied' \in Stored
    BY <1>1, <2>2, <2>3 DEF Stored
  <2>5. left \in Pending
    BY <2>1 DEF Pending
  <2>6. /\ (waiting.mui /\ ~mui) <=> (active.panel # applied'.panel)
        /\ (waiting.mihomo /\ ~mihomo) <=> (active.core # applied'.core)
    BY <2>2, <2>3
  <2>7. left.mui \/ left.mihomo <=> Halves(active)' # Halves(applied)'
    BY <1>1, <2>2, <2>4, <2>6, SameHalves
  <2>8. PendingIsDifference'
    <3>1. left = PendingFor(active)'
      <4>1. PendingFor(active)' =
              [panel |-> active.panel, core |-> active.core,
               generation |-> active.generation,
               mui |-> active.panel # applied'.panel,
               mihomo |-> active.core # applied'.core]
        BY <2>2 DEF PendingFor
      <4>2. /\ (waiting.mui /\ ~mui) = (active.panel # applied'.panel)
            /\ (waiting.mihomo /\ ~mihomo) = (active.core # applied'.core)
        BY <2>6
      <4> QED BY <2>3, <4>1, <4>2, Zenon
    <3> QED BY <2>2, <2>7, <3>1 DEF PendingIsDifference
  <2> QED
    BY <2>2, <2>3, <2>4, <2>5, <2>8 DEF Matches
<1> QED BY <1>2, <1>3

\* Actions that leave the rows alone keep their agreement.
LEMMA StoredUnchanged ==
  ASSUME EndpointsTypeOK, PendingIsDifference, UNCHANGED stored
  PROVE  /\ active' = active /\ applied' = applied
         /\ waiting' = waiting /\ past' = past
         /\ PendingIsDifference'
         /\ \A s \in Stored : SeenInv(s) => SeenInv(s)'
  BY DEF stored, PendingIsDifference, PendingFor, Halves, SeenInv

\* A requirement is missing exactly if its halves agree.
LEMMA RequirementIsDifference ==
  ASSUME EndpointsTypeOK, PendingIsDifference
  PROVE  /\ RequiresMUI <=> active.panel # applied.panel
         /\ RequiresMihomo <=> active.core # applied.core
         /\ waiting = NoPending <=> active.panel = applied.panel /\ active.core = applied.core
<1>1. active \in Stored /\ applied \in Stored
  BY DEF EndpointsTypeOK
<1>2. Halves(active) = Halves(applied)
        <=> active.panel = applied.panel /\ active.core = applied.core
  BY <1>1, SameHalves
<1>3. CASE Halves(active) = Halves(applied)
  BY <1>2, <1>3 DEF PendingIsDifference, RequiresMUI, RequiresMihomo
<1>4. CASE Halves(active) # Halves(applied)
  <2>1. waiting = PendingFor(active) /\ waiting # NoPending
    BY <1>1, <1>4, PendingTyped DEF PendingIsDifference
  <2>2. /\ waiting.mui = (active.panel # applied.panel)
        /\ waiting.mihomo = (active.core # applied.core)
    BY <2>1 DEF PendingFor
  <2> QED BY <1>2, <1>4, <2>1, <2>2 DEF RequiresMUI, RequiresMihomo
<1> QED BY <1>3, <1>4

-----------------------------------------------------------------------------
\* The forms.
LEMMA GetKeeps ==
  ASSUME EndpointsInv, NEW t \in Editors, GetEndpointSettings(t)
  PROVE  EndpointsInv'
<1> USE DEF EndpointsInv, GetEndpointSettings
<1>1. UNCHANGED stored /\ UNCHANGED <<panelState, restart, served>>
  OBVIOUS
<1>2. /\ active' = active /\ applied' = applied
      /\ waiting' = waiting /\ past' = past /\ PendingIsDifference'
      /\ \A s \in Stored : SeenInv(s) => SeenInv(s)'
  BY <1>1, StoredUnchanged
<1>3. [seen |-> active, asks |-> NoHalf] \in Drafts
  BY DEF EndpointsTypeOK, Drafts
<1>4. EndpointsTypeOK'
  BY <1>1, <1>2, <1>3 DEF EndpointsTypeOK, panelState
<1>5. DraftInv'
  <2> SUFFICES ASSUME NEW u \in Editors, drafts'[u] # NoDraft
               PROVE  SeenInv(drafts[u].seen)'
    BY DEF DraftInv
  <2>1. CASE u = t
    <3>1. drafts'[u].seen = active /\ active \in Stored
      BY <2>1 DEF EndpointsTypeOK
    <3>2. active.generation \in Int
      BY <3>1, HalvesTyped DEF Generations
    <3> QED BY <1>2, <3>1, <3>2 DEF SeenInv
  <2>2. CASE u # t
    <3>1. drafts'[u] = drafts[u]
      BY <2>2 DEF EndpointsTypeOK
    <3>2. drafts[u].seen \in Stored
      BY <3>1 DEF EndpointsTypeOK, Drafts
    <3> QED BY <1>2, <3>1, <3>2 DEF DraftInv
  <2> QED BY <2>1, <2>2
<1>6. StartInv' /\ CoreInv'
  BY <1>1, <1>2 DEF StartInv, CoreInv, panelState, SeenInv
<1> QED BY <1>2, <1>4, <1>5, <1>6

LEMMA AskKeeps ==
  ASSUME EndpointsInv, NEW t \in Editors, AskEndpoints(t)
  PROVE  EndpointsInv'
<1> USE DEF EndpointsInv
<1>1. /\ UNCHANGED stored /\ UNCHANGED <<panelState, restart, served>>
      /\ drafts[t] # NoDraft
  BY DEF AskEndpoints
<1>2. /\ active' = active /\ applied' = applied
      /\ waiting' = waiting /\ past' = past /\ PendingIsDifference'
      /\ \A s \in Stored : SeenInv(s) => SeenInv(s)'
  BY <1>1, StoredUnchanged
<1>3. PICK want \in Endpoint : drafts' = [drafts EXCEPT ![t].asks = want]
  BY DEF AskEndpoints
<1>4. drafts[t] \in Drafts
  BY <1>1 DEF EndpointsTypeOK
<1>5. [drafts[t] EXCEPT !.asks = want] \in Drafts
      /\ [drafts[t] EXCEPT !.asks = want].seen = drafts[t].seen
  BY <1>4 DEF Drafts
<1>6. EndpointsTypeOK'
  BY <1>1, <1>2, <1>3, <1>5 DEF EndpointsTypeOK, panelState
<1>7. DraftInv'
  <2> SUFFICES ASSUME NEW u \in Editors, drafts'[u] # NoDraft
               PROVE  SeenInv(drafts[u].seen)'
    BY DEF DraftInv
  <2>1. drafts[u] # NoDraft /\ drafts'[u].seen = drafts[u].seen
    BY <1>1, <1>3, <1>5 DEF EndpointsTypeOK
  <2> QED BY <1>2, <2>1 DEF DraftInv, EndpointsTypeOK, Drafts
<1>8. StartInv' /\ CoreInv'
  BY <1>1, <1>2 DEF StartInv, CoreInv, panelState, SeenInv
<1> QED BY <1>2, <1>6, <1>7, <1>8

\* A publication of endpoints keeps what holds of the processes: they hold no
\* restart, and the generations only grow.
LEMMA PublicationKeeps ==
  ASSUME EndpointsInv, CoordinatorFree, NEW want \in Endpoint, ReplaceEndpoints(want),
         UNCHANGED <<panelState, restart, served>>
  PROVE  StartInv' /\ CoreInv'
<1> USE DEF EndpointsInv
<1>1. /\ applied' = applied /\ read \in Stored
      /\ \A s \in Stored : SeenInv(s) => SeenInv(s)'
  BY ReplaceKeeps DEF EndpointsTypeOK
<1>2. /\ panelAt' = panelAt /\ bound' = bound /\ read' = read
      /\ restart' = restart /\ served' = served
  BY DEF panelState
<1>3. StartInv'
  BY <1>1, <1>2 DEF StartInv, SeenInv
<1>4. CoreInv'
  BY <1>1, <1>2 DEF CoreInv, CoordinatorFree
<1> QED BY <1>3, <1>4

LEMMA SaveKeeps ==
  ASSUME EndpointsInv, NEW t \in Editors, SaveEndpoints(t)
  PROVE  EndpointsInv'
<1> USE DEF EndpointsInv
<1>1. /\ drafts' = [drafts EXCEPT ![t] = NoDraft]
      /\ drafts[t] \in Drafts /\ drafts[t].asks \in Endpoint /\ CoordinatorFree
      /\ UNCHANGED <<panelState, restart, served>>
  BY DEF SaveEndpoints, EndpointsTypeOK, Drafts
<1>2. CASE ReplaceEndpoints(drafts[t].asks)
  <2>1. StartInv' /\ CoreInv'
    BY <1>1, <1>2, PublicationKeeps
  <2>2. /\ active' \in Stored /\ applied' = applied /\ past' \in SUBSET Endpoint
        /\ waiting' \in Pending \cup {NoPending}
        /\ PendingIsDifference'
        /\ \A s \in Stored : SeenInv(s) => SeenInv(s)'
    BY <1>1, <1>2, ReplaceKeeps
  <2>3. EndpointsTypeOK'
    BY <1>1, <2>2 DEF EndpointsTypeOK, panelState
  <2>4. DraftInv'
    BY <1>1, <2>2 DEF DraftInv, EndpointsTypeOK, Drafts
  <2> QED BY <2>1, <2>2, <2>3, <2>4
<1>3. CASE UNCHANGED stored
  <2>1. /\ active' = active /\ applied' = applied
        /\ waiting' = waiting /\ past' = past /\ PendingIsDifference'
        /\ \A s \in Stored : SeenInv(s) => SeenInv(s)'
    BY <1>3, StoredUnchanged
  <2>2. EndpointsTypeOK'
    BY <1>1, <1>3, <2>1 DEF EndpointsTypeOK, panelState
  <2>3. DraftInv'
    BY <1>1, <2>1 DEF DraftInv, EndpointsTypeOK, Drafts
  <2>4. StartInv' /\ CoreInv'
    BY <1>1, <1>3, <2>1 DEF StartInv, CoreInv, panelState, SeenInv
  <2> QED BY <2>1, <2>2, <2>3, <2>4
<1> QED BY <1>2, <1>3 DEF SaveEndpoints

LEMMA RollbackKeeps ==
  ASSUME EndpointsInv, RollbackEndpoints
  PROVE  EndpointsInv'
<1> USE DEF EndpointsInv
<1>1. /\ CoordinatorFree
      /\ UNCHANGED drafts /\ UNCHANGED <<panelState, restart, served>>
  BY DEF RollbackEndpoints
<1>2. PICK want \in Endpoint : ReplaceEndpoints(want)
  BY DEF RollbackEndpoints, EndpointsTypeOK
<1>3. StartInv' /\ CoreInv'
  BY <1>1, <1>2, PublicationKeeps
<1>4. /\ active' \in Stored /\ applied' = applied /\ past' \in SUBSET Endpoint
      /\ waiting' \in Pending \cup {NoPending}
      /\ PendingIsDifference'
      /\ \A s \in Stored : SeenInv(s) => SeenInv(s)'
  BY <1>2, ReplaceKeeps
<1>5. EndpointsTypeOK'
  BY <1>1, <1>4 DEF EndpointsTypeOK, panelState
<1>6. DraftInv'
  BY <1>1, <1>4 DEF DraftInv, EndpointsTypeOK, Drafts
<1> QED BY <1>3, <1>4, <1>5, <1>6

-----------------------------------------------------------------------------
\* The start of the panel.
LEMMA DraftsUnchanged ==
  ASSUME EndpointsTypeOK, DraftInv, UNCHANGED drafts,
         \A s \in Stored : SeenInv(s) => SeenInv(s)'
  PROVE  DraftInv'
  BY DEF DraftInv, EndpointsTypeOK, Drafts

LEMMA LoadKeeps ==
  ASSUME EndpointsInv, LoadSettings \/ ReadEndpoints \/ Listen \/ RestartApplication
  PROVE  EndpointsInv'
<1> USE DEF EndpointsInv
<1>1. UNCHANGED <<stored, drafts, restart, served>>
  BY DEF LoadSettings, ReadEndpoints, Listen, RestartApplication
<1>2. /\ active' = active /\ applied' = applied
      /\ waiting' = waiting /\ past' = past /\ PendingIsDifference'
      /\ \A s \in Stored : SeenInv(s) => SeenInv(s)'
  BY <1>1, StoredUnchanged
<1>3. DraftInv'
  BY <1>1, <1>2, DraftsUnchanged
<1>4. active \in Stored /\ active.generation \in Int /\ active.panel \in PanelHalves
  BY HalvesTyped DEF EndpointsTypeOK, Generations, Stored
<1>5. EndpointsTypeOK'
  BY <1>1, <1>2, <1>4
  DEF EndpointsTypeOK, panelState, LoadSettings, ReadEndpoints, Listen, RestartApplication
<1>6. CoreInv'
  BY <1>1, <1>2 DEF CoreInv
<1>7. StartInv'
  <2>1. CASE LoadSettings
    BY <1>2, <2>1 DEF StartInv, LoadSettings
  <2>2. CASE ReadEndpoints
    BY <1>2, <1>4, <2>2 DEF StartInv, ReadEndpoints, SeenInv
  <2>3. CASE Listen
    BY <1>2, <2>3 DEF StartInv, Listen, SeenInv
  <2>4. CASE RestartApplication
    BY <1>2, <2>4 DEF StartInv, RestartApplication, panelState
  <2> QED BY <2>1, <2>2, <2>3, <2>4
<1> QED BY <1>2, <1>3, <1>5, <1>6, <1>7

\* What the start clears is the requirement of the endpoints it listens on.
LEMMA ClearMUIKeeps ==
  ASSUME EndpointsInv, ClearMUI
  PROVE  EndpointsInv'
<1> USE DEF EndpointsInv
<1>1. /\ panelAt = "listening" /\ SeenInv(read) /\ read \in Stored
      /\ UNCHANGED <<drafts, bound, read, restart, served>>
  BY DEF ClearMUI, StartInv, EndpointsTypeOK
<1>2. CASE Clear(TRUE, FALSE, read.generation) /\ panelAt' = "serving"
  <2>1. read.generation \in Generations
    BY <1>1, HalvesTyped
  <2>2. /\ active' = active /\ past' = past /\ applied' \in Stored
        /\ waiting' \in Pending \cup {NoPending}
        /\ PendingIsDifference'
        /\ applied'.panel = active.panel /\ applied'.core = applied.core
        /\ waiting = NoPending \/ read.generation = active.generation
    BY <1>2, <2>1, ClearKeeps
  <2>3. DraftInv'
    BY <1>1, <2>2 DEF DraftInv, SeenInv
  <2>4. EndpointsTypeOK'
    BY <1>1, <1>2, <2>2 DEF EndpointsTypeOK
  <2>5. CoreInv'
    BY <1>1, <2>2 DEF CoreInv
  <2>6. StartInv'
    BY <1>2 DEF StartInv
  <2> QED BY <2>2, <2>3, <2>4, <2>5, <2>6
<1>3. CASE UNCHANGED stored /\ panelAt' = "down"
  <2>1. /\ active' = active /\ applied' = applied
        /\ waiting' = waiting /\ past' = past /\ PendingIsDifference'
        /\ \A s \in Stored : SeenInv(s) => SeenInv(s)'
    BY <1>3, StoredUnchanged
  <2>2. DraftInv'
    BY <1>1, <2>1, DraftsUnchanged
  <2>3. EndpointsTypeOK' /\ StartInv' /\ CoreInv'
    BY <1>1, <1>3, <2>1 DEF EndpointsTypeOK, StartInv, CoreInv
  <2> QED BY <2>1, <2>2, <2>3
<1> QED BY <1>2, <1>3 DEF ClearMUI

-----------------------------------------------------------------------------
\* The restarts of Mihomo.
LEMMA ExpectKeeps ==
  ASSUME EndpointsInv, NEW by \in {"panel", "command"}, NEW action \in {"start", "restart"},
         Expect(by, action)
  PROVE  EndpointsInv'
<1> USE DEF EndpointsInv
<1>1. UNCHANGED <<stored, drafts, panelState, served>>
  BY DEF Expect
<1>2. /\ active' = active /\ applied' = applied
      /\ waiting' = waiting /\ past' = past /\ PendingIsDifference'
      /\ \A s \in Stored : SeenInv(s) => SeenInv(s)'
  BY <1>1, StoredUnchanged
<1>3. DraftInv'
  BY <1>1, <1>2, DraftsUnchanged
<1>4. /\ restart' \in Restarts /\ restart'.by = by /\ restart'.at = "restart"
      /\ restart'.pending <=> RequiresMihomo
  <2>1. (IF waiting = NoPending THEN active.generation ELSE waiting.generation)
          \in Generations
    BY HalvesTyped DEF EndpointsTypeOK, Pending
  <2>2. RequiresMihomo \in BOOLEAN
    BY DEF RequiresMihomo, EndpointsTypeOK, Pending
  <2> QED BY <2>1, <2>2 DEF Expect, Restarts
<1>5. EndpointsTypeOK'
  BY <1>1, <1>2, <1>4 DEF EndpointsTypeOK, panelState
<1>6. StartInv'
  BY <1>1, <1>2 DEF StartInv, panelState, SeenInv
<1>7. CoreInv'
  BY <1>1, <1>2, <1>4, RequirementIsDifference DEF CoreInv
<1> QED BY <1>2, <1>3, <1>5, <1>6, <1>7

LEMMA RestartKeeps ==
  ASSUME EndpointsInv, RestartMihomo
  PROVE  EndpointsInv'
<1> USE DEF EndpointsInv
<1>1. /\ restart.at = "restart" /\ restart \in Restarts /\ restart.pending \in BOOLEAN
      /\ UNCHANGED <<stored, drafts, panelState>>
  BY DEF RestartMihomo, EndpointsTypeOK, Restarts
<1>2. /\ active' = active /\ applied' = applied
      /\ waiting' = waiting /\ past' = past /\ PendingIsDifference'
      /\ \A s \in Stored : SeenInv(s) => SeenInv(s)'
  BY <1>1, StoredUnchanged
<1>3. DraftInv'
  BY <1>1, <1>2, DraftsUnchanged
<1>4. /\ active.core \in CoreHalves
      /\ NoRestart \in Restarts /\ NoRestart.at = "none" /\ NoRestart.by = "nobody"
      /\ active.generation \in Generations
  BY HalvesTyped DEF EndpointsTypeOK, Stored, NoRestart, Restarts, Generations
<1>5. StartInv'
  BY <1>1, <1>2 DEF StartInv, panelState, SeenInv
<1>6. CASE served' = active.core /\ restart' = [restart EXCEPT !.at = "clear"]
  <2>1. restart' \in Restarts /\ restart'.at = "clear" /\ restart'.by = restart.by
    BY <1>1, <1>6 DEF Restarts
  <2>2. EndpointsTypeOK'
    BY <1>1, <1>2, <1>4, <1>6, <2>1 DEF EndpointsTypeOK, panelState
  <2>3. CoreInv'
    BY <1>1, <1>2, <1>6, <2>1 DEF CoreInv
  <2> QED BY <1>2, <1>3, <1>5, <2>2, <2>3
<1>7. CASE served' \in {served, active.core, NoHalf} /\ restart' = NoRestart
  <2>1. EndpointsTypeOK'
    BY <1>1, <1>2, <1>4, <1>7 DEF EndpointsTypeOK, panelState
  <2>2. CoreInv'
    BY <1>1, <1>2, <1>4, <1>7 DEF CoreInv
  <2> QED BY <1>2, <1>3, <1>5, <2>1, <2>2
<1> QED BY <1>6, <1>7 DEF RestartMihomo

\* The restart clears the requirement of the endpoints Mihomo has read: nothing
\* was published while it held the coordinator.
LEMMA ClearMihomoKeeps ==
  ASSUME EndpointsInv, ClearMihomo
  PROVE  EndpointsInv'
<1> USE DEF EndpointsInv
<1>1. /\ restart.at = "clear" /\ served \in {active.core, NoHalf} /\ restart' = NoRestart
      /\ restart.generation \in Generations /\ restart.pending \in BOOLEAN
      /\ UNCHANGED <<drafts, panelState, served>>
  BY DEF ClearMihomo, CoreInv, EndpointsTypeOK, Restarts
<1>2. /\ NoRestart \in Restarts /\ NoRestart.at = "none" /\ NoRestart.by = "nobody"
  BY DEF NoRestart, Restarts, Generations
<1>3. CASE Clear(FALSE, TRUE, restart.generation)
  <2>1. /\ active' = active /\ past' = past /\ applied' \in Stored
        /\ waiting' \in Pending \cup {NoPending}
        /\ PendingIsDifference'
        /\ applied'.panel = applied.panel /\ applied'.core = active.core
    BY <1>1, <1>3, ClearKeeps
  <2>2. DraftInv'
    BY <1>1, <2>1 DEF DraftInv, SeenInv
  <2>3. EndpointsTypeOK'
    BY <1>1, <1>2, <1>3, <2>1 DEF EndpointsTypeOK, panelState
  <2>4. StartInv'
    BY <1>1, <2>1 DEF StartInv, panelState, SeenInv
  <2>5. CoreInv'
    BY <1>1, <1>2, <1>3, <2>1 DEF CoreInv
  <2> QED BY <2>1, <2>2, <2>3, <2>4, <2>5
<1>4. CASE UNCHANGED stored
  <2>1. /\ active' = active /\ applied' = applied
        /\ waiting' = waiting /\ past' = past /\ PendingIsDifference'
        /\ \A s \in Stored : SeenInv(s) => SeenInv(s)'
    BY <1>4, StoredUnchanged
  <2>2. DraftInv'
    BY <1>1, <2>1, DraftsUnchanged
  <2>3. EndpointsTypeOK'
    BY <1>1, <1>2, <1>4, <2>1 DEF EndpointsTypeOK, panelState
  <2>4. StartInv' /\ CoreInv'
    BY <1>1, <1>2, <1>4, <2>1 DEF StartInv, CoreInv, panelState, SeenInv
  <2> QED BY <2>1, <2>2, <2>3, <2>4
<1> QED BY <1>1, <1>3, <1>4 DEF ClearMihomo

LEMMA EndKeeps ==
  ASSUME EndpointsInv, PanelEnds \/ CommandEnds \/ MihomoEnds
  PROVE  EndpointsInv'
<1> USE DEF EndpointsInv
<1>1. /\ UNCHANGED stored /\ UNCHANGED <<bound, read>>
      /\ served' \in {served, NoHalf} /\ panelAt' \in {panelAt, "down"}
      /\ restart' \in {restart, NoRestart}
      /\ \A t \in Editors : drafts'[t] \in {drafts[t], NoDraft}
      /\ drafts' \in [Editors -> Drafts \cup {NoDraft}]
  BY DEF PanelEnds, CommandEnds, MihomoEnds, panelState, EndpointsTypeOK
<1>2. /\ active' = active /\ applied' = applied
      /\ waiting' = waiting /\ past' = past /\ PendingIsDifference'
      /\ \A s \in Stored : SeenInv(s) => SeenInv(s)'
  BY <1>1, StoredUnchanged
<1>3. /\ NoRestart \in Restarts /\ NoRestart.at = "none" /\ NoRestart.by = "nobody"
  BY DEF NoRestart, Restarts, Generations
<1>4. EndpointsTypeOK'
  BY <1>1, <1>2, <1>3 DEF EndpointsTypeOK
<1>5. DraftInv'
  BY <1>1, <1>2 DEF DraftInv, SeenInv
<1>6. StartInv' /\ CoreInv'
  BY <1>1, <1>2, <1>3 DEF StartInv, CoreInv, SeenInv
<1> QED BY <1>2, <1>4, <1>5, <1>6

-----------------------------------------------------------------------------
LEMMA EndpointsInvNext ==
  EndpointsInv /\ [EndpointsNext]_endpointsVars => EndpointsInv'
<1> SUFFICES ASSUME EndpointsInv, [EndpointsNext]_endpointsVars PROVE EndpointsInv'
  OBVIOUS
<1>1. CASE EndpointsNext
  BY <1>1, GetKeeps, AskKeeps, SaveKeeps, RollbackKeeps, LoadKeeps, ClearMUIKeeps,
     ExpectKeeps, RestartKeeps, ClearMihomoKeeps, EndKeeps
  DEF EndpointsNext
<1>2. CASE UNCHANGED endpointsVars
  BY <1>2 DEF endpointsVars, stored, panelState, EndpointsInv, EndpointsTypeOK,
     PendingIsDifference, PendingFor, Halves, DraftInv, StartInv, CoreInv, SeenInv
<1> QED BY <1>1, <1>2

-----------------------------------------------------------------------------
\* What a step may not do to the requirements.  PanelTold and MihomoTold put in
\* terms of the settings and the applied endpoints.
PanelAccounted ==
  panelAt \in {"read", "listening", "serving", "leaving"} =>
    \/ bound = active.panel
    \/ /\ active.panel # applied.panel
       /\ panelAt \in {"read", "listening"} => active.generation # read.generation
MihomoAccounted == served \in {NoHalf, active.core} \/ active.core # applied.core

DifferenceStep ==
  /\ MihomoAccounted /\ ~MihomoAccounted' => active' # active /\ active'.core = applied.core
  /\ PanelAccounted /\ ~PanelAccounted' =>
       \/ active' # active /\ active'.panel = applied.panel
       \/ panelAt = "loaded" /\ bound # active.panel
  /\ served \in {NoHalf, applied.core} /\ served' \notin {NoHalf, applied'.core} =>
       restart.at = "restart" /\ restart.pending

LEMMA ToldIsAccounted ==
  EndpointsInv => (PanelTold <=> PanelAccounted) /\ (MihomoTold <=> MihomoAccounted)
<1> SUFFICES ASSUME EndpointsInv
             PROVE  (PanelTold <=> PanelAccounted) /\ (MihomoTold <=> MihomoAccounted)
  OBVIOUS
<1>1. /\ RequiresMUI <=> active.panel # applied.panel
      /\ RequiresMihomo <=> active.core # applied.core
  BY RequirementIsDifference DEF EndpointsInv
<1>2. waiting # NoPending => waiting.generation = active.generation
  BY DEF EndpointsInv, PendingIsDifference, PendingFor
<1> QED
  BY <1>1, <1>2 DEF PanelTold, MihomoTold, PanelAccounted, MihomoAccounted, RequiresMUI

LEMMA StepOfDifference ==
  ASSUME EndpointsInv, EndpointsInv', DifferenceStep
  PROVE  RequirementStep
<1>1. EndpointsInv' =>
        (PanelTold' <=> PanelAccounted') /\ (MihomoTold' <=> MihomoAccounted')
  BY ToldIsAccounted, PTL
<1> QED BY <1>1, ToldIsAccounted DEF RequirementStep, DifferenceStep

\* A step that leaves the rows, the panel and Mihomo as they are.
LEMMA QuietStep ==
  ASSUME UNCHANGED stored, UNCHANGED panelState, UNCHANGED served
  PROVE  DifferenceStep
  BY DEF stored, panelState, DifferenceStep, PanelAccounted, MihomoAccounted

\* A publication of other endpoints has a generation that no start has read, so
\* that a start under way does not clear its requirement.
LEMMA PublicationStep ==
  ASSUME EndpointsInv, NEW want \in Endpoint, ReplaceEndpoints(want),
         UNCHANGED panelState, UNCHANGED served
  PROVE  DifferenceStep
<1>1. /\ applied' = applied
      /\ panelAt' = panelAt /\ bound' = bound /\ read' = read /\ served' = served
  BY DEF ReplaceEndpoints, panelState
<1>2. CASE active' = active
  BY <1>1, <1>2 DEF DifferenceStep, PanelAccounted, MihomoAccounted
<1>3. CASE active' # active
  <2>1. active'.generation = active.generation + 1
    BY <1>3 DEF ReplaceEndpoints
  <2>2. active.generation \in Int /\ read.generation \in Int
    BY HalvesTyped DEF EndpointsInv, EndpointsTypeOK, Generations
  <2>3. panelAt \in {"read", "listening"} => active'.generation # read.generation
    BY <2>1, <2>2 DEF EndpointsInv, StartInv, SeenInv
  <2> QED BY <1>1, <1>3, <2>3 DEF DifferenceStep, PanelAccounted, MihomoAccounted
<1> QED BY <1>2, <1>3

LEMMA FormStep ==
  ASSUME EndpointsInv, NEW t \in Editors,
         GetEndpointSettings(t) \/ AskEndpoints(t) \/ SaveEndpoints(t)
  PROVE  DifferenceStep
<1>1. CASE GetEndpointSettings(t) \/ AskEndpoints(t)
  BY <1>1, QuietStep DEF GetEndpointSettings, AskEndpoints
<1>2. CASE SaveEndpoints(t)
  <2>1. drafts[t].asks \in Endpoint
    BY <1>2 DEF SaveEndpoints, EndpointsInv, EndpointsTypeOK, Drafts
  <2> QED BY <1>2, <2>1, QuietStep, PublicationStep DEF SaveEndpoints
<1> QED BY <1>1, <1>2

LEMMA RollbackStep ==
  ASSUME EndpointsInv, RollbackEndpoints
  PROVE  DifferenceStep
<1>1. PICK want \in Endpoint : ReplaceEndpoints(want)
  BY DEF RollbackEndpoints, EndpointsInv, EndpointsTypeOK
<1> QED BY <1>1, PublicationStep DEF RollbackEndpoints

\* The start of the panel: only its second read may find other endpoints than
\* those it will run with, and what it clears is the requirement of these.
LEMMA StartStep ==
  ASSUME EndpointsInv,
         LoadSettings \/ ReadEndpoints \/ Listen \/ ClearMUI \/ RestartApplication
  PROVE  DifferenceStep
<1>1. CASE LoadSettings \/ ReadEndpoints \/ Listen \/ RestartApplication
  BY <1>1
  DEF LoadSettings, ReadEndpoints, Listen, RestartApplication, stored, panelState,
      DifferenceStep, PanelAccounted, MihomoAccounted
<1>2. CASE ClearMUI
  <2>1. /\ panelAt = "listening" /\ read.generation \in Generations
        /\ bound' = bound /\ read' = read /\ served' = served
    BY <1>2, HalvesTyped DEF ClearMUI, EndpointsInv, EndpointsTypeOK
  <2>2. CASE Clear(TRUE, FALSE, read.generation) /\ panelAt' = "serving"
    <3>1. /\ active' = active /\ applied'.core = applied.core
          /\ waiting = NoPending \/ read.generation = active.generation
      BY <2>1, <2>2, ClearKeeps DEF EndpointsInv
    <3>2. waiting = NoPending => active.panel = applied.panel
      BY RequirementIsDifference DEF EndpointsInv
    <3> QED BY <2>1, <2>2, <3>1, <3>2 DEF DifferenceStep, PanelAccounted, MihomoAccounted
  <2>3. CASE UNCHANGED stored /\ panelAt' = "down"
    BY <2>1, <2>3 DEF stored, DifferenceStep, PanelAccounted, MihomoAccounted
  <2> QED BY <1>2, <2>2, <2>3 DEF ClearMUI
<1> QED BY <1>1, <1>2

LEMMA MihomoStep ==
  ASSUME EndpointsInv, RestartMihomo \/ ClearMihomo
  PROVE  DifferenceStep
<1>1. CASE RestartMihomo
  <2>1. /\ UNCHANGED stored /\ UNCHANGED panelState
        /\ restart.at = "restart" /\ served' \in {served, active.core, NoHalf}
        /\ ~restart.pending => active.core = applied.core
    BY <1>1 DEF RestartMihomo, EndpointsInv, CoreInv
  <2>2. restart.pending \in BOOLEAN
    BY DEF EndpointsInv, EndpointsTypeOK, Restarts
  <2> QED BY <2>1, <2>2 DEF stored, panelState, DifferenceStep, PanelAccounted, MihomoAccounted
<1>2. CASE ClearMihomo
  <2>1. /\ served \in {active.core, NoHalf} /\ restart.generation \in Generations
        /\ UNCHANGED panelState /\ UNCHANGED served
    BY <1>2 DEF ClearMihomo, EndpointsInv, CoreInv, EndpointsTypeOK, Restarts
  <2>2. CASE Clear(FALSE, TRUE, restart.generation)
    <3>1. /\ active' = active /\ applied'.panel = applied.panel
          /\ applied'.core = active.core
      BY <2>1, <2>2, ClearKeeps DEF EndpointsInv
    <3> QED BY <2>1, <3>1 DEF panelState, DifferenceStep, PanelAccounted, MihomoAccounted
  <2>3. CASE UNCHANGED stored
    BY <2>1, <2>3, QuietStep
  <2> QED BY <1>2, <2>2, <2>3 DEF ClearMihomo
<1> QED BY <1>1, <1>2

LEMMA EndStep ==
  ASSUME EndpointsInv, PanelEnds \/ CommandEnds \/ MihomoEnds
  PROVE  DifferenceStep
<1>1. /\ UNCHANGED stored /\ UNCHANGED <<bound, read>>
      /\ panelAt' \in {panelAt, "down"} /\ served' \in {served, NoHalf}
  BY DEF PanelEnds, CommandEnds, MihomoEnds, panelState
<1> QED BY <1>1 DEF stored, DifferenceStep, PanelAccounted, MihomoAccounted

LEMMA RequirementStepNext ==
  EndpointsInv /\ EndpointsInv' /\ [EndpointsNext]_endpointsVars
    => [RequirementStep]_endpointsVars
<1> SUFFICES ASSUME EndpointsInv, EndpointsInv', EndpointsNext PROVE RequirementStep
  OBVIOUS
<1>1. DifferenceStep
  <2>1. ASSUME NEW by \in {"panel", "command"}, NEW action \in {"start", "restart"},
               Expect(by, action)
        PROVE  DifferenceStep
    BY <2>1, QuietStep DEF Expect
  <2> QED
    BY <2>1, FormStep, RollbackStep, StartStep, MihomoStep, EndStep DEF EndpointsNext
<1> QED BY <1>1, StepOfDifference

LEMMA EndpointsInvMarkers ==
  EndpointsInv => PendingIsDifference /\ GenerationNamesEndpoints
  BY DEF EndpointsInv, DraftInv, SeenInv, GenerationNamesEndpoints

\* For every set of endpoints, forms and generations.  The pending row of the store
\* is what differs from the applied endpoints; a form of the current generation
\* shows the current endpoints; and whatever saves, rollbacks, starts, restarts,
\* clears and deaths cross, a process comes to run with other endpoints than the
\* settings and no requirement only by a return to the applied endpoints or by a
\* start of the panel whose two reads differ.
THEOREM RestartMarkersAgree == EndpointsSpec => MarkersAgree
<1>1. EndpointsSpec => []EndpointsInv
  BY EndpointsInvInit, EndpointsInvNext, PTL DEF EndpointsSpec
<1>2. EndpointsSpec => [](PendingIsDifference /\ GenerationNamesEndpoints)
  BY <1>1, EndpointsInvMarkers, PTL
<1>3. EndpointsSpec => RequirementsKept
  BY <1>1, RequirementStepNext, PTL DEF EndpointsSpec, RequirementsKept
<1> QED BY <1>2, <1>3 DEF MarkersAgree

\* The rows, forms and processes keep their types; a generation is never beyond
\* its bound.
THEOREM EndpointsTypeCorrect == EndpointsSpec => []EndpointsTypeOK
<1>1. EndpointsSpec => []EndpointsInv
  BY EndpointsInvInit, EndpointsInvNext, PTL DEF EndpointsSpec
<1>2. EndpointsInv => EndpointsTypeOK
  BY DEF EndpointsInv
<1> QED BY <1>1, <1>2, PTL

=============================================================================
