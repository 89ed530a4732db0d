------------------------------- MODULE Nodes -------------------------------
(***************************************************************************)
(* The nodes and users of the desired state as the management handlers,    *)
(* the expiry scheduler and a rollback change them (internal/service/      *)
(* management.go, internal/scheduler/expiry.go), under the rules of        *)
(* internal/domain/validate.go, and the forms of a browser, which were     *)
(* filled from an earlier answer.  A publication is one step here; what it *)
(* consists of is Publication's subject.                                   *)
(***************************************************************************)
EXTENDS Naturals, FiniteSets

CONSTANTS
  NodeIds, UserIds,     \* UUIDs: the ones that can be drawn
  NoNode, NoUser, NoForm,
  Hidden,               \* a secret in an answer: the empty string
  Tabs,                 \* browser tabs with a form of a node
  Pairs,                \* REALITY key pairs; the halves of a pair are equal
  LastDay,              \* bound: days that pass
  MaxGeneration,        \* bound: the highest generation a request changes
  Retention             \* revisions that are kept

ASSUME NodesAssumption ==
  /\ Hidden \notin Pairs /\ LastDay \in Nat
  /\ MaxGeneration \in Nat \ {0} /\ Retention \in Nat \ {0}

VARIABLES
  nodes,      \* the desired state: the node of an id
  used,       \* the ids drawn so far
  revisions,  \* the snapshots a rollback can return to
  forms,      \* of each tab: the node it shows and what it will send
  today,
  crossed     \* observed: a form that is older than a rollback was saved

nodesVars == <<nodes, used, revisions, forms, today, crossed>>

Days == 1..LastDay
Never == LastDay + 1
User == [enabled : BOOLEAN, expires : Days \cup {Never}]
Node == [generation : Nat \ {0}, enabled : BOOLEAN,
         private : Pairs, public : Pairs,
         users : [UserIds -> User \cup {NoUser}]]
States == [NodeIds -> Node \cup {NoNode}]

\* private is Hidden unless the form generated a new pair.  old: observed only,
\* a rollback came after the answer.
Forms == [id : NodeIds, generation : Nat \ {0},
          private : Pairs \cup {Hidden}, public : Pairs, old : BOOLEAN]

-----------------------------------------------------------------------------
Exists(state, id) == state[id] # NoNode

EffectiveUsers(node, day) ==
  {u \in UserIds : /\ node.users[u] # NoUser
                   /\ node.users[u].enabled /\ node.users[u].expires > day}

\* DesiredState.Validate, as far as these handlers can violate it.
Valid(state, day) ==
  \A id \in NodeIds :
    Exists(state, id) /\ state[id].enabled => EffectiveUsers(state[id], day) # {}

Changed(node) == [node EXCEPT !.generation = @ + 1]

\* publishLocked after the mutation: the result is valid today, and a revision
\* of its own.  Old revisions are pruned.
Publish(state) ==
  /\ Valid(state, today)
  /\ nodes' = state
  /\ revisions' \in {kept \in SUBSET (revisions \cup {state}) :
                       state \in kept /\ Cardinality(kept) <= Retention}

\* mutate: a handler that changes one node.
Mutate(id, node) ==
  /\ Publish([nodes EXCEPT ![id] = node])
  /\ UNCHANGED <<used, forms, today, crossed>>

-----------------------------------------------------------------------------
\* nodeFromSpec for a new node: a given pair or a generated one, no user or one.
NewNodes ==
  {[generation |-> 1, enabled |-> e, private |-> p, public |-> p,
    users |-> [u \in UserIds |-> us[u]]] :
     e \in BOOLEAN, p \in Pairs,
     us \in {f \in [UserIds -> User \cup {NoUser}] :
               Cardinality({u \in UserIds : f[u] # NoUser}) <= 1}}

NodesInit ==
  /\ nodes = [id \in NodeIds |-> NoNode] /\ used = {}
  /\ revisions = {nodes}
  /\ forms = [t \in Tabs |-> NoForm]
  /\ today = 0 /\ crossed = FALSE

\* CompleteOnboarding is the same for the first node, enabled and with a user.
CreateNode(id) ==
  /\ id \notin used
  /\ \E node \in NewNodes : Publish([nodes EXCEPT ![id] = node])
  /\ used' = used \cup {id}
  /\ UNCHANGED <<forms, today, crossed>>

DeleteNode(id) ==
  /\ Exists(nodes, id)
  /\ Mutate(id, NoNode)

SetNodeEnabled(id) ==
  /\ Exists(nodes, id) /\ nodes[id].generation < MaxGeneration
  /\ \E e \in BOOLEAN : Mutate(id, [Changed(nodes[id]) EXCEPT !.enabled = e])

\* CreateUser, UpdateUser, SetUserEnabled and DeleteUser count a generation of
\* the node but ask for none.
ChangeUser(id, u, user) ==
  /\ Exists(nodes, id) /\ nodes[id].generation < MaxGeneration
  /\ Mutate(id, [Changed(nodes[id]) EXCEPT !.users[u] = user])

CreateUser(id, u) ==
  /\ Exists(nodes, id) /\ nodes[id].users[u] = NoUser
  /\ \E user \in User : ChangeUser(id, u, user)

UpdateUser(id, u) ==
  /\ Exists(nodes, id) /\ nodes[id].users[u] # NoUser
  /\ \E user \in User : ChangeUser(id, u, user)

SetUserEnabled(id, u) ==
  /\ Exists(nodes, id) /\ nodes[id].users[u] # NoUser
  /\ \E e \in BOOLEAN : ChangeUser(id, u, [nodes[id].users[u] EXCEPT !.enabled = e])

DeleteUser(id, u) ==
  /\ Exists(nodes, id) /\ nodes[id].users[u] # NoUser
  /\ ChangeUser(id, u, NoUser)

-----------------------------------------------------------------------------
\* The answer for a node leaves its secrets empty (redactNodeSecrets).
Answer(id) ==
  [id |-> id, generation |-> nodes[id].generation,
   private |-> Hidden, public |-> nodes[id].public, old |-> FALSE]

Load(t) ==
  /\ \E id \in NodeIds : Exists(nodes, id) /\ forms' = [forms EXCEPT ![t] = Answer(id)]
  /\ UNCHANGED <<nodes, used, revisions, today, crossed>>

WithPair(form, p) == [form EXCEPT !.private = p, !.public = p]

GenerateRealityKeypair(t) ==
  /\ forms[t] # NoForm
  /\ \E p \in Pairs : forms' = [forms EXCEPT ![t] = WithPair(@, p)]
  /\ UNCHANGED <<nodes, used, revisions, today, crossed>>

\* preserveNodeSecrets: what the form left empty stays as it is stored.
Preserved(form, node) ==
  [Changed(node) EXCEPT !.public = form.public,
                        !.private = IF form.private = Hidden THEN @ ELSE form.private]

\* Mutant: the last form wins.
SubmitUnchecked(form) ==
  LET node == nodes[form.id] IN
  /\ node # NoNode /\ node.generation < MaxGeneration
  /\ \E e \in BOOLEAN :
       Publish([nodes EXCEPT ![form.id] = [Preserved(form, node) EXCEPT !.enabled = e]])
  /\ crossed' = (crossed \/ form.old)

\* UpdateNode: the generation that the form was filled with must still be the
\* node's.  The form names no users, so they stay.
Submit(form) ==
  LET node == nodes[form.id] IN
  /\ node # NoNode
  /\ node.generation = form.generation /\ node.generation < MaxGeneration
  /\ \E e \in BOOLEAN :
       Publish([nodes EXCEPT ![form.id] = [Preserved(form, node) EXCEPT !.enabled = e]])
  /\ crossed' = (crossed \/ form.old)

UpdateNode(t) ==
  /\ forms[t] # NoForm
  /\ Submit(forms[t])
  /\ forms' = [forms EXCEPT ![t] = NoForm]
  /\ UNCHANGED <<used, today>>

\* The same from a tab that loads, generates a pair and saves while nothing else
\* happens.
ReplacePair(id) ==
  /\ Exists(nodes, id)
  /\ \E p \in Pairs : Submit(WithPair(Answer(id), p))
  /\ UNCHANGED <<used, forms, today>>

-----------------------------------------------------------------------------
\* Rollback replaces the whole state by a snapshot, generations included.
Rollback ==
  /\ \E state \in revisions \ {nodes} : Publish(state)
  /\ forms' = [t \in Tabs |-> IF forms[t] = NoForm THEN NoForm
                              ELSE [forms[t] EXCEPT !.old = TRUE]]
  /\ UNCHANGED <<used, today, crossed>>

\* Expiry.RunOnce disables the users that have expired, and the enabled nodes
\* among theirs that have no effective user left.
HasExpired(user) == user # NoUser /\ user.enabled /\ user.expires <= today

\* Mutant: the nodes stay enabled.
BatchOfUsers(node) ==
  [node EXCEPT !.users = [u \in UserIds |->
     IF HasExpired(node.users[u]) THEN [node.users[u] EXCEPT !.enabled = FALSE]
     ELSE node.users[u]]]

Batch(node) ==
  LET left == [node EXCEPT !.users = [u \in UserIds |->
                 IF HasExpired(node.users[u]) THEN [node.users[u] EXCEPT !.enabled = FALSE]
                 ELSE node.users[u]]]
  IN  IF left.enabled /\ EffectiveUsers(left, today) = {}
      THEN [left EXCEPT !.enabled = FALSE, !.generation = @ + 1]
      ELSE left

Affected(node) == node # NoNode /\ \E u \in UserIds : HasExpired(node.users[u])

Expire ==
  /\ \E id \in NodeIds : Affected(nodes[id])
  /\ Publish([id \in NodeIds |-> IF Affected(nodes[id]) THEN Batch(nodes[id])
                                 ELSE nodes[id]])
  /\ UNCHANGED <<used, forms, today, crossed>>

DayPasses ==
  /\ today < LastDay
  /\ today' = today + 1
  /\ UNCHANGED <<nodes, used, revisions, forms, crossed>>

NodesNext ==
  \/ \E id \in NodeIds : CreateNode(id) \/ DeleteNode(id) \/ SetNodeEnabled(id)
                           \/ ReplacePair(id)
  \/ \E id \in NodeIds, u \in UserIds :
       \/ CreateUser(id, u) \/ UpdateUser(id, u)
       \/ SetUserEnabled(id, u) \/ DeleteUser(id, u)
  \/ \E t \in Tabs : Load(t) \/ GenerateRealityKeypair(t) \/ UpdateNode(t)
  \/ Rollback \/ Expire \/ DayPasses

\* The ticker of the expiry scheduler runs on.
NodesSpec == NodesInit /\ [][NodesNext]_nodesVars /\ WF_nodesVars(Expire)

-----------------------------------------------------------------------------
NodesTypeOK ==
  /\ nodes \in States /\ used \subseteq NodeIds
  /\ revisions \subseteq States
  /\ forms \in [Tabs -> Forms \cup {NoForm}]
  /\ today \in 0..LastDay /\ crossed \in BOOLEAN

\* The private key of a node and the public key in its share links are halves of
\* one pair: a form that keeps the private key it never saw sends the public key
\* it was filled with, and only the generation tells that both have been replaced
\* since.  (A form that is older than a rollback is KeysAlwaysPaired's.)
KeysPaired ==
  ~crossed => \A id \in NodeIds : Exists(nodes, id) => nodes[id].private = nodes[id].public

\* The same without the exception: an update is refused with "node generation
\* changed" when the node is no longer the one the form shows.
KeysAlwaysPaired ==
  \A id \in NodeIds : Exists(nodes, id) => nodes[id].private = nodes[id].public

\* A node whose last user expires makes the desired state invalid, and every
\* change of every node is refused: never for good, the next pass of the
\* scheduler disables the node.
ChangesAllowedAgain == []<>Valid(nodes, today)
=============================================================================
