---------------------------- MODULE Nodes_proofs ----------------------------
(***************************************************************************)
(* Theorem about Nodes: the keys of a node stay a pair.  The inductive     *)
(* invariant NodesInv carries the pairing to the snapshots a rollback may  *)
(* return to, and says of a form that no rollback has overtaken that its   *)
(* generation tells whether its public key is still the node's.            *)
(***************************************************************************)
EXTENDS Nodes, Integers, TLAPS

USE NodesAssumption

Paired(state) == \A id \in NodeIds : Exists(state, id) => state[id].private = state[id].public

\* Only ids that were drawn are in a state; they are not drawn again.
Drawn(state) == \A id \in NodeIds : Exists(state, id) => id \in used

RevisionsInv ==
  /\ nodes \in revisions
  /\ \A s \in revisions : Drawn(s) /\ (~crossed => Paired(s))

FormInv(form) ==
  /\ form.id \in used
  /\ form.private # Hidden => form.private = form.public
  /\ form.private = Hidden /\ ~form.old /\ Exists(nodes, form.id) =>
       /\ form.generation <= nodes[form.id].generation
       /\ form.generation = nodes[form.id].generation => form.public = nodes[form.id].public

NodesInv ==
  /\ NodesTypeOK /\ RevisionsInv
  /\ \A t \in Tabs : forms[t] # NoForm => FormInv(forms[t])

\* A node of the next state is the one of this state, or a newer one.
Follows(state) ==
  \A id \in used : id \in NodeIds /\ Exists(state, id) =>
    /\ Exists(nodes, id)
    /\ \/ state[id].generation > nodes[id].generation
       \/ /\ state[id].generation = nodes[id].generation
          /\ state[id].public = nodes[id].public

-----------------------------------------------------------------------------
LEMMA NodesInvInit == NodesInit => NodesInv
<1> SUFFICES ASSUME NodesInit PROVE NodesInv
  OBVIOUS
<1>1. nodes \in States /\ used \subseteq NodeIds /\ revisions \subseteq States
  BY DEF NodesInit, States
<1>2. forms \in [Tabs -> Forms \cup {NoForm}] /\ today \in 0..LastDay /\ crossed \in BOOLEAN
  <2>1. forms \in [Tabs -> Forms \cup {NoForm}]
    BY DEF NodesInit
  <2>2. today \in 0..LastDay
    BY DEF NodesInit
  <2>3. crossed \in BOOLEAN
    BY DEF NodesInit
  <2> QED BY <2>1, <2>2, <2>3
<1>3. RevisionsInv
  BY DEF NodesInit, RevisionsInv, Drawn, Paired, Exists
<1> QED BY <1>1, <1>2, <1>3 DEF NodesInv, NodesTypeOK, NodesInit

\* What the handlers make of a node.
LEMMA ChangedLaws ==
  ASSUME NEW n \in Node
  PROVE  /\ Changed(n) \in Node /\ Changed(n).generation = n.generation + 1
         /\ Changed(n).private = n.private /\ Changed(n).public = n.public
         /\ Changed(n).users = n.users /\ Changed(n).enabled = n.enabled
         /\ n.generation \in Nat \ {0} /\ n.users \in [UserIds -> User \cup {NoUser}]
         /\ n.private \in Pairs /\ n.public \in Pairs
  BY DEF Changed, Node

LEMMA EnabledLaws ==
  ASSUME NEW n \in Node, NEW e \in BOOLEAN
  PROVE  LET m == [n EXCEPT !.enabled = e]
         IN  /\ m \in Node /\ m.generation = n.generation
             /\ m.private = n.private /\ m.public = n.public
  BY DEF Node

LEMMA UsersLaws ==
  ASSUME NEW n \in Node, NEW f \in [UserIds -> User \cup {NoUser}]
  PROVE  LET m == [n EXCEPT !.users = f]
         IN  /\ m \in Node /\ m.generation = n.generation
             /\ m.private = n.private /\ m.public = n.public
  BY DEF Node

LEMMA UserLaws ==
  ASSUME NEW n \in Node, NEW u \in UserIds, NEW user \in User \cup {NoUser}
  PROVE  LET m == [n EXCEPT !.users[u] = user]
         IN  /\ m \in Node /\ m.generation = n.generation
             /\ m.private = n.private /\ m.public = n.public
<1>1. n.users \in [UserIds -> User \cup {NoUser}]
  BY DEF Node
<1>2. [n.users EXCEPT ![u] = user] \in [UserIds -> User \cup {NoUser}]
  BY <1>1
<1> QED BY <1>2, UsersLaws

LEMMA FormLaws ==
  ASSUME NEW form \in Forms
  PROVE  /\ form.id \in NodeIds /\ form.generation \in Nat \ {0}
         /\ form.private \in Pairs \cup {Hidden} /\ form.public \in Pairs
         /\ form.old \in BOOLEAN
  BY DEF Forms

LEMMA WithPairLaws ==
  ASSUME NEW form \in Forms, NEW p \in Pairs
  PROVE  LET f == WithPair(form, p)
         IN  /\ f \in Forms /\ f.id = form.id /\ f.generation = form.generation
             /\ f.private = p /\ f.public = p /\ f.old = form.old
  BY DEF Forms, WithPair

LEMMA PreservedLaws ==
  ASSUME NEW form \in Forms, NEW n \in Node
  PROVE  LET m == Preserved(form, n)
         IN  /\ m \in Node /\ m.generation = n.generation + 1
             /\ m.public = form.public
             /\ m.private = IF form.private = Hidden THEN n.private ELSE form.private
<1>1. Changed(n) \in Node /\ Changed(n).private = n.private
      /\ Changed(n).generation = n.generation + 1
  BY ChangedLaws
<1> QED BY <1>1, FormLaws DEF Preserved, Node

LEMMA BatchLaws ==
  ASSUME NEW n \in Node
  PROVE  /\ Batch(n) \in Node /\ Batch(n).generation \in {n.generation, n.generation + 1}
         /\ Batch(n).private = n.private /\ Batch(n).public = n.public
<1> DEFINE us == [u \in UserIds |->
                    IF HasExpired(n.users[u]) THEN [n.users[u] EXCEPT !.enabled = FALSE]
                    ELSE n.users[u]]
           left == [n EXCEPT !.users = us]
           off == [left EXCEPT !.enabled = FALSE, !.generation = @ + 1]
<1>1. us \in [UserIds -> User \cup {NoUser}]
  <2> SUFFICES ASSUME NEW u \in UserIds
               PROVE  (IF HasExpired(n.users[u]) THEN [n.users[u] EXCEPT !.enabled = FALSE]
                       ELSE n.users[u]) \in User \cup {NoUser}
    OBVIOUS
  <2>1. n.users[u] \in User \cup {NoUser}
    BY DEF Node
  <2>2. HasExpired(n.users[u]) => n.users[u] \in User
    BY <2>1 DEF HasExpired
  <2> QED BY <2>1, <2>2 DEF User
<1>2. /\ left \in Node /\ left.generation = n.generation
      /\ left.private = n.private /\ left.public = n.public
  BY <1>1, UsersLaws
<1>3. /\ off \in Node /\ off.generation = n.generation + 1
      /\ off.private = n.private /\ off.public = n.public
  <2> HIDE DEF left
  <2>1. [left EXCEPT !.enabled = FALSE] \in Node
        /\ [left EXCEPT !.enabled = FALSE].generation = left.generation
        /\ [left EXCEPT !.enabled = FALSE].private = left.private
        /\ [left EXCEPT !.enabled = FALSE].public = left.public
    BY <1>2, EnabledLaws
  <2>2. off = Changed([left EXCEPT !.enabled = FALSE])
    BY <1>2 DEF Changed, Node
  <2> QED BY <1>2, <2>1, <2>2, ChangedLaws
<1> QED BY <1>2, <1>3 DEF Batch

-----------------------------------------------------------------------------
\* A state that is published follows the last one: the forms stay told apart.
LEMMA PublishKeeps ==
  ASSUME NodesInv, NEW state \in States, Publish(state),
         ~crossed' => Paired(state),
         crossed => crossed', crossed' \in BOOLEAN,
         used' \in SUBSET NodeIds, used \subseteq used',
         \A i \in NodeIds : Exists(state, i) => i \in used',
         forms' \in [Tabs -> Forms \cup {NoForm}], today' \in 0..LastDay,
         \A t \in Tabs : forms'[t] # NoForm => FormInv(forms[t])'
  PROVE  NodesInv'
<1>1. nodes' = state /\ state \in revisions' /\ revisions' \subseteq revisions \cup {state}
  BY DEF Publish
<1>2. NodesTypeOK'
  BY <1>1 DEF NodesTypeOK, NodesInv
<1>3. ASSUME NEW s \in revisions PROVE Drawn(s)' /\ (~crossed' => Paired(s)')
  BY DEF NodesInv, RevisionsInv, Drawn, Paired, Exists
<1>4. RevisionsInv'
  BY <1>1, <1>3 DEF RevisionsInv, Drawn, Paired, Exists
<1> QED BY <1>2, <1>4 DEF NodesInv

LEMMA FormsFollow ==
  ASSUME NodesInv, NEW state \in States, Follows(state), nodes' = state, used \subseteq used',
         NEW form \in Forms, FormInv(form)
  PROVE  FormInv(form)'
<1>1. /\ form.id \in NodeIds /\ form.id \in used /\ form.generation \in Nat
  BY FormLaws DEF FormInv
<1>2. CASE form.private = Hidden /\ ~form.old /\ Exists(state, form.id)
  <2>1. Exists(nodes, form.id)
    BY <1>1, <1>2 DEF Follows
  <2>2. nodes[form.id].generation \in Nat /\ state[form.id].generation \in Nat
    BY <1>1, <1>2, <2>1 DEF NodesInv, NodesTypeOK, States, Exists, Node
  <2>3. /\ form.generation <= nodes[form.id].generation
        /\ form.generation = nodes[form.id].generation => form.public = nodes[form.id].public
    BY <1>2, <2>1 DEF FormInv
  <2>4. \/ state[form.id].generation > nodes[form.id].generation
        \/ /\ state[form.id].generation = nodes[form.id].generation
           /\ state[form.id].public = nodes[form.id].public
    BY <1>1, <1>2 DEF Follows
  <2> QED BY <1>1, <1>2, <2>2, <2>3, <2>4 DEF FormInv
<1>3. CASE ~(form.private = Hidden /\ ~form.old /\ Exists(state, form.id))
  BY <1>1, <1>3 DEF FormInv, Exists
<1> QED BY <1>2, <1>3

\* A handler that publishes and leaves the forms alone.
LEMMA HandlerKeeps ==
  ASSUME NodesInv, NEW state \in States, Publish(state), Follows(state),
         \A i \in NodeIds : Exists(state, i) => i \in used',
         ~crossed' => Paired(state), crossed => crossed', crossed' \in BOOLEAN,
         used' \in SUBSET NodeIds, used \subseteq used', today' = today,
         \A t \in Tabs : forms'[t] \in {forms[t], NoForm},
         forms' \in [Tabs -> Forms \cup {NoForm}]
  PROVE  NodesInv'
<1>1. nodes' = state
  BY DEF Publish
<1>2. today' \in 0..LastDay
  BY DEF NodesInv, NodesTypeOK
<1>3. ASSUME NEW t \in Tabs, forms'[t] # NoForm PROVE FormInv(forms[t])'
  <2>1. forms'[t] = forms[t] /\ forms[t] \in Forms /\ FormInv(forms[t])
    BY <1>3 DEF NodesInv, NodesTypeOK
  <2> QED BY <1>1, <2>1, FormsFollow
<1> QED BY <1>2, <1>3, PublishKeeps

\* A handler that makes a newer node of one, with the same pair or a new one.
LEMMA MutationKeeps ==
  ASSUME NodesInv, NEW id \in NodeIds, Exists(nodes, id), NEW node \in Node,
         node.generation = nodes[id].generation + 1,
         Publish([nodes EXCEPT ![id] = node]),
         ~crossed' => node.private = node.public,
         crossed => crossed', crossed' \in BOOLEAN, used' = used, today' = today,
         \A t \in Tabs : forms'[t] \in {forms[t], NoForm},
         forms' \in [Tabs -> Forms \cup {NoForm}]
  PROVE  NodesInv'
<1> DEFINE state == [nodes EXCEPT ![id] = node]
<1>1. nodes \in States /\ nodes[id] \in Node /\ nodes[id].generation \in Nat
  BY DEF NodesInv, NodesTypeOK, States, Exists, Node
<1>2. /\ state \in States /\ state[id] = node
      /\ \A other \in NodeIds \ {id} : state[other] = nodes[other]
  BY <1>1 DEF States
<1>3. /\ id \in used /\ Drawn(nodes) /\ (~crossed' => Paired(nodes))
      /\ used \subseteq NodeIds
  BY DEF NodesInv, RevisionsInv, NodesTypeOK, Drawn
<1> HIDE DEF state
<1>4. Follows(state)
  <2> SUFFICES ASSUME NEW other \in used, other \in NodeIds, Exists(state, other)
               PROVE  /\ Exists(nodes, other)
                      /\ \/ state[other].generation > nodes[other].generation
                         \/ /\ state[other].generation = nodes[other].generation
                            /\ state[other].public = nodes[other].public
    BY DEF Follows
  <2>1. CASE other = id
    BY <1>1, <1>2, <2>1
  <2>2. CASE other # id
    BY <1>2, <2>2 DEF Exists
  <2> QED BY <2>1, <2>2
<1>5. /\ \A i \in NodeIds : Exists(state, i) => i \in used'
      /\ ~crossed' => Paired(state)
  <2>1. \A i \in NodeIds : Exists(state, i) => i \in used'
    BY <1>2, <1>3 DEF Drawn, Exists
  <2>2. ~crossed' => Paired(state)
    BY <1>2, <1>3 DEF Paired, Exists
  <2> QED BY <2>1, <2>2
<1>6. Publish(state)
  BY DEF state
<1> QED BY <1>2, <1>3, <1>4, <1>5, <1>6, HandlerKeeps

-----------------------------------------------------------------------------
LEMMA NewNodeLaws ==
  ASSUME NEW node \in NewNodes
  PROVE  node \in Node /\ node.private = node.public
<1> DEFINE Few == {f \in [UserIds -> User \cup {NoUser}] :
                     Cardinality({u \in UserIds : f[u] # NoUser}) <= 1}
<1>1. Few \subseteq [UserIds -> User \cup {NoUser}]
  OBVIOUS
<1>2. node \in {[generation |-> 1, enabled |-> e, private |-> p, public |-> p,
                 users |-> [u \in UserIds |-> us[u]]] :
                   e \in BOOLEAN, p \in Pairs, us \in Few}
  BY DEF NewNodes
<1> HIDE DEF Few
<1>3. PICK e \in BOOLEAN, p \in Pairs, us \in Few :
        node = [generation |-> 1, enabled |-> e, private |-> p, public |-> p,
                users |-> [u \in UserIds |-> us[u]]]
  BY <1>2
<1>4. [u \in UserIds |-> us[u]] \in [UserIds -> User \cup {NoUser}]
  BY <1>1
<1> QED BY <1>3, <1>4 DEF Node

LEMMA CreateKeeps ==
  ASSUME NodesInv, NEW id \in NodeIds, CreateNode(id)
  PROVE  NodesInv'
<1>1. PICK node \in NewNodes : Publish([nodes EXCEPT ![id] = node])
  BY DEF CreateNode
<1>2. /\ id \notin used /\ used' = used \cup {id} /\ used \subseteq NodeIds
      /\ forms' = forms /\ today' = today /\ crossed' = crossed
      /\ crossed \in BOOLEAN /\ forms \in [Tabs -> Forms \cup {NoForm}] /\ nodes \in States
  BY DEF CreateNode, NodesInv, NodesTypeOK
<1>3. node \in Node /\ node.private = node.public
  BY NewNodeLaws
<1> DEFINE state == [nodes EXCEPT ![id] = node]
<1>4. /\ state \in States /\ state[id] = node
      /\ \A other \in NodeIds \ {id} : state[other] = nodes[other]
  BY <1>2, <1>3 DEF States
<1>5. Drawn(nodes) /\ (~crossed => Paired(nodes))
  BY DEF NodesInv, RevisionsInv
<1> HIDE DEF state
<1>6. Follows(state)
  BY <1>2, <1>4 DEF Follows, Exists
<1>7. /\ \A i \in NodeIds : Exists(state, i) => i \in used'
      /\ ~crossed' => Paired(state)
  BY <1>2, <1>3, <1>4, <1>5 DEF Drawn, Paired, Exists
<1>8. Publish(state)
  BY <1>1 DEF state
<1> QED BY <1>2, <1>4, <1>6, <1>7, <1>8, HandlerKeeps

LEMMA DeleteKeeps ==
  ASSUME NodesInv, NEW id \in NodeIds, DeleteNode(id)
  PROVE  NodesInv'
<1>1. Publish([nodes EXCEPT ![id] = NoNode])
  BY DEF DeleteNode, Mutate
<1>2. /\ used' = used /\ used \subseteq NodeIds
      /\ forms' = forms /\ today' = today /\ crossed' = crossed
      /\ crossed \in BOOLEAN /\ forms \in [Tabs -> Forms \cup {NoForm}] /\ nodes \in States
  BY DEF DeleteNode, Mutate, NodesInv, NodesTypeOK
<1> DEFINE state == [nodes EXCEPT ![id] = NoNode]
<1>3. /\ state \in States /\ state[id] = NoNode
      /\ \A other \in NodeIds \ {id} : state[other] = nodes[other]
  BY <1>2 DEF States
<1>4. Drawn(nodes) /\ (~crossed => Paired(nodes))
  BY DEF NodesInv, RevisionsInv
<1> HIDE DEF state
<1>5. Follows(state)
  BY <1>2, <1>3 DEF Follows, Exists
<1>6. /\ \A i \in NodeIds : Exists(state, i) => i \in used'
      /\ ~crossed' => Paired(state)
  BY <1>2, <1>3, <1>4 DEF Drawn, Paired, Exists
<1>7. Publish(state)
  BY <1>1 DEF state
<1> QED BY <1>2, <1>3, <1>5, <1>6, <1>7, HandlerKeeps

\* The handlers that count a generation and leave the pair alone.
LEMMA CountedKeeps ==
  ASSUME NodesInv, NEW id \in NodeIds, Exists(nodes, id), NEW node \in Node,
         node.generation = nodes[id].generation + 1,
         node.private = nodes[id].private, node.public = nodes[id].public,
         Mutate(id, node)
  PROVE  NodesInv'
<1>1. /\ used' = used /\ forms' = forms /\ today' = today /\ crossed' = crossed
      /\ crossed \in BOOLEAN /\ forms \in [Tabs -> Forms \cup {NoForm}]
      /\ Publish([nodes EXCEPT ![id] = node])
  BY DEF Mutate, NodesInv, NodesTypeOK
<1>2. ~crossed' => node.private = node.public
  BY <1>1 DEF NodesInv, RevisionsInv, Paired
<1> QED BY <1>1, <1>2, MutationKeeps

LEMMA EnableKeeps ==
  ASSUME NodesInv, NEW id \in NodeIds, SetNodeEnabled(id)
  PROVE  NodesInv'
<1>1. PICK e \in BOOLEAN : Mutate(id, [Changed(nodes[id]) EXCEPT !.enabled = e])
  BY DEF SetNodeEnabled
<1>2. Exists(nodes, id) /\ nodes[id] \in Node
  BY DEF SetNodeEnabled, NodesInv, NodesTypeOK, States, Exists
<1> DEFINE node == [Changed(nodes[id]) EXCEPT !.enabled = e]
<1>3. Changed(nodes[id]) \in Node
  BY <1>2, ChangedLaws
<1>4. /\ node \in Node /\ node.generation = Changed(nodes[id]).generation
      /\ node.private = Changed(nodes[id]).private
      /\ node.public = Changed(nodes[id]).public
  BY <1>3, EnabledLaws
<1>5. Mutate(id, node)
  BY <1>1
<1> HIDE DEF node
<1>6. /\ node.generation = nodes[id].generation + 1
      /\ node.private = nodes[id].private /\ node.public = nodes[id].public
  BY <1>2, <1>4, ChangedLaws
<1> QED BY <1>2, <1>4, <1>5, <1>6, CountedKeeps

LEMMA UserKeeps ==
  ASSUME NodesInv, NEW id \in NodeIds, NEW u \in UserIds, NEW user \in User \cup {NoUser},
         ChangeUser(id, u, user)
  PROVE  NodesInv'
<1>1. Exists(nodes, id) /\ nodes[id] \in Node
  BY DEF ChangeUser, NodesInv, NodesTypeOK, States, Exists
<1>2. Mutate(id, [Changed(nodes[id]) EXCEPT !.users[u] = user])
  BY DEF ChangeUser
<1> DEFINE node == [Changed(nodes[id]) EXCEPT !.users[u] = user]
<1>3. Changed(nodes[id]) \in Node
  BY <1>1, ChangedLaws
<1>4. /\ node \in Node /\ node.generation = Changed(nodes[id]).generation
      /\ node.private = Changed(nodes[id]).private
      /\ node.public = Changed(nodes[id]).public
  BY <1>3, UserLaws
<1>5. Mutate(id, node)
  BY <1>2
<1> HIDE DEF node
<1>6. /\ node.generation = nodes[id].generation + 1
      /\ node.private = nodes[id].private /\ node.public = nodes[id].public
  BY <1>1, <1>4, ChangedLaws
<1> QED BY <1>1, <1>4, <1>5, <1>6, CountedKeeps

LEMMA UsersKeep ==
  ASSUME NodesInv, NEW id \in NodeIds, NEW u \in UserIds,
         \/ CreateUser(id, u) \/ UpdateUser(id, u)
         \/ SetUserEnabled(id, u) \/ DeleteUser(id, u)
  PROVE  NodesInv'
<1>1. CASE CreateUser(id, u) \/ UpdateUser(id, u) \/ DeleteUser(id, u)
  BY <1>1, UserKeeps DEF CreateUser, UpdateUser, DeleteUser
<1>2. CASE SetUserEnabled(id, u)
  <2>1. PICK e \in BOOLEAN : ChangeUser(id, u, [nodes[id].users[u] EXCEPT !.enabled = e])
    BY <1>2 DEF SetUserEnabled
  <2>2. nodes[id] \in Node /\ nodes[id].users[u] # NoUser
    BY <1>2 DEF SetUserEnabled, NodesInv, NodesTypeOK, States, Exists
  <2>3. nodes[id].users[u] \in User
    BY <2>2 DEF Node
  <2>4. [nodes[id].users[u] EXCEPT !.enabled = e] \in User
    BY <2>3 DEF User
  <2> QED BY <2>1, <2>4, UserKeeps
<1> QED BY <1>1, <1>2

-----------------------------------------------------------------------------
\* A form is saved: the generation it was filled with is the node's, so the public
\* key it sends belongs to the private key that stays.
LEMMA SubmitKeeps ==
  ASSUME NodesInv, NEW form \in Forms, FormInv(form), Submit(form),
         used' = used, today' = today,
         \A t \in Tabs : forms'[t] \in {forms[t], NoForm},
         forms' \in [Tabs -> Forms \cup {NoForm}]
  PROVE  NodesInv'
<1> DEFINE node == nodes[form.id]
<1>1. /\ form.id \in NodeIds /\ form.id \in used /\ Exists(nodes, form.id) /\ node \in Node
      /\ node.generation = form.generation /\ node.generation \in Nat
      /\ crossed' = (crossed \/ form.old) /\ crossed \in BOOLEAN /\ form.old \in BOOLEAN
  BY FormLaws DEF Submit, NodesInv, NodesTypeOK, States, Exists, Node, FormInv
<1>2. PICK e \in BOOLEAN :
        Publish([nodes EXCEPT ![form.id] = [Preserved(form, node) EXCEPT !.enabled = e]])
  BY DEF Submit
<1> DEFINE new == [Preserved(form, node) EXCEPT !.enabled = e]
<1>3. Preserved(form, node) \in Node
  BY <1>1, PreservedLaws
<1>4. /\ new \in Node /\ new.generation = node.generation + 1
      /\ new.public = form.public
      /\ new.private = IF form.private = Hidden THEN node.private ELSE form.private
  BY <1>1, <1>3, PreservedLaws, EnabledLaws
<1>5. ~crossed' => new.private = new.public
  <2>1. ~crossed => node.private = node.public
    BY <1>1 DEF NodesInv, RevisionsInv, Paired
  <2>2. form.private = Hidden /\ ~form.old => form.public = node.public
    BY <1>1 DEF FormInv
  <2> QED BY <1>1, <1>4, <2>1, <2>2 DEF FormInv
<1> HIDE DEF new
<1>6. Publish([nodes EXCEPT ![form.id] = new])
  BY <1>2 DEF new
<1> QED BY <1>1, <1>4, <1>5, <1>6, MutationKeeps

LEMMA UpdateKeeps ==
  ASSUME NodesInv, NEW t \in Tabs, UpdateNode(t)
  PROVE  NodesInv'
<1>1. /\ forms[t] \in Forms /\ FormInv(forms[t]) /\ Submit(forms[t])
      /\ used' = used /\ today' = today
  BY DEF UpdateNode, NodesInv, NodesTypeOK
<1>2. /\ forms' \in [Tabs -> Forms \cup {NoForm}]
      /\ \A s \in Tabs : forms'[s] \in {forms[s], NoForm}
  BY DEF UpdateNode, NodesInv, NodesTypeOK
<1> QED BY <1>1, <1>2, SubmitKeeps

LEMMA AnswerLaws ==
  ASSUME NodesInv, NEW id \in NodeIds, Exists(nodes, id)
  PROVE  /\ Answer(id) \in Forms /\ FormInv(Answer(id))
         /\ Answer(id).id = id
<1>1. nodes[id] \in Node /\ id \in used
  BY DEF NodesInv, NodesTypeOK, RevisionsInv, Drawn, States, Exists
<1>2. nodes[id].generation \in Nat \ {0} /\ nodes[id].public \in Pairs
  BY <1>1, ChangedLaws
<1>3. Answer(id) \in Forms
  BY <1>2 DEF Answer, Forms
<1> QED BY <1>1, <1>2, <1>3 DEF FormInv, Answer

LEMMA PairKeeps ==
  ASSUME NodesInv, NEW id \in NodeIds, ReplacePair(id)
  PROVE  NodesInv'
<1>1. PICK p \in Pairs : Submit(WithPair(Answer(id), p))
  BY DEF ReplacePair
<1>2. Answer(id) \in Forms /\ FormInv(Answer(id)) /\ p # Hidden
  BY AnswerLaws DEF ReplacePair
<1>3. WithPair(Answer(id), p) \in Forms /\ FormInv(WithPair(Answer(id), p))
  BY <1>2, WithPairLaws DEF FormInv
<1>4. /\ used' = used /\ today' = today /\ forms' = forms
      /\ forms \in [Tabs -> Forms \cup {NoForm}]
  BY DEF ReplacePair, NodesInv, NodesTypeOK
<1> QED BY <1>1, <1>3, <1>4, SubmitKeeps

\* The forms of a tab, while the nodes stay.
LEMMA TabsKeep ==
  ASSUME NodesInv, NEW t \in Tabs, Load(t) \/ GenerateRealityKeypair(t)
  PROVE  NodesInv'
<1>1. UNCHANGED <<nodes, used, revisions, today, crossed>>
  BY DEF Load, GenerateRealityKeypair
<1>2. PICK form \in Forms : FormInv(form) /\ forms' = [forms EXCEPT ![t] = form]
  <2>1. CASE Load(t)
    BY <2>1, AnswerLaws DEF Load
  <2>2. CASE GenerateRealityKeypair(t)
    <3>1. PICK p \in Pairs : forms' = [forms EXCEPT ![t] = WithPair(@, p)]
      BY <2>2 DEF GenerateRealityKeypair
    <3>2. forms[t] \in Forms /\ FormInv(forms[t]) /\ p # Hidden
      BY <2>2 DEF GenerateRealityKeypair, NodesInv, NodesTypeOK
    <3>3. WithPair(forms[t], p) \in Forms /\ FormInv(WithPair(forms[t], p))
      BY <3>2, WithPairLaws DEF FormInv
    <3>4. forms' = [forms EXCEPT ![t] = WithPair(forms[t], p)]
      BY <3>1
    <3> QED BY <3>3, <3>4
  <2> QED BY <2>1, <2>2
<1>3. NodesTypeOK'
  BY <1>1, <1>2 DEF NodesInv, NodesTypeOK
<1>4. RevisionsInv'
  BY <1>1 DEF NodesInv, RevisionsInv, Drawn, Paired
<1>5. ASSUME NEW s \in Tabs, forms'[s] # NoForm PROVE FormInv(forms[s])'
  <2>1. FormInv(forms'[s])
    BY <1>2, <1>5 DEF NodesInv, NodesTypeOK
  <2> QED BY <1>1, <2>1 DEF FormInv, Exists
<1> QED BY <1>3, <1>4, <1>5 DEF NodesInv

-----------------------------------------------------------------------------
\* A rollback marks the forms it overtakes.
LEMMA RollbackKeeps ==
  ASSUME NodesInv, Rollback
  PROVE  NodesInv'
<1>1. PICK state \in revisions : Publish(state)
  BY DEF Rollback
<1>2. /\ used' = used /\ today' = today /\ crossed' = crossed
      /\ forms' = [t \in Tabs |-> IF forms[t] = NoForm THEN NoForm
                                ELSE [forms[t] EXCEPT !.old = TRUE]]
      /\ revisions \subseteq States /\ used \subseteq NodeIds /\ today \in 0..LastDay
      /\ crossed \in BOOLEAN
  BY DEF Rollback, NodesInv, NodesTypeOK
<1>3. Drawn(state) /\ (~crossed => Paired(state))
  BY DEF NodesInv, RevisionsInv
<1>4. ASSUME NEW t \in Tabs, forms[t] # NoForm
      PROVE  /\ [forms[t] EXCEPT !.old = TRUE] \in Forms
             /\ FormInv([forms[t] EXCEPT !.old = TRUE])'
  <2>1. forms[t] \in Forms /\ FormInv(forms[t])
    BY <1>4 DEF NodesInv, NodesTypeOK
  <2> QED BY <1>2, <2>1 DEF FormInv, Forms
<1>5. forms' \in [Tabs -> Forms \cup {NoForm}]
  BY <1>2, <1>4
<1>6. \A t \in Tabs : forms'[t] # NoForm => FormInv(forms[t])'
  BY <1>2, <1>4
<1>7. \A i \in NodeIds : Exists(state, i) => i \in used'
  BY <1>2, <1>3 DEF Drawn
<1> QED BY <1>1, <1>2, <1>3, <1>5, <1>6, <1>7, PublishKeeps

LEMMA ExpireKeeps ==
  ASSUME NodesInv, Expire
  PROVE  NodesInv'
<1> DEFINE state == [id \in NodeIds |-> IF Affected(nodes[id]) THEN Batch(nodes[id])
                                       ELSE nodes[id]]
<1>1. /\ Publish(state)
      /\ used' = used /\ forms' = forms /\ today' = today /\ crossed' = crossed
      /\ used \subseteq NodeIds /\ crossed \in BOOLEAN /\ nodes \in States
      /\ forms \in [Tabs -> Forms \cup {NoForm}]
  BY DEF Expire, NodesInv, NodesTypeOK
<1>2. ASSUME NEW id \in NodeIds
      PROVE  \/ state[id] = nodes[id]
             \/ /\ Exists(nodes, id) /\ nodes[id] \in Node /\ state[id] \in Node
                /\ state[id].generation \in {nodes[id].generation, nodes[id].generation + 1}
                /\ nodes[id].generation \in Nat
                /\ state[id].private = nodes[id].private
                /\ state[id].public = nodes[id].public
  <2>1. CASE Affected(nodes[id])
    <3>1. Exists(nodes, id) /\ nodes[id] \in Node /\ state[id] = Batch(nodes[id])
      BY <1>1, <2>1 DEF Affected, States, Exists
    <3> QED BY <3>1, BatchLaws, ChangedLaws
  <2>2. CASE ~Affected(nodes[id])
    BY <2>2
  <2> QED BY <2>1, <2>2
<1>3. state \in States
  <2>1. \A id \in NodeIds : state[id] \in Node \cup {NoNode}
    BY <1>1, <1>2 DEF States
  <2>2. state = [id \in NodeIds |-> state[id]]
    OBVIOUS
  <2> QED BY <2>1, <2>2 DEF States
<1>4. Drawn(nodes) /\ (~crossed => Paired(nodes))
  BY DEF NodesInv, RevisionsInv
<1> HIDE DEF state
<1>5. Follows(state)
  BY <1>2 DEF Follows, Exists
<1>6. /\ \A i \in NodeIds : Exists(state, i) => i \in used'
      /\ ~crossed' => Paired(state)
  BY <1>1, <1>2, <1>4 DEF Drawn, Paired, Exists
<1> QED BY <1>1, <1>3, <1>5, <1>6, HandlerKeeps

LEMMA NodesInvNext == NodesInv /\ [NodesNext]_nodesVars => NodesInv'
<1> SUFFICES ASSUME NodesInv, [NodesNext]_nodesVars PROVE NodesInv'
  OBVIOUS
<1>1. CASE NodesNext /\ ~DayPasses
  BY <1>1, CreateKeeps, DeleteKeeps, EnableKeeps, PairKeeps, UsersKeep, TabsKeep,
     UpdateKeeps, RollbackKeeps, ExpireKeeps
  DEF NodesNext
<1>2. CASE DayPasses
  <2>1. today' \in 0..LastDay
    BY <1>2 DEF DayPasses, NodesInv, NodesTypeOK
  <2> QED BY <1>2, <2>1 DEF DayPasses, NodesInv, NodesTypeOK, RevisionsInv, Drawn, Paired,
         FormInv, Exists
<1>3. CASE UNCHANGED nodesVars
  BY <1>3 DEF nodesVars, NodesInv, NodesTypeOK, RevisionsInv, Drawn, Paired, FormInv, Exists
<1> QED BY <1>1, <1>2, <1>3

\* For every set of nodes, users, tabs and key pairs, and every order of requests,
\* expiries and rollbacks: the private key of a node and its public key are halves
\* of one pair, unless a form that is older than a rollback was saved.
THEOREM KeysStayPaired == NodesSpec => []KeysPaired
<1>1. NodesSpec => []NodesInv
  BY NodesInvInit, NodesInvNext, PTL DEF NodesSpec
<1>2. NodesInv => KeysPaired
  BY DEF NodesInv, RevisionsInv, Paired, KeysPaired
<1> QED BY <1>1, <1>2, PTL

\* Nodes, revisions, forms and today keep their types, with any sets of ids and pairs.
THEOREM NodesTypeCorrect == NodesSpec => []NodesTypeOK
<1>1. NodesSpec => []NodesInv
  BY NodesInvInit, NodesInvNext, PTL DEF NodesSpec
<1>2. NodesInv => NodesTypeOK
  BY DEF NodesInv
<1> QED BY <1>1, <1>2, PTL

=============================================================================
