------------------------------ MODULE Bindings ------------------------------
(***************************************************************************)
(* reconcileBindings: how the PolicyBindings of one Application are made   *)
(* to agree with the access rules of its CR, while people create, change   *)
(* and delete Bindings in the authentik UI and edit the CR, and while      *)
(* calls fail and the operator restarts between any two of its requests.   *)
(*                                                                         *)
(* Every request is a step of its own.  A call that fails, an answer that  *)
(* is lost, a status write that fails and a crash all end the reconcile    *)
(* between two steps (action Interrupt); the next one starts from the      *)
(* server, the markers and the recorded UUIDs alone.  The marker list is   *)
(* taken to be current here: its cache is the subject of MarkerCache.      *)
(***************************************************************************)
EXTENDS Integers, Sequences, FiniteSets, FiniteSetsExt, Functions

CONSTANTS Groups,      \* subjects without an order constraint
          Policies,    \* subjects under the unique (policy, target, order)
          Specs,       \* the specs a CR may have: [rules, prune]
          UIOrders,    \* orders that people give to the Bindings they create
          MaxBindings, \* bound: Binding UUIDs ever created
          MaxEdits,    \* bound: changes made in the UI or to the CR
          MaxFails     \* bound: interrupted reconciles

Subjects == Groups \cup Policies
Pks == 1..MaxBindings
Rule == [subject : Subjects, negate : BOOLEAN]

ASSUME BindingsAssumption ==
  /\ MaxBindings \in Nat /\ MaxEdits \in Nat /\ MaxFails \in Nat
  /\ UIOrders \subseteq Nat
  /\ \A s \in Specs : s.rules \in Seq(Rule) /\ s.prune \in BOOLEAN

VARIABLES
  app,        \* authentik: the Application exists
  made,       \* authentik: Bindings created so far; pk of the last one
  alive,      \* authentik: the Bindings of the Application
  binding,    \* authentik: subject, negate and order of each of them
  marks,      \* authentik: Bindings that carry the marker
  spec,       \* Kubernetes: the spec of the CR
  status,     \* Kubernetes: status.bindingUUIDs
  pc,         \* the reconcile: where it is
  cr,         \* the spec it read; the rules were resolved from it
  prune,      \* spec.access.prune in its copy of the CR
  seen,       \* the Bindings as listed: what they were ...
  rest,       \* ... those that managedBindings has not looked at yet ...
  managed, unmanaged,  \* ... and which of the others the operator manages
  maxOrder, matched, kept, i,  \* locals of reconcileBindings
  doomed,     \* the Binding that deleteBinding is at
  byHand,     \* history: Bindings made in the UI and never adopted
  lost,       \* history: Bindings deleted in the UI
  touched,    \* history: a Binding was created in the UI since the list
  asked,      \* history: the CR had prune at some time since the reconcile began
  edits, fails

server == <<app, made, alive, binding, marks>>
kube   == <<spec, status>>
locals == <<cr, seen, rest, managed, unmanaged, maxOrder, matched, kept, i, doomed>>
ghosts == <<byHand, lost, touched>>
asking == <<prune, asked>>
vars   == <<server, kube, pc, locals, ghosts, asking, edits, fails>>

None == 0
NoBinding == [subject |-> "", negate |-> FALSE, order |-> 0]

TypeOK ==
  /\ app \in BOOLEAN
  /\ made \in 0..MaxBindings
  /\ alive \subseteq 1..made
  /\ \A b \in alive : /\ binding[b].subject \in Subjects
                      /\ binding[b].negate \in BOOLEAN
                      /\ binding[b].order \in Nat
  /\ marks \cup status \cup byHand \cup lost \subseteq 1..made
  /\ spec \in Specs /\ cr \in Specs
  /\ pc \in {"idle", "application", "list", "split", "adopt", "write", "record",
             "mark", "delete", "unmark", "keep", "prune"}
  /\ rest \cup managed \cup unmanaged \cup kept \subseteq 1..made
  /\ DOMAIN matched \subseteq 1..Len(cr.rules)
  /\ i \in 0..Len(cr.rules) + 1
  /\ maxOrder \in Nat
  /\ doomed \in 0..made
  /\ touched \in BOOLEAN /\ prune \in BOOLEAN /\ asked \in BOOLEAN
  /\ edits \in 0..MaxEdits
  /\ fails \in 0..MaxFails

Forget ==
  /\ seen' = [b \in Pks |-> NoBinding]
  /\ rest' = {} /\ managed' = {} /\ unmanaged' = {} /\ kept' = {}
  /\ maxOrder' = 0 /\ matched' = <<>> /\ i' = 0 /\ doomed' = None

Init ==
  /\ app = FALSE /\ made = 0 /\ alive = {}
  /\ binding = [b \in Pks |-> NoBinding]
  /\ marks = {}
  /\ spec \in Specs /\ status = {}
  /\ pc = "idle" /\ cr = spec
  /\ seen = [b \in Pks |-> NoBinding]
  /\ rest = {} /\ managed = {} /\ unmanaged = {} /\ kept = {}
  /\ maxOrder = 0 /\ matched = <<>> /\ i = 0 /\ doomed = None
  /\ byHand = {} /\ lost = {} /\ touched = FALSE
  /\ prune = spec.prune /\ asked = spec.prune
  /\ edits = 0 /\ fails = 0

-----------------------------------------------------------------------------
(* matchBindings                                                           *)

\* The first of the Bindings in the order in which authentik lists them.
First(of, bs) ==
  CHOOSE b \in bs : \A d \in bs :
    of[b].order < of[d].order \/ (of[b].order = of[d].order /\ b <= d)

\* A rule without a Binding gets the first unused one with its subject, and
\* with its negate if that has to match.
AssignRule(of, rule, bs, exactNegate, m, k) ==
  LET free == {b \in bs \ Range(m) : /\ of[b].subject = rule.subject
                                     /\ exactNegate => of[b].negate = rule.negate}
  IN  IF m[k] # None \/ free = {} THEN m ELSE [m EXCEPT ![k] = First(of, free)]

\* One pass over the rules.
AssignPass(of, rules, bs, exactNegate, m0) ==
  LET pass[k \in 0..Len(rules)] ==
        IF k = 0 THEN m0 ELSE AssignRule(of, rules[k], bs, exactNegate, pass[k - 1], k)
  IN  pass[Len(rules)]

MatchBindings(of, rules, bs, exactOnly) ==
  LET exact == AssignPass(of, rules, bs, TRUE, [k \in 1..Len(rules) |-> None])
  IN  IF exactOnly THEN exact ELSE AssignPass(of, rules, bs, FALSE, exact)

-----------------------------------------------------------------------------
(* The PolicyBinding API of authentik.                                     *)

\* The unique constraint on (policy, target, order).
OrderTaken(subject, order) ==
  /\ subject \in Policies
  /\ \E b \in alive : binding[b].subject = subject /\ binding[b].order = order

CreatePolicyBinding(subject, negate, order) ==
  /\ made < MaxBindings
  /\ ~OrderTaken(subject, order)
  /\ made' = made + 1
  /\ alive' = alive \cup {made + 1}
  /\ binding' = [binding EXCEPT ![made + 1] =
                   [subject |-> subject, negate |-> negate, order |-> order]]

-----------------------------------------------------------------------------
(* The reconcile.                                                          *)

Stop == pc' = "idle" /\ Forget /\ UNCHANGED cr

StartReconcile ==
  /\ pc = "idle"
  /\ cr' = spec /\ prune' = spec.prune /\ asked' = spec.prune
  /\ Forget
  /\ pc' = IF app THEN "list" ELSE "application"
  /\ UNCHANGED <<server, kube, ghosts, edits, fails>>

\* patchStatus: the answer replaces the CR in memory, its spec included, so
\* prune is the stored one from then on while the rules stay those that were
\* resolved.  Nothing is sent when the status is the one written last; the
\* same set of UUIDs may differ in its order, or another field may have
\* changed.
PatchStatus(new) ==
  /\ status' = new
  /\ prune' \in IF new = status THEN {prune, spec.prune} ELSE {spec.prune}

\* The Application is created, and recorded, before its first Binding.
CreateApplication ==
  /\ pc = "application"
  /\ app' = TRUE
  /\ prune' = spec.prune
  /\ pc' = "list"
  /\ UNCHANGED <<made, alive, binding, marks, kube, locals, ghosts, asked, edits, fails>>

\* Until then the status was written or not, as the Application, the Provider
\* and the Outpost required.
ListPolicyBindings ==
  /\ pc = "list"
  /\ prune' \in {prune, spec.prune}
  /\ seen' = binding
  /\ rest' = alive
  /\ touched' = FALSE
  /\ pc' = "split"
  /\ UNCHANGED <<server, kube, cr, managed, unmanaged, maxOrder, matched, kept, i, doomed, byHand, lost, asked, edits, fails>>

\* Mutant: what has the subject of a rule counts as managed.
IsManagedBySubject(b) ==
  b \in status \cup marks \/ \E k \in DOMAIN cr.rules : seen[b].subject = cr.rules[k].subject

\* A listed Binding is managed when its UUID is recorded or it has a marker.
IsManaged(b) == b \in status \cup marks

\* Mutant: the largest order among the managed Bindings only.
LargestOrderOwn(b) == Max({maxOrder} \cup {seen[b].order : d \in {b} \cap (status \cup marks)})

LargestOrder(b) == Max({maxOrder, seen[b].order})

\* managedBindings, one Binding after the other: a recorded one that lost its
\* marker is marked again, which fails when it is gone by now.
ManagedBindings ==
  /\ pc = "split" /\ rest # {}
  /\ LET b == First(seen, rest)
     IN  \/ /\ b \in status \ marks => b \in alive
            /\ rest' = rest \ {b}
            /\ maxOrder' = LargestOrder(b)
            /\ IF IsManaged(b)
                 THEN managed' = managed \cup {b} /\ UNCHANGED unmanaged
                 ELSE unmanaged' = unmanaged \cup {b} /\ UNCHANGED managed
            /\ marks' = marks \cup ({b} \cap status)
            /\ UNCHANGED <<pc, cr, seen, matched, kept, i, doomed>>
         \/ /\ b \in status \ marks /\ b \notin alive
            /\ Stop
            /\ UNCHANGED marks
  /\ UNCHANGED <<app, made, alive, binding, kube, ghosts, asking, edits, fails>>

MatchManaged ==
  /\ pc = "split" /\ rest = {}
  /\ matched' = MatchBindings(seen, cr.rules, managed, FALSE)
  /\ pc' = "adopt"
  /\ UNCHANGED <<server, kube, cr, seen, rest, managed, unmanaged, maxOrder, kept, i, doomed, ghosts, asking, edits, fails>>

\* Mutant: nothing is adopted once the CR has Bindings of its own.
AdoptableAtFirst ==
  LET m == MatchBindings(seen, cr.rules, unmanaged, TRUE)
  IN  {k \in DOMAIN m : status = {} /\ matched[k] = None /\ m[k] # None}

\* The rules without a managed Binding that an unmanaged one matches exactly.
Adoptable ==
  LET m == MatchBindings(seen, cr.rules, unmanaged, TRUE)
  IN  {k \in DOMAIN m : matched[k] = None /\ m[k] # None}

\* The rules in their order; the marker cannot be attached to a Binding that
\* is gone by now.
AdoptBinding ==
  /\ pc = "adopt" /\ Adoptable # {}
  /\ LET k == Min(Adoptable)
         b == MatchBindings(seen, cr.rules, unmanaged, TRUE)[k]
     IN  \/ /\ b \in alive \cup marks
            /\ marks' = marks \cup {b}
            /\ matched' = [matched EXCEPT ![k] = b]
            /\ byHand' = byHand \ {b}
            /\ UNCHANGED <<pc, cr, seen, rest, managed, unmanaged, maxOrder, kept, i, doomed>>
         \/ /\ b \notin alive \cup marks
            /\ Stop
            /\ UNCHANGED <<marks, byHand>>
  /\ UNCHANGED <<app, made, alive, binding, kube, lost, touched, asking, edits, fails>>

AdoptedAll ==
  /\ pc = "adopt" /\ Adoptable = {}
  /\ pc' = "write" /\ i' = 1
  /\ UNCHANGED <<server, kube, cr, seen, rest, managed, unmanaged, maxOrder, matched, kept, doomed, ghosts, asking, edits, fails>>

Writing == pc = "write" /\ i <= Len(cr.rules)

\* Mutant: what differs is never sent.
DiffersNever(b, rule) == FALSE

\* DiffPolicyBinding: the order is not compared.
Differs(b, rule) == seen[b].negate # rule.negate

\* syncBinding: a request is sent only when the listed Binding differs; one
\* that is gone by now answers 404.
SyncBinding ==
  /\ Writing /\ matched[i] # None
  /\ LET b == matched[i]
         differs == Differs(b, cr.rules[i])
     IN  \/ /\ differs => b \in alive
            /\ binding' = IF differs THEN [binding EXCEPT ![b].negate = cr.rules[i].negate]
                                     ELSE binding
            /\ kept' = kept \cup {b} /\ i' = i + 1
            /\ UNCHANGED <<pc, cr, seen, rest, managed, unmanaged, maxOrder, matched, doomed>>
         \/ /\ differs /\ b \notin alive
            /\ Stop
            /\ UNCHANGED binding
  /\ UNCHANGED <<app, made, alive, marks, kube, ghosts, asking, edits, fails>>

OrderStep == 10

CreateBinding ==
  /\ Writing /\ matched[i] = None
  /\ LET rule == cr.rules[i]
         order == maxOrder + OrderStep
     IN  \/ /\ CreatePolicyBinding(rule.subject, rule.negate, order)
            /\ kept' = kept \cup {made + 1}
            /\ maxOrder' = order
            /\ pc' = "record"
            /\ UNCHANGED <<cr, seen, rest, managed, unmanaged, matched, i, doomed>>
         \/ /\ OrderTaken(rule.subject, order)
            /\ Stop
            /\ UNCHANGED <<made, alive, binding>>
  /\ UNCHANGED <<app, marks, kube, ghosts, asking, edits, fails>>

\* Mutant: the rules too are those of the answer.
RecordBindingRereads ==
  /\ pc = "record"
  /\ PatchStatus(status \cup {Max(kept)})
  /\ cr' = spec
  /\ pc' = "mark"
  /\ UNCHANGED <<server, spec, seen, rest, managed, unmanaged, maxOrder, matched, kept, i, doomed, ghosts, asked, edits, fails>>

\* The UUID is recorded before the marker is attached.
RecordBinding ==
  /\ pc = "record"
  /\ PatchStatus(status \cup {Max(kept)})
  /\ pc' = "mark"
  /\ UNCHANGED <<server, spec, locals, ghosts, asked, edits, fails>>

MarkBinding ==
  /\ pc = "mark"
  /\ LET b == Max(kept)
     IN  \/ /\ b \in alive
            /\ marks' = marks \cup {b}
            /\ pc' = "write" /\ i' = i + 1
            /\ UNCHANGED <<cr, seen, rest, managed, unmanaged, maxOrder, matched, kept, doomed>>
         \/ b \notin alive /\ Stop /\ UNCHANGED marks
  /\ UNCHANGED <<app, made, alive, binding, kube, ghosts, asking, edits, fails>>

\* Mutant: superfluous Bindings are deleted before the rules are written.
DeleteBindingFirst(b) ==
  /\ pc \in {"write", "delete"}
  /\ b \in managed \ (kept \cup Range(matched))
  /\ alive' = alive \ {b}
  /\ marks' = marks \ {b}
  /\ managed' = managed \ {b}
  /\ UNCHANGED <<pc, app, made, binding, kube, cr, seen, rest, unmanaged, maxOrder, matched, kept, i, doomed, ghosts, asking, edits, fails>>

\* deleteBinding: a managed Binding that no rule kept, once every rule is
\* written; one that is gone already counts as deleted.  Its marker goes next.
DeleteBinding(b) ==
  /\ pc = "delete"
  /\ b \in managed \ kept
  /\ alive' = alive \ {b}
  /\ managed' = managed \ {b}
  /\ doomed' = b
  /\ pc' = "unmark"
  /\ UNCHANGED <<app, made, binding, marks, kube, cr, seen, rest, unmanaged, maxOrder, matched, kept, i, ghosts, asking, edits, fails>>

UnmarkBinding ==
  /\ pc = "unmark"
  /\ marks' = marks \ {doomed}
  /\ pc' = "delete"
  /\ UNCHANGED <<app, made, alive, binding, kube, locals, ghosts, asking, edits, fails>>

WrittenAll ==
  /\ pc = "write" /\ i > Len(cr.rules)
  /\ pc' = "delete"
  /\ UNCHANGED <<server, kube, locals, ghosts, asking, edits, fails>>

DeletedAll ==
  /\ pc = "delete" /\ managed \subseteq kept
  /\ pc' = "keep"
  /\ UNCHANGED <<server, kube, locals, ghosts, asking, edits, fails>>

KeepBindings ==
  /\ pc = "keep"
  /\ PatchStatus(kept)
  /\ pc' = "prune"
  /\ UNCHANGED <<server, spec, locals, ghosts, asked, edits, fails>>

\* handleUnmanagedBindings: what is left is deleted with prune, and reported
\* otherwise.
PruneBinding(b) ==
  /\ pc = "prune" /\ prune
  /\ b \in unmanaged \ kept
  /\ alive' = alive \ {b}
  /\ unmanaged' = unmanaged \ {b}
  /\ UNCHANGED <<app, made, binding, marks, kube, pc, cr, seen, rest, managed, maxOrder, matched, kept, i, doomed, ghosts, asking, edits, fails>>

Finish ==
  /\ pc = "prune"
  /\ prune => unmanaged \subseteq kept
  /\ Stop
  /\ UNCHANGED <<server, kube, ghosts, asking, edits, fails>>

\* A failed call, a lost answer, a failed status write, a crash.
Interrupt ==
  /\ pc # "idle"
  /\ fails < MaxFails
  /\ fails' = fails + 1
  /\ Stop
  /\ UNCHANGED <<server, kube, ghosts, asking, edits>>

-----------------------------------------------------------------------------
(* People.                                                                 *)

Edit == edits < MaxEdits /\ edits' = edits + 1

UICreateBinding(subject, negate, order) ==
  /\ app
  /\ Edit
  /\ CreatePolicyBinding(subject, negate, order)
  /\ byHand' = byHand \cup {made + 1}
  /\ touched' = TRUE
  /\ UNCHANGED <<app, marks, kube, pc, locals, lost, asking, fails>>

UIDeleteBinding(b) ==
  /\ b \in alive
  /\ Edit
  /\ alive' = alive \ {b}
  /\ lost' = lost \cup {b}
  /\ UNCHANGED <<app, made, binding, marks, kube, pc, locals, byHand, touched, asking, fails>>

UINegateBinding(b) ==
  /\ b \in alive
  /\ Edit
  /\ binding' = [binding EXCEPT ![b].negate = ~@]
  /\ UNCHANGED <<app, made, alive, marks, kube, pc, locals, ghosts, asking, fails>>

EditSpec(s) ==
  /\ s # spec
  /\ Edit
  /\ spec' = s /\ asked' = (asked \/ s.prune)
  /\ UNCHANGED <<server, status, pc, locals, prune, ghosts, fails>>

-----------------------------------------------------------------------------
OperatorStep ==
  \/ StartReconcile \/ CreateApplication \/ ListPolicyBindings \/ ManagedBindings
  \/ MatchManaged \/ AdoptBinding \/ AdoptedAll \/ SyncBinding \/ CreateBinding \/ RecordBinding \/ MarkBinding
  \/ WrittenAll \/ UnmarkBinding \/ DeletedAll \/ KeepBindings \/ Finish
  \/ \E b \in Pks : DeleteBinding(b) \/ PruneBinding(b)

PeopleStep ==
  \/ \E subject \in Subjects, negate \in BOOLEAN, order \in UIOrders :
       UICreateBinding(subject, negate, order)
  \/ \E b \in Pks : UIDeleteBinding(b) \/ UINegateBinding(b)
  \/ \E s \in Specs : EditSpec(s)

Next == OperatorStep \/ Interrupt \/ PeopleStep

Spec == Init /\ [][Next]_vars

\* A CR is reconciled again at every resync, and a reconcile goes on unless
\* it is interrupted, which happens finitely often.
FairSpec == Spec /\ WF_vars(OperatorStep)

-----------------------------------------------------------------------------
\* The operator deletes a Binding only when every rule has one that it made
\* or matched: all of them are there, but for those that somebody deleted in
\* the UI ("Deletion happens after every write", bindings.go).
DeletesOnlyWhenCovered ==
  [][\A b \in alive : b \notin alive' /\ pc \in {"write", "delete", "prune"} /\ b \notin lost' =>
       \A k \in DOMAIN cr.rules : \E d \in kept \ {b} :
         /\ d \in alive' \cup lost
         /\ seen[d].subject = cr.rules[k].subject \/ binding[d].subject = cr.rules[k].subject]_vars

\* A Binding made in the UI that was never adopted is deleted by the operator
\* only for a CR that had prune at some time since the reconcile began.  It
\* need not have had it at the beginning: patchStatus reads the spec again, and
\* a prune set in the meantime is obeyed together with the rules from before.
ManualBindingsKept ==
  [][\A b \in alive \cap byHand : b \notin alive' /\ b \notin lost' => asked]_vars

\* The order given to a new Binding is free on the Application unless somebody
\* created a Binding since the list was read, so the server does not refuse it.
OrderIsFree ==
  Writing /\ matched[i] = None /\ ~touched =>
    ~OrderTaken(cr.rules[i].subject, maxOrder + OrderStep)

\* A rule gets a new Binding only when no listed Binding grants the same right
\* without serving another rule: no duplicate of an existing right is made.
\* The exception is a rule that the CR repeats: matchBindings gives the
\* unmanaged Bindings to the first rules that they match, also to one that has
\* a managed Binding already and does not need it.
NoDuplicateRight ==
  Writing /\ matched[i] = None =>
    \A b \in managed \cup unmanaged :
      seen[b].subject = cr.rules[i].subject /\ seen[b].negate = cr.rules[i].negate =>
        \/ b \in Range(matched) \cup kept
        \/ \E k \in DOMAIN cr.rules \ {i} : cr.rules[k] = cr.rules[i] /\ matched[k] \in managed

\* The Bindings agree with the rules: one managed Binding per rule and no
\* other managed one, nothing else at all with prune.
Agree ==
  /\ app
  /\ LET rules == spec.rules
         own == alive \cap marks
     IN  /\ \E m \in [DOMAIN rules -> own] :
              /\ IsInjective(m) /\ Range(m) = own
              /\ \A k \in DOMAIN rules : /\ binding[m[k]].subject = rules[k].subject
                                         /\ binding[m[k]].negate = rules[k].negate
         /\ spec.prune => alive = own

\* Once people and failures leave the Application alone, its Bindings come to
\* agree with the rules and stay so.
DriftRepaired == <>[]Agree
=============================================================================
