--------------------------- MODULE BindingsProofs ---------------------------
(***************************************************************************)
(* Proofs about Bindings, for every set of subjects and specs and every    *)
(* number of Bindings, edits and failures.                                 *)
(***************************************************************************)
EXTENDS Bindings, OrderLemmas, TLAPS

BindingRec == [subject : Subjects \cup {""}, negate : BOOLEAN, order : Nat]

WritePoints == {"write", "record", "mark"}
DeletePoints == {"delete", "unmark", "keep", "prune"}
Matching == {"adopt"} \cup WritePoints
Listed == {"split"} \cup Matching \cup DeletePoints
Points == {"idle", "application", "list"} \cup Listed

ServerTyped ==
  /\ app \in BOOLEAN /\ made \in 0..MaxBindings
  /\ alive \subseteq 1..made /\ marks \subseteq 1..made
  /\ binding \in [Pks -> BindingRec] /\ \A b \in alive : binding[b].subject \in Subjects

LocalsTyped ==
  /\ pc \in Points /\ cr \in Specs /\ seen \in [Pks -> BindingRec]
  /\ rest \cup managed \cup unmanaged \cup kept \subseteq 1..made
  /\ maxOrder \in Nat /\ doomed \in 0..made

MatchTyped ==
  /\ DOMAIN matched = IF pc \in Matching \cup DeletePoints THEN 1..Len(cr.rules) ELSE {}
  /\ \A k \in DOMAIN matched : matched[k] \in 0..made
  /\ i \in 0..Len(cr.rules) + 1
  /\ pc = "write" => i # 0
  /\ pc \in {"record", "mark"} => i \in 1..Len(cr.rules) /\ kept # {}

OthersTyped ==
  /\ spec \in Specs /\ status \subseteq 1..made
  /\ byHand \subseteq 1..made /\ lost \subseteq 1..made /\ touched \in BOOLEAN
  /\ edits \in 0..MaxEdits /\ fails \in 0..MaxFails

Typed == ServerTyped /\ LocalsTyped /\ MatchTyped /\ OthersTyped

\* Nothing that the operator takes for its own was made in the UI and never
\* adopted.
NoneByHand ==
  /\ byHand \cap (marks \cup status \cup managed \cup kept) = {}
  /\ \A k \in DOMAIN matched : matched[k] \notin byHand

\* Unless somebody created a Binding since the list was read, the largest
\* order so far is the largest of those that were looked at.
OrdersSeen ==
  pc \in Listed /\ ~touched =>
    \A b \in alive : \/ b \in rest /\ seen[b].order = binding[b].order
                     \/ binding[b].order <= maxOrder

\* Each listed Binding is in one place, and is there unless somebody deleted
\* it in the UI.
Sorted ==
  /\ managed \cap unmanaged = {} /\ rest \cap (managed \cup unmanaged) = {}
  /\ pc \in Matching \cup DeletePoints => rest = {}
  /\ pc \notin Listed => rest \cup managed \cup unmanaged = {}
  /\ rest \cup managed \cup unmanaged \cup kept \subseteq alive \cup lost

\* The Bindings that could be adopted for the rules.
Offer == MatchBindings(seen, cr.rules, unmanaged, TRUE)

\* A rule has a Binding with its subject, a managed one or the one offered to
\* it; no managed one is left for a rule that has none.
WellMatched ==
  pc \in Matching =>
    \A k \in 1..Len(cr.rules) :
      /\ matched[k] # None => /\ seen[matched[k]].subject = cr.rules[k].subject
                              /\ matched[k] \in managed \/ matched[k] = Offer[k]
      /\ matched[k] = None =>
           \A b \in managed : seen[b].subject = cr.rules[k].subject => b \in Range(matched)

\* Every offer that a rule needed is taken before the first rule is written.
AllAdopted == pc \in WritePoints => Adoptable = {}

\* The rules that are written have a Binding that is kept.
Written(k) ==
  \/ pc = "write" /\ k < i
  \/ pc \in {"record", "mark"} /\ k <= i
  \/ pc \in DeletePoints

Served ==
  \A k \in 1..Len(cr.rules) : Written(k) =>
    \E d \in kept : seen[d].subject = cr.rules[k].subject \/ binding[d].subject = cr.rules[k].subject

\* The reconcile acts on a prune that the CR had since it began, and so will
\* every status write that reads the CR again.
Asked ==
  /\ prune \in BOOLEAN /\ asked \in BOOLEAN
  /\ prune => asked
  /\ spec.prune => asked

IInv == Typed /\ NoneByHand /\ OrdersSeen /\ Sorted /\ WellMatched /\ AllAdopted /\ Served

-----------------------------------------------------------------------------
(* The operators.                                                          *)

\* First of a set that is not empty is in the set.
LEMMA FirstIn ==
  ASSUME NEW of, NEW bs, bs \subseteq Nat, bs # {}, \A b \in bs : of[b].order \in Nat
  PROVE  First(of, bs) \in bs
<1> DEFINE orders == {of[b].order : b \in bs}
           Before(b, d) == of[b].order < of[d].order \/ (of[b].order = of[d].order /\ b <= d)
<1>1. orders \subseteq Nat /\ orders # {}
  OBVIOUS
<1>2. PICK o \in orders : \A n \in orders : o <= n
  BY <1>1, Least
<1> DEFINE low == {b \in bs : of[b].order = o}
<1>3. low \subseteq Nat /\ low # {}
  OBVIOUS
<1>4. PICK b \in low : \A d \in low : b <= d
  BY <1>3, Least
<1>5. ASSUME NEW d \in bs PROVE Before(b, d)
  <2>1. of[d].order \in Nat /\ o \in Nat /\ o <= of[d].order /\ of[b].order = o
    BY <1>1, <1>2, <1>4
  <2>2. CASE of[d].order = o
    BY <1>4, <2>1, <2>2
  <2>3. CASE of[d].order # o
    BY <2>1, <2>3
  <2> QED BY <2>2, <2>3
<1>6. b \in bs /\ \A d \in bs : Before(b, d)
  BY <1>4, <1>5
<1> QED BY <1>6 DEF First

LEMMA MaxIn ==
  ASSUME NEW n \in Nat, NEW S, S \subseteq 0..n, S # {}
  PROVE  Max(S) \in S /\ \A k \in S : Max(S) >= k
BY Greatest DEF Max

LEMMA MaxOfTwo ==
  ASSUME NEW a \in Nat, NEW b \in Nat
  PROVE  Max({a, b}) \in Nat /\ Max({a, b}) >= a /\ Max({a, b}) >= b
<1>1. \E x \in {a, b} : \A y \in {a, b} : x >= y
  OBVIOUS
<1> QED BY <1>1 DEF Max

\* What one pass over the rules has done after the first k of them.
Assigned(of, rules, bs, exactNegate, m0, m, k) ==
  /\ DOMAIN m = 1..Len(rules)
  /\ \A j \in 1..Len(rules) :
       /\ m0[j] # None => m[j] = m0[j]
       /\ m[j] # m0[j] => /\ m[j] \in bs
                          /\ of[m[j]].subject = rules[j].subject
                          /\ exactNegate => of[m[j]].negate = rules[j].negate
  /\ \A j \in 1..k : m[j] = None =>
       \A b \in bs : /\ of[b].subject = rules[j].subject
                     /\ exactNegate => of[b].negate = rules[j].negate
                     => b \in Range(m)

LEMMA AssignOne ==
  ASSUME NEW of, NEW rules, NEW bs, NEW exactNegate, NEW m0, NEW m,
         Len(rules) \in Nat, bs \subseteq Nat \ {0}, \A b \in bs : of[b].order \in Nat,
         NEW k \in 1..Len(rules),
         Assigned(of, rules, bs, exactNegate, m0, m, k - 1)
  PROVE  Assigned(of, rules, bs, exactNegate, m0,
                  AssignRule(of, rules[k], bs, exactNegate, m, k), k)
<1> DEFINE free == {b \in bs \ Range(m) : /\ of[b].subject = rules[k].subject
                                          /\ exactNegate => of[b].negate = rules[k].negate}
           r == AssignRule(of, rules[k], bs, exactNegate, m, k)
<1>0. DOMAIN m = 1..Len(rules) /\ \A j \in 1..k : j = k \/ j \in 1..(k - 1)
  BY DEF Assigned
<1>1. CASE m[k] # None \/ free = {}
  <2>1. r = m
    BY <1>1 DEF AssignRule
  <2>2. m[k] = None =>
          \A b \in bs : /\ of[b].subject = rules[k].subject
                        /\ exactNegate => of[b].negate = rules[k].negate
                        => b \in Range(m)
    BY <1>1
  <2> QED BY <1>0, <2>1, <2>2 DEF Assigned
<1>2. CASE ~ (m[k] # None \/ free = {})
  <2> DEFINE f == First(of, free)
  <2>1. r = [m EXCEPT ![k] = f] /\ m[k] = None
    BY <1>2 DEF AssignRule
  <2>2. f \in free
    BY <1>2, FirstIn
  <2>3. f \in bs /\ f # None
    BY <2>2 DEF None
  <2>4. DOMAIN r = 1..Len(rules) /\ \A j \in 1..Len(rules) : r[j] = IF j = k THEN f ELSE m[j]
    BY <1>0, <2>1
  <2>5. \A b \in bs : b \in Range(m) => b \in Range(r)
    <3>1. \A j \in 1..Len(rules) : m[j] # None => r[j] = m[j]
      BY <2>1, <2>4
    <3> QED BY <1>0, <2>4, <3>1 DEF Range, None
  <2>6. m0[k] = None
    BY <2>1 DEF Assigned
  <2> HIDE DEF f, r
  <2>7. \A j \in 1..Len(rules) :
          /\ m0[j] # None => r[j] = m0[j]
          /\ r[j] # m0[j] => /\ r[j] \in bs
                             /\ of[r[j]].subject = rules[j].subject
                             /\ exactNegate => of[r[j]].negate = rules[j].negate
    BY <2>2, <2>3, <2>4, <2>6 DEF Assigned
  <2>8. \A j \in 1..k : r[j] = None => j \in 1..(k - 1) /\ m[j] = None
    BY <1>0, <2>3, <2>4
  <2>9. \A j \in 1..k : r[j] = None =>
          \A b \in bs : /\ of[b].subject = rules[j].subject
                        /\ exactNegate => of[b].negate = rules[j].negate
                        => b \in Range(r)
    BY <2>5, <2>8 DEF Assigned
  <2>10. Assigned(of, rules, bs, exactNegate, m0, r, k)
    BY <2>4, <2>7, <2>9 DEF Assigned
  <2> QED BY <2>10 DEF r
<1> QED BY <1>1, <1>2

\* The pass over the rules is a function: the recursion has a solution.
LEMMA PassExists ==
  ASSUME NEW of, NEW rules, NEW bs, NEW exactNegate, NEW m0, Len(rules) \in Nat
  PROVE  \E f : f = [k \in 0..Len(rules) |->
                       IF k = 0 THEN m0 ELSE AssignRule(of, rules[k], bs, exactNegate, f[k - 1], k)]
<1> DEFINE Step(g, k) == AssignRule(of, rules[k], bs, exactNegate, g, k)
           Solves(f, n) == f = [k \in 0..n |-> IF k = 0 THEN m0 ELSE Step(f[k - 1], k)]
           bad == {n \in Nat : ~ \E f : Solves(f, n)}
<1> SUFFICES bad = {}
  OBVIOUS
<1> SUFFICES ASSUME bad # {} PROVE FALSE
  OBVIOUS
<1>1. PICK n \in bad : \A k \in bad : n <= k
  BY Least
<1> HIDE DEF Step
<1>2. n # 0
  <2>1. Solves([k \in 0..0 |-> m0], 0)
    OBVIOUS
  <2> QED BY <2>1
<1>3. n - 1 \in Nat /\ ~ (n <= n - 1)
  BY <1>2
<1>4. n - 1 \notin bad
  BY <1>1, <1>3
<1>5. PICK f : Solves(f, n - 1)
  BY <1>3, <1>4
<1> DEFINE g == [k \in 0..n |-> IF k = n THEN Step(f[n - 1], n) ELSE f[k]]
<1>6. \A k \in 0..n : g[k] = IF k = 0 THEN m0 ELSE Step(g[k - 1], k)
  <2>1. \A k \in 0..(n - 1) : f[k] = IF k = 0 THEN m0 ELSE Step(f[k - 1], k)
    BY <1>5
  <2>2. ASSUME NEW k \in 0..n PROVE g[k] = IF k = 0 THEN m0 ELSE Step(g[k - 1], k)
    <3>1. CASE k = n
      <4>1. n - 1 \in 0..n /\ n - 1 # n
        BY <1>3
      <4>2. g[n - 1] = f[n - 1]
        BY <4>1
      <4> QED BY <1>2, <3>1, <4>2
    <3>2. CASE k # n
      <4>1. k \in 0..(n - 1)
        BY <3>2
      <4>2. g[k] = f[k]
        BY <3>2
      <4>3. k # 0 => k - 1 \in 0..n /\ k - 1 # n
        BY <4>1
      <4>4. k # 0 => g[k - 1] = f[k - 1]
        BY <4>3
      <4> QED BY <2>1, <4>1, <4>2, <4>4
    <3> QED BY <3>1, <3>2
  <2> QED BY <2>2
<1>7. Solves(g, n)
  <2>1. g = [k \in 0..n |-> g[k]]
    OBVIOUS
  <2> HIDE DEF g
  <2> QED BY <1>6, <2>1
<1> QED BY <1>7

LEMMA AssignAll ==
  ASSUME NEW of, NEW rules, NEW bs, NEW exactNegate, NEW m0,
         Len(rules) \in Nat, bs \subseteq Nat \ {0}, \A b \in bs : of[b].order \in Nat,
         DOMAIN m0 = 1..Len(rules)
  PROVE  Assigned(of, rules, bs, exactNegate, m0, AssignPass(of, rules, bs, exactNegate, m0), Len(rules))
<1> DEFINE Pass == CHOOSE f : f = [k \in 0..Len(rules) |->
                     IF k = 0 THEN m0 ELSE AssignRule(of, rules[k], bs, exactNegate, f[k - 1], k)]
           Good(k) == Assigned(of, rules, bs, exactNegate, m0, Pass[k], k)
           bad == {k \in 0..Len(rules) : ~ Good(k)}
<1>1. AssignPass(of, rules, bs, exactNegate, m0) = Pass[Len(rules)]
  BY DEF AssignPass
<1>2. Pass = [k \in 0..Len(rules) |->
                IF k = 0 THEN m0 ELSE AssignRule(of, rules[k], bs, exactNegate, Pass[k - 1], k)]
  BY PassExists
<1> HIDE DEF Pass
<1>3. Good(0)
  BY <1>2 DEF Assigned
<1>4. bad = {}
  <2> SUFFICES ASSUME bad # {} PROVE FALSE
    OBVIOUS
  <2>0. bad \subseteq Nat
    OBVIOUS
  <2>1. PICK k \in bad : \A j \in bad : k <= j
    <3> HIDE DEF bad
    <3> QED BY <2>0, Least
  <2>2. k # 0
    BY <1>3
  <2>3. k \in 1..Len(rules) /\ k - 1 \in 0..Len(rules) /\ ~ (k <= k - 1)
    BY <2>2
  <2>4. Good(k - 1)
    BY <2>1, <2>3
  <2>5. Pass[k] = AssignRule(of, rules[k], bs, exactNegate, Pass[k - 1], k)
    BY <1>2, <2>2
  <2>6. Good(k)
    BY <2>3, <2>4, <2>5, AssignOne
  <2> QED BY <2>6
<1> QED BY <1>1, <1>4

\* What matchBindings promises: every Binding it assigns has the subject of its
\* rule, and a Binding that matches a rule without one serves another rule.
Matches(of, rules, bs, exactOnly, m) ==
  /\ DOMAIN m = 1..Len(rules)
  /\ \A j \in 1..Len(rules) :
       /\ m[j] \in bs \cup {None}
       /\ m[j] # None => /\ of[m[j]].subject = rules[j].subject
                         /\ exactOnly => of[m[j]].negate = rules[j].negate
       /\ m[j] = None =>
            \A b \in bs : /\ of[b].subject = rules[j].subject
                          /\ exactOnly => of[b].negate = rules[j].negate
                          => b \in Range(m)

LEMMA MatchFacts ==
  ASSUME NEW of, NEW rules, NEW bs, NEW exactOnly \in BOOLEAN,
         Len(rules) \in Nat, bs \subseteq Nat \ {0}, \A b \in bs : of[b].order \in Nat
  PROVE  Matches(of, rules, bs, exactOnly, MatchBindings(of, rules, bs, exactOnly))
<1> DEFINE none == [k \in 1..Len(rules) |-> None]
           exact == AssignPass(of, rules, bs, TRUE, none)
           all == AssignPass(of, rules, bs, FALSE, exact)
<1>1. DOMAIN none = 1..Len(rules) /\ \A j \in 1..Len(rules) : none[j] = None
  OBVIOUS
<1> HIDE DEF none
<1>2. Assigned(of, rules, bs, TRUE, none, exact, Len(rules))
  BY <1>1, AssignAll
<1> HIDE DEF exact
<1>3. /\ DOMAIN exact = 1..Len(rules)
      /\ \A j \in 1..Len(rules) :
           /\ exact[j] \in bs \cup {None}
           /\ exact[j] # None => /\ of[exact[j]].subject = rules[j].subject
                                 /\ of[exact[j]].negate = rules[j].negate
           /\ exact[j] = None =>
                \A b \in bs : of[b].subject = rules[j].subject /\ of[b].negate = rules[j].negate
                                => b \in Range(exact)
  BY <1>1, <1>2 DEF Assigned
<1>4. Assigned(of, rules, bs, FALSE, exact, all, Len(rules))
  BY <1>3, AssignAll
<1> HIDE DEF all
<1>5. /\ DOMAIN all = 1..Len(rules)
      /\ \A j \in 1..Len(rules) :
           /\ all[j] \in bs \cup {None}
           /\ all[j] # None => of[all[j]].subject = rules[j].subject
           /\ all[j] = None => \A b \in bs : of[b].subject = rules[j].subject => b \in Range(all)
  BY <1>3, <1>4 DEF Assigned
<1>6. CASE exactOnly = TRUE
  <2>1. MatchBindings(of, rules, bs, exactOnly) = exact
    BY <1>6 DEF MatchBindings, exact, none
  <2> QED BY <1>3, <1>6, <2>1 DEF Matches
<1>7. CASE exactOnly = FALSE
  <2>1. MatchBindings(of, rules, bs, exactOnly) = all
    BY <1>7 DEF MatchBindings, all, exact, none
  <2> QED BY <1>5, <1>7, <2>1 DEF Matches
<1> QED BY <1>6, <1>7

-----------------------------------------------------------------------------
(* What the types give.                                                    *)

LEMMA TypedOK == Typed /\ Asked => TypeOK
<1>1. Typed => DOMAIN matched \subseteq 1..Len(cr.rules)
  BY DEF Typed, MatchTyped
<1>2. Typed => \A b \in alive : b \in Pks
  BY BindingsAssumption DEF Typed, ServerTyped, Pks
<1>3. Typed => \A b \in alive : /\ binding[b].subject \in Subjects
                                /\ binding[b].negate \in BOOLEAN
                                /\ binding[b].order \in Nat
  BY <1>2 DEF Typed, ServerTyped, BindingRec
<1> QED BY <1>1, <1>3 DEF Typed, Asked, TypeOK, ServerTyped, LocalsTyped, MatchTyped, OthersTyped, Points,
                          Listed, Matching, WritePoints, DeletePoints

LEMMA Basics ==
  ASSUME Typed
  PROVE  /\ made \in Nat /\ 1..made \subseteq Pks /\ 1..made \subseteq Nat \ {0}
         /\ Pks \subseteq Nat \ {0}
         /\ Len(cr.rules) \in Nat
         /\ \A k \in 1..Len(cr.rules) : /\ cr.rules[k] \in Rule
                                        /\ cr.rules[k].subject \in Subjects
                                        /\ cr.rules[k].negate \in BOOLEAN
         /\ \A b \in Pks : seen[b] \in BindingRec /\ seen[b].order \in Nat
         /\ \A b \in Pks : binding[b] \in BindingRec /\ binding[b].order \in Nat
<1>1. made \in Nat /\ 1..made \subseteq Pks /\ 1..made \subseteq Nat \ {0} /\ Pks \subseteq Nat \ {0}
  BY BindingsAssumption DEF Typed, ServerTyped, Pks
<1>2. cr.rules \in Seq(Rule)
  BY BindingsAssumption DEF Typed, LocalsTyped
<1>3. Len(cr.rules) \in Nat /\ \A k \in 1..Len(cr.rules) : cr.rules[k] \in Rule
  BY <1>2
<1>4. \A b \in Pks : seen[b] \in BindingRec /\ binding[b] \in BindingRec
  BY DEF Typed, LocalsTyped, ServerTyped
<1> QED BY <1>1, <1>3, <1>4 DEF Rule, BindingRec

\* The offer of unmanaged Bindings.
LEMMA OfferFacts ==
  ASSUME Typed
  PROVE  /\ DOMAIN Offer = 1..Len(cr.rules)
         /\ \A k \in 1..Len(cr.rules) :
              /\ Offer[k] \in unmanaged \cup {None}
              /\ Offer[k] # None => /\ seen[Offer[k]].subject = cr.rules[k].subject
                                    /\ seen[Offer[k]].negate = cr.rules[k].negate
              /\ Offer[k] = None =>
                   \A b \in unmanaged : /\ seen[b].subject = cr.rules[k].subject
                                        /\ seen[b].negate = cr.rules[k].negate
                                        => b \in Range(Offer)
<1>1. /\ Len(cr.rules) \in Nat /\ unmanaged \subseteq Nat \ {0}
      /\ \A b \in unmanaged : seen[b].order \in Nat
  BY Basics DEF Typed, LocalsTyped
<1>2. Matches(seen, cr.rules, unmanaged, TRUE, Offer)
  BY <1>1, MatchFacts DEF Offer
<1> QED BY <1>2 DEF Matches

-----------------------------------------------------------------------------
(* Each step keeps the invariant.                                          *)

\* A reconcile starts, or ends wherever it is.
LEMMA ForgetKeeps ==
  ASSUME IInv, Forget, cr' \in Specs, pc' \in {"idle", "application", "list"},
         UNCHANGED <<server, kube, ghosts, edits>>, fails' \in 0..MaxFails
  PROVE  IInv'
<1> USE DEF Listed, Matching, WritePoints, DeletePoints
<1>0. Typed /\ NoneByHand /\ made \in Nat
  BY Basics DEF IInv
<1>1. Len(cr'.rules) \in Nat
  <2>1. cr'.rules \in Seq(Rule)
    BY BindingsAssumption
  <2> QED BY <2>1
<1>2. NoBinding \in BindingRec
  BY DEF NoBinding, BindingRec
<1>3. ServerTyped' /\ OthersTyped'
  BY <1>0 DEF Typed, ServerTyped, OthersTyped, server, kube, ghosts
<1>4. LocalsTyped'
  BY <1>0, <1>2 DEF LocalsTyped, Forget, Points, None, server
<1>5. MatchTyped'
  BY <1>1 DEF MatchTyped, Forget
<1>6. NoneByHand'
  BY <1>0 DEF NoneByHand, Forget, server, kube, ghosts
<1>7. OrdersSeen' /\ WellMatched' /\ AllAdopted' /\ Served'
  BY DEF OrdersSeen, WellMatched, AllAdopted, Served, Written
<1>8. Sorted'
  BY DEF Sorted, Forget
<1> QED BY <1>3, <1>4, <1>5, <1>6, <1>7, <1>8 DEF IInv, Typed

LEMMA StopKeeps ==
  ASSUME IInv, Stop, UNCHANGED <<server, kube, ghosts, edits, fails>>
  PROVE  IInv'
<1>1. cr \in Specs /\ fails \in 0..MaxFails
  BY DEF IInv, Typed, LocalsTyped, OthersTyped
<1> QED BY <1>1, ForgetKeeps DEF Stop

LEMMA StartKeeps ==
  ASSUME IInv, StartReconcile \/ CreateApplication \/ ListPolicyBindings
  PROVE  IInv'
<1> USE DEF Listed, Matching, WritePoints, DeletePoints
<1>0. Typed /\ NoneByHand /\ Sorted /\ spec \in Specs /\ fails \in 0..MaxFails
  BY DEF IInv, Typed, OthersTyped
<1>1. CASE StartReconcile
  BY <1>0, <1>1, ForgetKeeps DEF StartReconcile
<1>2. CASE CreateApplication
  <2>1. Typed'
    BY <1>0, <1>2 DEF CreateApplication, Typed, ServerTyped, LocalsTyped, MatchTyped, OthersTyped,
                      Points, kube, locals, ghosts
  <2>2. NoneByHand' /\ Sorted'
    BY <1>0, <1>2 DEF CreateApplication, NoneByHand, Sorted, kube, locals, ghosts
  <2>3. OrdersSeen' /\ WellMatched' /\ AllAdopted' /\ Served'
    BY <1>2 DEF CreateApplication, OrdersSeen, WellMatched, AllAdopted, Served, Written
  <2> QED BY <2>1, <2>2, <2>3 DEF IInv
<1>3. CASE ListPolicyBindings
  <2>0. \A b \in Pks : binding[b].order \in Nat
    BY <1>0, Basics
  <2>1. Typed'
    BY <1>0, <1>3 DEF ListPolicyBindings, Typed, ServerTyped, LocalsTyped, MatchTyped, OthersTyped,
                      Points, server, kube
  <2>2. NoneByHand'
    BY <1>0, <1>3 DEF ListPolicyBindings, NoneByHand, server, kube
  <2>3. managed = {} /\ unmanaged = {}
    BY <1>0, <1>3 DEF ListPolicyBindings, Sorted
  <2>4. Sorted'
    BY <1>0, <1>3, <2>3 DEF ListPolicyBindings, Sorted, server
  <2>5. OrdersSeen'
    BY <1>3 DEF ListPolicyBindings, OrdersSeen, server
  <2>6. WellMatched' /\ AllAdopted' /\ Served'
    BY <1>3 DEF ListPolicyBindings, WellMatched, AllAdopted, Served, Written
  <2> QED BY <2>1, <2>2, <2>4, <2>5, <2>6 DEF IInv
<1> QED BY <1>1, <1>2, <1>3

LEMMA ManagedKeeps ==
  ASSUME IInv, ManagedBindings
  PROVE  IInv'
<1> USE DEF Listed, Matching, WritePoints, DeletePoints
<1> DEFINE b == First(seen, rest)
<1>0. /\ Typed /\ NoneByHand /\ Sorted /\ OrdersSeen /\ pc = "split" /\ rest # {}
      /\ UNCHANGED <<app, made, alive, binding, kube, ghosts, edits, fails>>
  BY DEF IInv, ManagedBindings
<1>1. rest \subseteq Nat /\ rest \subseteq Pks /\ \A d \in rest : seen[d].order \in Nat
  BY <1>0, Basics DEF Typed, LocalsTyped
<1>2. b \in rest
  BY <1>0, <1>1, FirstIn
<1>3. CASE Stop /\ UNCHANGED marks
  BY <1>0, <1>3, StopKeeps DEF server
<1>4. CASE ~ (Stop /\ UNCHANGED marks)
  <2>1. /\ rest' = rest \ {b} /\ maxOrder' = LargestOrder(b)
        /\ IF IsManaged(b) THEN managed' = managed \cup {b} /\ UNCHANGED unmanaged
                           ELSE unmanaged' = unmanaged \cup {b} /\ UNCHANGED managed
        /\ marks' = marks \cup ({b} \cap status)
        /\ UNCHANGED <<pc, cr, seen, matched, kept, i, doomed>>
    BY <1>4 DEF ManagedBindings
  <2> HIDE DEF b
  <2>2. seen[b].order \in Nat /\ maxOrder \in Nat /\ b \in 1..made
    BY <1>0, <1>1, <1>2 DEF Typed, LocalsTyped
  <2>3. maxOrder' \in Nat /\ maxOrder' >= maxOrder /\ maxOrder' >= seen[b].order
    BY <2>1, <2>2, MaxOfTwo DEF LargestOrder
  <2>4. Typed'
    BY <1>0, <2>1, <2>2, <2>3 DEF Typed, ServerTyped, LocalsTyped, MatchTyped, OthersTyped, kube, ghosts
  <2>5. NoneByHand'
    BY <1>0, <2>1 DEF NoneByHand, IsManaged, kube, ghosts
  <2>6. Sorted'
    BY <1>0, <1>2, <2>1 DEF Sorted, ghosts
  <2>7. OrdersSeen'
    <3> SUFFICES ASSUME ~touched, NEW d \in alive
                 PROVE  \/ d \in rest' /\ seen[d].order = binding[d].order
                        \/ binding[d].order <= maxOrder'
      BY <1>0, <2>1 DEF OrdersSeen, ghosts
    <3>1. \/ d \in rest /\ seen[d].order = binding[d].order
          \/ binding[d].order <= maxOrder
      BY <1>0 DEF OrdersSeen
    <3>2. binding[d].order \in Nat
      BY <1>0, Basics DEF Typed, ServerTyped
    <3>3. CASE d = b /\ seen[d].order = binding[d].order
      BY <2>3, <3>2, <3>3
    <3>4. CASE binding[d].order <= maxOrder
      BY <2>2, <2>3, <3>2, <3>4
    <3>5. CASE d \in rest \ {b} /\ seen[d].order = binding[d].order
      BY <2>1, <3>5
    <3> QED BY <3>1, <3>3, <3>4, <3>5
  <2>8. WellMatched' /\ AllAdopted' /\ Served'
    BY <1>0, <2>1 DEF WellMatched, AllAdopted, Served, Written
  <2> QED BY <2>4, <2>5, <2>6, <2>7, <2>8 DEF IInv
<1> QED BY <1>3, <1>4

LEMMA MatchKeeps ==
  ASSUME IInv, MatchManaged
  PROVE  IInv'
<1> USE DEF Listed, Matching, WritePoints, DeletePoints
<1>0. /\ Typed /\ NoneByHand /\ Sorted /\ OrdersSeen /\ pc = "split" /\ rest = {} /\ pc' = "adopt"
      /\ matched' = MatchBindings(seen, cr.rules, managed, FALSE)
      /\ UNCHANGED <<server, kube, cr, seen, rest, managed, unmanaged, maxOrder, kept, i, doomed,
                     ghosts, edits, fails>>
  BY DEF IInv, MatchManaged
<1>1. /\ Len(cr.rules) \in Nat /\ managed \subseteq Nat \ {0} /\ managed \subseteq 0..made
      /\ \A b \in managed : seen[b].order \in Nat
  BY <1>0, Basics DEF Typed, LocalsTyped
<1>2. Matches(seen, cr.rules, managed, FALSE, matched')
  BY <1>0, <1>1, MatchFacts
<1>3. None \in 0..made /\ None \notin byHand
  BY <1>0, Basics DEF None, Typed, OthersTyped
<1>4. Typed'
  <2>1. MatchTyped'
    BY <1>0, <1>1, <1>2, <1>3 DEF Typed, MatchTyped, Matches, server
  <2> QED BY <1>0, <2>1 DEF Typed, ServerTyped, LocalsTyped, OthersTyped, Points, server, kube, ghosts
<1>5. NoneByHand'
  BY <1>0, <1>2, <1>3 DEF NoneByHand, Matches, server, kube, ghosts
<1>6. Sorted' /\ OrdersSeen'
  BY <1>0 DEF Sorted, OrdersSeen, server, ghosts
<1>7. WellMatched'
  BY <1>0, <1>2 DEF WellMatched, Matches
<1>8. AllAdopted' /\ Served'
  BY <1>0 DEF AllAdopted, Served, Written
<1> QED BY <1>4, <1>5, <1>6, <1>7, <1>8 DEF IInv

LEMMA AdoptKeeps ==
  ASSUME IInv, AdoptBinding
  PROVE  IInv'
<1> USE DEF Listed, Matching, WritePoints, DeletePoints
<1> DEFINE k == Min(Adoptable)
           b == Offer[k]
<1>0. /\ Typed /\ NoneByHand /\ Sorted /\ OrdersSeen /\ WellMatched /\ pc = "adopt"
      /\ UNCHANGED <<app, made, alive, binding, kube, lost, touched, edits, fails>>
  BY DEF IInv, AdoptBinding
<1>1. CASE Stop /\ UNCHANGED <<marks, byHand>>
  BY <1>0, <1>1, StopKeeps DEF server, ghosts
<1>2. CASE ~ (Stop /\ UNCHANGED <<marks, byHand>>)
  <2>1. /\ marks' = marks \cup {b} /\ matched' = [matched EXCEPT ![k] = b] /\ byHand' = byHand \ {b}
        /\ UNCHANGED <<pc, cr, seen, rest, managed, unmanaged, maxOrder, kept, i, doomed>>
    BY <1>2 DEF AdoptBinding, Offer
  <2>2. k \in Adoptable
    <3>1. Adoptable # {}
      BY DEF AdoptBinding
    <3>2. Adoptable \subseteq DOMAIN Offer
      BY DEF Adoptable, Offer
    <3>3. Adoptable \subseteq Nat
      BY <1>0, <3>2, OfferFacts
    <3> QED BY <3>1, <3>3, Least DEF Min
  <2>3. k \in 1..Len(cr.rules) /\ matched[k] = None /\ b # None
    BY <1>0, <2>2, OfferFacts DEF Adoptable, Offer
  <2> HIDE DEF k
  <2>4. b \in unmanaged /\ seen[b].subject = cr.rules[k].subject
    BY <1>0, <2>3, OfferFacts
  <2>5. b \in 1..made /\ DOMAIN matched = 1..Len(cr.rules)
    BY <1>0, <2>4 DEF Typed, LocalsTyped, MatchTyped
  <2>6. /\ DOMAIN matched' = 1..Len(cr.rules)
        /\ \A j \in 1..Len(cr.rules) : matched'[j] = IF j = k THEN b ELSE matched[j]
    BY <2>1, <2>3, <2>5
  <2>7. Offer' = Offer
    BY <2>1 DEF Offer
  <2>8. b \in 0..made
    BY <1>0, <2>5, Basics
  <2> HIDE DEF b
  <2>9. Typed'
    <3>1. MatchTyped'
      BY <1>0, <2>1, <2>6, <2>8 DEF Typed, MatchTyped
    <3> QED BY <1>0, <2>1, <2>5, <3>1 DEF Typed, ServerTyped, LocalsTyped, OthersTyped, kube
  <2>10. NoneByHand'
    BY <1>0, <2>1, <2>4, <2>5, <2>6 DEF NoneByHand, kube
  <2>11. Sorted' /\ OrdersSeen'
    BY <1>0, <2>1 DEF Sorted, OrdersSeen
  <2>12. WellMatched'
    <3>1. \A d \in managed : d \in Range(matched) => d \in Range(matched')
      <4>1. \A d \in managed : d # None
        BY <1>0, Basics DEF Typed, LocalsTyped, None
      <4> QED BY <2>3, <2>5, <2>6, <4>1 DEF Range
    <3>2. ASSUME NEW j \in 1..Len(cr.rules)
          PROVE  /\ matched'[j] # None => /\ seen[matched'[j]].subject = cr.rules[j].subject
                                          /\ matched'[j] \in managed \/ matched'[j] = Offer[j]
                 /\ matched'[j] = None =>
                      \A d \in managed : seen[d].subject = cr.rules[j].subject => d \in Range(matched')
      <4>1. CASE j = k
        BY <2>3, <2>4, <2>6, <4>1 DEF b
      <4>2. CASE j # k
        BY <1>0, <2>6, <3>1, <4>2 DEF WellMatched
      <4> QED BY <4>1, <4>2
    <3> QED BY <2>1, <2>7, <3>2 DEF WellMatched
  <2>13. AllAdopted' /\ Served'
    BY <1>0, <2>1 DEF AllAdopted, Served, Written
  <2> QED BY <2>9, <2>10, <2>11, <2>12, <2>13 DEF IInv
<1> QED BY <1>1, <1>2

LEMMA AdoptedKeeps ==
  ASSUME IInv, AdoptedAll
  PROVE  IInv'
<1> USE DEF Listed, Matching, WritePoints, DeletePoints
<1>0. /\ IInv /\ pc = "adopt" /\ Adoptable = {} /\ pc' = "write" /\ i' = 1
      /\ UNCHANGED <<server, kube, cr, seen, rest, managed, unmanaged, maxOrder, matched, kept, doomed,
                     ghosts, edits, fails>>
  BY DEF AdoptedAll
<1>1. Len(cr.rules) \in Nat
  BY Basics DEF IInv
<1>2. Typed'
  <2>1. MatchTyped'
    BY <1>0, <1>1 DEF IInv, Typed, MatchTyped, server
  <2> QED BY <1>0, <2>1 DEF IInv, Typed, ServerTyped, LocalsTyped, OthersTyped, Points, server, kube, ghosts
<1>3. NoneByHand' /\ Sorted' /\ OrdersSeen'
  BY <1>0 DEF IInv, NoneByHand, Sorted, OrdersSeen, server, kube, ghosts
<1>4. Offer' = Offer /\ Adoptable' = Adoptable
  BY <1>0 DEF Offer, Adoptable
<1>5. WellMatched' /\ AllAdopted'
  BY <1>0, <1>4 DEF IInv, WellMatched, AllAdopted
<1>6. Served'
  BY <1>0, <1>1 DEF Served, Written
<1> QED BY <1>2, <1>3, <1>5, <1>6 DEF IInv

LEMMA SyncKeeps ==
  ASSUME IInv, SyncBinding
  PROVE  IInv'
<1> USE DEF Listed, Matching, WritePoints, DeletePoints
<1> DEFINE b == matched[i]
<1>0. /\ Typed /\ NoneByHand /\ Sorted /\ OrdersSeen /\ WellMatched /\ AllAdopted /\ Served
      /\ pc = "write" /\ i <= Len(cr.rules) /\ b # None
      /\ UNCHANGED <<app, made, alive, marks, kube, ghosts, edits, fails>>
  BY DEF IInv, SyncBinding, Writing
<1>1. CASE Stop /\ UNCHANGED binding
  BY <1>0, <1>1, StopKeeps DEF server
<1>2. CASE ~ (Stop /\ UNCHANGED binding)
  <2>1. /\ binding' = binding \/ binding' = [binding EXCEPT ![b].negate = cr.rules[i].negate]
        /\ kept' = kept \cup {b} /\ i' = i + 1
        /\ UNCHANGED <<pc, cr, seen, rest, managed, unmanaged, maxOrder, matched, doomed>>
    BY <1>2 DEF SyncBinding
  <2>2. i \in 1..Len(cr.rules) /\ i + 1 \in 0..Len(cr.rules) + 1 /\ i + 1 # 0
    BY <1>0, Basics DEF Typed, MatchTyped
  <2>3. DOMAIN matched = 1..Len(cr.rules) /\ b \in managed \cup unmanaged /\ b \notin byHand
    BY <1>0, <2>2, OfferFacts DEF Typed, MatchTyped, WellMatched, NoneByHand
  <2>4. seen[b].subject = cr.rules[i].subject
    BY <1>0, <2>2 DEF WellMatched
  <2> HIDE DEF b
  <2>5. b \in 1..made /\ b \in Pks
    BY <1>0, <2>3, Basics DEF Typed, LocalsTyped
  <2>6. /\ binding' \in [Pks -> BindingRec]
        /\ \A d \in Pks : binding'[d].subject = binding[d].subject /\ binding'[d].order = binding[d].order
    <3>1. cr.rules[i].negate \in BOOLEAN /\ binding \in [Pks -> BindingRec] /\ binding[b] \in BindingRec
      BY <1>0, <2>2, <2>5, Basics DEF Typed, ServerTyped
    <3>2. CASE binding' = binding
      BY <3>1, <3>2
    <3>3. CASE binding' = [binding EXCEPT ![b].negate = cr.rules[i].negate]
      <4> DEFINE new == [binding[b] EXCEPT !.negate = cr.rules[i].negate]
      <4>1. new \in BindingRec /\ new.subject = binding[b].subject /\ new.order = binding[b].order
        BY <3>1 DEF BindingRec
      <4>2. binding' = [binding EXCEPT ![b] = new]
        BY <3>3
      <4> HIDE DEF new
      <4>3. \A d \in Pks : binding'[d] = IF d = b THEN new ELSE binding[d]
        BY <2>5, <3>1, <4>2
      <4> QED BY <3>1, <4>1, <4>2, <4>3
    <3> QED BY <2>1, <3>2, <3>3
  <2>7. alive \subseteq Pks /\ kept \subseteq Pks
    BY <1>0, Basics DEF Typed, ServerTyped, LocalsTyped
  <2>8. Typed'
    <3>1. ServerTyped'
      BY <1>0, <2>6, <2>7 DEF Typed, ServerTyped
    <3>2. LocalsTyped' /\ MatchTyped'
      BY <1>0, <2>1, <2>2, <2>5 DEF Typed, LocalsTyped, MatchTyped
    <3> QED BY <1>0, <3>1, <3>2 DEF Typed, OthersTyped, kube, ghosts
  <2>9. NoneByHand'
    BY <1>0, <2>1, <2>3 DEF NoneByHand, kube, ghosts
  <2>10. Sorted'
    BY <1>0, <2>1, <2>3 DEF Sorted, ghosts
  <2>11. OrdersSeen'
    BY <1>0, <2>1, <2>6, <2>7 DEF OrdersSeen, ghosts
  <2>12. WellMatched' /\ AllAdopted'
    BY <1>0, <2>1 DEF WellMatched, AllAdopted, Offer, Adoptable
  <2>13. Served'
    <3> SUFFICES ASSUME NEW k \in 1..Len(cr.rules), k < i + 1
                 PROVE  \E d \in kept' : \/ seen[d].subject = cr.rules[k].subject
                                         \/ binding'[d].subject = cr.rules[k].subject
      BY <1>0, <2>1 DEF Served, Written
    <3>1. k = i \/ k < i
      BY <2>2
    <3>2. CASE k = i
      BY <2>1, <2>4, <3>2
    <3>3. CASE k < i
      BY <1>0, <2>1, <2>6, <2>7, <3>3 DEF Served, Written
    <3> QED BY <3>1, <3>2, <3>3
  <2> QED BY <2>8, <2>9, <2>10, <2>11, <2>12, <2>13 DEF IInv
<1> QED BY <1>1, <1>2

\* A Binding is created, by the operator or in the UI.
LEMMA Created ==
  ASSUME Typed, NEW subject \in Subjects, NEW negate \in BOOLEAN, NEW order \in Nat,
         CreatePolicyBinding(subject, negate, order), UNCHANGED <<app, marks>>
  PROVE  /\ ServerTyped' /\ made' = made + 1 /\ made + 1 \in Nat /\ made + 1 \notin 0..made
         /\ 0..made \subseteq 0..made' /\ 1..made \subseteq 1..made' /\ made + 1 \in 1..made'
         /\ alive' = alive \cup {made + 1}
         /\ binding'[made + 1].subject = subject /\ binding'[made + 1].order = order
         /\ \A d \in 1..made : binding'[d] = binding[d]
<1>0. made \in Nat /\ made < MaxBindings /\ MaxBindings \in Nat /\ made' = made + 1
      /\ binding \in [Pks -> BindingRec] /\ alive \subseteq 1..made /\ marks \subseteq 1..made
      /\ app \in BOOLEAN
  BY Basics, BindingsAssumption DEF Typed, ServerTyped, CreatePolicyBinding
<1>1. /\ made + 1 \in Pks /\ made + 1 \in 0..MaxBindings /\ made + 1 \notin 0..made
      /\ 0..made \subseteq 0..made' /\ 1..made \subseteq 1..made' /\ made + 1 \in 1..made'
      /\ made + 1 \notin 1..made /\ 1..made \subseteq Pks
  BY <1>0 DEF Pks
<1> DEFINE new == [subject |-> subject, negate |-> negate, order |-> order]
<1>2. new \in BindingRec /\ new.subject = subject /\ new.order = order
  BY DEF BindingRec
<1>3. binding' = [binding EXCEPT ![made + 1] = new] /\ alive' = alive \cup {made + 1}
  BY DEF CreatePolicyBinding
<1> HIDE DEF new
<1>4. /\ binding' \in [Pks -> BindingRec] /\ binding'[made + 1] = new
      /\ \A d \in 1..made : binding'[d] = binding[d]
  BY <1>0, <1>1, <1>2, <1>3
<1>5. \A d \in alive' : binding'[d].subject \in Subjects
  BY <1>0, <1>2, <1>3, <1>4 DEF Typed, ServerTyped
<1>6. ServerTyped'
  BY <1>0, <1>1, <1>3, <1>4, <1>5 DEF ServerTyped
<1> QED BY <1>0, <1>1, <1>2, <1>3, <1>4, <1>6

LEMMA CreateKeeps ==
  ASSUME IInv, CreateBinding
  PROVE  IInv'
<1> USE DEF Listed, Matching, WritePoints, DeletePoints
<1> DEFINE rule == cr.rules[i]
           order == maxOrder + OrderStep
<1>0. /\ Typed /\ NoneByHand /\ Sorted /\ OrdersSeen /\ WellMatched /\ AllAdopted /\ Served
      /\ pc = "write" /\ i <= Len(cr.rules)
      /\ UNCHANGED <<app, marks, kube, ghosts, edits, fails>>
  BY DEF IInv, CreateBinding, Writing
<1>1. CASE Stop /\ UNCHANGED <<made, alive, binding>>
  BY <1>0, <1>1, StopKeeps DEF server
<1>2. CASE ~ (Stop /\ UNCHANGED <<made, alive, binding>>)
  <2>1. /\ CreatePolicyBinding(rule.subject, rule.negate, order)
        /\ kept' = kept \cup {made + 1} /\ maxOrder' = order /\ pc' = "record"
        /\ UNCHANGED <<cr, seen, rest, managed, unmanaged, matched, i, doomed>>
    BY <1>2 DEF CreateBinding
  <2>2. i \in 1..Len(cr.rules) /\ maxOrder \in Nat
    BY <1>0, Basics DEF Typed, LocalsTyped, MatchTyped
  <2>3. rule.subject \in Subjects /\ rule.negate \in BOOLEAN /\ order \in Nat /\ maxOrder <= order
    BY <1>0, <2>2, Basics DEF OrderStep
  <2>4. /\ ServerTyped' /\ made' = made + 1 /\ made + 1 \in Nat /\ made + 1 \notin 0..made
        /\ 0..made \subseteq 0..made' /\ 1..made \subseteq 1..made' /\ made + 1 \in 1..made'
        /\ alive' = alive \cup {made + 1}
        /\ binding'[made + 1].subject = rule.subject /\ binding'[made + 1].order = order
        /\ \A d \in 1..made : binding'[d] = binding[d]
    BY <1>0, <2>1, <2>3, Created
  <2> HIDE DEF order
  <2>5. Typed'
    <3>1. LocalsTyped'
      BY <1>0, <2>1, <2>3, <2>4 DEF Typed, LocalsTyped, Points
    <3>2. MatchTyped'
      BY <1>0, <2>1, <2>2, <2>4 DEF Typed, MatchTyped
    <3> QED BY <1>0, <2>4, <3>1, <3>2 DEF Typed, OthersTyped, kube, ghosts
  <2>6. NoneByHand'
    <3>1. made + 1 \notin byHand
      BY <1>0, <2>4 DEF Typed, OthersTyped
    <3> QED BY <1>0, <2>1, <3>1 DEF NoneByHand, kube, ghosts
  <2>7. Sorted'
    BY <1>0, <2>1, <2>4 DEF Sorted, ghosts
  <2>8. OrdersSeen'
    <3> SUFFICES ASSUME ~touched, NEW d \in alive'
                 PROVE  binding'[d].order <= maxOrder'
      BY <1>0, <2>1 DEF OrdersSeen, ghosts
    <3>1. CASE d = made + 1
      BY <2>1, <2>3, <2>4, <3>1
    <3>2. CASE d \in alive
      <4>1. d \in 1..made /\ rest = {} /\ binding[d].order \in Nat
        BY <1>0, <3>2, Basics DEF Typed, ServerTyped, Sorted
      <4>2. binding[d].order <= maxOrder
        BY <1>0, <3>2, <4>1 DEF OrdersSeen
      <4>3. binding[d].order <= order
        BY <2>2, <2>3, <4>1, <4>2
      <4> QED BY <2>1, <2>4, <4>1, <4>3
    <3> QED BY <2>4, <3>1, <3>2
  <2>9. WellMatched' /\ AllAdopted'
    BY <1>0, <2>1 DEF WellMatched, AllAdopted, Offer, Adoptable
  <2>10. Served'
    <3> SUFFICES ASSUME NEW k \in 1..Len(cr.rules), k <= i
                 PROVE  \E d \in kept' : \/ seen[d].subject = cr.rules[k].subject
                                         \/ binding'[d].subject = cr.rules[k].subject
      BY <1>0, <2>1 DEF Served, Written
    <3>1. k = i \/ k < i
      BY <2>2
    <3>2. CASE k = i
      BY <2>1, <2>4, <3>2
    <3>3. CASE k < i
      <4>1. kept \subseteq 1..made
        BY <1>0 DEF Typed, LocalsTyped
      <4> QED BY <1>0, <2>1, <2>4, <3>3, <4>1 DEF Served, Written
    <3> QED BY <3>1, <3>2, <3>3
  <2> QED BY <2>5, <2>6, <2>7, <2>8, <2>9, <2>10 DEF IInv
<1> QED BY <1>1, <1>2

\* The Binding that was created last is the one to be recorded and marked.
LEMMA LastKept ==
  ASSUME IInv, pc \in {"record", "mark"}
  PROVE  Max(kept) \in kept
<1>1. made \in Nat /\ kept \subseteq 0..made /\ kept # {}
  BY Basics DEF IInv, Typed, LocalsTyped, MatchTyped
<1> QED BY <1>1, MaxIn

LEMMA RecordKeeps ==
  ASSUME IInv, RecordBinding \/ MarkBinding
  PROVE  IInv'
<1> USE DEF Listed, Matching, WritePoints, DeletePoints
<1> DEFINE b == Max(kept)
<1>0. b \in kept
  BY LastKept DEF RecordBinding, MarkBinding
<1> HIDE DEF b
<1>1. b \in 1..made /\ b \notin byHand /\ Len(cr.rules) \in Nat
  BY <1>0, Basics DEF IInv, Typed, LocalsTyped, NoneByHand
<1>2. CASE RecordBinding
  <2>1. /\ pc = "record" /\ pc' = "mark" /\ status' = status \cup {b}
        /\ UNCHANGED <<server, spec, locals, ghosts, edits, fails>>
    BY <1>2 DEF RecordBinding, PatchStatus, b
  <2>2. Typed'
    BY <1>1, <2>1 DEF IInv, Typed, ServerTyped, LocalsTyped, MatchTyped, OthersTyped, Points,
                      server, locals, ghosts
  <2>3. NoneByHand'
    BY <1>1, <2>1 DEF IInv, NoneByHand, server, locals, ghosts
  <2>4. Sorted' /\ OrdersSeen'
    BY <2>1 DEF IInv, Sorted, OrdersSeen, server, locals, ghosts
  <2>5. WellMatched' /\ AllAdopted' /\ Served'
    BY <2>1 DEF IInv, WellMatched, AllAdopted, Served, Written, Offer, Adoptable, server, locals
  <2> QED BY <2>2, <2>3, <2>4, <2>5 DEF IInv
<1>3. CASE MarkBinding
  <2>0. pc = "mark" /\ UNCHANGED <<app, made, alive, binding, kube, ghosts, edits, fails>>
    BY <1>3 DEF MarkBinding
  <2>1. CASE Stop /\ UNCHANGED marks
    BY <2>0, <2>1, StopKeeps DEF server
  <2>2. CASE ~ (Stop /\ UNCHANGED marks)
    <3>1. /\ marks' = marks \cup {b} /\ pc' = "write" /\ i' = i + 1
          /\ UNCHANGED <<cr, seen, rest, managed, unmanaged, maxOrder, matched, kept, doomed>>
      BY <1>3, <2>2 DEF MarkBinding, b
    <3>2. i \in 1..Len(cr.rules) /\ i + 1 \in 0..Len(cr.rules) + 1 /\ i + 1 # 0
      BY <1>1, <2>0 DEF IInv, Typed, MatchTyped
    <3>3. Typed'
      BY <1>1, <2>0, <3>1, <3>2 DEF IInv, Typed, ServerTyped, LocalsTyped, MatchTyped, OthersTyped,
                                    Points, kube, ghosts
    <3>4. NoneByHand'
      BY <1>1, <2>0, <3>1 DEF IInv, NoneByHand, kube, ghosts
    <3>5. Sorted' /\ OrdersSeen'
      BY <2>0, <3>1 DEF IInv, Sorted, OrdersSeen, ghosts
    <3>6. WellMatched' /\ AllAdopted'
      BY <2>0, <3>1 DEF IInv, WellMatched, AllAdopted, Offer, Adoptable
    <3>7. Served'
      <4>1. \A k \in 1..Len(cr.rules) : k < i + 1 => k <= i
        BY <1>1, <3>2
      <4> QED BY <2>0, <3>1, <4>1 DEF IInv, Served, Written
    <3> QED BY <3>3, <3>4, <3>5, <3>6, <3>7 DEF IInv
  <2> QED BY <2>1, <2>2
<1> QED BY <1>2, <1>3

LEMMA DeleteKeeps ==
  ASSUME IInv,
         \/ WrittenAll \/ UnmarkBinding \/ DeletedAll \/ KeepBindings
         \/ \E b \in Pks : DeleteBinding(b) \/ PruneBinding(b)
  PROVE  IInv'
<1> USE DEF Listed, Matching, WritePoints, DeletePoints
<1>0. Len(cr.rules) \in Nat /\ made \in Nat
  BY Basics DEF IInv
<1>1. CASE WrittenAll
  <2>0. /\ pc = "write" /\ i > Len(cr.rules) /\ pc' = "delete"
        /\ UNCHANGED <<server, kube, locals, ghosts, edits, fails>>
    BY <1>1 DEF WrittenAll
  <2>1. \A k \in 1..Len(cr.rules) : k < i
    BY <1>0, <2>0 DEF IInv, Typed, MatchTyped
  <2>2. Typed'
    BY <2>0 DEF IInv, Typed, ServerTyped, LocalsTyped, MatchTyped, OthersTyped, Points,
                server, kube, locals, ghosts
  <2>3. NoneByHand' /\ Sorted' /\ OrdersSeen'
    BY <2>0 DEF IInv, NoneByHand, Sorted, OrdersSeen, server, kube, locals, ghosts
  <2>4. Served'
    BY <2>0, <2>1 DEF IInv, Served, Written, server, locals
  <2>5. WellMatched' /\ AllAdopted'
    BY <2>0 DEF WellMatched, AllAdopted
  <2> QED BY <2>2, <2>3, <2>4, <2>5 DEF IInv
<1>2. CASE UnmarkBinding \/ DeletedAll \/ KeepBindings
  <2>0. /\ pc \in DeletePoints /\ pc' \in DeletePoints
        /\ marks' \subseteq marks /\ status' \in {status, kept}
        /\ UNCHANGED <<app, made, alive, binding, spec, locals, ghosts, edits, fails>>
    BY <1>2 DEF UnmarkBinding, DeletedAll, KeepBindings, PatchStatus, server, kube
  <2>1. Typed'
    BY <2>0 DEF IInv, Typed, ServerTyped, LocalsTyped, MatchTyped, OthersTyped, Points, locals, ghosts
  <2>2. NoneByHand' /\ Sorted' /\ OrdersSeen'
    BY <2>0 DEF IInv, NoneByHand, Sorted, OrdersSeen, locals, ghosts
  <2>3. Served'
    BY <2>0 DEF IInv, Served, Written, locals
  <2>4. WellMatched' /\ AllAdopted'
    BY <2>0 DEF WellMatched, AllAdopted
  <2> QED BY <2>1, <2>2, <2>3, <2>4 DEF IInv
<1>3. ASSUME NEW b \in Pks, DeleteBinding(b) \/ PruneBinding(b)
      PROVE  IInv'
  <2>0. /\ pc \in DeletePoints /\ pc' \in DeletePoints
        /\ b \in (managed \cup unmanaged) \ kept /\ alive' = alive \ {b}
        /\ \/ managed' = managed \ {b} /\ unmanaged' = unmanaged /\ b \in managed
           \/ unmanaged' = unmanaged \ {b} /\ managed' = managed /\ b \in unmanaged
        /\ doomed' \in {doomed, b}
        /\ UNCHANGED <<app, made, binding, marks, kube, cr, seen, rest, maxOrder, matched, kept, i,
                       ghosts, edits, fails>>
    BY <1>3 DEF DeleteBinding, PruneBinding
  <2>1. b \in 0..made
    BY <1>0, <2>0 DEF IInv, Typed, LocalsTyped
  <2>2. Typed'
    BY <2>0, <2>1 DEF IInv, Typed, ServerTyped, LocalsTyped, MatchTyped, OthersTyped, Points, kube, ghosts
  <2>3. NoneByHand'
    BY <2>0 DEF IInv, NoneByHand, kube, ghosts
  <2>4. Sorted'
    BY <2>0 DEF IInv, Sorted, ghosts
  <2>5. OrdersSeen'
    BY <2>0 DEF IInv, OrdersSeen, ghosts
  <2>6. Served'
    BY <2>0 DEF IInv, Served, Written
  <2>7. WellMatched' /\ AllAdopted'
    BY <2>0 DEF WellMatched, AllAdopted
  <2> QED BY <2>2, <2>3, <2>4, <2>5, <2>6, <2>7 DEF IInv
<1> QED BY <1>1, <1>2, <1>3

LEMMA EndKeeps ==
  ASSUME IInv, Finish \/ Interrupt
  PROVE  IInv'
<1>1. CASE Finish
  BY <1>1, StopKeeps DEF Finish
<1>2. CASE Interrupt
  <2>1. cr \in Specs /\ fails \in 0..MaxFails /\ MaxFails \in Nat
    BY BindingsAssumption DEF IInv, Typed, LocalsTyped, OthersTyped
  <2>2. fails' \in 0..MaxFails
    BY <1>2, <2>1 DEF Interrupt
  <2> QED BY <1>2, <2>1, <2>2, ForgetKeeps DEF Interrupt, Stop
<1> QED BY <1>1, <1>2

\* Whatever people do, the reconcile goes on with what it has read.
LEMMA PeopleKeeps ==
  ASSUME IInv, PeopleStep
  PROVE  IInv'
<1> USE DEF Listed, Matching, WritePoints, DeletePoints
<1>0. MaxEdits \in Nat /\ edits \in 0..MaxEdits /\ made \in Nat /\ UIOrders \subseteq Nat
  BY BindingsAssumption, Basics DEF IInv, Typed, OthersTyped
<1>1. Edit => edits' \in 0..MaxEdits
  BY <1>0 DEF Edit
<1>2. ASSUME NEW subject \in Subjects, NEW negate \in BOOLEAN, NEW order \in UIOrders,
             UICreateBinding(subject, negate, order)
      PROVE  IInv'
  <2>0. /\ CreatePolicyBinding(subject, negate, order) /\ byHand' = byHand \cup {made + 1}
        /\ touched' = TRUE /\ edits' \in 0..MaxEdits
        /\ UNCHANGED <<app, marks, kube, pc, locals, lost, fails>>
    BY <1>1, <1>2 DEF UICreateBinding
  <2>1. /\ ServerTyped' /\ made' = made + 1 /\ made + 1 \notin 0..made
        /\ 0..made \subseteq 0..made' /\ 1..made \subseteq 1..made' /\ made + 1 \in 1..made'
        /\ alive' = alive \cup {made + 1}
        /\ \A d \in 1..made : binding'[d] = binding[d]
    BY <1>0, <2>0, Created DEF IInv
  <2>2. Typed'
    <3>1. LocalsTyped' /\ MatchTyped'
      BY <2>0, <2>1 DEF IInv, Typed, LocalsTyped, MatchTyped, locals
    <3>2. touched' \in BOOLEAN
      BY <2>0
    <3> QED BY <2>0, <2>1, <3>1, <3>2 DEF IInv, Typed, OthersTyped, kube
  <2>3. NoneByHand'
    <3>1. /\ made + 1 \notin marks \cup status \cup managed \cup kept
          /\ \A k \in DOMAIN matched : matched[k] # made + 1
      BY <1>0, <2>1 DEF IInv, Typed, ServerTyped, LocalsTyped, MatchTyped, OthersTyped
    <3> QED BY <2>0, <3>1 DEF IInv, NoneByHand, kube, locals
  <2>4. Sorted'
    BY <2>0, <2>1 DEF IInv, Sorted, locals
  <2>5. touched'
    BY <2>0
  <2>6. OrdersSeen'
    BY <2>5 DEF OrdersSeen
  <2>7. WellMatched' /\ AllAdopted'
    BY <2>0 DEF IInv, WellMatched, AllAdopted, Offer, Adoptable, locals
  <2>8. Served'
    <3>1. kept \subseteq 1..made
      BY DEF IInv, Typed, LocalsTyped
    <3> QED BY <2>0, <2>1, <3>1 DEF IInv, Served, Written, locals
  <2> QED BY <2>2, <2>3, <2>4, <2>6, <2>7, <2>8 DEF IInv
<1>3. ASSUME NEW b \in Pks, UIDeleteBinding(b) \/ UINegateBinding(b)
      PROVE  IInv'
  <2>0. /\ b \in alive /\ edits' \in 0..MaxEdits
        /\ \/ alive' = alive \ {b} /\ lost' = lost \cup {b} /\ binding' = binding
           \/ alive' = alive /\ lost' = lost /\ binding' = [binding EXCEPT ![b].negate = ~@]
        /\ UNCHANGED <<app, made, marks, kube, pc, locals, byHand, touched, fails>>
    BY <1>1, <1>3 DEF UIDeleteBinding, UINegateBinding, ghosts
  <2>1. /\ binding' \in [Pks -> BindingRec]
        /\ \A d \in Pks : binding'[d].subject = binding[d].subject /\ binding'[d].order = binding[d].order
    <3>1. binding \in [Pks -> BindingRec] /\ binding[b] \in BindingRec
      BY Basics DEF IInv, Typed, ServerTyped
    <3>2. CASE binding' = binding
      BY <3>1, <3>2
    <3>3. CASE binding' = [binding EXCEPT ![b].negate = ~@]
      <4> DEFINE new == [binding[b] EXCEPT !.negate = ~ @]
      <4>1. new \in BindingRec /\ new.subject = binding[b].subject /\ new.order = binding[b].order
        BY <3>1 DEF BindingRec
      <4>2. binding' = [binding EXCEPT ![b] = new]
        BY <3>3
      <4> HIDE DEF new
      <4>3. \A d \in Pks : binding'[d] = IF d = b THEN new ELSE binding[d]
        BY <3>1, <4>2
      <4> QED BY <3>1, <4>1, <4>2, <4>3
    <3> QED BY <2>0, <3>2, <3>3
  <2>2. alive \subseteq 1..made /\ alive \subseteq Pks /\ kept \subseteq Pks
    BY Basics DEF IInv, Typed, ServerTyped, LocalsTyped
  <2>3. Typed'
    <3>1. ServerTyped'
      BY <2>0, <2>1, <2>2 DEF IInv, Typed, ServerTyped
    <3>2. LocalsTyped' /\ MatchTyped'
      BY <2>0 DEF IInv, Typed, LocalsTyped, MatchTyped, locals
    <3>3. OthersTyped'
      BY <2>0, <2>2 DEF IInv, Typed, OthersTyped, kube
    <3> QED BY <3>1, <3>2, <3>3 DEF Typed
  <2>4. NoneByHand'
    BY <2>0 DEF IInv, NoneByHand, kube, locals
  <2>5. Sorted'
    BY <2>0 DEF IInv, Sorted, locals
  <2>6. OrdersSeen'
    BY <2>0, <2>1, <2>2 DEF IInv, OrdersSeen, locals
  <2>7. WellMatched' /\ AllAdopted'
    BY <2>0 DEF IInv, WellMatched, AllAdopted, Offer, Adoptable, locals
  <2>8. Served'
    BY <2>0, <2>1, <2>2 DEF IInv, Served, Written, locals
  <2> QED BY <2>3, <2>4, <2>5, <2>6, <2>7, <2>8 DEF IInv
<1>4. ASSUME NEW s \in Specs, EditSpec(s)
      PROVE  IInv'
  <2>0. spec' = s /\ edits' \in 0..MaxEdits /\ UNCHANGED <<server, status, pc, locals, ghosts, fails>>
    BY <1>1, <1>4 DEF EditSpec
  <2>1. Typed'
    BY <2>0 DEF IInv, Typed, ServerTyped, LocalsTyped, MatchTyped, OthersTyped, server, locals, ghosts
  <2>2. NoneByHand' /\ Sorted' /\ OrdersSeen'
    BY <2>0 DEF IInv, NoneByHand, Sorted, OrdersSeen, server, locals, ghosts
  <2>3. WellMatched' /\ AllAdopted' /\ Served'
    BY <2>0 DEF IInv, WellMatched, AllAdopted, Served, Written, Offer, Adoptable, server, locals
  <2> QED BY <2>1, <2>2, <2>3 DEF IInv
<1> QED BY <1>2, <1>3, <1>4 DEF PeopleStep

-----------------------------------------------------------------------------
(* The invariant holds, and what follows from it.                          *)

LEMMA InitIInv == Init => IInv
<1> SUFFICES ASSUME Init PROVE IInv
  OBVIOUS
<1> USE DEF Listed, Matching, WritePoints, DeletePoints
<1>1. MaxBindings \in Nat /\ MaxEdits \in Nat /\ MaxFails \in Nat /\ Len(cr.rules) \in Nat
  <2>1. cr \in Specs
    BY DEF Init
  <2>2. cr.rules \in Seq(Rule)
    BY <2>1, BindingsAssumption
  <2> QED BY <2>2, BindingsAssumption
<1>2. NoBinding \in BindingRec
  BY DEF NoBinding, BindingRec
<1>3. app \in BOOLEAN /\ touched \in BOOLEAN
  BY Zenon DEF Init
<1>4. /\ made = 0 /\ alive = {} /\ marks = {} /\ status = {} /\ byHand = {} /\ lost = {}
      /\ edits = 0 /\ fails = 0 /\ spec \in Specs /\ binding = [b \in Pks |-> NoBinding]
  BY DEF Init
<1>5. ServerTyped
  BY <1>1, <1>2, <1>3, <1>4 DEF ServerTyped
<1>6. OthersTyped
  BY <1>1, <1>3, <1>4 DEF OthersTyped
<1>7. LocalsTyped
  BY <1>1, <1>2 DEF Init, LocalsTyped, Points, None
<1>8. MatchTyped
  BY <1>1 DEF Init, MatchTyped
<1>9. NoneByHand /\ Sorted
  BY DEF Init, NoneByHand, Sorted
<1>10. OrdersSeen /\ WellMatched /\ AllAdopted /\ Served
  BY DEF Init, OrdersSeen, WellMatched, AllAdopted, Served, Written
<1> QED BY <1>5, <1>6, <1>7, <1>8, <1>9, <1>10 DEF IInv, Typed

LEMMA NextIInv == IInv /\ [Next]_vars => IInv'
<1>1. ASSUME IInv, UNCHANGED vars PROVE IInv'
  <2>0. UNCHANGED <<server, kube, pc, locals, ghosts, edits, fails>>
    BY <1>1 DEF vars
  <2>1. Typed'
    BY <1>1, <2>0 DEF IInv, Typed, ServerTyped, LocalsTyped, MatchTyped, OthersTyped,
                      server, kube, locals, ghosts
  <2>2. NoneByHand' /\ Sorted' /\ OrdersSeen'
    BY <1>1, <2>0 DEF IInv, NoneByHand, Sorted, OrdersSeen, server, kube, locals, ghosts
  <2>3. WellMatched' /\ AllAdopted' /\ Served'
    BY <1>1, <2>0 DEF IInv, WellMatched, AllAdopted, Served, Written, Offer, Adoptable, server, locals
  <2> QED BY <2>1, <2>2, <2>3 DEF IInv
<1>2. ASSUME IInv, OperatorStep PROVE IInv'
  BY <1>2, StartKeeps, ManagedKeeps, MatchKeeps, AdoptKeeps, AdoptedKeeps, SyncKeeps, CreateKeeps,
     RecordKeeps, DeleteKeeps, EndKeeps DEF OperatorStep
<1> QED BY <1>1, <1>2, EndKeeps, PeopleKeeps DEF Next

LEMMA InvariantHolds == Spec => []IInv
BY InitIInv, NextIInv, PTL DEF Spec

\* The prune flag does not depend on the rest, nor the rest on it.
LEMMA AskedHolds == Spec => []Asked
<1>1. Init => Asked
  BY BindingsAssumption, Zenon DEF Init, Asked
<1>2. ASSUME Typed, Asked, [Next]_vars PROVE Asked'
  <2>1. spec.prune \in BOOLEAN
    BY <1>2, BindingsAssumption DEF Typed, OthersTyped
  <2>2. CASE UNCHANGED <<prune, asked, spec>>
    BY <1>2, <2>2 DEF Asked
  <2>3. CASE /\ prune' \in {prune, spec.prune} /\ UNCHANGED spec
             /\ asked' = asked \/ (asked' = spec.prune /\ prune' = spec.prune)
    BY <1>2, <2>1, <2>3 DEF Asked
  <2>4. ASSUME NEW s \in Specs, EditSpec(s) PROVE Asked'
    <3>1. s.prune \in BOOLEAN /\ spec' = s /\ prune' = prune /\ asked' = (asked \/ s.prune)
      BY <2>4, BindingsAssumption DEF EditSpec
    <3> QED BY <1>2, <3>1 DEF Asked
  <2>5. StartReconcile \/ CreateApplication \/ ListPolicyBindings \/ RecordBinding \/ KeepBindings =>
          /\ prune' \in {prune, spec.prune} /\ UNCHANGED spec
          /\ asked' = asked \/ (asked' = spec.prune /\ prune' = spec.prune)
    BY DEF StartReconcile, CreateApplication, ListPolicyBindings, RecordBinding, KeepBindings,
           PatchStatus, kube
  <2>6. ManagedBindings \/ MatchManaged \/ AdoptBinding \/ AdoptedAll \/ SyncBinding \/ CreateBinding
        \/ MarkBinding \/ WrittenAll \/ UnmarkBinding \/ DeletedAll \/ Finish \/ Interrupt =>
          UNCHANGED <<prune, asked, spec>>
    BY DEF ManagedBindings, MatchManaged, AdoptBinding, AdoptedAll, SyncBinding, CreateBinding,
           MarkBinding, WrittenAll, UnmarkBinding, DeletedAll, Finish, Interrupt, kube, asking
  <2>7. (\E b \in Pks : DeleteBinding(b) \/ PruneBinding(b)) => UNCHANGED <<prune, asked, spec>>
    BY DEF DeleteBinding, PruneBinding, kube, asking
  <2>8. PeopleStep => UNCHANGED <<prune, asked, spec>> \/ \E s \in Specs : EditSpec(s)
    BY DEF PeopleStep, UICreateBinding, UIDeleteBinding, UINegateBinding, kube, asking
  <2>9. CASE UNCHANGED vars
    BY <2>2, <2>9 DEF vars, kube, asking
  <2> QED BY <1>2, <2>2, <2>3, <2>4, <2>5, <2>6, <2>7, <2>8, <2>9 DEF Next, OperatorStep
<1>3. IInv => Typed
  BY DEF IInv
<1> QED BY <1>1, <1>2, <1>3, InvariantHolds, PTL DEF Spec

\* What reconcileBindings works with keeps its types for every number of
\* Bindings, edits and failures: a UUID that is marked, recorded, matched or
\* kept is one that authentik gave out.
THEOREM TypeCorrect == Spec => []TypeOK
<1>1. IInv /\ Asked => TypeOK
  BY TypedOK DEF IInv
<1> QED BY <1>1, InvariantHolds, AskedHolds, PTL

\* createBinding asks for maxOrder + 10.  Whatever orders people gave to their
\* Bindings and however many rules were written before, no Binding of the
\* Application has that order, unless one was created after the list was read.
THEOREM FreshOrder == Spec => []OrderIsFree
<1>1. ASSUME IInv, Writing, ~touched
      PROVE  ~OrderTaken(cr.rules[i].subject, maxOrder + OrderStep)
  <2>1. rest = {} /\ maxOrder \in Nat
    BY <1>1 DEF IInv, Sorted, Writing, Typed, LocalsTyped, Matching, WritePoints
  <2>2. \A b \in alive : binding[b].order <= maxOrder
    BY <1>1, <2>1 DEF IInv, OrdersSeen, Writing, Listed, Matching, WritePoints
  <2>3. \A b \in alive : binding[b].order \in Nat
    BY <1>1, Basics DEF IInv, Typed, ServerTyped
  <2>4. \A b \in alive : binding[b].order # maxOrder + OrderStep
    BY <2>1, <2>2, <2>3 DEF OrderStep
  <2> QED BY <2>4 DEF OrderTaken
<1>2. IInv => OrderIsFree
  BY <1>1 DEF OrderIsFree
<1> QED BY <1>2, InvariantHolds, PTL

\* A rule for which createBinding is called has no listed Binding with its
\* subject and negate left over: matchBindings and adoption gave every one of
\* them to a rule, for every list of rules and every set of Bindings.
THEOREM NoDuplicates == Spec => []NoDuplicateRight
<1>1. ASSUME IInv, Writing, matched[i] = None, NEW b \in managed \cup unmanaged,
             seen[b].subject = cr.rules[i].subject, seen[b].negate = cr.rules[i].negate
      PROVE  \/ b \in Range(matched) \cup kept
             \/ \E k \in DOMAIN cr.rules \ {i} : cr.rules[k] = cr.rules[i] /\ matched[k] \in managed
  <2>1. /\ Typed /\ WellMatched /\ Adoptable = {} /\ pc \in Matching
        /\ DOMAIN matched = 1..Len(cr.rules)
    BY <1>1 DEF IInv, AllAdopted, Writing, Typed, MatchTyped, Matching, WritePoints
  <2>2. i \in 1..Len(cr.rules) /\ unmanaged \subseteq Nat \ {0}
    BY <1>1, <2>1, Basics DEF Typed, MatchTyped, LocalsTyped, Writing
  <2>3. CASE b \in managed
    BY <1>1, <2>1, <2>2, <2>3 DEF WellMatched
  <2>4. CASE b \in unmanaged
    <3>1. \A k \in 1..Len(cr.rules) : matched[k] = None => Offer[k] = None
      BY <2>1, OfferFacts DEF Adoptable, Offer
    <3>2. b \in Range(Offer)
      BY <1>1, <2>1, <2>2, <2>4, <3>1, OfferFacts
    <3>3. PICK j \in 1..Len(cr.rules) : Offer[j] = b
      BY <2>1, <3>2, OfferFacts DEF Range
    <3>4. b # None /\ j # i /\ matched[j] # None
      BY <1>1, <2>2, <2>4, <3>1, <3>3 DEF None
    <3>5. seen[b].subject = cr.rules[j].subject /\ seen[b].negate = cr.rules[j].negate
      BY <2>1, <3>3, <3>4, OfferFacts
    <3>6. cr.rules[j] = cr.rules[i]
      <4>1. cr.rules[j] \in Rule /\ cr.rules[i] \in Rule
        BY <2>1, <2>2, Basics
      <4>2. ASSUME NEW r \in Rule PROVE r = [subject |-> r.subject, negate |-> r.negate]
        BY <4>2 DEF Rule
      <4>3. cr.rules[j].subject = cr.rules[i].subject /\ cr.rules[j].negate = cr.rules[i].negate
        BY <1>1, <3>5
      <4>4. /\ cr.rules[j] = [subject |-> cr.rules[j].subject, negate |-> cr.rules[j].negate]
            /\ cr.rules[i] = [subject |-> cr.rules[i].subject, negate |-> cr.rules[i].negate]
        BY <4>1, <4>2
      <4> QED BY ONLY <4>3, <4>4, Zenon
    <3>7. CASE matched[j] = b
      BY <2>1, <3>7 DEF Range
    <3>8. CASE matched[j] \in managed
      <4>1. DOMAIN cr.rules = 1..Len(cr.rules)
        <5>1. cr.rules \in Seq(Rule)
          BY <2>1, BindingsAssumption DEF Typed, LocalsTyped
        <5> QED BY <5>1
      <4> QED BY <3>4, <3>6, <3>8, <4>1
    <3> QED BY <2>1, <3>3, <3>4, <3>7, <3>8 DEF WellMatched
  <2> QED BY <2>3, <2>4
<1>2. IInv => NoDuplicateRight
  BY <1>1 DEF NoDuplicateRight
<1> QED BY <1>2, InvariantHolds, PTL

\* Only deleteBinding and handleUnmanagedBindings of the operator delete a
\* Binding.
LEMMA Deletion ==
  ASSUME [Next]_vars, NEW b \in alive, b \notin alive', b \notin lost'
  PROVE  DeleteBinding(b) \/ PruneBinding(b)
<1>1. alive' # alive
  OBVIOUS
<1>2. ~UNCHANGED vars
  BY <1>1 DEF vars, server
<1>3. ~Interrupt
  BY <1>1 DEF Interrupt, server
<1>4. CASE PeopleStep
  <2>1. ASSUME NEW subject, NEW negate, NEW order, UICreateBinding(subject, negate, order) PROVE FALSE
    BY <2>1 DEF UICreateBinding, CreatePolicyBinding
  <2>2. ASSUME NEW d, UIDeleteBinding(d) PROVE FALSE
    BY <2>2 DEF UIDeleteBinding
  <2>3. ASSUME NEW d, UINegateBinding(d) PROVE FALSE
    BY <1>1, <2>3 DEF UINegateBinding
  <2>4. ASSUME NEW s, EditSpec(s) PROVE FALSE
    BY <1>1, <2>4 DEF EditSpec, server
  <2> QED BY <1>4, <2>1, <2>2, <2>3, <2>4 DEF PeopleStep
<1>5. CASE OperatorStep
  <2>1. ~(StartReconcile \/ CreateApplication \/ ListPolicyBindings \/ ManagedBindings \/ MatchManaged)
    BY <1>1 DEF StartReconcile, CreateApplication, ListPolicyBindings, ManagedBindings, MatchManaged, server
  <2>2. ~(AdoptBinding \/ AdoptedAll \/ SyncBinding \/ RecordBinding \/ MarkBinding)
    BY <1>1 DEF AdoptBinding, AdoptedAll, SyncBinding, RecordBinding, MarkBinding, server
  <2>3. ~(WrittenAll \/ UnmarkBinding \/ DeletedAll \/ KeepBindings \/ Finish)
    BY <1>1 DEF WrittenAll, UnmarkBinding, DeletedAll, KeepBindings, Finish, server
  <2>4. ~CreateBinding
    BY <1>1 DEF CreateBinding, CreatePolicyBinding
  <2>5. ASSUME NEW d, DeleteBinding(d) \/ PruneBinding(d) PROVE d = b
    BY <2>5 DEF DeleteBinding, PruneBinding
  <2> QED BY <1>5, <2>1, <2>2, <2>3, <2>4, <2>5 DEF OperatorStep
<1> QED BY <1>2, <1>3, <1>4, <1>5 DEF Next

\* What a person made in the UI and no CR adopted is safe from a CR that had no
\* prune since the reconcile began: deleteBinding goes through managed Bindings
\* only, no failure or crash between the record and the marker of a Binding
\* makes such a one managed, and handleUnmanagedBindings acts on the spec as
\* patchStatus read it last.
THEOREM ManualKept == Spec => ManualBindingsKept
<1> DEFINE P == \A b \in alive \cap byHand : b \notin alive' /\ b \notin lost' => asked
<1>1. ASSUME IInv, Asked, [Next]_vars PROVE P
  <2> SUFFICES ASSUME NEW b \in alive \cap byHand, b \notin alive', b \notin lost'
               PROVE  asked
    OBVIOUS
  <2>1. DeleteBinding(b) \/ PruneBinding(b)
    BY <1>1, Deletion
  <2>2. ~DeleteBinding(b)
    BY <1>1 DEF DeleteBinding, IInv, NoneByHand
  <2> QED BY <1>1, <2>1, <2>2 DEF PruneBinding, Asked
<1>2. IInv /\ Asked /\ [Next]_vars => [P]_vars
  BY <1>1
<1> QED BY <1>2, InvariantHolds, AskedHolds, PTL DEF Spec, ManualBindingsKept

\* "Deletion happens after every write": when deleteBinding or the pruning of
\* handleUnmanagedBindings removes a Binding, every rule of the CR has another
\* one with its subject, unless somebody deleted that one in the UI.
THEOREM CoveredWhenDeleting == Spec => DeletesOnlyWhenCovered
<1> DEFINE P == \A b \in alive :
                  b \notin alive' /\ pc \in {"write", "delete", "prune"} /\ b \notin lost' =>
                    \A k \in DOMAIN cr.rules : \E d \in kept \ {b} :
                      /\ d \in alive' \cup lost
                      /\ seen[d].subject = cr.rules[k].subject \/ binding[d].subject = cr.rules[k].subject
<1>1. ASSUME IInv, [Next]_vars PROVE P
  <2> SUFFICES ASSUME NEW b \in alive, b \notin alive', b \notin lost', NEW k \in DOMAIN cr.rules
               PROVE  \E d \in kept \ {b} :
                        /\ d \in alive' \cup lost
                        /\ \/ seen[d].subject = cr.rules[k].subject
                           \/ binding[d].subject = cr.rules[k].subject
    OBVIOUS
  <2>1. DeleteBinding(b) \/ PruneBinding(b)
    BY <1>1, Deletion
  <2>2. pc \in DeletePoints /\ b \notin kept /\ alive' = alive \ {b}
    BY <2>1 DEF DeleteBinding, PruneBinding, DeletePoints
  <2>3. k \in 1..Len(cr.rules)
    <3>1. cr.rules \in Seq(Rule)
      BY <1>1, BindingsAssumption DEF IInv, Typed, LocalsTyped
    <3> QED BY <3>1
  <2>4. PICK d \in kept : \/ seen[d].subject = cr.rules[k].subject
                          \/ binding[d].subject = cr.rules[k].subject
    BY <1>1, <2>2, <2>3 DEF IInv, Served, Written
  <2>5. d \in alive \cup lost
    BY <1>1 DEF IInv, Sorted
  <2> QED BY <2>2, <2>4, <2>5
<1>2. IInv /\ [Next]_vars => [P]_vars
  BY <1>1
<1> QED BY <1>2, InvariantHolds, PTL DEF Spec, DeletesOnlyWhenCovered
=============================================================================
