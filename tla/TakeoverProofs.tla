--------------------------- MODULE TakeoverProofs ---------------------------
(***************************************************************************)
(* Proofs about Takeover: the types, that at most one CR manages the       *)
(* Application, and that no marker is left behind when every CR is gone.   *)
(*                                                                         *)
(* The two safety invariants are about an informer that is up to date.     *)
(* Both rest on what the worker knows at each point of a reconcile: its    *)
(* copy of the status is the stored one, the pk it is about to overwrite   *)
(* is of an object that is gone, and from checkConflict on no other CR     *)
(* that is alive has recorded an Application.                              *)
(***************************************************************************)
EXTENDS Takeover, TLAPS, OrderLemmas

Phases == {"absent", "new", "active", "deleting", "gone"}
Status == [app : Pks, prov : Pks]

ReconcileAfterConflict ==
  {"observe", "adopt", "markSeen", "provider", "createProvider", "recordProvider",
   "markProvider", "application", "recordNew", "markNew", "done"}
Finalizing == {"check", "delete", "deleteProvider", "unmark", "unmarkProvider", "finalizer"}
WithProvider == {"recordProvider", "markProvider", "application"}
Points == {"idle", "conflict"} \cup ReconcileAfterConflict \cup Finalizing

Alive(c) == phase[c] \in {"new", "active"}

ServerTyped ==
  /\ app \in Pks /\ appSeq \in Pks /\ app <= appSeq
  /\ prov \in Pks /\ provSeq \in Pks /\ prov <= provSeq
  /\ taken \in BOOLEAN /\ link \in {0, prov} /\ (taken => prov # 0 /\ link = 0)
  /\ marks \subseteq Objects

KubeTyped ==
  /\ phase \in [CRs -> Phases] /\ rec \in [CRs -> Status]
  /\ view \in [CRs -> [phase : Phases, rec : Status]]
  /\ stale \in BOOLEAN

LocalsTyped ==
  /\ cur \in CRs \cup {0} /\ (pc # "idle" => cur \in CRs)
  /\ pc \in Points
  /\ base \in Status /\ loc \in Status
  /\ observed \in [pk : Pks, link : Pks] /\ pk \in Pks
  /\ pc \in WithProvider => pk # 0

\* No pk that a CR or the worker holds has yet to be given out.
Given(s) == s.app <= appSeq /\ s.prov <= provSeq

Held ==
  /\ \A c \in CRs : Given(rec[c]) /\ Given(view[c].rec)
  /\ Given(base) /\ Given(loc)
  /\ observed.pk <= appSeq /\ observed.link <= provSeq /\ pk <= provSeq

Typed == ServerTyped /\ KubeTyped /\ LocalsTyped /\ Held /\ fails \in 0..MaxFails

\* The same of the objects that carry a marker.
MarksGiven ==
  /\ \A p \in Pks : App(p) \in marks => p <= appSeq
  /\ \A p \in Pks : Prov(p) \in marks => p <= provSeq

\* The informer's copy is the stored one.
Shown == view = Stored

\* A CR that no reconcile has given a finalizer has recorded nothing.
Untouched == \A c \in CRs : phase[c] \in {"absent", "new"} => rec[c] = NoPks

\* The status that the worker read is the stored one, and an object whose pk
\* it has forgotten since is gone.
Worker ==
  pc # "idle" =>
    /\ base = rec[cur] /\ phase[cur] \in {"active", "deleting"}
    /\ loc.app # base.app => app = 0 \/ base.app # app
    /\ loc.prov # base.prov => prov = 0 \/ base.prov # prov

\* What the status in memory says at each point of a reconcile.
AtPoint ==
  /\ pc \in {"conflict", "observe", "adopt", "markSeen", "markNew"} \cup Finalizing => loc = base
  /\ pc \in Finalizing => phase[cur] = "deleting"
  /\ pc = "adopt" => app = 0 \/ loc.app # app
  /\ pc \in {"markSeen", "markNew"} => loc.app = observed.pk
  /\ pc = "provider" => loc.prov = base.prov
  /\ pc \in {"createProvider", "recordProvider"} => loc.prov = 0
  /\ pc = "markProvider" => loc.prov = base.prov /\ loc.prov = pk
  /\ pc \in {"provider", "createProvider", "recordProvider", "markProvider", "application"}
     /\ observed.pk = 0 => loc.app = 0
  /\ pc = "recordNew" => loc.app = 0

\* At most one CR that is alive has recorded an Application.
OneRecorded ==
  \A c, d \in CRs : Alive(c) /\ Alive(d) /\ rec[c].app # 0 /\ rec[d].app # 0 => c = d

\* ... and it is the one that is reconciled, once checkConflict has let it pass.
Passed ==
  pc \in ReconcileAfterConflict \/ (pc = "conflict" /\ loc.app # 0) =>
    \A c \in CRs \ {cur} : Alive(c) => rec[c].app = 0

\* A marked object that exists is recorded by a CR whose finalizer is there.
AppRecorded ==
  app # 0 /\ App(app) \in marks =>
    \E c \in CRs : phase[c] \in {"active", "deleting"} /\ rec[c].app = app
ProvRecorded ==
  prov # 0 /\ Prov(prov) \in marks =>
    \E c \in CRs : phase[c] \in {"active", "deleting"} /\ rec[c].prov = prov

\* What release has done before the finalizer goes.
Unmarked ==
  /\ pc \in {"unmarkProvider", "finalizer"} => App(loc.app) \notin marks
  /\ pc = "finalizer" => Prov(loc.prov) \notin marks

Current ==
  /\ Shown /\ Untouched /\ Worker /\ AtPoint
  /\ OneRecorded /\ Passed
  /\ AppRecorded /\ ProvRecorded /\ Unmarked

IInv == Typed /\ MarksGiven /\ (~stale => Current)
-----------------------------------------------------------------------------
(* The operators.                                                          *)

LEMMA TypedOK == Typed => TypeOK
BY DEF Typed, TypeOK, ServerTyped, KubeTyped, LocalsTyped, Held, Given, Status, Phases, Points,
       ReconcileAfterConflict, Finalizing, WithProvider

\* conflictWinner: whoever wins has recorded an Application if anyone has.
LEMMA WinnerRecorded ==
  ASSUME NEW candidates, NEW recorded, candidates \subseteq Nat,
         NEW c \in candidates, c \in recorded
  PROVE  ConflictWinner(candidates, recorded) \in recorded
<1> DEFINE Beats(x, y) == IF (x \in recorded) # (y \in recorded) THEN x \in recorded ELSE x <= y
           w == ConflictWinner(candidates, recorded)
<1>1. PICK m \in candidates \cap recorded : \A n \in candidates \cap recorded : m <= n
  BY Least
<1>2. \A d \in candidates : Beats(m, d)
  BY <1>1
<1>3. w \in candidates /\ \A d \in candidates : Beats(w, d)
  BY <1>2 DEF ConflictWinner
<1> QED BY <1>3

\* patchStatus writes a status; with a copy that is the stored one it writes
\* the status in memory.
LEMMA MergedTyped ==
  ASSUME Typed, cur \in CRs, NEW new \in Status, Given(new)
  PROVE  /\ Merged(new) \in Status
         /\ Given(Merged(new))
         /\ base = rec[cur] => Merged(new) = new
<1>1. Merged(new) = [app  |-> IF new.app # base.app THEN new.app ELSE rec[cur].app,
                     prov |-> IF new.prov # base.prov THEN new.prov ELSE rec[cur].prov]
  BY DEF Merged
<1>2. rec[cur] \in Status /\ base \in Status /\ Given(rec[cur])
  BY DEF Typed, KubeTyped, LocalsTyped, Held
<1>3. Merged(new) \in Status /\ Given(Merged(new))
  BY <1>1, <1>2 DEF Status, Given
<1>4. base = rec[cur] => Merged(new) = new
  BY <1>1, <1>2 DEF Status
<1> QED BY <1>3, <1>4

-----------------------------------------------------------------------------
(* The types.  Steps that are alike first.                                 *)

\* A write to a CR.
LEMMA StoreTyped ==
  ASSUME Typed, NEW p \in [CRs -> Phases], NEW r \in [CRs -> Status],
         \A c \in CRs : Given(r[c]), Store(p, r)
  PROVE  KubeTyped' /\ \A c \in CRs : Given(rec'[c]) /\ Given(view'[c].rec)
<1>1. KubeTyped /\ \A c \in CRs : Given(view[c].rec)
  BY DEF Typed, Held
<1>2. \A c \in CRs : p[c] \in Phases /\ r[c] \in Status
  OBVIOUS
<1>3. [c \in CRs |-> [phase |-> p[c], rec |-> r[c]]] \in [CRs -> [phase : Phases, rec : Status]]
  BY <1>2
<1> QED BY <1>1, <1>3 DEF Store, KubeTyped

\* However a reconcile ends.
LEMMA FinishTyped ==
  ASSUME Typed, pc # "idle", Finish, ServerTyped', UNCHANGED <<appSeq, provSeq>>,
         fails' \in 0..MaxFails
  PROVE  Typed'
<1>1. cur \in CRs /\ loc \in Status /\ Given(loc) /\ rec \in [CRs -> Status] /\ phase \in [CRs -> Phases]
  BY DEF Typed, LocalsTyped, KubeTyped, Held
<1>2. Merged(loc) \in Status /\ Given(Merged(loc))
  BY <1>1, MergedTyped
<1>3. [rec EXCEPT ![cur] = Merged(loc)] \in [CRs -> Status]
  BY <1>1, <1>2
<1>4. \A c \in CRs : Given([rec EXCEPT ![cur] = Merged(loc)][c])
  BY <1>1, <1>2 DEF Typed, Held
<1>5. KubeTyped' /\ \A c \in CRs : Given(rec'[c]) /\ Given(view'[c].rec)
  BY <1>1, <1>3, <1>4, StoreTyped DEF Finish, PatchStatus
<1>6. 0 \in Pks /\ appSeq \in Nat /\ provSeq \in Nat
  BY TakeoverAssumption DEF Typed, ServerTyped, Pks
<1>7. LocalsTyped'
  BY <1>6 DEF Finish, Idle, LocalsTyped, Points, WithProvider, NoPks, NoApp, Status
<1>8. Held'
  BY <1>5, <1>6 DEF Finish, Idle, Held, Given, NoPks, NoApp
<1> QED BY <1>5, <1>7, <1>8 DEF Typed

\* The operator crashes.
LEMMA IdleTyped ==
  ASSUME Typed, Idle, UNCHANGED <<server, kube>>, fails' \in 0..MaxFails
  PROVE  Typed'
<1>1. 0 \in Pks /\ appSeq \in Nat /\ provSeq \in Nat
  BY TakeoverAssumption DEF Typed, ServerTyped, Pks
<1>2. LocalsTyped'
  BY <1>1 DEF Idle, LocalsTyped, Points, WithProvider, NoPks, NoApp, Status
<1>3. Held'
  BY <1>1 DEF Typed, Idle, Held, Given, NoPks, NoApp, server, kube
<1> QED BY <1>2, <1>3 DEF Typed, ServerTyped, KubeTyped, server, kube

\* A pk is recorded.
LEMMA RecordTyped ==
  ASSUME Typed, pc # "idle", NEW new \in Status, Given(new), NEW at \in Points, Record(new, at),
         at \in WithProvider => pk # 0
  PROVE  Typed'
<1>1. cur \in CRs /\ rec \in [CRs -> Status] /\ phase \in [CRs -> Phases]
  BY DEF Typed, LocalsTyped, KubeTyped
<1>2. Merged(new) \in Status /\ Given(Merged(new))
  BY <1>1, MergedTyped
<1>3. [rec EXCEPT ![cur] = Merged(new)] \in [CRs -> Status]
  BY <1>1, <1>2
<1>4. \A c \in CRs : Given([rec EXCEPT ![cur] = Merged(new)][c])
  BY <1>1, <1>2 DEF Typed, Held
<1>5. KubeTyped' /\ \A c \in CRs : Given(rec'[c]) /\ Given(view'[c].rec)
  BY <1>1, <1>3, <1>4, StoreTyped DEF Record, PatchStatus
<1>6. LocalsTyped'
  BY <1>1, <1>2 DEF Typed, LocalsTyped, Record
<1>7. Held'
  BY <1>2, <1>5 DEF Typed, Held, Given, Record, server
<1> QED BY <1>5, <1>6, <1>7 DEF Typed, ServerTyped, Record, server

\* The worker goes on, after a step of its own or next to one of people.
LEMMA LocalsTypedKept ==
  ASSUME Typed, UNCHANGED <<kube, fails, cur, base, loc, observed, pk>>,
         pc' = pc \/ (pc # "idle" /\ pc' \in Points), pc' \in WithProvider => pk # 0 \/ pc' = pc,
         ServerTyped', appSeq <= appSeq', provSeq <= provSeq'
  PROVE  Typed'
<1>1. /\ appSeq \in Nat /\ provSeq \in Nat /\ appSeq' \in Nat /\ provSeq' \in Nat
      /\ \A p \in Pks : p \in Nat
  BY TakeoverAssumption DEF Typed, ServerTyped, Pks
<1>2. \A c \in CRs : rec[c] \in Status /\ view[c].rec \in Status
  BY DEF Typed, KubeTyped
<1>3. base \in Status /\ loc \in Status /\ observed \in [pk : Pks, link : Pks] /\ pk \in Pks
  BY DEF Typed, LocalsTyped
<1>4. \A s \in Status : Given(s) => s.app <= appSeq' /\ s.prov <= provSeq'
  BY <1>1 DEF Given, Status
<1>5. Held'
  <2>1. observed.pk <= appSeq' /\ observed.link <= provSeq' /\ pk <= provSeq'
    BY <1>1, <1>3 DEF Typed, Held
  <2> QED BY <1>2, <1>3, <1>4, <2>1 DEF Typed, Held, kube, Given
<1>6. LocalsTyped' /\ KubeTyped'
  BY DEF Typed, LocalsTyped, KubeTyped, kube
<1> QED BY <1>5, <1>6 DEF Typed

\* markers().ensure for an object that the worker holds.
LEMMA MarkTyped ==
  ASSUME Typed, pc # "idle", NEW object, NEW at \in Points, Mark(object, at),
         at \in WithProvider => pk # 0
  PROVE  Typed'
<1>1. marks' \subseteq Objects
  BY DEF Typed, ServerTyped, Mark, LiveObjects
<1>2. ServerTyped' /\ UNCHANGED <<appSeq, provSeq>>
  BY <1>1 DEF Typed, ServerTyped, Mark
<1>3. appSeq <= appSeq' /\ provSeq <= provSeq' /\ fails \in 0..MaxFails
  BY <1>2, TakeoverAssumption DEF Typed, ServerTyped, Pks
<1>4. CASE Finish
  BY <1>2, <1>3, <1>4, FinishTyped DEF Mark
<1>5. CASE Goto(at) /\ UNCHANGED kube
  BY <1>2, <1>3, <1>5, LocalsTypedKept DEF Mark, Goto
<1> QED BY <1>4, <1>5 DEF Mark

\* The reconcile of a CR up to the pk of the Application that it found.
LEMMA ObserveTyped ==
  ASSUME Typed,
         \/ \E c \in CRs : StartReconcile(c)
         \/ CheckConflict \/ ObserveApplication \/ AdoptApplication
         \/ RefuseApplication \/ MarkApplication
  PROVE  Typed'
<1> USE DEF Points, ReconcileAfterConflict, WithProvider
<1>0. /\ ServerTyped /\ KubeTyped /\ LocalsTyped /\ fails \in 0..MaxFails
      /\ 0 \in Pks /\ appSeq \in Nat /\ provSeq \in Nat
  BY TakeoverAssumption DEF Typed, ServerTyped, Pks
<1>1. ASSUME NEW c \in CRs, StartReconcile(c)
      PROVE  Typed'
  <2> DEFINE p == [phase EXCEPT ![c] = IF @ = "new" THEN "active" ELSE @]
             read == IF view[c].phase = "new" THEN rec[c] ELSE view[c].rec
  <2>1. p \in [CRs -> Phases] /\ rec \in [CRs -> Status] /\ \A d \in CRs : Given(rec[d])
    BY <1>0 DEF KubeTyped, Phases, Typed, Held
  <2>2. KubeTyped' /\ \A d \in CRs : Given(rec'[d]) /\ Given(view'[d].rec)
    BY <1>1, <2>1, StoreTyped DEF StartReconcile
  <2>3. read \in Status /\ Given(read)
    BY <1>0 DEF KubeTyped, Typed, Held
  <2>4. LocalsTyped'
    BY <1>0, <1>1, <2>3 DEF StartReconcile, LocalsTyped
  <2>5. Held'
    BY <1>0, <1>1, <2>2, <2>3 DEF StartReconcile, Typed, Held, Given, server
  <2> QED BY <1>0, <1>1, <2>2, <2>4, <2>5 DEF StartReconcile, Typed, ServerTyped, server
<1>2. CASE CheckConflict
  <2>1. UNCHANGED server /\ fails' = fails /\ pc # "idle"
    BY <1>2 DEF CheckConflict
  <2>2. ServerTyped' /\ UNCHANGED <<appSeq, provSeq>>
    BY <1>0, <2>1 DEF ServerTyped, server
  <2>3. CASE Finish
    BY <1>0, <2>1, <2>2, <2>3, FinishTyped
  <2>4. CASE Goto("observe") /\ UNCHANGED kube
    BY <1>0, <2>1, <2>2, <2>4, LocalsTypedKept DEF Goto
  <2> QED BY <1>2, <2>3, <2>4 DEF CheckConflict
<1>3. CASE ObserveApplication
  <2>1. observed' \in [pk : Pks, link : Pks] /\ observed'.pk <= appSeq /\ observed'.link <= provSeq
    BY <1>0, <1>3 DEF ObserveApplication, ServerTyped, NoApp
  <2>2. loc' \in Status /\ Given(loc')
    BY <1>0, <1>3 DEF ObserveApplication, LocalsTyped, Status, Typed, Held, Given
  <2>3. pc' \in Points \ WithProvider
    BY <1>3 DEF ObserveApplication, Ensure
  <2>4. LocalsTyped'
    BY <1>0, <1>3, <2>1, <2>2, <2>3 DEF ObserveApplication, LocalsTyped
  <2>5. Held'
    BY <1>3, <2>1, <2>2 DEF ObserveApplication, Typed, Held, Given, server, kube
  <2> QED BY <1>0, <1>3, <2>4, <2>5 DEF ObserveApplication, Typed, ServerTyped, KubeTyped, server, kube
<1>4. CASE AdoptApplication
  <2>1. [loc EXCEPT !.app = observed.pk] \in Status /\ Given([loc EXCEPT !.app = observed.pk])
    BY <1>0 DEF LocalsTyped, Status, Typed, Held, Given
  <2>2. Ensure(App(observed.pk), "markSeen", "provider") \in Points \ WithProvider /\ pc # "idle"
    BY <1>4 DEF Ensure, AdoptApplication
  <2> QED BY <1>4, <2>1, <2>2, RecordTyped DEF AdoptApplication
<1>5. CASE RefuseApplication
  <2>1. UNCHANGED server /\ fails' = fails /\ pc # "idle" /\ Finish
    BY <1>5 DEF RefuseApplication
  <2>2. ServerTyped' /\ UNCHANGED <<appSeq, provSeq>>
    BY <1>0, <2>1 DEF ServerTyped, server
  <2> QED BY <1>0, <2>1, <2>2, FinishTyped
<1>6. CASE MarkApplication
  BY <1>6, MarkTyped DEF MarkApplication
<1> QED BY <1>1, <1>2, <1>3, <1>4, <1>5, <1>6

\* The rest of it: the Provider, and the Application that has to be created.
LEMMA ProvideTyped ==
  ASSUME Typed,
         \/ FindProvider \/ CreateProvider \/ RecordProvider \/ MarkProvider
         \/ CreateApplication \/ PatchApplication \/ RecordCreated \/ MarkCreated \/ FinishReconcile
  PROVE  Typed'
<1> USE DEF Points, ReconcileAfterConflict, WithProvider
<1>0. /\ ServerTyped /\ KubeTyped /\ LocalsTyped /\ Held /\ fails \in 0..MaxFails
      /\ 0 \in Pks /\ appSeq \in Nat /\ provSeq \in Nat
      /\ \A p \in Pks : p \in Nat /\ (p < MaxPks => p + 1 \in Pks)
  BY TakeoverAssumption DEF Typed, ServerTyped, Pks
<1>1. CASE FindProvider
  <2>1. FoundProvider \in Pks /\ FoundProvider <= provSeq
    BY <1>0 DEF FoundProvider, ServerTyped
  <2>2. loc' \in Status /\ Given(loc')
    BY <1>0, <1>1 DEF FindProvider, LocalsTyped, Status, Held, Given
  <2>3. pc' \in Points
    BY <1>1 DEF FindProvider, Ensure
  <2>4. LocalsTyped'
    BY <1>0, <1>1, <2>1, <2>2, <2>3 DEF FindProvider, LocalsTyped
  <2>5. Held'
    BY <1>0, <1>1, <2>1, <2>2 DEF FindProvider, Held, Given, server, kube
  <2> QED BY <1>0, <1>1, <2>4, <2>5 DEF FindProvider, Typed, ServerTyped, KubeTyped, server, kube
<1>2. CASE CreateProvider
  <2>1. CASE Finish /\ UNCHANGED <<prov, provSeq>>
    <3>1. ServerTyped' /\ UNCHANGED <<appSeq, provSeq, fails>> /\ pc # "idle"
      BY <1>0, <1>2, <2>1 DEF ServerTyped, CreateProvider
    <3> QED BY <1>0, <2>1, <3>1, FinishTyped
  <2>2. CASE ~ (Finish /\ UNCHANGED <<prov, provSeq>>)
    <3>1. /\ prov = 0 /\ provSeq < MaxPks /\ prov' = provSeq + 1 /\ provSeq' = provSeq + 1
          /\ pk' = provSeq + 1 /\ pc' = "recordProvider" /\ pc # "idle"
          /\ UNCHANGED <<app, appSeq, taken, link, marks, kube, cur, base, loc, observed, fails>>
      BY <1>2, <2>2 DEF CreateProvider
    <3>2. provSeq + 1 \in Pks
      BY <1>0, <3>1 DEF ServerTyped
    <3>3. ServerTyped'
      BY <1>0, <3>1, <3>2 DEF ServerTyped
    <3>4. LocalsTyped'
      BY <1>0, <3>1, <3>2 DEF LocalsTyped
    <3>5. \A s \in Status : Given(s) => s.app <= appSeq' /\ s.prov <= provSeq'
      BY <1>0, <3>1 DEF Given, Status
    <3>6. observed.link <= provSeq'
      BY <1>0, <3>1 DEF LocalsTyped, Held
    <3>7. Held'
      BY <1>0, <3>1, <3>5, <3>6 DEF Held, Given, KubeTyped, LocalsTyped, kube
    <3> QED BY <1>0, <3>1, <3>3, <3>4, <3>7 DEF Typed, KubeTyped, kube
  <2> QED BY <2>1, <2>2
<1>3. CASE RecordProvider
  <2>1. [loc EXCEPT !.prov = pk] \in Status /\ Given([loc EXCEPT !.prov = pk])
    BY <1>0 DEF LocalsTyped, Status, Held, Given
  <2>2. Ensure(Prov(pk), "markProvider", "application") \in Points /\ pc # "idle" /\ pk # 0
    BY <1>0, <1>3 DEF Ensure, RecordProvider, LocalsTyped
  <2> QED BY <1>3, <2>1, <2>2, RecordTyped DEF RecordProvider
<1>4. CASE MarkProvider
  BY <1>0, <1>4, MarkTyped DEF MarkProvider, LocalsTyped
<1>5. CASE CreateApplication
  <2>1. CASE Finish /\ UNCHANGED <<app, appSeq, link>>
    <3>1. ServerTyped' /\ UNCHANGED <<appSeq, provSeq, fails>> /\ pc # "idle"
      BY <1>0, <1>5, <2>1 DEF ServerTyped, CreateApplication
    <3> QED BY <1>0, <2>1, <3>1, FinishTyped
  <2>2. CASE ~ (Finish /\ UNCHANGED <<app, appSeq, link>>)
    <3>1. /\ appSeq < MaxPks /\ app' = appSeq + 1 /\ appSeq' = appSeq + 1
          /\ pk = prov /\ ~taken /\ link' = pk /\ observed' = [pk |-> appSeq + 1, link |-> pk]
          /\ pc' = "recordNew" /\ pc # "idle"
          /\ UNCHANGED <<prov, provSeq, taken, marks, kube, cur, base, loc, pk, fails>>
      BY <1>5, <2>2 DEF CreateApplication
    <3>2. appSeq + 1 \in Pks
      BY <1>0, <3>1 DEF ServerTyped
    <3>3. ServerTyped'
      BY <1>0, <3>1, <3>2 DEF ServerTyped
    <3>4. LocalsTyped'
      BY <1>0, <3>1, <3>2 DEF LocalsTyped
    <3>5. \A s \in Status : Given(s) => s.app <= appSeq' /\ s.prov <= provSeq'
      BY <1>0, <3>1 DEF Given, Status
    <3>6. observed'.pk <= appSeq' /\ observed'.link <= provSeq'
      BY <1>0, <3>1 DEF Held
    <3>7. Held'
      BY <1>0, <3>1, <3>5, <3>6 DEF Held, Given, KubeTyped, LocalsTyped, kube
    <3> QED BY <1>0, <3>1, <3>3, <3>4, <3>7 DEF Typed, KubeTyped, kube
  <2> QED BY <2>1, <2>2
<1>6. CASE PatchApplication
  <2>1. ServerTyped' /\ UNCHANGED <<appSeq, provSeq, fails>> /\ pc # "idle" /\ Finish
    BY <1>0, <1>6 DEF ServerTyped, PatchApplication
  <2> QED BY <1>0, <2>1, FinishTyped
<1>7. CASE RecordCreated
  <2>1. [loc EXCEPT !.app = observed.pk] \in Status /\ Given([loc EXCEPT !.app = observed.pk])
    BY <1>0 DEF LocalsTyped, Status, Held, Given
  <2>2. Ensure(App(observed.pk), "markNew", "done") \in Points \ WithProvider /\ pc # "idle"
    BY <1>7 DEF Ensure, RecordCreated
  <2> QED BY <1>7, <2>1, <2>2, RecordTyped DEF RecordCreated
<1>8. CASE MarkCreated
  BY <1>8, MarkTyped DEF MarkCreated
<1>9. CASE FinishReconcile
  <2>1. ServerTyped' /\ UNCHANGED <<appSeq, provSeq, fails>> /\ pc # "idle" /\ Finish
    BY <1>0, <1>9 DEF ServerTyped, FinishReconcile, server
  <2> QED BY <1>0, <2>1, FinishTyped
<1> QED BY <1>1, <1>2, <1>3, <1>4, <1>5, <1>6, <1>7, <1>8, <1>9

LEMMA ProviderGoneTyped ==
  ASSUME Typed, prov' = 0, link' = 0, taken' = FALSE, UNCHANGED <<app, appSeq, provSeq, marks>>
  PROVE  ServerTyped' /\ appSeq <= appSeq' /\ provSeq <= provSeq'
<1>1. ServerTyped /\ 0 \in Pks /\ 0 <= provSeq /\ appSeq <= appSeq /\ provSeq <= provSeq
  BY TakeoverAssumption DEF Typed, ServerTyped, Pks
<1>2. taken' \in BOOLEAN /\ ~ taken'
  OBVIOUS
<1> QED BY <1>1, <1>2 DEF ServerTyped

LEMMA FinalizeTyped ==
  ASSUME Typed, FinalizeStep \/ Interrupt
  PROVE  Typed'
<1> USE DEF Points, Finalizing, WithProvider
<1>0. /\ ServerTyped /\ KubeTyped /\ LocalsTyped /\ Held /\ fails \in 0..MaxFails
      /\ 0 \in Pks /\ appSeq \in Nat /\ provSeq \in Nat
  BY TakeoverAssumption DEF Typed, ServerTyped, Pks
<1>1. ASSUME NEW c \in CRs, StartFinalize(c)
      PROVE  Typed'
  <2>1. view[c].rec \in Status /\ Given(view[c].rec)
    BY <1>0 DEF KubeTyped, Held
  <2>2. LocalsTyped'
    BY <1>0, <1>1, <2>1 DEF StartFinalize, LocalsTyped
  <2>3. Held'
    BY <1>0, <1>1, <2>1 DEF StartFinalize, Held, Given, server, kube
  <2> QED BY <1>0, <1>1, <2>2, <2>3 DEF StartFinalize, Typed, ServerTyped, KubeTyped, server, kube
<1>2. CASE CheckApplication \/ DeleteApplication \/ DeleteProvider \/ UnmarkApplication \/ UnmarkProvider
  <2>1. ServerTyped' /\ appSeq <= appSeq' /\ provSeq <= provSeq'
    <3>1. CASE CheckApplication
      BY <1>0, <3>1 DEF CheckApplication, ServerTyped, server
    <3>2. CASE DeleteApplication
      BY <1>0, <3>2 DEF DeleteApplication, ServerTyped
    <3>3. CASE DeleteProvider
      <4>1. CASE loc.prov # 0 /\ prov = loc.prov
        BY <1>0, <3>3, <4>1, ProviderGoneTyped DEF DeleteProvider
      <4>2. CASE ~ (loc.prov # 0 /\ prov = loc.prov)
        BY <1>0, <3>3, <4>2 DEF DeleteProvider, ServerTyped
      <4> QED BY <4>1, <4>2
    <3>4. CASE UnmarkApplication \/ UnmarkProvider
      BY <1>0, <3>4 DEF UnmarkApplication, UnmarkProvider, ServerTyped
    <3> QED BY <1>2, <3>1, <3>2, <3>3, <3>4
  <2>2. UNCHANGED <<kube, fails, cur, base, loc, observed, pk>> /\ pc # "idle" /\ pc' \in Points \ WithProvider
    BY <1>2 DEF CheckApplication, DeleteApplication, DeleteProvider, UnmarkApplication,
                UnmarkProvider, Goto
  <2> QED BY <2>1, <2>2, LocalsTypedKept
<1>3. CASE RemoveFinalizer
  <2>1. cur \in CRs
    BY <1>0, <1>3 DEF LocalsTyped, RemoveFinalizer
  <2>2. [phase EXCEPT ![cur] = "gone"] \in [CRs -> Phases]
    BY <1>0, <2>1 DEF KubeTyped, Phases
  <2>3. NoPks \in Status /\ Given(NoPks)
    BY <1>0 DEF NoPks, Status, Given
  <2>4. [rec EXCEPT ![cur] = NoPks] \in [CRs -> Status]
    BY <1>0, <2>1, <2>3 DEF KubeTyped
  <2>5. \A c \in CRs : Given([rec EXCEPT ![cur] = NoPks][c])
    BY <1>0, <2>1, <2>3 DEF KubeTyped, Held
  <2>6. KubeTyped' /\ \A c \in CRs : Given(rec'[c]) /\ Given(view'[c].rec)
    BY <1>3, <2>2, <2>4, <2>5, StoreTyped DEF RemoveFinalizer
  <2>7. LocalsTyped'
    BY <1>0, <1>3, <2>3 DEF RemoveFinalizer, Idle, LocalsTyped, NoApp
  <2>8. Held'
    BY <1>0, <1>3, <2>3, <2>6 DEF RemoveFinalizer, Idle, Held, Given, NoApp, server
  <2> QED BY <1>0, <1>3, <2>6, <2>7, <2>8 DEF RemoveFinalizer, Typed, ServerTyped, server
<1>4. CASE Interrupt
  <2>1. fails' \in 0..MaxFails
    BY <1>0, <1>4, TakeoverAssumption DEF Interrupt
  <2>2. ServerTyped' /\ UNCHANGED <<appSeq, provSeq>>
    BY <1>0, <1>4 DEF Interrupt, ServerTyped, server
  <2> QED BY <1>4, <2>1, <2>2, FinishTyped, IdleTyped DEF Interrupt
<1> QED BY <1>1, <1>2, <1>3, <1>4 DEF FinalizeStep

LEMMA PeopleTyped ==
  ASSUME Typed, PeopleStep \/ Deliver
  PROVE  Typed'
<1>0. /\ ServerTyped /\ KubeTyped /\ LocalsTyped /\ Held /\ fails \in 0..MaxFails
      /\ 0 \in Pks /\ appSeq \in Nat /\ provSeq \in Nat
      /\ \A p \in Pks : p \in Nat /\ (p < MaxPks => p + 1 \in Pks)
  BY TakeoverAssumption DEF Typed, ServerTyped, Pks
<1>1. ASSUME NEW p \in [CRs -> Phases], Store(p, rec), UNCHANGED <<server, locals, fails>>
      PROVE  Typed'
  <2>1. KubeTyped' /\ \A c \in CRs : Given(rec'[c]) /\ Given(view'[c].rec)
    BY <1>0, <1>1, StoreTyped DEF KubeTyped, Held
  <2>2. Held'
    BY <1>0, <1>1, <2>1 DEF Held, Given, server, locals
  <2> QED BY <1>0, <1>1, <2>1, <2>2 DEF Typed, ServerTyped, LocalsTyped, server, locals
<1>2. ASSUME NEW c \in CRs, CreateCR(c) \/ DeleteCR(c)
      PROVE  Typed'
  <2>1. /\ [phase EXCEPT ![c] = "new"] \in [CRs -> Phases]
        /\ [phase EXCEPT ![c] = IF @ = "new" THEN "gone" ELSE "deleting"] \in [CRs -> Phases]
    BY <1>0 DEF KubeTyped, Phases
  <2> QED BY <1>1, <1>2, <2>1 DEF CreateCR, DeleteCR
<1>3. CASE UICreateApplication \/ UIDeleteApplication \/ UIDeleteProvider
           \/ \E used \in BOOLEAN : UICreateProvider(used)
  <2>1. ServerTyped' /\ appSeq <= appSeq' /\ provSeq <= provSeq'
    <3>1. CASE UICreateApplication
      BY <1>0, <3>1 DEF UICreateApplication, ServerTyped
    <3>2. CASE UIDeleteApplication
      BY <1>0, <3>2 DEF UIDeleteApplication, ServerTyped
    <3>3. CASE UIDeleteProvider
      BY <1>0, <3>3, ProviderGoneTyped DEF UIDeleteProvider
    <3>4. ASSUME NEW used \in BOOLEAN, UICreateProvider(used)
          PROVE  ServerTyped' /\ appSeq <= appSeq' /\ provSeq <= provSeq'
      BY <1>0, <3>4 DEF UICreateProvider, ServerTyped
    <3> QED BY <1>3, <3>1, <3>2, <3>3, <3>4
  <2>2. UNCHANGED <<kube, fails, locals>>
    BY <1>3 DEF UICreateApplication, UIDeleteApplication, UIDeleteProvider, UICreateProvider
  <2> QED BY <2>1, <2>2, LocalsTypedKept DEF locals
<1>4. CASE Deliver
  <2>1. Stored \in [CRs -> [phase : Phases, rec : Status]] /\ \A c \in CRs : Given(Stored[c].rec)
    BY <1>0 DEF Stored, KubeTyped, Held
  <2> QED BY <1>0, <1>4, <2>1 DEF Deliver, Typed, ServerTyped, KubeTyped, LocalsTyped, Held, Given,
                                  server, locals
<1> QED BY <1>2, <1>3, <1>4 DEF PeopleStep

LEMMA InitTyped == Init => Typed
<1>1. 0 \in Pks /\ 0 <= 0 /\ 0 \in 0..MaxFails
  BY TakeoverAssumption DEF Pks
<1>2. NoPks \in Status
  BY <1>1 DEF NoPks, Status
<1>3. ASSUME Init PROVE KubeTyped
  BY <1>2, <1>3 DEF Init, KubeTyped, Phases
<1>4. ASSUME Init PROVE ServerTyped /\ LocalsTyped
  BY <1>1, <1>2, <1>4 DEF Init, ServerTyped, LocalsTyped, Points, WithProvider, NoApp
<1>5. ASSUME Init PROVE Held
  BY <1>1, <1>5 DEF Init, Held, Given, NoPks, NoApp
<1> QED BY <1>1, <1>3, <1>4, <1>5 DEF Init, Typed

LEMMA NextTyped == Typed /\ [Next]_vars => Typed'
<1>1. Typed /\ UNCHANGED vars => Typed'
  BY DEF Typed, ServerTyped, KubeTyped, LocalsTyped, Held, Given, vars, server, kube, locals
<1> QED BY <1>1, ObserveTyped, ProvideTyped, FinalizeTyped, PeopleTyped DEF Next, ReconcileStep

-----------------------------------------------------------------------------
(* The pks of marked objects have been given out.                          *)

LEMMA MarksGrow ==
  ASSUME Typed, Next
  PROVE  /\ marks' \subseteq marks \cup LiveObjects
         /\ appSeq' \in {appSeq, appSeq + 1} /\ provSeq' \in {provSeq, provSeq + 1}
<1>1. CASE ReconcileStep
  BY <1>1 DEF ReconcileStep, StartReconcile, CheckConflict, ObserveApplication, AdoptApplication,
              RefuseApplication, MarkApplication, FindProvider, CreateProvider, RecordProvider,
              MarkProvider, CreateApplication, PatchApplication, RecordCreated, MarkCreated,
              FinishReconcile, Mark, Record, server
<1>2. CASE FinalizeStep \/ Interrupt
  BY <1>2 DEF FinalizeStep, StartFinalize, CheckApplication, DeleteApplication, DeleteProvider,
              UnmarkApplication, UnmarkProvider, RemoveFinalizer, Interrupt, server
<1>3. CASE PeopleStep \/ Deliver
  BY <1>3 DEF PeopleStep, CreateCR, DeleteCR, UICreateApplication, UIDeleteApplication,
              UICreateProvider, UIDeleteProvider, Deliver, server
<1> QED BY <1>1, <1>2, <1>3 DEF Next

LEMMA NextMarksGiven == Typed /\ MarksGiven /\ [Next]_vars => MarksGiven'
<1>1. ASSUME Typed, MarksGiven, Next PROVE MarksGiven'
  <2>1. /\ appSeq \in Nat /\ provSeq \in Nat /\ app <= appSeq /\ prov <= provSeq
        /\ \A p \in Pks : p \in Nat
    BY <1>1, TakeoverAssumption DEF Typed, ServerTyped, Pks
  <2>2. ASSUME NEW p \in Pks, App(p) \in marks' PROVE p <= appSeq
    <3>1. App(p) \in marks \/ App(p) \in {App(app), Prov(prov)}
      BY <1>1, <2>2, MarksGrow DEF LiveObjects
    <3>2. App(p) \in marks \/ p = app
      BY <3>1 DEF App, Prov
    <3> QED BY <1>1, <2>1, <3>2 DEF MarksGiven
  <2>3. ASSUME NEW p \in Pks, Prov(p) \in marks' PROVE p <= provSeq
    <3>1. Prov(p) \in marks \/ Prov(p) \in {App(app), Prov(prov)}
      BY <1>1, <2>3, MarksGrow DEF LiveObjects
    <3>2. Prov(p) \in marks \/ p = prov
      BY <3>1 DEF App, Prov
    <3> QED BY <1>1, <2>1, <3>2 DEF MarksGiven
  <2>4. \A p \in Pks : (p <= appSeq => p <= appSeq') /\ (p <= provSeq => p <= provSeq')
    BY <1>1, <2>1, MarksGrow
  <2> QED BY <2>2, <2>3, <2>4 DEF MarksGiven
<1>2. MarksGiven /\ UNCHANGED vars => MarksGiven'
  BY DEF MarksGiven, vars, server
<1> QED BY <1>1, <1>2

-----------------------------------------------------------------------------
(* With an informer that is up to date.  Steps that are alike first.       *)

UpToDate == Typed /\ MarksGiven /\ ~stale /\ Current

\* The status of the CR that is reconciled is written: another pk in place of
\* one whose object is gone.
LEMMA Rewrite ==
  ASSUME UpToDate, pc # "idle", NEW new \in Status,
         Store(phase, [rec EXCEPT ![cur] = new]), UNCHANGED <<app, prov, marks>>,
         new.app # rec[cur].app => app = 0 \/ rec[cur].app # app,
         new.prov # rec[cur].prov => prov = 0 \/ rec[cur].prov # prov,
         pc \in ReconcileAfterConflict \/ new = rec[cur]
  PROVE  /\ Shown' /\ Untouched' /\ OneRecorded' /\ AppRecorded' /\ ProvRecorded'
         /\ rec'[cur] = new /\ phase' = phase
         /\ pc \in ReconcileAfterConflict => \A c \in CRs \ {cur} : Alive(c) => rec'[c].app = 0
<1>0. cur \in CRs /\ phase \in [CRs -> Phases] /\ rec \in [CRs -> Status]
  BY DEF UpToDate, Typed, LocalsTyped, KubeTyped
<1>1. /\ phase' = phase /\ rec' = [rec EXCEPT ![cur] = new]
      /\ view' = [c \in CRs |-> [phase |-> phase'[c], rec |-> rec'[c]]]
  BY DEF UpToDate, Store
<1>2. \A c \in CRs : rec'[c] = IF c = cur THEN new ELSE rec[c]
  BY <1>0, <1>1
<1>3. Shown'
  BY <1>1 DEF Shown, Stored
<1>4. Untouched'
  BY <1>0, <1>1, <1>2 DEF Untouched, UpToDate, Current, Worker
<1>5. pc \in ReconcileAfterConflict => \A c \in CRs \ {cur} : Alive(c) => rec'[c].app = 0
  BY <1>2 DEF UpToDate, Current, Passed
<1>6. OneRecorded'
  BY <1>0, <1>1, <1>2, <1>5 DEF UpToDate, Current, OneRecorded, Alive
<1>7. AppRecorded'
  BY <1>0, <1>1, <1>2 DEF UpToDate, Current, AppRecorded
<1>8. ProvRecorded'
  BY <1>0, <1>1, <1>2 DEF UpToDate, Current, ProvRecorded
<1> QED BY <1>0, <1>1, <1>2, <1>3, <1>4, <1>5, <1>6, <1>7, <1>8

LEMMA FinishCurrent ==
  ASSUME UpToDate, pc # "idle", Finish, UNCHANGED <<app, prov, marks>>
  PROVE  Current'
<1>1. cur \in CRs /\ loc \in Status /\ Given(loc) /\ base = rec[cur] /\ Typed /\ pc \in Points
  BY DEF UpToDate, Typed, LocalsTyped, Held, Current, Worker
<1>2. Merged(loc) = loc
  BY <1>1, MergedTyped
<1>3. pc \in ReconcileAfterConflict \/ loc = rec[cur]
  BY <1>1 DEF UpToDate, Current, AtPoint, Points
<1>4. /\ loc.app # rec[cur].app => app = 0 \/ rec[cur].app # app
      /\ loc.prov # rec[cur].prov => prov = 0 \/ rec[cur].prov # prov
  BY <1>1 DEF UpToDate, Current, Worker
<1>5. Shown' /\ Untouched' /\ OneRecorded' /\ AppRecorded' /\ ProvRecorded'
  BY <1>1, <1>2, <1>3, <1>4, Rewrite DEF Finish, PatchStatus
<1>6. pc' = "idle"
  BY DEF Finish, Idle
<1> QED BY <1>5, <1>6 DEF Current, Worker, AtPoint, Passed, Unmarked, Finalizing, ReconcileAfterConflict

LEMMA RecordCurrent ==
  ASSUME UpToDate, pc \in ReconcileAfterConflict, NEW new \in Status, Given(new),
         new.app # rec[cur].app => app = 0 \/ rec[cur].app # app,
         new.prov # rec[cur].prov => prov = 0 \/ rec[cur].prov # prov,
         NEW at \in ReconcileAfterConflict, Record(new, at), AtPoint'
  PROVE  Current'
<1>1. cur \in CRs /\ base = rec[cur] /\ Typed /\ pc # "idle" /\ phase[cur] \in {"active", "deleting"}
  BY DEF UpToDate, Typed, LocalsTyped, Current, Worker, ReconcileAfterConflict
<1>2. Merged(new) = new
  BY <1>1, MergedTyped
<1>3. /\ Shown' /\ Untouched' /\ OneRecorded' /\ AppRecorded' /\ ProvRecorded'
      /\ rec'[cur] = new /\ phase' = phase
      /\ \A c \in CRs \ {cur} : Alive(c) => rec'[c].app = 0
  BY <1>1, <1>2, Rewrite DEF Record, PatchStatus, server
<1>4. cur' = cur /\ base' = new /\ loc' = new /\ pc' = at
  BY <1>2 DEF Record
<1>5. Worker' /\ Passed'
  BY <1>1, <1>3, <1>4 DEF Worker, Passed, Alive
<1>6. Unmarked'
  BY <1>4 DEF Unmarked, ReconcileAfterConflict
<1> QED BY <1>3, <1>5, <1>6 DEF Current

\* What happens to the objects: they stay, they go, or they are new.
ServerMoves ==
  /\ app' \in {0, app, appSeq + 1} /\ prov' \in {0, prov, provSeq + 1}
  /\ marks' \subseteq marks

LEMMA Moved ==
  ASSUME Typed, MarksGiven, ServerMoves, ServerTyped'
  PROVE  /\ \A s \in Status : Given(s) /\ (app = 0 \/ s.app # app) => app' = 0 \/ s.app # app'
         /\ \A s \in Status : Given(s) /\ (prov = 0 \/ s.prov # prov) => prov' = 0 \/ s.prov # prov'
         /\ app' # 0 /\ App(app') \in marks' => app' = app /\ App(app) \in marks
         /\ prov' # 0 /\ Prov(prov') \in marks' => prov' = prov /\ Prov(prov) \in marks
<1>1. /\ appSeq \in Nat /\ provSeq \in Nat /\ app' \in Pks /\ prov' \in Pks
      /\ \A p \in Pks : p \in Nat
  BY TakeoverAssumption DEF Typed, ServerTyped, Pks
<1>2. /\ \A s \in Status : Given(s) => s.app # appSeq + 1 /\ s.prov # provSeq + 1
  BY <1>1 DEF Status, Given
<1>3. ~ (appSeq + 1 <= appSeq) /\ ~ (provSeq + 1 <= provSeq)
  BY <1>1
<1>4. /\ app' # 0 /\ App(app') \in marks' => app' = app /\ App(app) \in marks
      /\ prov' # 0 /\ Prov(prov') \in marks' => prov' = prov /\ Prov(prov) \in marks
  BY <1>1, <1>3 DEF MarksGiven, ServerMoves
<1> QED BY <1>2, <1>4 DEF ServerMoves

\* No write to a CR: what is recorded of the objects stays true.
LEMMA RecordedKept ==
  ASSUME UpToDate, UNCHANGED kube, ServerMoves, ServerTyped'
  PROVE  Shown' /\ Untouched' /\ OneRecorded' /\ AppRecorded' /\ ProvRecorded'
<1>1. Shown' /\ Untouched' /\ OneRecorded'
  BY DEF UpToDate, Current, Shown, Stored, Untouched, OneRecorded, Alive, kube
<1>2. /\ app' # 0 /\ App(app') \in marks' => app' = app /\ App(app) \in marks
      /\ prov' # 0 /\ Prov(prov') \in marks' => prov' = prov /\ Prov(prov) \in marks
  BY Moved DEF UpToDate
<1> QED BY <1>1, <1>2 DEF UpToDate, Current, AppRecorded, ProvRecorded, kube

\* The worker goes on with what it has read.
LEMMA OnwardCurrent ==
  ASSUME UpToDate, pc # "idle", UNCHANGED <<kube, cur, base>>, ServerMoves, ServerTyped',
         loc'.app # base.app => app = 0 \/ base.app # app,
         loc'.prov # base.prov => prov = 0 \/ base.prov # prov,
         AtPoint', Passed', Unmarked'
  PROVE  Current'
<1>1. base \in Status /\ Given(base) /\ Typed /\ MarksGiven
  BY DEF UpToDate, Typed, LocalsTyped, Held
<1>2. /\ app = 0 \/ base.app # app => app' = 0 \/ base.app # app'
      /\ prov = 0 \/ base.prov # prov => prov' = 0 \/ base.prov # prov'
  BY <1>1, Moved
<1>3. Worker'
  BY <1>2 DEF UpToDate, Current, Worker, kube
<1> QED BY <1>3, RecordedKept DEF Current

\* The objects change next to the worker.
LEMMA BesideCurrent ==
  ASSUME UpToDate, UNCHANGED <<kube, locals, marks>>, ServerMoves, ServerTyped'
  PROVE  Current'
<1>1. base \in Status /\ Given(base) /\ loc \in Status /\ Given(loc) /\ Typed /\ MarksGiven
  BY DEF UpToDate, Typed, LocalsTyped, Held
<1>2. /\ app = 0 \/ base.app # app => app' = 0 \/ base.app # app'
      /\ app = 0 \/ loc.app # app => app' = 0 \/ loc.app # app'
      /\ prov = 0 \/ base.prov # prov => prov' = 0 \/ base.prov # prov'
  BY <1>1, Moved
<1>3. Worker' /\ AtPoint'
  BY <1>2 DEF UpToDate, Current, Worker, AtPoint, kube, locals
<1>4. Passed' /\ Unmarked'
  BY DEF UpToDate, Current, Passed, Unmarked, Alive, kube, locals
<1> QED BY <1>3, <1>4, RecordedKept DEF Current

\* A marker is attached to an object that the CR has recorded.
LEMMA MarkCurrent ==
  ASSUME UpToDate, pc \in ReconcileAfterConflict, NEW p \in Pks,
         NEW object \in {App(p), Prov(p)},
         object = App(p) => rec[cur].app = p,
         object = Prov(p) => rec[cur].prov = p,
         NEW at \in ReconcileAfterConflict, Mark(object, at), Goto(at) => AtPoint'
  PROVE  Current'
<1>1. pc # "idle" /\ cur \in CRs /\ UNCHANGED <<app, prov>>
  BY DEF UpToDate, Typed, LocalsTyped, ReconcileAfterConflict, Mark
<1>2. CASE Finish /\ UNCHANGED marks
  BY <1>1, <1>2, FinishCurrent
<1>3. CASE marks' = marks \cup {object} /\ Goto(at) /\ UNCHANGED kube
  <2>1. Shown' /\ Untouched' /\ OneRecorded' /\ Worker' /\ Passed'
    BY <1>1, <1>3 DEF UpToDate, Current, Shown, Stored, Untouched, OneRecorded, Alive, Worker,
                      Passed, Goto, kube
  <2>2. Unmarked'
    BY <1>3 DEF Unmarked, Goto, ReconcileAfterConflict
  <2>3. phase[cur] \in {"active", "deleting"}
    BY <1>1 DEF UpToDate, Current, Worker
  <2>4. /\ App(app) \in marks' => App(app) \in marks \/ rec[cur].app = app
        /\ Prov(prov) \in marks' => Prov(prov) \in marks \/ rec[cur].prov = prov
    BY <1>3 DEF App, Prov
  <2>5. AppRecorded' /\ ProvRecorded'
    BY <1>1, <1>3, <2>3, <2>4 DEF UpToDate, Current, AppRecorded, ProvRecorded, kube
  <2> QED BY <1>3, <2>1, <2>2, <2>5 DEF Current
<1> QED BY <1>2, <1>3 DEF Mark

-----------------------------------------------------------------------------
(* ... and then the actions.                                               *)

\* checkConflict: a CR that passes is the only one that is alive and has
\* recorded an Application.
LEMMA ConflictCurrent ==
  ASSUME UpToDate, Typed', CheckConflict
  PROVE  Current'
<1>0. /\ pc = "conflict" /\ cur \in CRs /\ loc = base /\ base = rec[cur] /\ UNCHANGED server
      /\ CRs \subseteq Nat
  BY TakeoverAssumption DEF UpToDate, Typed, LocalsTyped, Current, AtPoint, Worker, CheckConflict
<1>1. CASE Finish
  BY <1>0, <1>1, FinishCurrent DEF server
<1>2. CASE ConflictWinner(Candidates, Recorded) = cur /\ Goto("observe") /\ UNCHANGED kube
  <2>1. ASSUME NEW c \in CRs \ {cur}, Alive(c), rec[c].app # 0
        PROVE  FALSE
    <3>1. loc.app = 0
      BY <1>0, <2>1 DEF UpToDate, Current, Passed
    <3>2. c \in Candidates /\ c \in Recorded
      BY <2>1 DEF UpToDate, Current, Shown, Stored, Candidates, Recorded, Alive
    <3>3. cur \notin Recorded
      BY <1>0, <3>1 DEF Recorded
    <3>4. Candidates \subseteq Nat
      BY <1>0 DEF Candidates
    <3> QED BY <1>2, <3>2, <3>3, <3>4, WinnerRecorded
  <2>2. Passed'
    BY <1>2, <2>1 DEF Passed, Alive, Goto, kube
  <2>3. AtPoint' /\ Unmarked'
    BY <1>0, <1>2 DEF AtPoint, Unmarked, Goto, Finalizing
  <2>4. ServerMoves /\ ServerTyped'
    BY <1>0 DEF ServerMoves, server, Typed
  <2>5. UNCHANGED <<kube, cur, base, loc>>
    BY <1>2 DEF Goto
  <2> QED BY <1>0, <2>2, <2>3, <2>4, <2>5, OnwardCurrent
<1> QED BY <1>1, <1>2 DEF CheckConflict

LEMMA ObserveCurrent ==
  ASSUME UpToDate, Typed',
         \/ \E c \in CRs : StartReconcile(c)
         \/ ObserveApplication \/ AdoptApplication \/ RefuseApplication \/ MarkApplication
  PROVE  Current'
<1>0. /\ Typed /\ Current /\ ~stale /\ ServerTyped' /\ LocalsTyped
      /\ pc # "idle" => cur \in CRs /\ base = rec[cur]
  BY DEF UpToDate, Typed, LocalsTyped, Current, Worker
<1>1. ASSUME NEW c \in CRs, StartReconcile(c)
      PROVE  Current'
  <2>0. phase \in [CRs -> Phases] /\ rec \in [CRs -> Status]
    BY <1>0 DEF Typed, KubeTyped
  <2>1. /\ phase' = [phase EXCEPT ![c] = IF @ = "new" THEN "active" ELSE @] /\ rec' = rec
        /\ view' = [d \in CRs |-> [phase |-> phase'[d], rec |-> rec'[d]]]
        /\ UNCHANGED server /\ cur' = c /\ pc' = "conflict"
    BY <1>0, <1>1 DEF StartReconcile, Store
  <2>2. view[c].phase = phase[c] /\ view[c].rec = rec[c]
    BY <1>0 DEF Current, Shown, Stored
  <2>3. base' = rec[c] /\ loc' = rec[c] /\ phase[c] \in {"new", "active"}
    BY <1>1, <2>2 DEF StartReconcile
  <2>4. \A d \in CRs : phase'[d] = IF d = c THEN "active" ELSE phase[d]
    BY <2>0, <2>1, <2>3
  <2>5. Shown'
    BY <2>1 DEF Shown, Stored
  <2>6. Untouched'
    BY <1>0, <2>1, <2>4 DEF Current, Untouched
  <2>7. Worker' /\ AtPoint' /\ Unmarked'
    BY <2>1, <2>3, <2>4 DEF Worker, AtPoint, Unmarked, Finalizing
  <2>8. OneRecorded'
    BY <1>0, <2>1, <2>3, <2>4 DEF Current, OneRecorded, Alive
  <2>9. Passed'
    <3>1. \A d \in CRs \ {c} : Alive(d)' => Alive(d)
      BY <2>4 DEF Alive
    <3> QED BY <1>0, <2>1, <2>3, <3>1 DEF Current, OneRecorded, Passed, Alive, ReconcileAfterConflict
  <2>10. AppRecorded' /\ ProvRecorded'
    BY <1>0, <2>1, <2>4 DEF Current, AppRecorded, ProvRecorded, server
  <2> QED BY <2>5, <2>6, <2>7, <2>8, <2>9, <2>10 DEF Current
<1>2. CASE ObserveApplication
  <2>1. pc = "observe" /\ loc = base /\ pc # "idle" /\ UNCHANGED <<server, kube, cur, base>>
    BY <1>0, <1>2 DEF ObserveApplication, Current, AtPoint
  <2>2. /\ app = 0 => loc' = [loc EXCEPT !.app = 0] /\ observed'.pk = 0 /\ pc' = "provider"
        /\ app # 0 => loc' = loc /\ observed'.pk = app /\ app' = app
        /\ app # 0 /\ app = loc.app => pc' \in {"markSeen", "provider"}
        /\ app # 0 /\ app # loc.app => pc' = "adopt"
    BY <1>2 DEF ObserveApplication, Ensure, NoApp, server
  <2>3. loc \in Status
    BY <1>0 DEF LocalsTyped
  <2>4. loc'.prov = loc.prov /\ (app = 0 => loc'.app = 0)
    BY <2>2, <2>3 DEF Status
  <2>5. AtPoint'
    <3>1. CASE app = 0
      BY <2>1, <2>2, <2>4, <3>1 DEF AtPoint, Finalizing
    <3>2. CASE app # 0 /\ app = loc.app
      BY <2>1, <2>2, <3>2 DEF AtPoint, Finalizing
    <3>3. CASE app # 0 /\ app # loc.app
      BY <2>1, <2>2, <3>3 DEF AtPoint, Finalizing
    <3> QED BY <3>1, <3>2, <3>3
  <2>6. Passed'
    BY <1>0, <2>1 DEF Current, Passed, Alive, kube, ReconcileAfterConflict
  <2>7. Unmarked'
    BY <2>2 DEF Unmarked
  <2>8. ServerMoves
    BY <2>1 DEF ServerMoves, server
  <2> QED BY <1>0, <2>1, <2>2, <2>4, <2>5, <2>6, <2>7, <2>8, OnwardCurrent
<1>3. CASE AdoptApplication
  <2> DEFINE new == [loc EXCEPT !.app = observed.pk]
             at  == Ensure(App(observed.pk), "markSeen", "provider")
  <2>1. /\ pc = "adopt" /\ loc = base /\ base = rec[cur] /\ (app = 0 \/ loc.app # app)
        /\ Record(new, at) /\ cur \in CRs
    BY <1>0, <1>3 DEF AdoptApplication, Current, AtPoint
  <2>2. new \in Status /\ Given(new) /\ new.app = observed.pk /\ new.prov = loc.prov
    BY <1>0 DEF LocalsTyped, Status, Typed, Held, Given
  <2>3. at \in {"markSeen", "provider"}
    BY DEF Ensure
  <2>4. Merged(new) = new
    BY <1>0, <2>1, <2>2, MergedTyped
  <2>5. loc' = new /\ base' = new /\ pc' = at /\ observed' = observed
    BY <2>1, <2>4 DEF Record
  <2>6. AtPoint'
    BY <2>2, <2>3, <2>5 DEF AtPoint, Finalizing
  <2>7. pc \in ReconcileAfterConflict /\ at \in ReconcileAfterConflict
    BY <2>1, <2>3 DEF ReconcileAfterConflict
  <2> QED BY <2>1, <2>2, <2>6, <2>7, RecordCurrent
<1>4. CASE RefuseApplication
  BY <1>4, FinishCurrent DEF RefuseApplication, server
<1>5. CASE MarkApplication
  <2>1. pc = "markSeen" /\ loc = base /\ base = rec[cur] /\ loc.app = observed.pk /\ observed.pk \in Pks
    BY <1>0, <1>5 DEF MarkApplication, Current, AtPoint, LocalsTyped
  <2>2. Goto("provider") => AtPoint'
    BY <2>1 DEF Goto, AtPoint, Finalizing
  <2>3. App(observed.pk) # Prov(observed.pk)
    BY DEF App, Prov
  <2>4. pc \in ReconcileAfterConflict /\ "provider" \in ReconcileAfterConflict
    BY <2>1 DEF ReconcileAfterConflict
  <2> QED BY <1>5, <2>1, <2>2, <2>3, <2>4, MarkCurrent DEF MarkApplication
<1> QED BY <1>1, <1>2, <1>3, <1>4, <1>5

LEMMA ProvideCurrent ==
  ASSUME UpToDate, Typed', FindProvider \/ CreateProvider \/ RecordProvider \/ MarkProvider
  PROVE  Current'
<1>0. /\ Typed /\ Current /\ ~stale /\ ServerTyped' /\ LocalsTyped
      /\ pc # "idle" => cur \in CRs /\ base = rec[cur]
  BY DEF UpToDate, Typed, LocalsTyped, Current, Worker
<1>1. CASE FindProvider
  <2>1. pc = "provider" /\ loc.prov = base.prov /\ UNCHANGED <<server, kube, cur, base, observed>>
    BY <1>0, <1>1 DEF FindProvider, Current, AtPoint
  <2>2. observed.pk = 0 => loc.app = 0
    BY <1>0, <2>1 DEF Current, AtPoint
  <2>3. /\ loc.prov = prov => loc' = loc
        /\ loc.prov # prov => loc' = [loc EXCEPT !.prov = 0]
        /\ pk' = FoundProvider /\ FoundProvider \in {0, prov}
        /\ FoundProvider = 0 => pc' = "createProvider"
        /\ FoundProvider # 0 /\ FoundProvider = loc.prov => pc' \in {"markProvider", "application"}
        /\ FoundProvider # 0 /\ FoundProvider # loc.prov => pc' = "recordProvider"
    BY <1>1 DEF FindProvider, FoundProvider, Ensure
  <2>4. prov # 0 /\ loc.prov = prov => FoundProvider = prov
    BY DEF FoundProvider
  <2>5. loc \in Status
    BY <1>0 DEF LocalsTyped
  <2>6. loc'.app = loc.app /\ (loc.prov # prov => loc'.prov = 0)
    BY <2>3, <2>5 DEF Status
  <2>7. AtPoint'
    <3>1. CASE FoundProvider # 0 /\ FoundProvider = loc.prov
      BY <2>1, <2>2, <2>3, <3>1 DEF AtPoint, Finalizing
    <3>2. CASE FoundProvider = 0 \/ FoundProvider # loc.prov
      <4>1. loc'.prov = 0 /\ pc' \in {"createProvider", "recordProvider"}
        BY <2>3, <2>4, <2>6, <3>2
      <4> QED BY <2>1, <2>2, <2>6, <4>1 DEF AtPoint, Finalizing
    <3> QED BY <3>1, <3>2
  <2>8. Passed' /\ Unmarked'
    BY <1>0, <2>1, <2>3 DEF Current, Passed, Unmarked, Alive, kube, ReconcileAfterConflict
  <2>9. /\ loc'.app # base.app => app = 0 \/ base.app # app
        /\ loc'.prov # base.prov => prov = 0 \/ base.prov # prov
    BY <1>0, <2>1, <2>3, <2>6 DEF Current, Worker
  <2>10. ServerMoves /\ pc # "idle"
    BY <2>1 DEF ServerMoves, server
  <2> QED BY <1>0, <2>1, <2>7, <2>8, <2>9, <2>10, OnwardCurrent
<1>2. CASE CreateProvider
  <2>1. pc = "createProvider" /\ loc.prov = 0 /\ UNCHANGED <<app, marks>>
    BY <1>0, <1>2 DEF CreateProvider, Current, AtPoint
  <2>2. CASE Finish /\ UNCHANGED <<prov, provSeq>>
    BY <2>1, <2>2, FinishCurrent
  <2>3. CASE ~ (Finish /\ UNCHANGED <<prov, provSeq>>)
    <3>1. prov' = provSeq + 1 /\ pc' = "recordProvider" /\ UNCHANGED <<kube, cur, base, loc, observed>>
      BY <1>2, <2>3 DEF CreateProvider
    <3>2. AtPoint'
      BY <1>0, <2>1, <3>1 DEF Current, AtPoint, Finalizing
    <3>3. Passed' /\ Unmarked'
      BY <1>0, <2>1, <3>1 DEF Current, Passed, Unmarked, Alive, kube, ReconcileAfterConflict
    <3>4. /\ loc'.app # base.app => app = 0 \/ base.app # app
          /\ loc'.prov # base.prov => prov = 0 \/ base.prov # prov
      BY <1>0, <2>1, <3>1 DEF Current, Worker
    <3>5. ServerMoves /\ pc # "idle"
      BY <2>1, <3>1 DEF ServerMoves
    <3> QED BY <1>0, <3>1, <3>2, <3>3, <3>4, <3>5, OnwardCurrent
  <2> QED BY <2>2, <2>3
<1>3. CASE RecordProvider
  <2> DEFINE new == [loc EXCEPT !.prov = pk]
             at  == Ensure(Prov(pk), "markProvider", "application")
  <2>1. /\ pc = "recordProvider" /\ loc.prov = 0 /\ base = rec[cur] /\ cur \in CRs
        /\ observed.pk = 0 => loc.app = 0
        /\ Record(new, at)
    BY <1>0, <1>3 DEF RecordProvider, Current, AtPoint
  <2>2. new \in Status /\ Given(new) /\ new.prov = pk /\ new.app = loc.app
    BY <1>0 DEF LocalsTyped, Status, Typed, Held, Given
  <2>3. /\ new.app # rec[cur].app => app = 0 \/ rec[cur].app # app
        /\ new.prov # rec[cur].prov => prov = 0 \/ rec[cur].prov # prov
    BY <1>0, <2>1, <2>2 DEF Current, Worker
  <2>4. at \in {"markProvider", "application"}
    BY DEF Ensure
  <2>5. Merged(new) = new
    BY <1>0, <2>1, <2>2, MergedTyped
  <2>6. loc' = new /\ base' = new /\ pc' = at /\ observed' = observed /\ pk' = pk
    BY <2>1, <2>5 DEF Record
  <2>7. AtPoint'
    BY <2>1, <2>2, <2>4, <2>6 DEF AtPoint, Finalizing
  <2>8. pc \in ReconcileAfterConflict /\ at \in ReconcileAfterConflict
    BY <2>1, <2>4 DEF ReconcileAfterConflict
  <2> QED BY <2>1, <2>2, <2>3, <2>7, <2>8, RecordCurrent
<1>4. CASE MarkProvider
  <2>1. /\ pc = "markProvider" /\ loc.prov = base.prov /\ base = rec[cur] /\ loc.prov = pk /\ pk \in Pks
        /\ observed.pk = 0 => loc.app = 0
    BY <1>0, <1>4 DEF MarkProvider, Current, AtPoint, LocalsTyped
  <2>2. Goto("application") => AtPoint'
    BY <2>1 DEF Goto, AtPoint, Finalizing
  <2>3. App(pk) # Prov(pk)
    BY DEF App, Prov
  <2>4. pc \in ReconcileAfterConflict /\ "application" \in ReconcileAfterConflict
    BY <2>1 DEF ReconcileAfterConflict
  <2> QED BY <1>4, <2>1, <2>2, <2>3, <2>4, MarkCurrent DEF MarkProvider
<1> QED BY <1>1, <1>2, <1>3, <1>4

LEMMA CreateCurrent ==
  ASSUME UpToDate, Typed',
         \/ CreateApplication \/ PatchApplication \/ RecordCreated \/ MarkCreated \/ FinishReconcile
  PROVE  Current'
<1>0. /\ Typed /\ Current /\ ~stale /\ ServerTyped' /\ LocalsTyped
      /\ pc # "idle" => cur \in CRs /\ base = rec[cur]
  BY DEF UpToDate, Typed, LocalsTyped, Current, Worker
<1>1. CASE CreateApplication
  <2>1. pc = "application" /\ loc.app = 0 /\ UNCHANGED <<prov, marks>>
    BY <1>0, <1>1 DEF CreateApplication, Current, AtPoint
  <2>2. CASE Finish /\ UNCHANGED <<app, appSeq, link>>
    BY <2>1, <2>2, FinishCurrent
  <2>3. CASE ~ (Finish /\ UNCHANGED <<app, appSeq, link>>)
    <3>1. app' = appSeq + 1 /\ pc' = "recordNew" /\ UNCHANGED <<kube, cur, base, loc>>
      BY <1>1, <2>3 DEF CreateApplication
    <3>2. AtPoint'
      BY <2>1, <3>1 DEF AtPoint, Finalizing
    <3>3. Passed' /\ Unmarked'
      BY <1>0, <2>1, <3>1 DEF Current, Passed, Unmarked, Alive, kube, ReconcileAfterConflict
    <3>4. /\ loc'.app # base.app => app = 0 \/ base.app # app
          /\ loc'.prov # base.prov => prov = 0 \/ base.prov # prov
      BY <1>0, <2>1, <3>1 DEF Current, Worker
    <3>5. ServerMoves /\ pc # "idle"
      BY <2>1, <3>1 DEF ServerMoves
    <3> QED BY <1>0, <3>1, <3>2, <3>3, <3>4, <3>5, OnwardCurrent
  <2> QED BY <2>2, <2>3
<1>2. CASE PatchApplication
  BY <1>2, FinishCurrent DEF PatchApplication
<1>3. CASE RecordCreated
  <2> DEFINE new == [loc EXCEPT !.app = observed.pk]
             at  == Ensure(App(observed.pk), "markNew", "done")
  <2>1. pc = "recordNew" /\ loc.app = 0 /\ base = rec[cur] /\ cur \in CRs /\ Record(new, at)
    BY <1>0, <1>3 DEF RecordCreated, Current, AtPoint
  <2>2. new \in Status /\ Given(new) /\ new.prov = loc.prov /\ new.app = observed.pk
    BY <1>0 DEF LocalsTyped, Status, Typed, Held, Given
  <2>3. /\ new.app # rec[cur].app => app = 0 \/ rec[cur].app # app
        /\ new.prov # rec[cur].prov => prov = 0 \/ rec[cur].prov # prov
    BY <1>0, <2>1, <2>2 DEF Current, Worker
  <2>4. at \in {"markNew", "done"}
    BY DEF Ensure
  <2>5. Merged(new) = new
    BY <1>0, <2>1, <2>2, MergedTyped
  <2>6. loc' = new /\ base' = new /\ pc' = at /\ observed' = observed
    BY <2>1, <2>5 DEF Record
  <2>7. AtPoint'
    BY <2>2, <2>4, <2>6 DEF AtPoint, Finalizing
  <2>8. pc \in ReconcileAfterConflict /\ at \in ReconcileAfterConflict
    BY <2>1, <2>4 DEF ReconcileAfterConflict
  <2> QED BY <2>1, <2>2, <2>3, <2>7, <2>8, RecordCurrent
<1>4. CASE MarkCreated
  <2>1. pc = "markNew" /\ loc = base /\ base = rec[cur] /\ loc.app = observed.pk /\ observed.pk \in Pks
    BY <1>0, <1>4 DEF MarkCreated, Current, AtPoint, LocalsTyped
  <2>2. Goto("done") => AtPoint'
    BY <2>1 DEF Goto, AtPoint, Finalizing
  <2>3. App(observed.pk) # Prov(observed.pk)
    BY DEF App, Prov
  <2>4. pc \in ReconcileAfterConflict /\ "done" \in ReconcileAfterConflict
    BY <2>1 DEF ReconcileAfterConflict
  <2> QED BY <1>4, <2>1, <2>2, <2>3, <2>4, MarkCurrent DEF MarkCreated
<1>5. CASE FinishReconcile
  BY <1>5, FinishCurrent DEF FinishReconcile, server
<1> QED BY <1>1, <1>2, <1>3, <1>4, <1>5

LEMMA FinalizeCurrent ==
  ASSUME UpToDate, Typed', FinalizeStep \/ Interrupt
  PROVE  Current'
<1>0. /\ Typed /\ Current /\ ~stale /\ ServerTyped' /\ LocalsTyped
      /\ phase \in [CRs -> Phases] /\ rec \in [CRs -> Status]
      /\ pc # "idle" => cur \in CRs /\ base = rec[cur]
  BY DEF UpToDate, Typed, LocalsTyped, KubeTyped, Current, Worker
<1>1. ASSUME NEW c \in CRs, StartFinalize(c)
      PROVE  Current'
  <2>1. view[c].phase = phase[c] /\ view[c].rec = rec[c]
    BY <1>0 DEF Current, Shown, Stored
  <2>2. /\ UNCHANGED <<server, kube>> /\ cur' = c /\ base' = rec[c] /\ loc' = rec[c]
        /\ phase[c] = "deleting" /\ pc' \in {"check", "unmark"}
    BY <1>1, <2>1 DEF StartFinalize
  <2>3. Worker' /\ AtPoint' /\ Unmarked' /\ Passed'
    BY <2>2 DEF Worker, AtPoint, Unmarked, Passed, Finalizing, ReconcileAfterConflict, kube
  <2>4. ServerMoves
    BY <2>2 DEF ServerMoves, server
  <2> QED BY <1>0, <2>2, <2>3, <2>4, RecordedKept DEF Current
<1>2. CASE CheckApplication \/ DeleteApplication \/ DeleteProvider \/ UnmarkApplication \/ UnmarkProvider
  <2>1. /\ UNCHANGED <<kube, cur, base, loc, observed, pk>>
        /\ pc \in {"check", "delete", "deleteProvider", "unmark", "unmarkProvider"}
        /\ pc' \in {"delete", "deleteProvider", "unmark", "unmarkProvider", "finalizer"}
    BY <1>2 DEF CheckApplication, DeleteApplication, DeleteProvider, UnmarkApplication,
                UnmarkProvider, Goto
  <2>2. ServerMoves
    BY <1>2 DEF CheckApplication, DeleteApplication, DeleteProvider, UnmarkApplication,
                UnmarkProvider, ServerMoves, server
  <2>3. pc \in Finalizing /\ pc' \in Finalizing /\ pc # "idle"
    BY <2>1 DEF Finalizing
  <2>4. AtPoint'
    BY <1>0, <2>1, <2>3 DEF Current, AtPoint, kube
  <2>5. Passed'
    BY <2>1 DEF Passed, ReconcileAfterConflict
  <2>6. Unmarked'
    <3>1. CASE CheckApplication \/ DeleteApplication \/ DeleteProvider
      BY <3>1 DEF CheckApplication, DeleteApplication, DeleteProvider, Goto, Unmarked
    <3>2. CASE UnmarkApplication
      BY <3>2 DEF UnmarkApplication, Goto, Unmarked
    <3>3. CASE UnmarkProvider
      BY <1>0, <3>3 DEF UnmarkProvider, Goto, Current, Unmarked
    <3> QED BY <1>2, <3>1, <3>2, <3>3
  <2>7. /\ loc'.app # base.app => app = 0 \/ base.app # app
        /\ loc'.prov # base.prov => prov = 0 \/ base.prov # prov
    BY <1>0, <2>1, <2>3 DEF Current, Worker
  <2> QED BY <1>0, <2>1, <2>2, <2>3, <2>4, <2>5, <2>6, <2>7, OnwardCurrent
<1>3. CASE RemoveFinalizer
  <2>1. pc = "finalizer" /\ cur \in CRs /\ loc = rec[cur] /\ UNCHANGED server /\ pc' = "idle"
    BY <1>0, <1>3 DEF RemoveFinalizer, Idle, Current, AtPoint, Finalizing
  <2>2. /\ phase' = [phase EXCEPT ![cur] = "gone"] /\ rec' = [rec EXCEPT ![cur] = NoPks]
        /\ view' = [c \in CRs |-> [phase |-> phase'[c], rec |-> rec'[c]]]
    BY <1>0, <1>3 DEF RemoveFinalizer, Store
  <2>3. /\ \A c \in CRs : phase'[c] = IF c = cur THEN "gone" ELSE phase[c]
        /\ \A c \in CRs : rec'[c] = IF c = cur THEN NoPks ELSE rec[c]
    BY <1>0, <2>1, <2>2
  <2>4. App(loc.app) \notin marks /\ Prov(loc.prov) \notin marks
    BY <1>0, <2>1 DEF Current, Unmarked
  <2>5. Shown' /\ Untouched' /\ OneRecorded'
    BY <1>0, <2>2, <2>3 DEF Current, Shown, Stored, Untouched, OneRecorded, Alive
  <2>6. AppRecorded' /\ ProvRecorded'
    BY <1>0, <2>1, <2>3, <2>4 DEF Current, AppRecorded, ProvRecorded, server
  <2> QED BY <2>1, <2>5, <2>6 DEF Current, Worker, AtPoint, Passed, Unmarked, Finalizing,
                                  ReconcileAfterConflict
<1>4. CASE Interrupt
  <2>1. UNCHANGED <<app, prov, marks, link>> /\ pc # "idle"
    BY <1>4 DEF Interrupt, server
  <2>2. CASE Finish
    BY <2>1, <2>2, FinishCurrent
  <2>3. CASE Idle /\ UNCHANGED kube
    <3>1. ServerMoves
      BY <2>1 DEF ServerMoves
    <3>2. pc' = "idle"
      BY <2>3 DEF Idle
    <3> QED BY <1>0, <2>3, <3>1, <3>2, RecordedKept
            DEF Current, Worker, AtPoint, Passed, Unmarked, Finalizing, ReconcileAfterConflict
  <2> QED BY <1>4, <2>2, <2>3 DEF Interrupt
<1> QED BY <1>1, <1>2, <1>3, <1>4 DEF FinalizeStep

LEMMA PeopleCurrent ==
  ASSUME UpToDate, Typed', PeopleStep \/ Deliver
  PROVE  Current'
<1>0. /\ Typed /\ Current /\ ~stale /\ ServerTyped' /\ LocalsTyped
      /\ phase \in [CRs -> Phases] /\ rec \in [CRs -> Status]
      /\ pc # "idle" => cur \in CRs
  BY DEF UpToDate, Typed, LocalsTyped, KubeTyped
<1>1. ASSUME NEW c \in CRs, CreateCR(c) \/ DeleteCR(c)
      PROVE  Current'
  <2>1. PICK p \in Phases :
          /\ Store([phase EXCEPT ![c] = p], rec)
          /\ p = IF phase[c] = "absent" THEN "new" ELSE IF phase[c] = "new" THEN "gone" ELSE "deleting"
          /\ phase[c] \in {"absent", "new", "active"}
    BY <1>1 DEF CreateCR, DeleteCR, Phases
  <2>2. UNCHANGED <<server, locals>>
    BY <1>1 DEF CreateCR, DeleteCR
  <2>3. /\ phase' = [phase EXCEPT ![c] = p] /\ rec' = rec
        /\ view' = [d \in CRs |-> [phase |-> phase'[d], rec |-> rec'[d]]]
    BY <1>0, <2>1 DEF Store
  <2>4. \A d \in CRs : phase'[d] = IF d = c THEN p ELSE phase[d]
    BY <1>0, <2>3
  <2>5. \A d \in CRs : /\ Alive(d)' => Alive(d) \/ rec[d] = NoPks
                       /\ phase[d] \in {"active", "deleting"} => phase'[d] \in {"active", "deleting"}
                       /\ phase[d] = "deleting" => phase'[d] = "deleting"
    BY <1>0, <2>1, <2>4 DEF Current, Untouched, Alive
  <2>6. Shown' /\ Untouched'
    BY <1>0, <2>1, <2>3, <2>4 DEF Current, Shown, Stored, Untouched
  <2>7. Worker'
    BY <1>0, <2>2, <2>3, <2>5 DEF Current, Worker, locals, server
  <2>8. AtPoint'
    <3>1. pc \in Finalizing => pc # "idle"
      BY DEF Finalizing
    <3> QED BY <1>0, <2>2, <2>5, <3>1 DEF Current, AtPoint, locals, server
  <2>9. NoPks.app = 0
    BY DEF NoPks
  <2>10. OneRecorded'
    BY <1>0, <2>3, <2>5, <2>9 DEF Current, OneRecorded
  <2>11. Passed'
    BY <1>0, <2>2, <2>3, <2>5, <2>9 DEF Current, Passed, locals
  <2>12. AppRecorded' /\ ProvRecorded'
    BY <1>0, <2>2, <2>3, <2>5 DEF Current, AppRecorded, ProvRecorded, server
  <2>13. Unmarked'
    BY <1>0, <2>2 DEF Current, Unmarked, server, locals
  <2> QED BY <2>6, <2>7, <2>8, <2>10, <2>11, <2>12, <2>13 DEF Current
<1>2. CASE UICreateApplication \/ UIDeleteApplication \/ UIDeleteProvider
           \/ \E used \in BOOLEAN : UICreateProvider(used)
  <2>1. ServerMoves /\ UNCHANGED <<kube, locals, marks>>
    BY <1>2 DEF UICreateApplication, UIDeleteApplication, UIDeleteProvider, UICreateProvider,
                ServerMoves
  <2> QED BY <1>0, <2>1, BesideCurrent
<1>3. CASE Deliver
  BY <1>0, <1>3 DEF Deliver, Current, Shown
<1> QED BY <1>1, <1>2, <1>3 DEF PeopleStep

-----------------------------------------------------------------------------
LEMMA StaleKept ==
  ASSUME Next
  PROVE  stale' = stale
<1>1. CASE ReconcileStep
  BY <1>1 DEF ReconcileStep, StartReconcile, CheckConflict, ObserveApplication, AdoptApplication,
              RefuseApplication, MarkApplication, FindProvider, CreateProvider, RecordProvider,
              MarkProvider, CreateApplication, PatchApplication, RecordCreated, MarkCreated,
              FinishReconcile, Mark, Record, Finish, PatchStatus, Store, kube
<1>2. CASE FinalizeStep \/ Interrupt
  BY <1>2 DEF FinalizeStep, StartFinalize, CheckApplication, DeleteApplication, DeleteProvider,
              UnmarkApplication, UnmarkProvider, RemoveFinalizer, Interrupt, Finish, PatchStatus,
              Store, kube
<1>3. CASE PeopleStep \/ Deliver
  BY <1>3 DEF PeopleStep, CreateCR, DeleteCR, UICreateApplication, UIDeleteApplication,
              UICreateProvider, UIDeleteProvider, Deliver, Store, kube
<1> QED BY <1>1, <1>2, <1>3 DEF Next

LEMMA InitIInv == Init => IInv
<1>1. Init => MarksGiven
  BY DEF Init, MarksGiven
<1>2. Init => Current
  BY DEF Init, Current, Shown, Stored, Untouched, Worker, AtPoint, OneRecorded, Passed, Alive,
         AppRecorded, ProvRecorded, Unmarked, Finalizing, ReconcileAfterConflict
<1> QED BY <1>1, <1>2, InitTyped DEF IInv

LEMMA NextIInv == IInv /\ [Next]_vars => IInv'
<1>1. ASSUME IInv, Next, ~stale PROVE Current'
  <2>1. UpToDate /\ Typed'
    BY <1>1, NextTyped DEF IInv, UpToDate
  <2> QED BY <1>1, <2>1, ConflictCurrent, ObserveCurrent, ProvideCurrent, CreateCurrent,
             FinalizeCurrent, PeopleCurrent DEF Next, ReconcileStep
<1>2. Current /\ UNCHANGED vars => Current'
  BY DEF Current, Shown, Stored, Untouched, Worker, AtPoint, OneRecorded, Passed, Alive,
         AppRecorded, ProvRecorded, Unmarked, vars, server, kube, locals
<1>3. UNCHANGED vars => stale' = stale
  BY DEF vars, kube
<1> QED BY <1>1, <1>2, <1>3, StaleKept, NextTyped, NextMarksGiven DEF IInv

LEMMA InvariantHolds == Spec => []IInv
BY InitIInv, NextIInv, PTL DEF Spec

\* The state of the worker, of the CRs and of authentik keeps its types, for
\* every number of CRs, pks and failures: a pk that the status of a CR or the
\* worker holds was given out by authentik, the Application is attached to the
\* Provider that exists or to none.
THEOREM TypeCorrect == Spec => []TypeOK
<1>1. IInv => TypeOK
  BY TypedOK DEF IInv
<1> QED BY <1>1, InvariantHolds, PTL

\* checkConflict keeps two CRs with one slug from managing one Application:
\* whatever people delete and create in the UI, whichever requests fail and
\* wherever the operator crashes, only one CR that is not being deleted has
\* recorded it, when the informer is up to date.
THEOREM AtMostOneManager == Spec => []OneManager
<1>1. IInv => OneManager
  BY DEF IInv, Current, OneRecorded, OneManager, Alive
<1> QED BY <1>1, InvariantHolds, PTL

\* A marker is attached only after the pk is in the status of a CR, and
\* release takes it off before the finalizer goes: when every CR is gone, no
\* object that is left carries one, when the informer is up to date.
THEOREM AllReleased == Spec => []ReleasedAll
<1>1. ASSUME IInv PROVE ReleasedAll
  <2> SUFFICES ASSUME ~stale, \A c \in CRs : phase[c] \in {"absent", "gone"}
               PROVE  marks \cap LiveObjects = {}
    BY DEF ReleasedAll
  <2>1. ~ (app # 0 /\ App(app) \in marks) /\ ~ (prov # 0 /\ Prov(prov) \in marks)
    BY <1>1 DEF IInv, Current, AppRecorded, ProvRecorded
  <2>2. App(0) \notin Objects /\ Prov(0) \notin Objects
    BY DEF Objects, App, Prov
  <2> QED BY <2>1, <2>2 DEF LiveObjects
<1> QED BY <1>1, InvariantHolds, PTL
=============================================================================
