------------------------------ MODULE Takeover ------------------------------
(***************************************************************************)
(* AuthentikApplications that share one slug: who of them manages the      *)
(* Application and its Provider, and how these pass from one to another    *)
(* when CRs are created and deleted, objects disappear in the UI, calls    *)
(* fail and the operator restarts.                                         *)
(*                                                                         *)
(* One worker reconciles one CR at a time (MaxConcurrentReconciles: 1).    *)
(* It reads CRs from the informer, which shows what the API server stores  *)
(* at once, or some time later in a behaviour where it lags.               *)
(* Every request that writes, to authentik or to the status, is a step of  *)
(* its own.  The marker list is taken to be current (see MarkerCache), the *)
(* Bindings of the Application are the subject of Bindings.                *)
(***************************************************************************)
EXTENDS Naturals, FiniteSets

CONSTANTS CRs,       \* numbered in the order that breaks a conflict: age,
                     \* then namespace and name for the same second
          Adopting,  \* the CRs whose spec.adopt permits adoption
          Deleting,  \* the CRs with deletionPolicy Delete
          Lagging,   \* bound: the CRs there are when the informer lags
          MaxPks,    \* bound: pks ever given to Applications, to Providers
          MaxFails   \* bound: failed requests and crashes

ASSUME TakeoverAssumption ==
  /\ CRs \subseteq Nat
  /\ Adopting \subseteq CRs /\ Deleting \subseteq CRs
  /\ Lagging \subseteq CRs
  /\ MaxPks \in Nat /\ MaxFails \in Nat

VARIABLES
  app, appSeq,    \* authentik: pk of the Application with the slug, 0 for none
  prov, provSeq,  \* authentik: pk of the Provider with the name, 0 for none
  taken,          \* authentik: another Application uses that Provider
  link,           \* authentik: the Provider of the Application, 0 for none
  marks,          \* authentik: the objects that carry the marker
  phase, rec,     \* Kubernetes: life and recorded pks of every CR
  view, stale,    \* the informer's copy of phase and rec, and whether it lags
  cur, pc,        \* the worker: the CR and where its reconcile is
  base, loc,      \* status as last read or written, and as it is in memory
  observed,       \* the Application as fetched: its pk and its Provider
  pk,             \* of the Provider this reconcile works with
  fails

server == <<app, appSeq, prov, provSeq, taken, link, marks>>
kube   == <<phase, rec, view, stale>>
locals == <<cur, pc, base, loc, observed, pk>>
vars   == <<server, kube, locals, fails>>

Pks     == 0..MaxPks
NoPks   == [app |-> 0, prov |-> 0]
NoApp   == [pk |-> 0, link |-> 0]
App(p)  == [kind |-> "application", pk |-> p]
Prov(p) == [kind |-> "provider", pk |-> p]
Objects == {App(p) : p \in Pks \ {0}} \cup {Prov(p) : p \in Pks \ {0}}
LiveObjects == {App(app), Prov(prov)} \cap Objects

\* No pk is used that authentik has not given out, and reconcileProvider comes
\* to record, mark and attach a Provider only with one in its hands.
TypeOK ==
  /\ app \in Pks /\ appSeq \in Pks /\ app <= appSeq
  /\ prov \in Pks /\ provSeq \in Pks /\ prov <= provSeq
  /\ taken \in BOOLEAN /\ link \in {0, prov} /\ (taken => prov # 0 /\ link = 0)
  /\ marks \subseteq Objects
  /\ phase \in [CRs -> {"absent", "new", "active", "deleting", "gone"}]
  /\ rec \in [CRs -> [app : Pks, prov : Pks]]
  /\ \A c \in CRs : rec[c].app <= appSeq /\ rec[c].prov <= provSeq
  /\ DOMAIN view = CRs /\ stale \in BOOLEAN
  /\ cur \in CRs \cup {0}
  /\ pc \in {"idle", "conflict", "observe", "adopt", "markSeen", "provider",
             "createProvider", "recordProvider", "markProvider", "application", "recordNew",
             "markNew", "done", "check", "delete", "deleteProvider", "unmark", "unmarkProvider", "finalizer"}
  /\ base \in [app : Pks, prov : Pks] /\ loc \in [app : Pks, prov : Pks]
  /\ observed \in [pk : Pks, link : Pks]
  /\ pk \in Pks /\ (pc \in {"recordProvider", "markProvider", "application"} => pk # 0)
  /\ fails \in 0..MaxFails

Idle == cur' = 0 /\ pc' = "idle" /\ base' = NoPks /\ loc' = NoPks /\ observed' = NoApp /\ pk' = 0

Init ==
  /\ app = 0 /\ appSeq = 0 /\ prov = 0 /\ provSeq = 0 /\ taken = FALSE /\ link = 0 /\ marks = {}
  /\ phase = [c \in CRs |-> "absent"] /\ rec = [c \in CRs |-> NoPks]
  /\ view = [c \in CRs |-> [phase |-> "absent", rec |-> NoPks]]
  /\ stale \in {FALSE, Lagging # {}}
  /\ cur = 0 /\ pc = "idle" /\ base = NoPks /\ loc = NoPks /\ observed = NoApp /\ pk = 0
  /\ fails = 0

-----------------------------------------------------------------------------
(* Writing a CR.  The informer shows it as the API server stores it, at    *)
(* once or when the change is delivered.                                   *)

Stored == [c \in CRs |-> [phase |-> phase[c], rec |-> rec[c]]]

Store(p, r) ==
  /\ phase' = p /\ rec' = r
  /\ UNCHANGED stale
  /\ view' = IF stale THEN view ELSE [c \in CRs |-> [phase |-> p[c], rec |-> r[c]]]

\* One watch delivers the changes of every CR in the order of the writes, so
\* the informer shows all CRs as they were together at some moment.
Deliver ==
  /\ view # Stored
  /\ view' = Stored
  /\ UNCHANGED <<server, phase, rec, stale, locals, fails>>

\* patchStatus: a merge patch of what differs from the status last read or
\* written, onto the status that the API server stores.
Merged(new) ==
  [f \in {"app", "prov"} |-> IF new[f] # base[f] THEN new[f] ELSE rec[cur][f]]

PatchStatus(new) == Store(phase, [rec EXCEPT ![cur] = Merged(new)])

\* finish: however a reconcile ends, the status in memory is written.
Finish == PatchStatus(loc) /\ Idle

Goto(at) == pc' = at /\ UNCHANGED <<cur, base, loc, observed, pk>>

\* Mutant: the pk is written with the rest of the status, in finish.
RecordLate(new, at) ==
  /\ loc' = new
  /\ pc' = at
  /\ UNCHANGED <<server, kube, cur, base, observed, pk, fails>>

\* The pk is recorded before the marker is attached; the answer to the patch
\* is the status as it is stored now.
Record(new, at) ==
  /\ PatchStatus(new)
  /\ loc' = Merged(new) /\ base' = Merged(new)
  /\ pc' = at
  /\ UNCHANGED <<server, cur, observed, pk, fails>>

\* markers().ensure: a marked object needs no request, one that is gone is
\* refused.
Ensure(object, marking, at) == IF object \in marks THEN at ELSE marking

Mark(object, at) ==
  /\ \/ /\ object \in LiveObjects
        /\ marks' = marks \cup {object}
        /\ Goto(at) /\ UNCHANGED kube
     \/ object \notin LiveObjects /\ Finish /\ UNCHANGED marks
  /\ UNCHANGED <<app, appSeq, prov, provSeq, taken, link, fails>>

-----------------------------------------------------------------------------
(* checkConflict and conflictWinner.                                       *)

\* Mutant: the oldest CR wins, whoever has recorded the Application.
ConflictWinnerOldest(candidates, recorded) ==
  CHOOSE c \in candidates : \A d \in candidates : c <= d

\* A CR that has recorded an Application beats one that has not, then the
\* order of the CRs decides.
ConflictWinner(candidates, recorded) ==
  CHOOSE c \in candidates : \A d \in candidates :
    IF (c \in recorded) # (d \in recorded) THEN c \in recorded ELSE c <= d

\* The listed CRs that are not being deleted; cur itself as it was fetched.
Candidates == {cur} \cup {c \in CRs : view[c].phase \in {"new", "active"}}
Recorded == {c \in CRs : IF c = cur THEN loc.app # 0 ELSE view[c].rec.app # 0}

CheckConflict ==
  /\ pc = "conflict"
  /\ \/ ConflictWinner(Candidates, Recorded) = cur /\ Goto("observe") /\ UNCHANGED kube
     \/ ConflictWinner(Candidates, Recorded) # cur /\ Finish
  /\ UNCHANGED <<server, fails>>

-----------------------------------------------------------------------------
(* Reconcile of a CR that the informer shows alive.                        *)

\* ensureFinalizer patches a CR that has no finalizer in the informer's copy:
\* it fails for one that is gone and answers with the CR as it is stored.
StartReconcile(c) ==
  /\ pc = "idle"
  /\ view[c].phase \in {"new", "active"}
  /\ phase[c] # "gone"
  /\ Store([phase EXCEPT ![c] = IF @ = "new" THEN "active" ELSE @], rec)
  /\ LET read == IF view[c].phase = "new" THEN rec[c] ELSE view[c].rec
     IN  base' = read /\ loc' = read
  /\ cur' = c /\ pc' = "conflict"
  /\ UNCHANGED <<server, observed, pk, fails>>

\* GetApplication; a recorded Application that is gone is forgotten.
ObserveApplication ==
  /\ pc = "observe"
  /\ observed' = IF app = 0 THEN NoApp ELSE [pk |-> app, link |-> link]
  /\ loc' = IF app = 0 THEN [loc EXCEPT !.app = 0] ELSE loc
  /\ pc' = CASE app = 0 -> "provider"
             [] app # 0 /\ app = loc.app -> Ensure(App(app), "markSeen", "provider")
             [] OTHER -> "adopt"
  /\ UNCHANGED <<server, kube, cur, base, pk, fails>>

\* An Application that cur has not recorded is taken when it carries the
\* marker or spec.adopt permits it; its pk is recorded at once.
AdoptApplication ==
  /\ pc = "adopt"
  /\ App(observed.pk) \in marks \/ cur \in Adopting
  /\ Record([loc EXCEPT !.app = observed.pk], Ensure(App(observed.pk), "markSeen", "provider"))

RefuseApplication ==
  /\ pc = "adopt"
  /\ App(observed.pk) \notin marks /\ cur \notin Adopting
  /\ Finish
  /\ UNCHANGED <<server, fails>>

MarkApplication == pc = "markSeen" /\ Mark(App(observed.pk), "provider")

\* Mutant: a Provider that is not recorded is looked for under the
\* Application only.
FoundProviderAttached ==
  IF prov # 0 /\ (loc.prov = prov \/ observed.link = prov) THEN prov ELSE 0

\* findProvider: the recorded one, the one attached to the Application as it
\* was fetched, or one with the name that no other Application uses; 0 when
\* it has to be created.
FoundProvider ==
  IF prov # 0 /\ (loc.prov = prov \/ observed.link = prov \/ ~taken) THEN prov ELSE 0

\* Mutant: a Provider is created only together with its Application.
FindProviderOfApplication ==
  /\ pc = "provider"
  /\ pk' = FoundProvider
  /\ loc' = IF loc.prov = prov THEN loc ELSE [loc EXCEPT !.prov = 0]
  /\ pc' = CASE FoundProvider = 0 /\ observed.pk = 0 -> "createProvider"
             [] FoundProvider # 0 /\ FoundProvider = loc.prov -> Ensure(Prov(prov), "markProvider", "application")
             [] OTHER -> "recordProvider"
  /\ UNCHANGED <<server, kube, cur, base, observed, fails>>

FindProvider ==
  /\ pc = "provider"
  /\ pk' = FoundProvider
  /\ loc' = IF loc.prov = prov THEN loc ELSE [loc EXCEPT !.prov = 0]
  /\ pc' = CASE FoundProvider = 0 -> "createProvider"
             [] FoundProvider # 0 /\ FoundProvider = loc.prov -> Ensure(Prov(prov), "markProvider", "application")
             [] OTHER -> "recordProvider"
  /\ UNCHANGED <<server, kube, cur, base, observed, fails>>

\* The name of a Provider is unique.
CreateProvider ==
  /\ pc = "createProvider"
  /\ \/ /\ prov = 0 /\ provSeq < MaxPks
        /\ provSeq' = provSeq + 1 /\ prov' = provSeq + 1 /\ pk' = provSeq + 1
        /\ pc' = "recordProvider"
        /\ UNCHANGED <<kube, cur, base, loc, observed>>
     \/ prov # 0 /\ Finish /\ UNCHANGED <<prov, provSeq>>
  /\ UNCHANGED <<app, appSeq, taken, link, marks, fails>>

RecordProvider ==
  /\ pc = "recordProvider"
  /\ Record([loc EXCEPT !.prov = pk], Ensure(Prov(pk), "markProvider", "application"))

MarkProvider == pc = "markProvider" /\ Mark(Prov(pk), "application")

\* reconcileApplication: create, or attach the Provider when another one was
\* attached.  400 when the slug or the Provider is taken or the Provider is
\* gone, 404 when the Application to patch is gone.
CreateApplication ==
  /\ pc = "application" /\ observed.pk = 0
  /\ \/ /\ app = 0 /\ pk = prov /\ ~taken /\ appSeq < MaxPks
        /\ appSeq' = appSeq + 1 /\ app' = appSeq + 1 /\ link' = pk
        /\ observed' = [pk |-> appSeq + 1, link |-> pk]
        /\ pc' = "recordNew"
        /\ UNCHANGED <<kube, cur, base, loc, pk>>
     \/ (app # 0 \/ pk # prov \/ taken) /\ Finish /\ UNCHANGED <<app, appSeq, link>>
  /\ UNCHANGED <<prov, provSeq, taken, marks, fails>>

PatchApplication ==
  /\ pc = "application" /\ observed.pk # 0
  /\ link' = IF observed.link # pk /\ app # 0 /\ pk = prov /\ ~taken THEN pk ELSE link
  /\ Finish
  /\ UNCHANGED <<app, appSeq, prov, provSeq, taken, marks, fails>>

RecordCreated ==
  /\ pc = "recordNew"
  /\ Record([loc EXCEPT !.app = observed.pk], Ensure(App(observed.pk), "markNew", "done"))

MarkCreated == pc = "markNew" /\ Mark(App(observed.pk), "done")

FinishReconcile ==
  /\ pc = "done"
  /\ Finish
  /\ UNCHANGED <<server, fails>>

-----------------------------------------------------------------------------
(* finalize and release of a CR that the informer shows deleted.           *)

StartFinalize(c) ==
  /\ pc = "idle"
  /\ view[c].phase = "deleting"
  /\ cur' = c /\ base' = view[c].rec /\ loc' = view[c].rec
  /\ pc' = IF c \in Deleting THEN "check" ELSE "unmark"
  /\ UNCHANGED <<server, kube, observed, pk, fails>>

\* deleteApplication: the Application with the slug is fetched ...
CheckApplication ==
  /\ pc = "check"
  /\ Goto(IF loc.app # 0 /\ app = loc.app THEN "delete" ELSE "deleteProvider")
  /\ UNCHANGED <<server, kube, fails>>

\* ... and deleted by its slug.
DeleteApplication ==
  /\ pc = "delete"
  /\ app' = 0 /\ link' = 0
  /\ Goto("deleteProvider")
  /\ UNCHANGED <<appSeq, prov, provSeq, taken, marks, kube, fails>>

\* deleteProvider by the recorded pk; the server detaches it everywhere.
DeleteProvider ==
  /\ pc = "deleteProvider"
  /\ IF loc.prov # 0 /\ prov = loc.prov THEN prov' = 0 /\ link' = 0 /\ taken' = FALSE
     ELSE UNCHANGED <<prov, link, taken>>
  /\ Goto("unmark")
  /\ UNCHANGED <<app, appSeq, provSeq, marks, kube, fails>>

UnmarkApplication ==
  /\ pc = "unmark"
  /\ marks' = marks \ {App(loc.app)}
  /\ Goto("unmarkProvider")
  /\ UNCHANGED <<app, appSeq, prov, provSeq, taken, link, kube, fails>>

UnmarkProvider ==
  /\ pc = "unmarkProvider"
  /\ marks' = marks \ {Prov(loc.prov)}
  /\ Goto("finalizer")
  /\ UNCHANGED <<app, appSeq, prov, provSeq, taken, link, kube, fails>>

RemoveFinalizer ==
  /\ pc = "finalizer"
  /\ Store([phase EXCEPT ![cur] = "gone"], [rec EXCEPT ![cur] = NoPks])
  /\ Idle
  /\ UNCHANGED <<server, fails>>

\* A request fails and the status is written, or the operator crashes.
Interrupt ==
  /\ pc # "idle"
  /\ fails < MaxFails
  /\ fails' = fails + 1
  /\ Finish \/ (Idle /\ UNCHANGED kube)
  /\ UNCHANGED <<server>>

-----------------------------------------------------------------------------
(* People.                                                                 *)

CreateCR(c) ==
  /\ phase[c] = "absent" /\ (stale => c \in Lagging)
  /\ Store([phase EXCEPT ![c] = "new"], rec)
  /\ UNCHANGED <<server, locals, fails>>

\* The finalizer keeps a CR that has one.
DeleteCR(c) ==
  /\ phase[c] \in {"new", "active"}
  /\ Store([phase EXCEPT ![c] = IF @ = "new" THEN "gone" ELSE "deleting"], rec)
  /\ UNCHANGED <<server, locals, fails>>

UICreateApplication ==
  /\ app = 0 /\ appSeq < MaxPks
  /\ appSeq' = appSeq + 1 /\ app' = appSeq + 1
  /\ UNCHANGED <<prov, provSeq, taken, link, marks, kube, locals, fails>>

UIDeleteApplication ==
  /\ app # 0
  /\ app' = 0 /\ link' = 0
  /\ UNCHANGED <<appSeq, prov, provSeq, taken, marks, kube, locals, fails>>

UICreateProvider(used) ==
  /\ prov = 0 /\ provSeq < MaxPks
  /\ provSeq' = provSeq + 1 /\ prov' = provSeq + 1
  /\ taken' = used
  /\ UNCHANGED <<app, appSeq, link, marks, kube, locals, fails>>

UIDeleteProvider ==
  /\ prov # 0
  /\ prov' = 0 /\ link' = 0 /\ taken' = FALSE
  /\ UNCHANGED <<app, appSeq, provSeq, marks, kube, locals, fails>>

-----------------------------------------------------------------------------
ReconcileStep ==
  \/ \E c \in CRs : StartReconcile(c)
  \/ CheckConflict \/ ObserveApplication \/ AdoptApplication \/ RefuseApplication
  \/ MarkApplication \/ FindProvider \/ CreateProvider \/ RecordProvider \/ MarkProvider
  \/ CreateApplication \/ PatchApplication \/ RecordCreated \/ MarkCreated \/ FinishReconcile

FinalizeStep ==
  \/ \E c \in CRs : StartFinalize(c)
  \/ CheckApplication \/ DeleteApplication \/ DeleteProvider
  \/ UnmarkApplication \/ UnmarkProvider \/ RemoveFinalizer

PeopleStep ==
  \/ \E c \in CRs : CreateCR(c) \/ DeleteCR(c)
  \/ UICreateApplication \/ UIDeleteApplication \/ UIDeleteProvider
  \/ \E used \in BOOLEAN : UICreateProvider(used)

Next ==
  \/ ReconcileStep \/ FinalizeStep \/ Interrupt \/ PeopleStep
  \/ Deliver

Spec == Init /\ [][Next]_vars

(* Every CR is taken from the queue again after each resync interval, a    *)
(* reconcile goes on unless it is interrupted, and the informer catches    *)
(* up.  Nothing is assumed of people or of failures.                       *)
Fairness ==
  /\ \A c \in CRs : SF_vars(StartReconcile(c) \/ StartFinalize(c))
  /\ WF_vars(pc # "idle" /\ (ReconcileStep \/ FinalizeStep))
  /\ WF_vars(Deliver)

FairSpec == Spec /\ Fairness

-----------------------------------------------------------------------------
\* With an informer that is up to date, at most one CR that is not being
\* deleted has recorded the Application.
OneManager ==
  \A c, d \in CRs :
    /\ ~stale /\ phase[c] = "active" /\ phase[d] = "active"
    /\ app # 0 /\ rec[c].app = app /\ rec[d].app = app
    => c = d

\* With an informer that is up to date, what is left in authentik when every CR
\* is gone carries no marker.
ReleasedAll ==
  ~stale /\ (\A c \in CRs : phase[c] \in {"absent", "gone"}) => marks \cap LiveObjects = {}

\* The objects that a CR has recorded.
Managed(c) == {App(rec[c].app), Prov(rec[c].prov)} \cap Objects

\* A CR that is being deleted takes neither the objects nor their markers away
\* from another CR that manages the Application.
NeverFight ==
  [][\A c \in CRs \ {cur} :
       /\ pc \in {"delete", "deleteProvider", "unmark", "unmarkProvider"} /\ pc' # pc
       /\ phase[c] = "active" /\ app # 0 /\ rec[c].app = app
       => (Managed(c) \cap LiveObjects \cap marks) \subseteq (LiveObjects \cap marks)']_vars

\* One CR manages what it recorded: the Application and the Provider exist,
\* are attached to each other and carry their markers.
Settled(c) ==
  /\ app # 0 /\ prov # 0 /\ link = prov
  /\ rec[c] = [app |-> app, prov |-> prov]
  /\ LiveObjects \subseteq marks

\* The Application is one that nobody has marked, and a CR that may not adopt
\* it keeps the others from it.
Refused ==
  /\ app # 0 /\ App(app) \notin marks
  /\ \E c \in CRs \ Adopting : phase[c] = "active" /\ rec[c].app # app

\* As long as some CR is there, one of them comes to manage the Application
\* and keeps it, unless it is refused or another Application uses the Provider
\* (or the bound on pks keeps a new object from being created).
Converges ==
  <>[](\/ \A c \in CRs : phase[c] \notin {"new", "active"}
       \/ \E c \in CRs : phase[c] = "active" /\ Settled(c)
       \/ Refused
       \/ taken
       \/ app = 0 /\ appSeq = MaxPks
       \/ prov = 0 /\ provSeq = MaxPks)
=============================================================================
