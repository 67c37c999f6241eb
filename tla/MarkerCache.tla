----------------------------- MODULE MarkerCache -----------------------------
(***************************************************************************)
(* The ownership markers of authentik-operator and everyone who touches    *)
(* them: the single reconcile worker, the marker collector, the cached     *)
(* marker list behind markerCache.mu, the ownership role in authentik, and *)
(* the people who delete objects and roles in the authentik UI.            *)
(*                                                                         *)
(* A marker is an object permission of the ownership role.  markerCache    *)
(* holds mu over a whole operation, API calls included, so the operation   *)
(* in progress is one set of variables (mu, op, arg, pc); the API calls    *)
(* inside it are separate steps, because the server changes under them and *)
(* because each of them can fail, with or without having taken effect.     *)
(*                                                                         *)
(* An object stands for an Application, a Provider or a PolicyBinding; the *)
(* Bindings are told apart because they are adopted in another order.      *)
(*                                                                         *)
(* CRs are read from the informer, which may show a status some time after *)
(* it was written.  An object that a CR holds may pass to another CR with  *)
(* the same slug; which of them wins is the subject of module Takeover.    *)
(* phase is the life of a CR as the informer shows it: the operator has no *)
(* other way to learn of a deletion.  (A CR whose finalizer is removed and *)
(* that the informer still shows is finalized once more: see Takeover.)    *)
(***************************************************************************)
EXTENDS Naturals, FiniteSets

CONSTANTS Objects,    \* pks of authentik objects; a pk is never used again
          Bindings,   \* the objects that are PolicyBindings
          CRs,        \* AuthentikApplication resources
          Adopting,   \* the CRs whose spec.adopt permits adoption
          Deleting,   \* the CRs with deletionPolicy Delete; the others Retain
          MarkerGC,   \* the flag --marker-gc
          Lagging,    \* bound: the CRs whose status the informer may show late
          NoObject, NoCR,
          MaxRoles,   \* bound: role UUIDs ever created
          MaxFails    \* bound: failed API calls, failed status writes, restarts

ASSUME MarkerCacheAssumption ==
  /\ Bindings \subseteq Objects
  /\ Lagging \subseteq CRs
  /\ NoObject \notin Objects
  /\ NoCR \notin CRs
  /\ MarkerGC \in BOOLEAN
  /\ MaxRoles \in Nat \ {0}
  /\ MaxFails \in Nat

VARIABLES
  object,    \* authentik: whether the object exists
  role,      \* authentik: UUID of the role with the owner name, 0 for none
  roleSeq,   \* authentik: UUIDs handed out so far
  perms,     \* authentik: objects the role has its permission on
  known,     \* Marker.roleUUID, 0 for empty
  age,       \* of markerCache.objects: nil, or fetched within the TTL or not
  cached,    \* markerCache.objects
  mu, op, arg, pc,  \* the operation that holds markerCache.mu
  phase,     \* Kubernetes: the life of a CR
  status,    \* Kubernetes: objects recorded in the status of a CR
  view,      \* the informer's copy of status
  job, cur,  \* the reconcile worker: what it does, for which CR
  own,       \* the status of that CR in memory
  todo,      \* objects this reconcile still has to mark, delete or unmark
  adopted,   \* Bindings this reconcile will record in the status at its end
  gc,        \* the marker collector
  gcTodo,    \* objects of its list it has not examined yet
  claim,     \* history: the CR for which an object was last recorded or marked
  misled,    \* history: the CRs that were once read from an old copy
  fails

server    == <<object, role, roleSeq, perms>>
cache     == <<age, cached>>
section   == <<mu, op, arg, pc>>
worker    == <<status, view, job, cur, own, todo, adopted, misled>>
collector == <<gc, gcTodo>>

vars == <<server, known, cache, section, phase, worker, collector, claim, fails>>

TypeOK ==
  /\ object \in [Objects -> {"unborn", "live", "gone"}]
  /\ roleSeq \in 0..MaxRoles
  /\ role \in 0..roleSeq
  /\ perms \subseteq Objects
  /\ known \in 0..roleSeq
  /\ age \in {"nil", "fresh", "stale"}
  /\ cached \subseteq Objects
  /\ mu \in {"free", "worker", "gc"}
  /\ op \in {"none", "ensure", "contains", "isManaged", "remove", "collect", "orphan"}
  /\ arg \in Objects \cup {NoObject}
  /\ pc \in {"idle", "find", "create", "refind", "list", "consult", "unmark"}
  /\ phase \in [CRs -> {"active", "deleting", "gone"}]
  /\ status \in [CRs -> SUBSET Objects]
  /\ view \in [CRs -> SUBSET Objects]
  /\ job \in {"idle", "reconcile", "delete", "finalize"}
  /\ cur \in CRs \cup {NoCR}
  /\ own \subseteq Objects
  /\ todo \subseteq Objects
  /\ adopted \subseteq Objects
  /\ gc \in {"idle", "refresh", "walk"}
  /\ gcTodo \subseteq Objects
  /\ claim \in [Objects -> CRs \cup {NoCR}]
  /\ misled \subseteq CRs
  /\ fails \in 0..MaxFails

\* The operator starts against an authentik without the role.
Init ==
  /\ object = [o \in Objects |-> "unborn"]
  /\ role = 0 /\ roleSeq = 0 /\ perms = {}
  /\ known = 0
  /\ age = "nil" /\ cached = {}
  /\ mu = "free" /\ op = "none" /\ arg = NoObject /\ pc = "idle"
  /\ phase = [c \in CRs |-> "active"]
  /\ status = [c \in CRs |-> {}] /\ view = [c \in CRs |-> {}]
  /\ job = "idle" /\ cur = NoCR /\ own = {} /\ todo = {} /\ adopted = {}
  /\ gc = "idle" /\ gcTodo = {}
  /\ claim = [o \in Objects |-> NoCR] /\ misled = {}
  /\ fails = 0

Live(o) == object[o] = "live"

-----------------------------------------------------------------------------
(* The RBAC API of authentik.                                              *)

\* CreateRole: a role under the owner name with a new UUID and no permission.
NewRole ==
  /\ role = 0
  /\ roleSeq < MaxRoles
  /\ roleSeq' = roleSeq + 1
  /\ role' = roleSeq + 1
  /\ UNCHANGED <<object, perms>>

\* ListRoleObjectPermissions answers an unknown role with an empty list.
Marked(r) == IF r = role /\ r # 0 THEN perms ELSE {}

\* AssignObjectPermission and UnassignObjectPermission answer 404 for an
\* unknown role; only the former looks at the object, and answers 400.
RoleFound == known = role /\ role # 0
Assign(o) == perms' = perms \cup {o} /\ UNCHANGED <<object, role, roleSeq>>
Unassign(o) == perms' = perms \ {o} /\ UNCHANGED <<object, role, roleSeq>>

-----------------------------------------------------------------------------
(* Holding and leaving markerCache.mu.                                     *)

Lock(who, kind, o, at) ==
  /\ mu = "free"
  /\ mu' = who /\ op' = kind /\ arg' = o /\ pc' = at

Unlock == mu' = "free" /\ op' = "none" /\ arg' = NoObject /\ pc' = "idle"

Goto(at) == pc' = at /\ UNCHANGED <<mu, op, arg>>

\* The reconcile returns and its in-memory state is gone.
EndJob == job' = "idle" /\ cur' = NoCR /\ own' = {} /\ todo' = {} /\ adopted' = {}

\* patchStatus: the objects to add are recorded; recorded ones that were
\* found not to exist, or that the copy in memory does not show, may be
\* overwritten.  The informer shows the write at once or later.
PatchStatus(new) ==
  /\ \E lost \in SUBSET {p \in status[cur] : ~Live(p) \/ p \notin own} :
       status' = [status EXCEPT ![cur] = (@ \ lost) \cup new]
  /\ view' = status' \/ (cur \in Lagging /\ view' = view)

\* finish: however a reconcile ends, the status in memory is written.
Finish ==
  /\ IF job = "reconcile" THEN PatchStatus({}) ELSE UNCHANGED <<status, view>>
  /\ EndJob /\ UNCHANGED misled

EndCollect == gc' = "idle" /\ gcTodo' = {}

\* An error leaves the operation and ends the reconcile or the collection
\* that asked for it.
Abort ==
  /\ Unlock
  /\ IF mu = "worker"
       THEN Finish /\ UNCHANGED collector
       ELSE EndCollect /\ UNCHANGED worker
  /\ UNCHANGED <<known, cache, phase, claim>>

CountFailure == fails < MaxFails /\ fails' = fails + 1

\* The operation waits for the answer to an API call.
Calling ==
  \/ pc \in {"find", "refind", "list", "unmark"}
  \/ /\ pc = "consult"
     /\ \/ op = "remove"
        \/ op \in {"ensure", "isManaged"} /\ arg \notin cached
        \/ op = "orphan" /\ arg \in cached

\* The call does not reach authentik, or authentik refuses it.
CallFails ==
  /\ Calling
  /\ CountFailure
  /\ Abort
  /\ UNCHANGED server

-----------------------------------------------------------------------------
(* refreshLocked: EnsureRole, then ListManaged.                            *)

\* Where a refreshing operation starts: the list is read when it is missing
\* or older than the TTL.
RefreshLocked == IF age = "fresh" THEN "consult" ELSE "find"

\* remove does not refresh: it only needs a remembered role UUID.
AfterRole == IF op = "remove" THEN "consult" ELSE "list"

\* Mutant: a remembered UUID is kept although the role has another one.
FindRoleKeepsUUID ==
  /\ pc = "find"
  /\ \/ role # 0 /\ known' = (IF known = 0 THEN role ELSE known) /\ Goto(AfterRole)
     \/ role = 0 /\ Goto("create") /\ UNCHANGED known
  /\ UNCHANGED <<server, cache, phase, worker, collector, claim, fails>>

FindRole ==
  /\ pc = "find"
  /\ \/ role # 0 /\ known' = role /\ Goto(AfterRole)
     \/ role = 0 /\ Goto("create") /\ UNCHANGED known
  /\ UNCHANGED <<server, cache, phase, worker, collector, claim, fails>>

\* A failed creation, after which the role may exist all the same, is
\* followed by a second search.
CreateRole ==
  /\ pc = "create"
  /\ \/ NewRole /\ known' = roleSeq + 1 /\ Goto(AfterRole) /\ UNCHANGED fails
     \/ role # 0 /\ Goto("refind") /\ UNCHANGED <<server, known, fails>>
     \/ CountFailure /\ Goto("refind") /\ UNCHANGED <<server, known>>
     \/ CountFailure /\ NewRole /\ Goto("refind") /\ UNCHANGED known
  /\ UNCHANGED <<cache, phase, worker, collector, claim>>

RefindRole ==
  /\ pc = "refind"
  /\ \/ /\ role # 0 /\ known' = role /\ Goto(AfterRole)
        /\ UNCHANGED <<cache, phase, worker, collector, claim>>
     \/ role = 0 /\ Abort
  /\ UNCHANGED <<server, fails>>

\* Mutant: a list read after the role was recreated extends the old one.
ListManagedKeepsOld ==
  /\ pc = "list"
  /\ age' = "fresh" /\ cached' = cached \cup Marked(known)
  /\ Goto("consult")
  /\ UNCHANGED <<server, known, phase, worker, collector, claim, fails>>

ListManaged ==
  /\ pc = "list"
  /\ age' = "fresh" /\ cached' = Marked(known)
  /\ Goto("consult")
  /\ UNCHANGED <<server, known, phase, worker, collector, claim, fails>>

\* The resync interval has passed since the list was read.
Expire ==
  /\ age = "fresh"
  /\ age' = "stale"
  /\ UNCHANGED <<server, known, cached, section, phase, worker, collector, claim, fails>>

-----------------------------------------------------------------------------
(* The reconcile worker on a CR that is not being deleted.                 *)

\* The CR is fetched from the informer.
Read(c) ==
  /\ cur' = c /\ own' = view[c] /\ adopted' = {}
  /\ misled' = IF view[c] = status[c] THEN misled ELSE misled \cup {c}

\* Reconcile: the objects recorded in the status that still exist get their
\* marker again.
StartReconcile(c) ==
  /\ job = "idle"
  /\ phase[c] = "active"
  /\ job' = "reconcile" /\ Read(c)
  /\ todo' = {o \in view[c] : Live(o)}
  /\ UNCHANGED <<server, known, cache, section, phase, status, view, collector, claim, fails>>

\* Records the object in the status before it is marked; the answer to the
\* patch is the status as it is stored now.
Record(o) ==
  /\ PatchStatus({o})
  /\ own' = status'[cur]
  /\ todo' = todo \cup {o}
  /\ claim' = [claim EXCEPT ![o] = cur]
  /\ UNCHANGED <<job, cur, adopted, misled>>

\* Mutant: the pk is recorded together with the rest of the status, at the end.
CreateObjectRecordsLate(o) ==
  /\ job = "reconcile" /\ mu # "worker"
  /\ object[o] = "unborn"
  /\ object' = [object EXCEPT ![o] = "live"]
  /\ todo' = todo \cup {o} /\ adopted' = adopted \cup {o}
  /\ claim' = [claim EXCEPT ![o] = cur]
  /\ UNCHANGED <<status, view, job, cur, own, misled, role, roleSeq, perms, known, cache,
                 section, phase, collector, fails>>

\* reconcileProvider, reconcileApplication, reconcileBindings: create, record
\* the pk, attach the marker later.  When the status write fails the object
\* stays behind without a record.
CreateObject(o) ==
  /\ job = "reconcile" /\ mu # "worker"
  /\ object[o] = "unborn"
  /\ object' = [object EXCEPT ![o] = "live"]
  /\ \/ Record(o) /\ UNCHANGED fails
     \/ CountFailure /\ EndJob /\ UNCHANGED <<status, view, misled, claim>>
  /\ UNCHANGED <<role, roleSeq, perms, known, cache, section, phase, collector>>

\* checkConflict: a CR that the informer shows with a record, and not as
\* being deleted, keeps the others with its slug from its objects.
Visible(o) == \A c \in CRs \ {cur} : o \in view[c] => phase[c] # "active"

\* ensure(object)
BeginEnsure(o) ==
  /\ job = "reconcile" /\ o \in todo
  /\ Lock("worker", "ensure", o, RefreshLocked)
  /\ claim' = [claim EXCEPT ![o] = cur]
  /\ UNCHANGED <<server, known, cache, phase, worker, collector, fails>>

Mark ==
  /\ pc = "consult" /\ op = "ensure"
  /\ \/ /\ arg \in cached
        /\ Unlock /\ todo' = todo \ {arg}
        /\ UNCHANGED <<server, known, cache, phase, status, view, job, cur, own, adopted, misled,
                       collector, claim, fails>>
     \/ /\ arg \notin cached /\ RoleFound /\ Live(arg)
        /\ Assign(arg) /\ cached' = cached \cup {arg}
        /\ Unlock /\ todo' = todo \ {arg}
        /\ UNCHANGED <<known, age, phase, status, view, job, cur, own, adopted, misled,
                       collector, claim, fails>>
     \/ /\ arg \notin cached /\ ~(RoleFound /\ Live(arg))
        /\ Abort /\ UNCHANGED <<server, fails>>
     \/ /\ arg \notin cached /\ RoleFound /\ Live(arg)
        /\ CountFailure /\ Assign(arg) /\ Abort

\* observeApplication on an Application that the status does not record.
BeginIsManaged(o) ==
  /\ job = "reconcile" /\ Live(o) /\ o \notin Bindings
  /\ o \notin own /\ Visible(o)
  /\ Lock("worker", "isManaged", o, RefreshLocked)
  /\ UNCHANGED <<server, known, cache, phase, worker, collector, claim, fails>>

\* The list, or else the owner lookup, decides; an unmanaged Application is
\* recorded only when spec.adopt permits it, and ends the reconcile otherwise.
IsManaged ==
  /\ pc = "consult" /\ op = "isManaged"
  /\ LET managed == arg \in cached \cup Marked(known)
     IN  /\ cached' = IF managed THEN cached \cup {arg} ELSE cached
         /\ \/ (managed \/ cur \in Adopting) /\ Record(arg) /\ UNCHANGED fails
            \/ ~managed /\ Finish /\ UNCHANGED <<claim, fails>>
            \/ /\ managed \/ cur \in Adopting
               /\ CountFailure /\ EndJob /\ UNCHANGED <<status, view, misled, claim>>
  /\ Unlock
  /\ UNCHANGED <<server, known, age, phase, collector>>

\* managedBindings on a Binding that the status does not record.
BeginContains(o) ==
  /\ job = "reconcile" /\ Live(o) /\ o \in Bindings
  /\ o \notin own \cup adopted /\ Visible(o)
  /\ Lock("worker", "contains", o, RefreshLocked)
  /\ UNCHANGED <<server, known, cache, phase, worker, collector, claim, fails>>

\* A marked Binding is managed and will be recorded.  Another one is adopted
\* when it matches a rule (marked now, recorded at the end) or left alone.
Contains ==
  /\ pc = "consult" /\ op = "contains"
  /\ \/ /\ arg \in cached
        /\ adopted' = adopted \cup {arg} /\ UNCHANGED todo
        /\ claim' = [claim EXCEPT ![arg] = cur]
     \/ /\ arg \notin cached
        /\ adopted' = adopted \cup {arg} /\ todo' = todo \cup {arg}
        /\ claim' = [claim EXCEPT ![arg] = cur]
     \/ arg \notin cached /\ UNCHANGED <<todo, adopted, claim>>
  /\ Unlock
  /\ UNCHANGED <<server, known, cache, phase, status, view, job, cur, own, misled, collector, fails>>

\* The last status write of reconcileBindings, then finish.
FinishReconcile ==
  /\ job = "reconcile" /\ mu # "worker" /\ todo = {}
  /\ \/ PatchStatus(adopted) /\ UNCHANGED fails
     \/ CountFailure /\ UNCHANGED <<status, view>>
  /\ EndJob
  /\ UNCHANGED <<server, known, cache, section, phase, misled, collector, claim>>

-----------------------------------------------------------------------------
(* The reconcile worker on a CR that is being deleted: finalize, release.  *)

\* Mutant: an Application that was never recorded is to be released too.
StartFinalizeUnrecorded(c) ==
  /\ job = "idle"
  /\ phase[c] = "deleting"
  /\ job' = IF c \in Deleting THEN "delete" ELSE "finalize"
  /\ Read(c)
  /\ todo' = IF view[c] \subseteq Bindings THEN view[c] \cup {NoObject} ELSE view[c]
  /\ UNCHANGED <<server, known, cache, section, phase, status, view, collector, claim, fails>>

\* What is released is what the informer's copy of the status records.
StartFinalize(c) ==
  /\ job = "idle"
  /\ phase[c] = "deleting"
  /\ job' = IF c \in Deleting THEN "delete" ELSE "finalize"
  /\ Read(c)
  /\ todo' = view[c]
  /\ UNCHANGED <<server, known, cache, section, phase, status, view, collector, claim, fails>>

\* Mutant: an object that does not exist any more fails its deletion.
DeleteObjectNotFound(o) ==
  /\ job = "delete" /\ o \in todo
  /\ \/ /\ Live(o)
        /\ object' = [object EXCEPT ![o] = "gone"]
        /\ todo' = todo \ {o} /\ UNCHANGED <<job, cur, own, adopted>>
     \/ ~Live(o) /\ EndJob /\ UNCHANGED object
  /\ UNCHANGED <<role, roleSeq, perms, known, cache, section, phase, status, view, misled,
                 collector, claim, fails>>

\* Every object is deleted, a missing one counting as deleted, before the
\* first marker is removed.
DeleteObject(o) ==
  /\ job = "delete" /\ o \in todo
  /\ \/ /\ object' = [object EXCEPT ![o] = "gone"]
        /\ todo' = todo \ {o} /\ UNCHANGED <<job, cur, own, adopted, fails>>
     \/ CountFailure /\ EndJob /\ UNCHANGED object
     \/ CountFailure /\ EndJob /\ object' = [object EXCEPT ![o] = "gone"]
  /\ UNCHANGED <<role, roleSeq, perms, known, cache, section, phase, status, view, misled,
                 collector, claim>>

StartRemove ==
  /\ job = "delete" /\ todo = {}
  /\ job' = "finalize" /\ todo' = own
  /\ UNCHANGED <<server, known, cache, section, phase, status, view, cur, own, adopted, misled,
                 collector, claim, fails>>

\* remove(object)
BeginRemove(o) ==
  /\ job = "finalize" /\ o \in todo
  /\ Lock("worker", "remove", o, IF known = 0 THEN "find" ELSE "consult")
  /\ UNCHANGED <<server, known, cache, phase, worker, collector, claim, fails>>

\* The claim of another CR that has taken the object over stays.
Unmark ==
  /\ pc = "consult" /\ op = "remove"
  /\ \/ /\ RoleFound
        /\ Unassign(arg) /\ cached' = cached \ {arg}
        /\ claim' = [claim EXCEPT ![arg] = IF @ = cur THEN NoCR ELSE @]
        /\ Unlock /\ todo' = todo \ {arg}
        /\ UNCHANGED <<known, age, phase, status, view, job, cur, own, adopted, misled, collector, fails>>
     \/ ~RoleFound /\ Abort /\ UNCHANGED <<server, fails>>
     \/ RoleFound /\ CountFailure /\ Unassign(arg) /\ Abort

\* The finalizer is removed, and with it the CR.
FinishFinalize ==
  /\ job = "finalize" /\ mu # "worker" /\ todo = {}
  /\ \/ /\ phase' = [phase EXCEPT ![cur] = "gone"]
        /\ status' = [status EXCEPT ![cur] = {}] /\ view' = [view EXCEPT ![cur] = {}]
        /\ UNCHANGED fails
     \/ CountFailure /\ UNCHANGED <<phase, status, view>>
  /\ EndJob
  /\ UNCHANGED <<server, known, cache, section, misled, collector, claim>>

-----------------------------------------------------------------------------
(* The marker collector: collect and removeIfOrphaned.                     *)

BeginCollect ==
  /\ MarkerGC /\ gc = "idle"
  /\ Lock("gc", "collect", NoObject, "find")
  /\ age' = "nil" /\ cached' = {}
  /\ gc' = "refresh" /\ gcTodo' = {}
  /\ UNCHANGED <<server, known, phase, worker, claim, fails>>

\* The list is copied, and mu released, before the first object is examined.
CopyList ==
  /\ pc = "consult" /\ op = "collect"
  /\ gc' = "walk" /\ gcTodo' = cached
  /\ Unlock
  /\ UNCHANGED <<server, known, cache, phase, worker, claim, fails>>

BeginRemoveIfOrphaned(o) ==
  /\ gc = "walk" /\ o \in gcTodo
  /\ Lock("gc", "orphan", o, "consult")
  /\ UNCHANGED <<server, known, cache, phase, worker, collector, claim, fails>>

Examined == Unlock /\ gcTodo' = gcTodo \ {arg} /\ UNCHANGED gc

\* Mutant: the copied list is trusted although mu was released in between.
MarkIfExistsUnchecked ==
  /\ pc = "consult" /\ op = "orphan"
  /\ \/ /\ RoleFound /\ Live(arg)
        /\ Assign(arg)
        /\ Examined
        /\ UNCHANGED <<known, cache, phase, worker, claim, fails>>
     \/ /\ RoleFound /\ ~Live(arg)
        /\ Goto("unmark")
        /\ UNCHANGED <<server, known, cache, phase, worker, collector, claim, fails>>
     \/ ~RoleFound /\ Abort /\ UNCHANGED <<server, fails>>

\* Mutant: any error counts as "the object does not exist".
MarkIfExistsAnyError ==
  /\ pc = "consult" /\ op = "orphan"
  /\ \/ /\ arg \in cached /\ RoleFound /\ Live(arg)
        /\ Assign(arg)
        /\ Examined
        /\ UNCHANGED <<known, cache, phase, worker, claim, fails>>
     \/ /\ CountFailure \/ (~Live(arg) /\ UNCHANGED fails)
        /\ Goto("unmark")
        /\ UNCHANGED <<server, known, cache, phase, worker, collector, claim>>

\* Mutant: the 400 for a deleted object is an error like any other.
MarkIfExistsNo400 ==
  /\ pc = "consult" /\ op = "orphan"
  /\ \/ /\ arg \in cached /\ RoleFound /\ Live(arg)
        /\ Assign(arg)
        /\ Examined
        /\ UNCHANGED <<known, cache, phase, worker, claim, fails>>
     \/ ~(arg \in cached /\ RoleFound /\ Live(arg)) /\ Abort /\ UNCHANGED <<server, fails>>

\* The object is examined only while the cached list still has it; assigning
\* the marker it already has tells whether it exists.
MarkIfExists ==
  /\ pc = "consult" /\ op = "orphan"
  /\ \/ /\ arg \notin cached
        /\ Examined
        /\ UNCHANGED <<server, known, cache, phase, worker, claim, fails>>
     \/ /\ arg \in cached /\ RoleFound /\ Live(arg)
        /\ Assign(arg)
        /\ Examined
        /\ UNCHANGED <<known, cache, phase, worker, claim, fails>>
     \/ /\ arg \in cached /\ RoleFound /\ ~Live(arg)
        /\ Goto("unmark")
        /\ UNCHANGED <<server, known, cache, phase, worker, collector, claim, fails>>
     \/ arg \in cached /\ ~RoleFound /\ Abort /\ UNCHANGED <<server, fails>>
     \/ /\ arg \in cached /\ RoleFound /\ Live(arg)
        /\ CountFailure /\ Assign(arg) /\ Abort

UnmarkOrphan ==
  /\ pc = "unmark"
  /\ \/ /\ RoleFound
        /\ Unassign(arg) /\ cached' = cached \ {arg}
        /\ Examined
        /\ UNCHANGED <<known, age, phase, worker, claim, fails>>
     \/ ~RoleFound /\ Abort /\ UNCHANGED <<server, fails>>
     \/ RoleFound /\ CountFailure /\ Unassign(arg) /\ Abort

FinishCollect ==
  /\ gc = "walk" /\ mu # "gc" /\ gcTodo = {}
  /\ EndCollect
  /\ UNCHANGED <<server, known, cache, section, phase, worker, claim, fails>>

-----------------------------------------------------------------------------
(* Everyone else.                                                          *)

\* A new process: nothing in memory survives.  ensureOwnershipRole runs
\* before the manager starts; its failure is only logged.
Restart ==
  /\ CountFailure
  /\ Unlock /\ EndJob /\ EndCollect
  /\ age' = "nil" /\ cached' = {}
  /\ \/ known' = role /\ UNCHANGED server
     \/ known' = 0 /\ UNCHANGED server
     \/ NewRole /\ known' = roleSeq + 1
  /\ UNCHANGED <<phase, status, view, misled, claim>>

\* Another replica, not the leader, ensures the role when it starts.
OtherReplicaCreatesRole ==
  /\ NewRole
  /\ UNCHANGED <<known, cache, section, phase, worker, collector, claim, fails>>

\* authentik UI.  Deleting an object keeps the permissions on it; deleting
\* the role deletes all of its permissions.
UICreateObject(o) ==
  /\ object[o] = "unborn"
  /\ object' = [object EXCEPT ![o] = "live"]
  /\ UNCHANGED <<role, roleSeq, perms, known, cache, section, phase, worker, collector, claim, fails>>

UIDeleteObject(o) ==
  /\ Live(o)
  /\ object' = [object EXCEPT ![o] = "gone"]
  /\ UNCHANGED <<role, roleSeq, perms, known, cache, section, phase, worker, collector, claim, fails>>

UIDeleteRole ==
  /\ role # 0 /\ roleSeq < MaxRoles
  /\ role' = 0 /\ perms' = {}
  /\ UNCHANGED <<object, roleSeq, known, cache, section, phase, worker, collector, claim, fails>>

\* The informer shows what is stored by now.
Deliver ==
  /\ view # status
  /\ view' = status
  /\ UNCHANGED <<server, known, cache, section, phase, status, job, cur, own, todo, adopted, misled,
                 collector, claim, fails>>

\* Mutant: the finalizer is added together with the first record.
DeleteCRUnrecorded(c) ==
  /\ phase[c] = "active"
  /\ phase' = [phase EXCEPT ![c] = IF status[c] = {} THEN "gone" ELSE "deleting"]
  /\ UNCHANGED <<server, known, cache, section, worker, collector, claim, fails>>

\* kubectl delete: the finalizer, added before anything is written to
\* authentik, keeps the resource.
DeleteCR(c) ==
  /\ phase[c] = "active"
  /\ phase' = [phase EXCEPT ![c] = "deleting"]
  /\ UNCHANGED <<server, known, cache, section, worker, collector, claim, fails>>

-----------------------------------------------------------------------------
LockedStep ==
  \/ FindRole \/ CreateRole \/ RefindRole \/ ListManaged
  \/ Mark \/ IsManaged \/ Contains \/ Unmark
  \/ CopyList \/ MarkIfExists \/ UnmarkOrphan

ReconcileStep ==
  \/ \E c \in CRs : StartReconcile(c)
  \/ \E o \in Objects : CreateObject(o) \/ BeginEnsure(o)
                        \/ BeginIsManaged(o) \/ BeginContains(o)
  \/ FinishReconcile

FinalizeStep ==
  \/ \E c \in CRs : StartFinalize(c)
  \/ \E o \in Objects : DeleteObject(o) \/ BeginRemove(o)
  \/ StartRemove \/ FinishFinalize

CollectStep ==
  \/ BeginCollect \/ FinishCollect
  \/ \E o \in Objects : BeginRemoveIfOrphaned(o)

Environment ==
  \/ CallFails \/ Restart \/ Expire \/ Deliver \/ OtherReplicaCreatesRole \/ UIDeleteRole
  \/ \E o \in Objects : UICreateObject(o) \/ UIDeleteObject(o)
  \/ \E c \in CRs : DeleteCR(c)

Next == LockedStep \/ ReconcileStep \/ FinalizeStep \/ CollectStep \/ Environment

Spec == Init /\ [][Next]_vars

(* The worker takes queued CRs in turn, a reconcile examines finitely many *)
(* objects and returns, mu does not starve a goroutine, the collector's    *)
(* ticker and the clock go on, and the informer catches up.  Nothing is    *)
(* assumed of the people in the UI or of failures, whose number is bounded.*)
Fairness ==
  /\ WF_vars(LockedStep)
  /\ \A c \in CRs : SF_vars(StartReconcile(c)) /\ SF_vars(StartFinalize(c))
  /\ \A o \in Objects : SF_vars(BeginEnsure(o)) /\ SF_vars(BeginRemove(o))
                        /\ SF_vars(BeginRemoveIfOrphaned(o))
  /\ WF_vars(\E o \in Objects : DeleteObject(o))
  /\ WF_vars(StartRemove) /\ WF_vars(FinishFinalize)
  /\ SF_vars(FinishReconcile)
  /\ SF_vars(BeginCollect) /\ WF_vars(FinishCollect)
  /\ WF_vars(Expire) /\ WF_vars(Deliver)

FairSpec == Spec /\ Fairness

-----------------------------------------------------------------------------
(* Safety.                                                                 *)

\* An object that no CR holds, because it was made in the UI or because its
\* marker was removed by a release, carries no marker: neither the collector
\* walking over an old copy of the list nor a cached list attaches one
\* (collect: "a marker removed by a concurrent deletion is not attached
\* again").
ManualStaysUnmarked == \A o \in perms : claim[o] # NoCR

\* Once a CR is gone, no Application or Provider that exists carries a marker
\* attached for it, whatever failed, crashed, was deleted or taken over in
\* between; but for a CR that was reconciled or finalized from a copy older
\* than its last status write (Reconcile reads the informer), where the
\* release does not know of the object.
GoneLeavesNoMarker ==
  \A o \in perms \ Bindings, c \in CRs \ misled : Live(o) /\ claim[o] = c => phase[c] # "gone"

\* The same for Bindings too: deletionPolicy Retain returns every object to
\* manual management.
RetainReturnsToManual ==
  \A o \in perms, c \in CRs \ misled : Live(o) /\ claim[o] = c => phase[c] # "gone"

\* ensure may skip the API call for an object in the cached list: while the
\* list is within its TTL and the role is the remembered one, a listed object
\* without its marker is one that does not exist, or one that a CR which is
\* being deleted records and will release again (or would, had it not been
\* read from an old copy).
CacheTrusted ==
  age = "fresh" /\ known = role =>
    \A o \in cached \ perms : Live(o) =>
      \E c \in CRs : phase[c] # "active" /\ (c \in misled \/ (phase[c] = "deleting" /\ o \in status[c]))

\* The collector takes the marker only from an object that does not exist,
\* although the object is checked and unmarked in two requests.
CollectorSparesLiveObjects ==
  [][\A o \in perms : o \notin perms' /\ role' = role /\ mu = "gc" => ~Live(o)]_vars

\* The role, the list, the mutex and the failed requests hidden, what happens
\* to objects, markers and CRs is what Ownership allows.
Own == INSTANCE Ownership WITH marked <- perms, holder <- claim

ImplementsOwnership == Own!Spec

(* Liveness.                                                               *)

\* A recorded object that lost its marker, with the role or otherwise, gets
\* it back while its CR is there.
MarkersRestored ==
  \A c \in CRs, o \in Objects :
    o \in status[c] /\ Live(o) /\ phase[c] = "active"
      ~> o \in perms \/ o \notin status[c] \/ ~Live(o) \/ phase[c] # "active"

\* A CR that is being deleted goes away: its finalizer is not kept for ever.
FinalizerRemoved == \A c \in CRs : phase[c] = "deleting" ~> phase[c] = "gone"

\* Markers of objects that do not exist are cleaned up.
OrphansCollected == <>[](\A o \in perms : object[o] # "gone")
=============================================================================
