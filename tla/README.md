# A TLA+ verification of authentik-operator

authentik-operator is a Kubernetes operator: an `AuthentikApplication` resource
(a *CR*) describes one authentik Application, its Provider, and who may use it
(PolicyBindings), and the operator makes authentik agree with it over the REST
API. It shares authentik with people who work in its UI. `docs/spec.md` names
three goals: objects made by hand are protected, two CRs never fight over an
Application, and drift of managed objects is repaired. This directory holds
models of the parts of the operator on which these goals depend, what TLC
checks of them, and what TLAPS proves.

Contents: [inventory](#1-inventory), [modules](#2-modules),
[runs](#3-runs), [fairness](#4-fairness), [proofs](#5-proofs),
[what the checks found](#6-what-the-checks-found),
[what is not modelled](#7-what-is-not-modelled), [plan](#8-plan).

## 1. Inventory

### Components, their state and operations

| component | state | operations |
|---|---|---|
| Reconcile loop (`authentikapplication_controller.go`) | the CR's status (recorded pks, conditions), a copy of it in memory; the watches and the queue | `Reconcile`, `finish`, `patchStatus`; one worker, so CRs are reconciled one at a time |
| Ownership marker (`ownership/marker.go`) | the role UUID it remembers | `EnsureRole`, `Mark`, `MarkIfExists`, `Unmark`, `IsManaged`, `ListManaged` |
| Marker cache (`markers.go`) | a list of marked objects with the time it was read, behind a mutex | `ensure`, `contains`, `isManaged`, `remove`, `collect` |
| Marker collector (`gc.go`) | a ticker, its copy of the list | one walk per resync interval, and events for all CRs after the role was recreated |
| Application (`application.go`), Provider (`provider.go`), adoption (`adoption.go`) | pks in the status | find, adopt, create, record, mark, repair |
| Bindings (`bindings.go`) | UUIDs in the status | list, split, match, adopt, create, delete, prune |
| Conflict (`conflict.go`) | none; reads the informer's list | decide which of the CRs with one slug manages it |
| Deletion (`deletion.go`) | the finalizer | delete or keep the objects, remove the markers, remove the finalizer |
| Outpost (`outpost.go`), credentials (`credentials.go`) | Outpost UUID in the status; a Secret | join and leave an Outpost; export OAuth2 credentials |
| Resolver (`reference/`), partial updates (`patch.go`), rate limiter (`retry/`) | none, or counters of failures | names to pks; PATCH bodies; retry delays |
| authentik server (`fake/fake.go` is the repository's own model of it) | all objects, the role and its permissions | the REST API, and the UI of the people |

### How they interact

The worker takes a CR from a queue that is fed by the CR's changes, by changes
of other CRs with its slug, by Secrets, by role events and by the resync timer.
It reads the CR from the informer, checks for a conflict, resolves names, and
then works through Application, Provider, Outpost, credentials and Bindings
with one request after the other. Each object is *recorded* in the status and
*marked* with a permission of the ownership role; either one proves later that
the operator manages the object. The collector is a second goroutine that
shares the marker cache with the worker. Everything else is shared with people:
every object, and the role itself, can change between two requests.

### What is hard

- An operation is many requests, and a failure, a lost answer or a crash can
  come between any two. What was done is remembered only in the status and in
  the markers, which are written in separate requests.
- The marker list is a cache that is as old as the resync interval; the role it
  was read from may be deleted meanwhile, and with it all markers.
- The collector examines a copy of that list with the mutex released between
  two objects, while the worker releases and people delete.
- CRs are read from an informer that lags behind the worker's own writes.
- A CR that is being deleted does not count in a conflict, so the next one takes
  over while the finalizer of the first has yet to run.
- The queue is fed by the writes of the worker itself, by the losers of a slug and
  by goroutines that outlive the reconcile that started them; a delay may be
  neither lost, nor cut short, nor longer than the resync interval.
- The list of Providers of an Outpost is replaced as a whole, by the worker and by
  people, without a version to compare.
- Bindings are listed once and then written one by one, while people edit them;
  an Application with no Binding is public.
- A partial update is made from an object fetched earlier, carries some fields
  only, and is validated by the server without the fields it leaves out.

`PROJECT.json` lists the hazards with the line where each bites and the
properties that cover it.

### What makes each component correct

- Markers: only objects that a CR holds carry one; none outlives its CR; lost
  ones come back; the cached list may be trusted; markers of deleted objects
  are collected and live objects never lose theirs to the collector.
- Bindings: no right is lost or duplicated on the way, manual Bindings stay
  unless `prune` is set, and the Bindings end up as the rules say.
- CRs with one slug: one manager at a time, nothing left behind when all are
  gone, and the Application ends up managed as long as a CR is there.
- Fields: what the spec leaves out stays as people have it, adoption with
  `IfMatch` changes nothing, and what the spec names ends up as it says.
- Outposts: a Provider joins the one of the spec, leaves the recorded one without a
  gap, and no other Provider is touched.
- The queue: no CR is forgotten, delays are kept and capped, and those who wait for
  another CR or for the role are woken.
- Deletion: the finalizer goes away, and after it nothing carries a marker.

## 2. Modules

| module | models | run with |
|---|---|---|
| `MarkerCache` | `markers.go`, `marker.go`, the collector of `gc.go`, and the part of reconcile and release that uses markers | itself |
| `Ownership` | what the marker cache promises: the abstract specification that `MarkerCache` implements | `MarkerCache` |
| `MarkerCacheProofs` | proofs about `MarkerCache`, the refinement included | `tlapm` |
| `Bindings` | `bindings.go` | `MCBindings` |
| `BindingsProofs` | proofs about `Bindings`, the recursion of `matchBindings` included | `tlapm` |
| `Takeover` | `conflict.go`, `application.go`, `provider.go`, `deletion.go` for CRs with one slug | itself |
| `TakeoverProofs` | proofs about `Takeover` | `tlapm` |
| `ProviderSync` | `desired.go`, `patch.go`, `adoption.go`, `credentials.go`, the fields in `application.go` and `provider.go`, the outcome of `reference/` | `MCProviderSync` |
| `ProviderSyncProofs` | proofs about `ProviderSync` | `tlapm` |
| `Outpost` | `outpost.go`, the part of `deletion.go` about Outposts | itself |
| `OutpostProofs` | proofs about `Outpost` | `tlapm` |
| `WorkQueue` | the watches, predicates and results of `authentikapplication_controller.go`, `retry/`, the wake-ups of `conflict.go` and `credentials.go`, the role events of `gc.go` | itself |
| `WorkQueueProofs` | proofs about `WorkQueue` | `tlapm` |
| `OrderLemmas` | least and greatest members of sets of numbers, for the proofs | `tlapm` |

The modules cut the system along what it shares. `MarkerCache` has the cache,
the role and the two goroutines, and abstracts objects to a pk and a life.
`Bindings`, `Takeover` and `ProviderSync` have the objects with their contents and
take the marker list to be current; that this is sound for objects of a CR that is there
is what `CacheTrusted` and `MarkersRestored` of `MarkerCache` say. `Outpost` has the
lists of the Outposts and starts where each Provider exists. The four take for
granted that the worker comes back to every CR; `WorkQueue`, in which the work of a
reconcile is only an outcome, shows it (`Attended`, `Released`).

### MarkerCache

`object`, `role`, `perms` are the server; `known` is `Marker.roleUUID`; `cached`
and `age` are `markerCache.objects` and whether it was fetched within the TTL.
`markerCache` holds `mu` over a whole operation, so what is going on under it is
one tuple: who holds it (`mu`), which operation (`op`), for which object (`arg`)
and at which request (`pc`). `FindRole`, `CreateRole`, `RefindRole` and
`ListManaged` are the requests of `refreshLocked`; `Mark`, `IsManaged`,
`Contains`, `Unmark`, `CopyList`, `MarkIfExists` and `UnmarkOrphan` finish an
operation. The worker starts operations with `BeginEnsure`, `BeginIsManaged`,
`BeginContains` and `BeginRemove`, the collector with `BeginCollect` and
`BeginRemoveIfOrphaned`. `CallFails` is any request that fails, before or after
it took effect. `Restart` empties the memory of the operator. Role UUIDs are
numbers that are never used again.

The order in which a CR's objects are examined is left open: `todo` is a set.
Applications and Providers are recorded when they are claimed, adopted Bindings
at the end of the reconcile (`adopted`), as in the code.

`status` is what the API server stores, `view` the informer's copy of it and `own`
the copy in memory. Reconcile and finalizer `Read` the informer. `PatchStatus` writes
to `status`, and for a CR of `Lagging` the informer may show the write only later
(`Deliver`); what it overwrites is recorded of objects that are gone, or that the copy
in memory does not have. `Finish` is the status write with which a reconcile ends,
whatever ended it. `Visible` is `checkConflict` from the side of an object: another CR
keeps it only as long as the informer shows it with the record and not as being
deleted, so an object may be taken over while its holder is still to be finalized.
Two history variables: `claim`, the CR for which an object was last recorded or
marked, and `misled`, the CRs that were once read from an old copy. What a release
cannot know of is the exception in the properties, and `misled` states it.

`Ownership` knows only objects, markers, claims and the lives of the CRs: an object
is marked only while it is claimed, loses its marker only by the release of a CR that
is being deleted, because it is gone, or with the whole role, and no CR goes away and
leaves its marker on an Application or Provider, unless it was `misled`. A claim may
be taken over by any CR that is there (`Claim`), and the release of the former holder
then takes the marker all the same, which is the subject of `never_fight`.
`ImplementsOwnership` maps `marked` to `perms` and `holder` to `claim`; the role, the
cached list, the mutex and the requests have no counterpart, and a step of theirs is a
stutter.

### Bindings

One CR and its Application. `alive`, `binding` and `marks` are the server,
`spec` and `status` the CR, the rest are the local variables of
`reconcileBindings` under their own names (`managed`, `unmanaged`, `maxOrder`,
`matched`, `kept`). Each request is an action; `AssignPass` is the closure
`assign` of `matchBindings` as a recursive function over the rules, `AssignRule` the
body of its loop. The server's
unique constraint on (policy, target, order) is `OrderTaken`. `cr` has the rules,
which are translated once, and `prune` the flag, which `handleUnmanagedBindings` reads
from the CR in memory: the answer to every status patch replaces that CR by the stored
one (`PatchStatus`), so a `prune` that was set in the meantime is obeyed together with
the rules from before. `byHand`, `lost`, `touched` and `asked` are history variables;
the last says that the CR had `prune` at some time since the reconcile began. A subject
stands for a group, a user or a policy; only policies are under the constraint.

### Takeover

CRs are numbers in the order that breaks a conflict. `app` and `prov` are the
pks of the one Application with the slug and the one Provider with the name;
`taken` says that an unrelated Application uses that Provider. `rec` is what the
API server stores in each status, `view` what the informer shows: the watch is
one ordered stream, so `view` is a snapshot of all CRs at some earlier moment,
and `Deliver` brings it up to date. `stale` is chosen once: in a behaviour without
it every write shows at once, with it only the CRs of `Lagging` are created. `base` and `loc` are `s.base` and `s.app`;
`PatchStatus` merges their difference into what is stored, `Finish` is the
status write with which every reconcile ends. A Patch answers with the stored
object, which is why `Record` reads back and why `StartReconcile` has the current
status when it has to add the finalizer.

### ProviderSync

One CR, its Application and the Provider with the name that the spec gives it.
An object is a function from fields to values; a desired state and the body of a
request are functions on some of the fields, so that "not managed" and "not
sent" are "not in the domain". `Desired...` translate a spec (`Managed` drops what
is left unset, the nil pointers of the code), `Diff...` make the body, `f ++ g` is an
object with the fields of `g` that `f` does not have, `CheckProxyMode` is the validation of the server, `Store` what it keeps and
`Listing` what it returns: lists come back in any order. Fields that the code
treats alike have one representative (`token_validity` for the optional ones,
`property_mappings` for the lists, `client_secret` for the credentials, `group`
for the Application). `found` is how many objects have the name of a reference:
with any number but one the reconcile ends before it writes. The answer to a status
patch replaces the spec in memory, but not what was resolved from the one before: the
scopes and whether there are credentials (`Reread`); once the desired Provider is made,
only the fields of the Application come from the new one (`RereadApplication`). A spec is a record with `NoScopes` or `Unset` for
what it leaves out. Each request is an action, and between any two people may edit objects, references, spec and
Secret. `hand` and `owned` are history variables: the value a person or the
creation gave a field, and the fields that a desired state had since. `quiet`
says that the objects were met under `IfMatch` and nothing was edited since.

### Outpost

`members` is the list of Providers of every Outpost, `provs` the Providers that
exist; a Provider is named after its CR, or made by hand. `crs` and `view` are the CRs
as stored and as the informer shows them, `copy` the one a reconcile works on.
`GetOutpost`, `JoinOutpost`, `GetPrevious`, `LeavePrevious` and `RecordOutpost` are the
requests of `reconcileOutpost`; `FindOutpost`, `LeaveOutpost` and `DeleteProvider`
those of the finalizer with deletionPolicy `Delete`. `seen` is the list as fetched:
what is written is `seen` with or without the own Provider. The server answers 404
for an Outpost and 400 for a list with a Provider that is gone (`Accepts`). `edited`
is a history variable: the Outposts that people changed after the list was read. The
documentation accepts that such an edit may be lost, so the properties except it.

### WorkQueue

Every CR has the same slug. `own` and `sameSlug` are the events that the `For` watch
and the watch of `sameSlugRequests` have not handled; `Notify` applies the two
predicates to a write. `wait` is the queue: one entry per CR, with the time until it
is ready; `Add` keeps the earlier one, as the priority queue of controller-runtime
does. `ReturnDone`, `ReturnResync` and `ReturnError` are the results of a reconcile,
`When` and `backoff` the rate limiter in units of the base delay; the token bucket,
which all CRs of the cluster share, is any debt up to `MaxDebt`. `RequeueAll` lists
the CRs and leaves the sending to `sender`, the goroutines of `sendRoleEvents`;
`Stop` is the end of the manager, with which a sender gives up. `pk` says whether the
status records an Application; a reconcile that did some work ends with either,
since `observeApplication` forgets one that is gone and a later request may fail.
`hold`, `beaten`, `missed` and `owed` are history variables: the delay the last
reconcile asked for, the CRs that ended with Conflict, those of them whose wake-up
`sameSlugRequests` lost with a failed list, and those not reconciled since the role was
recreated.

A write shows in the cache at once here, and of several events of one kind for one
CR there is one, since their handlers do the same.

## 3. Runs

| run | instance | shows |
|---|---|---|
| `marker_safety` | an Application, a CR that deletes and one that adopts and retains, both with a lagging informer, 2 role UUIDs, 2 failures or restarts | `ManualStaysUnmarked`, `GoneLeavesNoMarker`, `CacheTrusted`, `CollectorSparesLiveObjects`, `ImplementsOwnership` |
| `marker_liveness` | one Binding, one CR with a lagging informer, 2 role UUIDs, 1 failure | `MarkersRestored`, `FinalizerRemoved`, `OrphansCollected` |
| `finalizer_without_gc` | the same without the collector | `FinalizerRemoved` fails |
| `retain_binding` | one adopted Binding, 1 failure | `RetainReturnsToManual` fails |
| `bindings` | a group and a policy, 5 specs, 2 edits, 1 interruption, 8 Bindings | `OrderIsFree`, `NoDuplicateRight`, `DeletesOnlyWhenCovered`, `ManualBindingsKept`, `DriftRepaired` |
| `takeover` | 2 CRs with a current informer, or 1 with a lagging one, 2 pks of each kind, 1 interruption | `OneManager`, `ReleasedAll`, `Converges` |
| `never_fight` | 2 CRs, one with deletionPolicy Delete | `NeverFight` fails |
| `provider_sync` | 4 specs of forward auth and OAuth2, one with credentials, 4 Providers made by hand, 2 edits, 1 interruption | `UnmanagedFieldsKept`, `AdoptedUnchanged`, `SecretKept`, `DriftRepaired` |
| `proxy_drift` | one spec in reverse proxy mode, 1 edit | `DriftRepaired` fails |
| `outpost` | 2 CRs, a Provider made by hand, 2 Outposts, 2 edits, 1 interruption | `OthersKept`, `NeverDetached`, `LeftBeforeForgotten`, `EventuallyServed`, `EventuallyReleased` |
| `forgotten_outpost` | 1 CR, 2 Outposts, 1 edit | `NeverForgotten` fails |
| `work_queue` | 2 CRs in any state in which the operator can start, resync interval of 2 base delays, 1 edit, 2 failures | `Attended`, `LoserIsWoken`, `RoleEventsReach`, `DelayKept`, `StopEnds`, `Released` |

Each module has one type invariant, checked in its passing run for safety.

### Bounds and why they are enough

- `MaxRoles = 2`: the role is deleted once and made again; a second loss starts
  from a state that the first already reaches, except for the number.
- One object and two CRs in `marker_safety`: the object passes from one CR to
  another and back, one CR is released while the other is reconciled, and the
  collector's walk is interrupted before each of its requests. The properties speak
  of one object; with an Application and a Binding and one lagging CR they were
  checked once, which takes longer than a run should, and the proofs of section 5
  have no bound on objects. Bindings are in `marker_liveness` and `retain_binding`.
- `MaxFails = 1` in most runs, 2 in `marker_safety`: one failure at every request. Recovery starts from what is
  stored, so two failures differ from one only if the first one's recovery is
  cut short; the retries inside the interrupted reconcile of each are the same
  code. The proofs of section 5 have no bound on failures.
- `MaxEdits = 2`, `MaxBindings = 8` in `bindings`: a Binding made by hand or an
  edit of the spec before a reconcile, and one more change in the middle of it; the
  UUIDs suffice for those of people and of the operator. The specs have a rule for
  each kind of subject, a negated one, one that is repeated, none at all, and prune.
- `UIOrders = {0, 10}`: people give their Bindings the default order, or the one
  that the operator's first Binding would get, on which a collision depends.
- `MaxEdits = 2` in `provider_sync`: an edit between the GET and the PATCH of a
  reconcile, and one before it; detaching a Provider of the other type and
  attaching it again. From the Providers made by hand two edits reach those that
  match a spec, differ in a managed field or in one it leaves out.
- `MaxPks = 2`: an Application and a Provider are lost and made again once. At
  the bound no more can be made, so `Converges` excepts that case by name, and
  deadlock is not checked there.
- `Lagging` of `takeover` has one CR: its reconciles and its finalizer run on old
  copies of itself. What a lagging informer does to two CRs is in section 6. In
  `marker_safety` both CRs lag, in the other runs of `MarkerCache` the only one.
- `outpost`: two edits are a change of the Outpost in the spec and a second one in
  the middle of the move, of the spec, of a list, of an Outpost or of the CR. Two
  CRs show that the list of one reconcile is not written by another.
- `work_queue`: `Resync = 2` and `MaxFails = 2` make the delay of a CR double and meet its cap;
  `MaxDebt = 3` exceeds the resync interval, so that the cap of the token bucket
  matters. One edit is any of a creation, an edit, a deletion, a changed Secret or a
  recreated role; the initial states supply what earlier edits would have done. The
  proofs of section 5 have none of these bounds.
- Where `CHECK_DEADLOCK FALSE` stands the system may stop: all CRs are gone, the
  collector is off, or the manager has stopped.

## 4. Fairness

Nothing is assumed of people or of failures; failures are bounded by a constant
and so finitely many. Assumed is:

- a request under way is answered, with or without an error: every request has
  the HTTP client's timeout (`WF` of the steps inside an operation);
- the worker comes to every CR: `finish` requeues each after the resync interval,
  an error after a backoff that is capped by it, and the queue is first in, first
  out (`SF` of `StartReconcile` and `StartFinalize`, since the worker is
  sometimes busy with another CR). That the requeues are there is not assumed but
  shown in `WorkQueue`, under `SF` of taking a ready entry alone;
- a Go mutex does not starve a waiter (`SF` of the operations that lock `mu`);
- the clock goes on: the cached list expires, the collector's ticker fires, and a
  delay in the queue ends (`WF` of `Tick`);
- events are handled and sent as long as the manager runs, and a sender whose
  channel has no reader sees that the manager has stopped (`WF` of `Deliver` in
  `WorkQueue`); of two ready cases `select` may take either;
- the informer catches up (`WF` of `Deliver`).

In `ProviderSync` there is one CR and one worker, so `WF` of `Reconcile`, the
disjunction of its steps, says all of this.

Role events, which reconcile all CRs at once after the role was recreated, are
not assumed in `MarkerCache`: they can be lost (`requeueAll` gives up when its list
fails), and `MarkersRestored` holds by the resync alone.

## 5. Proofs

`MarkerCacheProofs` proves for every set of objects and CRs, every choice of
policies and every bound (`MarkerCacheAssumption`):

| theorem | statement |
|---|---|
| `TypeCorrect` | `Spec => []TypeOK` |
| `ManualObjectsStayUnmarked` | `Spec => []ManualStaysUnmarked` |
| `NoMarkerSurvivesItsCR` | `Spec => []GoneLeavesNoMarker` |
| `CachedListTrusted` | `Spec => []CacheTrusted` |
| `CollectorSafe` | `Spec => CollectorSparesLiveObjects` |
| `OwnershipImplemented` | `Spec => ImplementsOwnership` |

None of these is inductive. `IInv` adds to `TypeOK`:

- `Shape`: which operation holds the mutex belongs to which goroutine and job;
- `Unborn`: a pk that was not handed out yet appears nowhere, in particular in
  no stale copy of the list;
- `Claimed`: what the worker is about to mark, and all that the server or the
  cache calls marked, is claimed by a CR. This gives `ManualStaysUnmarked`;
- `Examining`: a CR under reconcile is there, and a release unmarks only what its
  copy of the status names;
- `Current`: unless the CR was once read from an old copy, the status in memory is
  the stored one and has the Applications and Providers that are to be marked;
- `Recorded`: such a CR has recorded the Applications and Providers it claims, is not
  gone, and a release under way has them still to do. This gives
  `GoneLeavesNoMarker`. Bindings are excepted, since adopted ones are marked
  first and recorded later (section 6);
- `Orphan`: the object that the collector is about to unmark is gone for good,
  because a pk is never reused. This gives `CollectorSparesLiveObjects`;
- `Trusted`: what a fresh list has in excess of the server is recorded by a CR that
  is being deleted and will be released again. This gives `CacheTrusted`.

`InitEstablishes` proves it of the initial states. One lemma per group of actions
(requests under the mutex, reconcile, release, collector, environment) proves
that a step keeps it, with a case per action. They are put together in the
invariance theorem from which the first five follow.

`OwnershipImplemented` uses the same invariant for the refinement: `LockedRefines`,
`WorkerRefines` and `EnvironmentRefines` name for each action the abstract one that it
is, or show that it is a stutter. `Claimed` makes `Mark` a `MarkFor` and `Current` with
`Recorded` one that is allowed; `Examining` makes `Unmark` the `Release` of a CR that is
being deleted, `Orphan` makes the collector's request a `Collect`, and `Recorded` is
what `FinishDeletion` asks for. A read from an old copy is a `Mislead`.

`WorkQueueProofs` proves for every set of CRs, every resync interval, debt of the
token bucket, and number of edits and failures (`WorkQueueAssumption`):

| theorem | statement |
|---|---|
| `TypeCorrect` | `Spec => []TypeOK` |
| `NobodyForgotten` | `Spec => []Attended` |
| `LosersAreWoken` | `Spec => []LoserIsWoken` |
| `RoleEventsArrive` | `Spec => []RoleEventsReach` |
| `DelaysAreKept` | `Spec => DelayKept` |

Its `IInv` adds to `TypeOK`:

- `Bounded`: no entry waits longer than the resync interval, which rests on the cap
  in `When` and on `backoff` staying in `1..Resync`;
- `HasEntry`: a CR that exists and has neither an entry nor an event of its own is
  the one under reconcile, and was found when it was read: if it was not found then
  and is there now, its creation is an event. With `Bounded` this gives `Attended`;
- `Holding`: as long as a delay holds, the CR is not being reconciled, has no event of
  its own, and its entry waits at least that long. This gives `DelayKept`;
- `Verdict`: the CR under reconcile is in `beaten` only from the check to the end;
- `Woken`: `LoserIsWoken` without the case that the CR is being reconciled, since the
  reconcile under way may end with Conflict. The record of the winner may go in any
  reconcile, and the status write that removes it is an event for the others; the
  losers whose wake-up a failed list swallowed are in `missed` and excepted by name;
- `RoleEventsReach`, which is inductive together with `TypeOK`.

`OutpostProofs` proves for every set of CRs, Providers and Outposts and every number
of edits and failures (`OutpostAssumption`):

| theorem | statement |
|---|---|
| `TypeCorrect` | `Spec => []TypeOK` |
| `SharedListsKept` | `Spec => OthersKept` |
| `MovesWithoutGap` | `Spec => NeverDetached` |
| `OutpostLeftFirst` | `Spec => LeftBeforeForgotten` |

They need what holds between the requests of a reconcile. `Fetched`: a list that
people left alone since it was fetched is still the one on the server, but for
Providers deleted meanwhile, with which the server would refuse it; this gives
`OthersKept`. `Joined`: the Provider is in the Outpost of the spec before it leaves the
recorded one, which gives `NeverDetached`. `Left`: it has left that one when the new
one is recorded, which gives `LeftBeforeForgotten`. `Shape` ties the worker's variables
together.

`TakeoverProofs` proves for every number of CRs, pks and failures, every choice of
policies and of lagging CRs (`TakeoverAssumption`):

| theorem | statement |
|---|---|
| `TypeCorrect` | `Spec => []TypeOK` |
| `AtMostOneManager` | `Spec => []OneManager` |
| `AllReleased` | `Spec => []ReleasedAll` |

`IInv` is `Typed` (no pk is held that authentik has yet to give out), `MarksGiven`
(the same of marked objects; at the points of `WithProvider` the reconcile has the pk
of a Provider) and, in the behaviours without `stale`, `Current`:

- `Shown`, `Untouched`: the informer shows what is stored; a CR without a finalizer
  has recorded nothing;
- `Worker`, `AtPoint`: the worker's copy of the status is the stored one, a pk that it
  dropped from the copy in memory is of an object that is gone, and what the status
  says at each point of the reconcile, so that no record is lost by overwriting it;
- `OneRecorded`, `Passed`: one CR that is alive has recorded an Application, and from
  `checkConflict` on it is the one under reconcile. `OneRecorded` is preserved because
  `Passed` holds when a pk is recorded, and `Passed` is established because whoever wins
  in `conflictWinner` has recorded an Application if any CR has (`WinnerRecorded`). This
  gives `OneManager`;
- `AppRecorded`, `ProvRecorded`, `Unmarked`: a marked object that exists is recorded by
  a CR whose finalizer is still there, and the finalizer goes after the marker. This
  gives `ReleasedAll`.

`BindingsProofs` proves for every set of subjects, every set of specs with any list of
rules, and every number of Bindings, edits and failures (`BindingsAssumption`):

| theorem | statement |
|---|---|
| `TypeCorrect` | `Spec => []TypeOK` |
| `FreshOrder` | `Spec => []OrderIsFree` |
| `NoDuplicates` | `Spec => []NoDuplicateRight` |
| `ManualKept` | `Spec => ManualBindingsKept` |
| `CoveredWhenDeleting` | `Spec => DeletesOnlyWhenCovered` |

The lemmas come first: what `matchBindings` returns for any rules and Bindings
(`MatchFacts`: a rule gets a Binding with its subject, and a rule that gets none finds
every such Binding in use). `AssignPass` is recursive; `PassExists` and `AssignAll`
replace the induction over the rules by a least counterexample, which `OrderLemmas`
provides. `IInv` adds to the types:

- `NoneByHand`: nothing that is marked, recorded, managed, matched or kept was made in
  the UI without being adopted. With `Asked` (the flag that the reconcile acts on, and
  the one that any status patch may put in its place, is one that the CR had since the
  reconcile began) this gives `ManualBindingsKept`;
- `OrdersSeen`: unless a Binding was created since the list, every one of them is in
  `rest` with the order that was listed, or has at most `maxOrder`. With `Sorted` (each
  listed Binding is in one place, and there or deleted in the UI) this gives
  `OrderIsFree`;
- `WellMatched`, `AllAdopted`: a rule has a managed Binding or the one offered to it, no
  managed one is left for a rule without, and no offer is left when the first rule is
  written. This gives `NoDuplicateRight`;
- `Served`: each rule that was written has a Binding that is kept. With `Sorted` this
  gives `DeletesOnlyWhenCovered`.

`ProviderSyncProofs` proves for every set of specs and of Providers made by hand and
every number of edits and failures (`ProviderSyncAssumption`):

| theorem | statement |
|---|---|
| `TypeCorrect` | `Spec => []TypeOK` |
| `FieldsKept` | `Spec => []UnmanagedFieldsKept` |
| `AdoptionChangesNothing` | `Spec => AdoptedUnchanged` |
| `SecretNotOverwritten` | `Spec => SecretKept` |

The lemmas say which fields and values a desired state has (`ProxyDesired`,
`OAuth2Desired`), that a body is empty exactly when the object has those values
(`BodyFacts`, `FitsListing`; a list that the server returns has the members of the
stored set, by counting), and that what the server makes of a create or of a PATCH
that it accepts is a Provider again (`CreatedTyped`, `PatchTyped`). `IInv` adds to
`TypeOK` and `UnmanagedFieldsKept`:

- `Placed`: the spec in memory has the type of the stored one, also after a status
  patch replaced it (`RereadFacts`); the Provider that a request goes to has that type
  or is gone; an Application is attached to no Provider that is gone;
- `Met`: since the objects were met under `IfMatch` without an edit, the reconcile's
  copies are current, no Provider is created, and it goes beyond the adoption only with
  objects that need no update (`Matching`). `Matching` survives the export of the
  credentials, because the Secret gets the value that the Provider has (`SecretFits`).
  This gives `AdoptedUnchanged`.

The inductive invariants were checked with TLC on the instances of section 3 before
they were proved. Writing these proofs changed two things. `NoDuplicateRight` did not
hold of a CR that repeats a rule: it now names that case, and the run has such a CR.
`ProviderSync` used `@@` and `:>`, which `tlapm` does not define; they are written out.

So every safety property and action property of a passing run is also a theorem. Only
model-checked: liveness (`MarkersRestored`, `FinalizerRemoved`, `OrphansCollected`, the
two `DriftRepaired`, `Converges`, `EventuallyServed`, `EventuallyReleased`, `StopEnds`,
`Released`), which needs fairness and `ENABLED`; and the violations of section 6, which
are traces.

## 6. What the checks found

Each is a run that is expected to fail; the trace it prints is the scenario.

- `finalizer_without_gc`: `remove` uses the role UUID that the operator remembers
  and never refreshes it. When the role was deleted in the UI and the collector
  is off, a CR that is then deleted keeps its finalizer until some other CR is
  reconciled, and for ever if there is none.
- `retain_binding`: an adopted Binding is marked before its UUID is recorded. If
  the reconcile fails in between and the CR is deleted, the Binding keeps the
  marker. It is the reason why `GoneLeavesNoMarker` speaks of Applications and
  Providers only.
- `never_fight`: CR 1 is being deleted, so CR 2 takes over the Application; the
  finalizer of CR 1 then deletes, or unmarks, what CR 2 manages. `Converges`
  shows that CR 2 makes it again.
- `proxy_drift`: `DiffProxyProvider` adds `mode` to every body, but `internal_host`
  only when it differs. For mode `proxy` the server wants both, so when any other
  field was changed, in the UI or in the spec, every PATCH is answered with 400 and
  the Provider is never repaired. `provider_sync` shows that the forward auth modes
  are not affected.
- `forgotten_outpost`: the first reconcile adds the Provider to Outpost A while the
  spec is changed to B. The informer shows the change, and not yet the status that
  the reconcile wrote at its end, so the second reconcile finds no previous Outpost,
  joins B and records it. The Provider stays in A, which is recorded nowhere any
  more. `LeftBeforeForgotten` shows that nothing else makes the operator forget one.

Nine limits of the same kind are stated by no run. A new Application has no
Binding, and so is public, until its first one is created, and a failure makes that
last; the write order that `docs/spec.md` speaks of protects the changes that follow.
A reconcile that joins an Outpost and then fails has not recorded it: when the spec
is changed to another Outpost before the retry, the Provider stays in the first. When a CR is deleted while it
is reconciled, the finalizer may run on a copy from before the reconcile's last
status write; it releases what that copy names, and a marked object stays
(`ReleasedAll` speaks of a current informer, `GoneLeavesNoMarker` excepts the CRs in
`misled`; without `~stale`, or without the exception, TLC prints the trace). With a lagging informer two
CRs created in the same second may both record the Application, until the
record of the other one is delivered (`OneManager` speaks of a current
informer). The Application is compared by pk and then deleted by slug, so one that
replaces it in between is deleted. `access.rules` may repeat a rule, and
`matchBindings` offers the unmanaged Bindings to the first rule they match, also when
that one has a managed Binding already and does not need it: the repetition then gets a
new Binding although an unmanaged one grants the same right (the exception in
`NoDuplicateRight`). When `sameSlugRequests` cannot list the CRs, the event of the winner
wakes nobody, and a loser that would win now waits for its resync (the exception in
`LoserIsWoken`). A `prune` that is set while the Bindings are reconciled deletes the
manual ones beside the rules from before the edit; the next reconcile makes the Bindings
of new rules (`DriftRepaired`), but one made by hand that a new rule would have adopted is
gone. Credentials that are added to or removed from the spec between the resolution and a
status patch meet what was resolved without them, or the other way round: after a removal
`exportCredentials` (`credentials.go:66`) dereferences a nil pointer, which
controller-runtime recovers from as a failed reconcile (the last disjunct of
`CreateSecret`), and the next one has them right.

## 7. What is not modelled

- Lists of more than one page, which are read in several requests: a list is one
  step everywhere. The API client's HTTP layer otherwise.
- Conditions and Kubernetes Events, which nothing reads back.
- In `MarkerCache`, an informer that catches up with one status write and not yet with
  the next: `Deliver` brings all up to date. A CR that the informer still shows after its
  finalizer was removed is finalized once more in `Takeover`.
- In `Outpost`, the loss of the own Provider and its creation anew, which is in
  `Takeover`; in `WorkQueue`, an informer that lags behind the events it delivers,
  which is in `Takeover` and `Outpost`, and more than one slug. A second slug shares
  only the worker and the token bucket, and the latter is any debt already.
- Of the resolver, the kinds of references and the text of its errors; of the
  adoption, the list of differences that it shows in the status.
- In `ProviderSync`, markers, a second CR and the deletion of the Application,
  which are in the other modules.
- Configuration, metrics, the version check, the Helm chart, generated code and
  CRD validation: input/output or text without state that matters here.
- Several replicas: leader election leaves one worker and one collector. What
  another replica does before it leads, creating the role, is
  `OtherReplicaCreatesRole`.
- Changing `slug`, which is immutable in the CRD; changing `adopt` or
  `deletionPolicy` in the modules other than `ProviderSync`.

## 8. Plan

In this order:

1. done: `MarkerCache`, `Bindings`, `Takeover`, `ProviderSync`, `Outpost`, `WorkQueue`, the
   abstract `Ownership`; proofs of all safety and action properties, and the refinement of
   `Ownership`.
2. `Takeover` as an implementation of an abstract specification of its own, in which
   an Application passes from one CR to the next, proved with the invariant of section 5.
3. What a finished reconcile leaves behind, as a safety property that the liveness
   properties rest on: a reconcile of `Bindings` or `ProviderSync` that ends without an
   interruption or an edit leaves `Agree`.

Runs stay few: one or two per module for what holds, and the runs of
section 6. A new module whose question is close to an existing run takes its
place or joins it.
