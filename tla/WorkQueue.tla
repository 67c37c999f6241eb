------------------------------ MODULE WorkQueue ------------------------------
(***************************************************************************)
(* When a CR is reconciled: the events of the watches, the queue with its  *)
(* delays, the rate limiter, the result of every reconcile, the wake-up of *)
(* the CRs that share a slug, and the events sent after the ownership role *)
(* was recreated.  What a reconcile does in authentik is an outcome here.  *)
(*                                                                         *)
(* Every CR of the module has the same slug and wins it by its recorded    *)
(* Application first, then by its age.  A write shows in the informer's    *)
(* cache at once; the cache that lags is the subject of Takeover.          *)
(***************************************************************************)
EXTENDS Naturals

CONSTANTS CRs,      \* numbered by age, then name
          None,     \* no CR, and no entry in the queue
          Resync,   \* --resync-interval, in units of baseDelay
          MaxDebt,  \* bound: the delay of the token bucket that all retries share
          MaxEdits, \* bound: edits by people
          MaxFails  \* bound: failed requests

ASSUME WorkQueueAssumption ==
  /\ CRs \subseteq Nat /\ None \notin Nat
  /\ Resync \in Nat \ {0} /\ MaxDebt \in Nat
  /\ MaxEdits \in Nat /\ MaxFails \in Nat

VARIABLES
  phase, pk,     \* of every CR: its life, and whether status.applicationPK is set
  own, sameSlug, \* the CRs with an event that the one watch, or the other, has not handled yet
  wait,          \* the queue: how long until the entry of a CR is ready
  backoff,       \* the rate limiter: the delay of the next failure of a CR
  cur, pc,       \* the worker: the CR that it reconciles, and how far
  role,          \* whether the role was recreated since the last refresh
  sender,        \* the events that the goroutines of requeueAll have to send
  stopped,       \* the manager has stopped
  hold,          \* history: the delay that a reconcile asked for, while nothing else happened
  beaten,        \* history: the CRs found in Conflict since they were read last
  missed,        \* history: those of them whose wake-up was lost with a failed list
  owed,          \* history: the CRs not reconciled since the role was recreated
  edits, fails

watches == <<own, sameSlug>>
kube    == <<phase, pk, watches>>
queue   == <<wait, backoff>>
worker  == <<cur, pc>>
events  == <<role, sender, stopped>>
history == <<hold, beaten, missed, owed>>
vars    == <<kube, queue, worker, events, history, edits, fails>>

Exists(c) == phase[c] \in {"new", "active", "deleting"}

TypeOK ==
  /\ phase \in [CRs -> {"absent", "new", "active", "deleting", "gone"}]
  /\ pk \in [CRs -> BOOLEAN]
  /\ own \subseteq CRs /\ sameSlug \subseteq CRs
  /\ wait \in [CRs -> Nat \cup {None}]
  /\ backoff \in [CRs -> 1..Resync]
  /\ cur \in CRs \cup {None}
  /\ pc \in {"idle", "notFound", "ensure", "check", "lost", "work", "release"}
  /\ (cur = None) <=> (pc = "idle")
  /\ role \in {"known", "recreated"} /\ sender \subseteq CRs /\ stopped \in BOOLEAN
  /\ hold \in [CRs -> Nat] /\ missed \subseteq beaten /\ beaten \subseteq CRs /\ owed \subseteq CRs
  /\ edits \in 0..MaxEdits /\ fails \in 0..MaxFails

(* The operator starts, for the first time or again: the worker begins     *)
(* once every CR that there is was reported as created and queued, and the *)
(* limiter knows no failures.                                              *)
Init ==
  /\ phase \in [CRs -> {"absent", "new", "active", "deleting"}]
  /\ \A c, d \in CRs : c < d /\ phase[c] = "absent" => phase[d] = "absent"
  /\ pk \in [CRs -> BOOLEAN]
  /\ \A c \in CRs : pk[c] => phase[c] \in {"active", "deleting"}
  /\ own = {} /\ sameSlug = {}
  /\ wait = [c \in CRs |-> IF Exists(c) THEN 0 ELSE None]
  /\ backoff = [c \in CRs |-> 1]
  /\ cur = None /\ pc = "idle"
  /\ role = "known" /\ sender = {} /\ stopped = FALSE
  /\ hold = [c \in CRs |-> 0] /\ beaten = {} /\ missed = {} /\ owed = {}
  /\ edits = 0 /\ fails = 0

-----------------------------------------------------------------------------
(* The watches.  A write to a CR is one of: "created", "spec" (a new       *)
(* generation), "deletionStarted", "removed", "pk" and "other".            *)

\* Mutant: every update of a CR that is being deleted passes.
DeletionStartedPasses(c, change) == change = "deletionStarted" \/ phase[c] = "deleting"

\* The deletionStarted predicate.
DeletionStarted(c, change) == change = "deletionStarted"

\* GenerationChangedPredicate or deletionStarted; both pass every creation and
\* removal.
Passes(c, change) == change \in {"created", "spec", "removed"} \/ DeletionStarted(c, change)

\* Mutant: the start of a deletion does not change the winner.
ConflictPredicateWaits(change) == change \in {"created", "removed", "pk"}

ConflictPredicate(change) == change \in {"created", "removed", "deletionStarted", "pk"}

Notify(c, change) ==
  /\ own' = IF Passes(c, change) THEN own \cup {c} ELSE own
  /\ sameSlug' = IF ConflictPredicate(change) THEN sameSlug \cup {c} ELSE sameSlug

-----------------------------------------------------------------------------
(* The queue has at most one entry of a CR, the earliest that was asked    *)
(* for; it is not handed out while the CR is being reconciled, and it      *)
(* takes nothing after the manager has stopped.                            *)

Earliest(old, d) == IF old # None /\ old < d THEN old ELSE d

Add(S, d) ==
  wait' = IF stopped THEN wait ELSE [c \in CRs |-> IF c \in S THEN Earliest(wait[c], d) ELSE wait[c]]

\* Something other than its own reconcile asks for the CRs of S now.
Wake(S) ==
  /\ Add(S, 0)
  /\ hold' = [c \in CRs |-> IF c \in S THEN 0 ELSE hold[c]]

Larger(a, b) == IF a < b THEN b ELSE a
Smaller(a, b) == IF a < b THEN a ELSE b

\* Mutant: the delay of the token bucket is not capped.
WhenUncapped(c, debt) == Larger(backoff[c], debt)

\* cappedRateLimiter.When: the longer one of the delays of the CR and of the
\* token bucket, at most the resync interval.  The debt of the bucket depends
\* on the failures of every CR of the cluster.
When(c, debt) == Smaller(Larger(backoff[c], debt), Resync)

Idle == cur' = None /\ pc' = "idle"

\* The delay holds from now on unless there was a reason to come back before.
Hold(d) ==
  hold' = [hold EXCEPT ![cur] = IF wait[cur] # None \/ cur \in own THEN 0 ELSE d]

Forget == backoff' = [backoff EXCEPT ![cur] = 1]

\* ctrl.Result{}, nil
ReturnDone == Forget /\ Hold(0) /\ UNCHANGED wait /\ Idle
\* ctrl.Result{RequeueAfter: r.ResyncInterval}, nil
ReturnResync == Forget /\ Hold(Resync) /\ Add({cur}, Resync) /\ Idle
\* Mutant: the delay of a CR doubles for ever.
ReturnErrorDoubles ==
  /\ \E debt \in 0..MaxDebt : Hold(When(cur, debt)) /\ Add({cur}, When(cur, debt))
  /\ backoff' = [backoff EXCEPT ![cur] = 2 * @]
  /\ Idle

\* ctrl.Result{}, err: AddRateLimited
ReturnError ==
  /\ \E debt \in 0..MaxDebt : Hold(When(cur, debt)) /\ Add({cur}, When(cur, debt))
  /\ backoff' = [backoff EXCEPT ![cur] = Smaller(2 * @, Resync)]
  /\ Idle

-----------------------------------------------------------------------------
(* The handlers of the watches.                                            *)

\* For: EnqueueRequestForObject.  The entry is ready; why it came is not
\* known, so hold stays as it is.
HandleOwn(c) ==
  /\ c \in own /\ own' = own \ {c}
  /\ Add({c}, 0)
  /\ UNCHANGED <<phase, pk, sameSlug, backoff, worker, events, history, edits, fails>>

\* sameSlugRequests: the other CRs that are in the cache.
HandleSameSlug(c) ==
  /\ c \in sameSlug /\ sameSlug' = sameSlug \ {c}
  /\ Wake({d \in CRs \ {c} : Exists(d)}) /\ missed' = missed \cap {c}
  /\ UNCHANGED <<phase, pk, own, backoff, worker, events, beaten, owed, edits, fails>>

Fails == fails < MaxFails /\ fails' = fails + 1

\* sameSlugRequests whose list fails wakes nobody.
HandleSameSlugFails(c) ==
  /\ Fails
  /\ c \in sameSlug /\ sameSlug' = sameSlug \ {c}
  /\ missed' = missed \cup (beaten \ {c})
  /\ UNCHANGED <<phase, pk, own, queue, worker, events, hold, beaten, owed, edits>>

-----------------------------------------------------------------------------
(* Reconcile.                                                              *)

\* conflictWinner: d has a better claim than c.
Beats(d, c) == IF pk[d] = pk[c] THEN d < c ELSE pk[d]
Loses(c) == \E d \in CRs \ {c} : phase[d] \in {"new", "active"} /\ Beats(d, c)

\* Mutant: the conflict is checked before the deletion.
ReconcileChecksFirst(c) ==
  /\ pc = "idle" /\ wait[c] = 0
  /\ wait' = [wait EXCEPT ![c] = None]
  /\ cur' = c
  /\ pc' = CASE ~Exists(c)            -> "notFound"
             [] phase[c] = "deleting" -> IF Loses(c) THEN "lost" ELSE "release"
             [] OTHER                 -> "ensure"
  /\ beaten' = beaten \ {c} /\ missed' = missed \ {c} /\ owed' = owed \ {c}
  /\ UNCHANGED <<kube, backoff, events, hold, edits, fails>>

\* The worker takes a CR from the queue and reads it.
Reconcile(c) ==
  /\ pc = "idle" /\ wait[c] = 0
  /\ wait' = [wait EXCEPT ![c] = None]
  /\ cur' = c
  /\ pc' = CASE ~Exists(c)            -> "notFound"
             [] phase[c] = "deleting" -> "release"
             [] OTHER                 -> "ensure"
  /\ beaten' = beaten \ {c} /\ missed' = missed \ {c} /\ owed' = owed \ {c}
  /\ UNCHANGED <<kube, backoff, events, hold, edits, fails>>

NotFound ==
  /\ pc = "notFound"
  /\ ReturnDone
  /\ UNCHANGED <<kube, events, beaten, missed, owed, edits, fails>>

\* The patch of a CR that has gone in the meantime fails.
EnsureFinalizer ==
  /\ pc = "ensure"
  /\ \/ /\ phase[cur] = "new"
        /\ phase' = [phase EXCEPT ![cur] = "active"] /\ Notify(cur, "other")
        /\ pc' = "check" /\ UNCHANGED <<cur, queue, hold>>
     \/ /\ phase[cur] \in {"active", "deleting"}
        /\ pc' = "check" /\ UNCHANGED <<cur, queue, hold, phase, watches>>
     \/ /\ phase[cur] = "gone"
        /\ ReturnError /\ UNCHANGED <<phase, watches>>
  /\ UNCHANGED <<pk, events, beaten, missed, owed, edits, fails>>

CheckConflict ==
  /\ pc = "check"
  /\ \/ Loses(cur) /\ pc' = "lost" /\ beaten' = beaten \cup {cur}
     \/ ~Loses(cur) /\ pc' = "work" /\ UNCHANGED beaten
  /\ UNCHANGED <<kube, queue, cur, events, hold, missed, owed, edits, fails>>

\* finish: the status is written, with the Application as the reconcile left
\* it: observeApplication forgets one that is gone, ensureApplication records
\* what it found or created.
Finish(recorded) ==
  /\ pk' = [pk EXCEPT ![cur] = recorded]
  /\ Notify(cur, IF recorded # pk[cur] THEN "pk" ELSE "other")
  /\ UNCHANGED phase

FinishLost ==
  /\ pc = "lost"
  /\ Finish(pk[cur]) /\ ReturnResync
  /\ UNCHANGED <<events, beaten, missed, owed, edits, fails>>

\* Success, or a stopError: either way the CR comes back after the resync
\* interval.  A stop may come after the Application was forgotten.
FinishWork ==
  /\ pc = "work"
  /\ \E recorded \in BOOLEAN : Finish(recorded)
  /\ ReturnResync
  /\ UNCHANGED <<events, beaten, missed, owed, edits, fails>>

\* A request failed; the Application may have been forgotten or recorded before
\* it did.
FinishError ==
  /\ Fails
  /\ pc \in {"ensure", "check", "work"}
  /\ \E recorded \in IF pc = "work" THEN BOOLEAN ELSE {pk[cur]} : Finish(recorded)
  /\ ReturnError
  /\ UNCHANGED <<events, beaten, missed, owed, edits>>

\* finalize: release failed, or the patch that removes the finalizer.
ReleaseFails ==
  /\ Fails
  /\ pc = "release"
  /\ Notify(cur, "other") /\ ReturnError
  /\ UNCHANGED <<phase, pk, events, beaten, missed, owed, edits>>

RemoveFinalizer ==
  /\ pc = "release"
  /\ phase' = [phase EXCEPT ![cur] = "gone"] /\ Notify(cur, "removed")
  /\ ReturnDone
  /\ UNCHANGED <<pk, events, beaten, missed, owed, edits, fails>>

-----------------------------------------------------------------------------
(* The role events.                                                        *)

\* refreshLocked finds the role recreated, in a reconcile or in the collector;
\* requeueAll lists the CRs and leaves the sending to a goroutine.
RequeueAll ==
  /\ role = "recreated" /\ role' = "known"
  /\ LET listed == {c \in CRs : Exists(c)}
     IN  sender' = sender \cup listed /\ owed' = owed \cup listed
  /\ UNCHANGED <<kube, queue, worker, stopped, hold, beaten, missed, edits, fails>>

RequeueAllFails ==
  /\ Fails
  /\ role = "recreated" /\ role' = "known"
  /\ UNCHANGED <<kube, queue, worker, sender, stopped, history, edits>>

\* Mutant: the sends end with the reconcile that started them.
SendRoleEventUntilIdle(c) ==
  /\ c \in sender
  /\ \/ pc # "idle" /\ ~stopped /\ sender' = sender \ {c} /\ Wake({c})
     \/ (stopped \/ pc = "idle") /\ sender' = {} /\ UNCHANGED <<wait, hold>>
  /\ UNCHANGED <<kube, backoff, worker, role, stopped, beaten, missed, owed, edits, fails>>

\* Mutant: managerStopped does not end the sends.
SendRoleEventForever(c) ==
  /\ c \in sender /\ ~stopped
  /\ sender' = sender \ {c} /\ Wake({c})
  /\ UNCHANGED <<kube, backoff, worker, role, stopped, beaten, missed, owed, edits, fails>>

\* sendRoleEvents: the channel is read while the manager runs; then the rest
\* is abandoned.
SendRoleEvent(c) ==
  /\ c \in sender
  /\ \/ ~stopped /\ sender' = sender \ {c} /\ Wake({c})
     \/ stopped /\ sender' = {} /\ UNCHANGED <<wait, hold>>
  /\ UNCHANGED <<kube, backoff, worker, role, stopped, beaten, missed, owed, edits, fails>>

-----------------------------------------------------------------------------
(* Time, and people.                                                       *)

Tick ==
  /\ \E c \in CRs : wait[c] \notin {None, 0} \/ hold[c] > 0
  /\ wait' = [c \in CRs |-> IF wait[c] \in {None, 0} THEN wait[c] ELSE wait[c] - 1]
  /\ hold' = [c \in CRs |-> IF hold[c] = 0 THEN 0 ELSE hold[c] - 1]
  /\ UNCHANGED <<kube, backoff, worker, events, beaten, missed, owed, edits, fails>>

\* The queue and its limiter shut down with the manager, and the watches end.
Stop ==
  /\ ~stopped /\ stopped' = TRUE
  /\ own' = {} /\ sameSlug' = {}
  /\ wait' = [c \in CRs |-> None] /\ backoff' = [c \in CRs |-> 1]
  /\ hold' = [c \in CRs |-> 0] /\ beaten' = {} /\ missed' = {} /\ owed' = {}
  /\ UNCHANGED <<phase, pk, worker, role, sender, edits, fails>>

Edit == edits < MaxEdits /\ edits' = edits + 1
Touch(c, new, change) ==
  /\ phase' = [phase EXCEPT ![c] = new] /\ Notify(c, change)
  /\ hold' = [hold EXCEPT ![c] = 0]
  /\ UNCHANGED <<pk, queue, worker, events, beaten, missed, owed, fails>>

CreateCR(c) ==
  /\ Edit
  /\ phase[c] = "absent" /\ \A d \in CRs : d < c => phase[d] # "absent"
  /\ Touch(c, "new", "created")

EditSpec(c) == Edit /\ Exists(c) /\ Touch(c, phase[c], "spec")

\* Only the finalizer keeps a CR.
DeleteCR(c) ==
  /\ Edit
  /\ \/ phase[c] = "new" /\ Touch(c, "gone", "removed")
     \/ phase[c] = "active" /\ Touch(c, "deleting", "deletionStarted")

\* credentialsSecretRequests.
SecretChanges(c) ==
  /\ Edit
  /\ Exists(c) /\ Wake({c})
  /\ UNCHANGED <<kube, backoff, worker, events, beaten, missed, owed, fails>>

RecreateRole ==
  /\ Edit
  /\ role = "known" /\ role' = "recreated"
  /\ UNCHANGED <<kube, queue, worker, sender, stopped, history, fails>>

-----------------------------------------------------------------------------
WorkerStep ==
  \/ NotFound \/ EnsureFinalizer \/ CheckConflict
  \/ FinishLost \/ FinishWork \/ RemoveFinalizer

FailedStep ==
  \/ FinishError \/ ReleaseFails \/ RequeueAllFails
  \/ \E c \in CRs : HandleSameSlugFails(c)

PeopleStep ==
  \/ \E c \in CRs : CreateCR(c) \/ EditSpec(c) \/ DeleteCR(c) \/ SecretChanges(c)
  \/ RecreateRole

Running ==
  \/ FailedStep \/ PeopleStep \/ Tick \/ Stop \/ RequeueAll
  \/ \E c \in CRs : HandleOwn(c) \/ HandleSameSlug(c) \/ Reconcile(c)

(* After the stop the reconcile under way and the senders end; what the    *)
(* next leader does starts from Init.                                      *)
Next ==
  \/ ~stopped /\ Running
  \/ WorkerStep
  \/ \E c \in CRs : SendRoleEvent(c)

Spec == Init /\ [][Next]_vars

Deliver == \E c \in CRs : (~stopped /\ (HandleOwn(c) \/ HandleSameSlug(c))) \/ SendRoleEvent(c)

(* Time passes, events are delivered, the worker runs, and an entry that   *)
(* is ready again and again is taken in the end.                           *)
Fairness ==
  /\ WF_vars(~stopped /\ Tick) /\ WF_vars(WorkerStep) /\ WF_vars(Deliver)
  /\ \A c \in CRs : SF_vars(~stopped /\ Reconcile(c))

FairSpec == Spec /\ Fairness

-----------------------------------------------------------------------------
\* No CR is ever forgotten: while the manager runs, one that exists is being
\* reconciled, is about to be queued, or comes back within the resync interval,
\* whatever failed and however often.
Attended ==
  ~stopped => \A c \in CRs :
    Exists(c) => \/ cur = c \/ c \in own
                 \/ wait[c] # None /\ wait[c] <= Resync

\* A reconcile starts only when the delay that the last one ended with is over
\* or something else than that reconcile asked for it: what a reconcile writes
\* never brings its own CR back before.
DelayKept == [][\A c \in CRs : cur # c /\ cur' = c => hold[c] = 0]_vars

Ready(c) == cur = c \/ wait[c] = 0 \/ c \in own

\* A CR that ended with Conflict and would win now is on its way to another
\* reconcile, whether the winner was deleted or forgot its Application; it does
\* not sit out the resync interval.  The exception is the CR whose wake-up was
\* lost because sameSlugRequests could not list the CRs: it does.
LoserIsWoken ==
  ~stopped => \A c \in beaten \ missed :
    phase[c] = "active" /\ ~Loses(c) =>
      Ready(c) \/ sameSlug \ {c} # {}

\* Every CR that was listed when the role was found recreated is reconciled
\* after that without waiting for its delay, the one whose reconcile found it
\* too.
RoleEventsReach == ~stopped => \A c \in owed : wait[c] = 0 \/ c \in sender

\* After the manager has stopped the worker ends, and no goroutine is left that
\* waits for a reader of its events.
StopEnds == stopped ~> (pc = "idle" /\ sender = {})

\* Every deletion goes on until the finalizer is removed, through failures and
\* whoever wins the slug: again and again there is no CR being deleted.
Released == []<>(stopped \/ \A c \in CRs : phase[c] # "deleting")
=============================================================================
