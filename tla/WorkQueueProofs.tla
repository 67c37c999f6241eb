--------------------------- MODULE WorkQueueProofs ---------------------------
(***************************************************************************)
(* Proofs about WorkQueue, for every set of CRs, every resync interval and *)
(* every debt of the token bucket.                                         *)
(***************************************************************************)
EXTENDS WorkQueue, TLAPS

\* No entry of the queue waits longer than the resync interval.
Bounded == wait \in [CRs -> 0..Resync \cup {None}]

\* Every CR has its entry, unless it is being reconciled; one that was not
\* found and is there now has been reported by then.
HasEntry ==
  ~stopped => \A c \in CRs : Exists(c) /\ c \notin own /\ wait[c] = None =>
    cur = c /\ pc # "notFound"

\* A delay that holds is one that the entry still waits for.
Holding ==
  ~stopped => \A c \in CRs : hold[c] > 0 =>
    cur # c /\ c \notin own /\ wait[c] # None /\ wait[c] >= hold[c]

\* The CR under reconcile is known to lose only when it was just found out.
Verdict == cur \in beaten => pc = "lost"

\* LoserIsWoken without the excuse that the CR is being reconciled.
Woken ==
  ~stopped => \A c \in beaten \ missed :
    phase[c] = "active" /\ ~Loses(c) => wait[c] = 0 \/ c \in own \/ sameSlug \ {c} # {}

IInv == TypeOK /\ Bounded /\ HasEntry /\ Holding /\ Verdict /\ Woken /\ RoleEventsReach

-----------------------------------------------------------------------------
(* The queue, the watches, and the three ways in which a reconcile ends.   *)

\* The delay of a failure is a delay, and at most the resync interval.
LEMMA WhenBounded ==
  ASSUME TypeOK, NEW c \in CRs, NEW debt \in 0..MaxDebt
  PROVE  When(c, debt) \in 0..Resync
BY WorkQueueAssumption DEF When, Smaller, Larger, TypeOK

\* Adding never makes an entry wait longer, and leaves the others alone.
LEMMA AddEntry ==
  ASSUME Bounded, stopped \in BOOLEAN, NEW S, NEW d \in 0..Resync, Add(S, d)
  PROVE  /\ Bounded'
         /\ stopped => wait' = wait
         /\ \A c \in CRs : c \notin S => wait'[c] = wait[c]
         /\ \A c \in CRs : wait[c] = 0 => wait'[c] = 0
         /\ \A c \in CRs : wait[c] # None => wait'[c] # None
         /\ ~stopped => \A c \in CRs \cap S :
              /\ wait'[c] # None
              /\ d = 0 => wait'[c] = 0
              /\ wait[c] = None => wait'[c] = d
<1>1. CASE stopped
  BY <1>1 DEF Add, Bounded
<1>2. CASE ~stopped
  <2>1. wait' = [c \in CRs |-> IF c \in S THEN Earliest(wait[c], d) ELSE wait[c]]
    BY <1>2 DEF Add
  <2>2. \A c \in CRs : wait[c] \in 0..Resync \cup {None}
    BY DEF Bounded
  <2>3. \A c \in CRs : Earliest(wait[c], d) \in 0..Resync
    BY <2>2, WorkQueueAssumption DEF Earliest
  <2>4. Bounded'
    BY <2>1, <2>2, <2>3 DEF Bounded
  <2>5. ASSUME NEW c \in CRs
        PROVE  /\ c \notin S => wait'[c] = wait[c]
               /\ wait[c] = 0 => wait'[c] = 0
               /\ wait[c] # None => wait'[c] # None
               /\ c \in S => /\ wait'[c] # None
                             /\ d = 0 => wait'[c] = 0
                             /\ wait[c] = None => wait'[c] = d
    BY <2>1, <2>2, <2>3, WorkQueueAssumption DEF Earliest
  <2> QED BY <1>2, <2>4, <2>5
<1> QED BY <1>1, <1>2

\* What every reconcile leaves behind, however it ends.
Ended ==
  /\ Bounded' /\ Idle
  /\ backoff' \in [CRs -> 1..Resync] /\ hold' \in [CRs -> Nat]
  /\ stopped => wait' = wait
  /\ \A c \in CRs \ {cur} : wait'[c] = wait[c] /\ hold'[c] = hold[c]
  /\ wait[cur] = 0 => wait'[cur] = 0
  /\ wait[cur] # None => wait'[cur] # None
  /\ ~stopped /\ hold'[cur] > 0 =>
       cur \notin own /\ wait'[cur] # None /\ wait'[cur] >= hold'[cur]

LEMMA ReturnDoneEnds ==
  ASSUME IInv, cur \in CRs, ReturnDone
  PROVE  Ended /\ wait' = wait /\ hold'[cur] = 0
BY WorkQueueAssumption DEF IInv, TypeOK, Bounded, ReturnDone, Forget, Hold, Ended, Idle

\* A reconcile that comes back with a delay has an entry then.
LEMMA DelayEnds ==
  ASSUME IInv, cur \in CRs, NEW d \in 0..Resync, Hold(d), Add({cur}, d), Idle,
         backoff' \in [CRs -> 1..Resync]
  PROVE  Ended /\ (~stopped => wait'[cur] # None)
<1>1. /\ Bounded'
      /\ stopped => wait' = wait
      /\ \A c \in CRs \ {cur} : wait'[c] = wait[c]
      /\ wait[cur] = 0 => wait'[cur] = 0
      /\ wait[cur] # None => wait'[cur] # None
      /\ ~stopped => wait'[cur] # None /\ (wait[cur] = None => wait'[cur] = d)
  BY AddEntry DEF IInv, TypeOK
<1>2. /\ hold' \in [CRs -> Nat]
      /\ \A c \in CRs \ {cur} : hold'[c] = hold[c]
      /\ hold'[cur] > 0 => wait[cur] = None /\ cur \notin own /\ hold'[cur] = d
  BY WorkQueueAssumption DEF IInv, TypeOK, Hold
<1>3. ~stopped /\ hold'[cur] > 0 =>
        cur \notin own /\ wait'[cur] # None /\ wait'[cur] >= hold'[cur]
  BY <1>1, <1>2, WorkQueueAssumption
<1> QED BY <1>1, <1>2, <1>3 DEF Ended

LEMMA ReturnResyncEnds ==
  ASSUME IInv, cur \in CRs, ReturnResync
  PROVE  Ended /\ (~stopped => wait'[cur] # None)
<1>1. backoff' \in [CRs -> 1..Resync]
  BY WorkQueueAssumption DEF IInv, TypeOK, ReturnResync, Forget
<1>2. Resync \in 0..Resync
  BY WorkQueueAssumption
<1> QED BY <1>1, <1>2, DelayEnds DEF ReturnResync

LEMMA ReturnErrorEnds ==
  ASSUME IInv, cur \in CRs, ReturnError
  PROVE  Ended /\ (~stopped => wait'[cur] # None)
<1>1. backoff' \in [CRs -> 1..Resync]
  BY WorkQueueAssumption DEF IInv, TypeOK, ReturnError, Smaller
<1>2. PICK debt \in 0..MaxDebt : Hold(When(cur, debt)) /\ Add({cur}, When(cur, debt))
  BY DEF ReturnError
<1>3. When(cur, debt) \in 0..Resync
  BY <1>2, WhenBounded DEF IInv
<1> QED BY <1>1, <1>2, <1>3, DelayEnds DEF ReturnError

-----------------------------------------------------------------------------
(* The invariant holds at the start.                                       *)

LEMMA InitIInv == Init => IInv
<1> SUFFICES ASSUME Init PROVE IInv
  OBVIOUS
<1>1. TypeOK
  <2>1. phase \in [CRs -> {"absent", "new", "active", "deleting", "gone"}]
    BY DEF Init
  <2>2. /\ wait \in [CRs -> Nat \cup {None}] /\ backoff \in [CRs -> 1..Resync]
        /\ hold \in [CRs -> Nat] /\ edits \in 0..MaxEdits /\ fails \in 0..MaxFails
    BY WorkQueueAssumption DEF Init
  <2> QED BY <2>1, <2>2, Zenon DEF Init, TypeOK
<1>2. Bounded
  BY WorkQueueAssumption DEF Init, Bounded
<1>3. HasEntry /\ Holding /\ Verdict /\ Woken /\ RoleEventsReach
  BY WorkQueueAssumption DEF Init, HasEntry, Holding, Verdict, Woken, RoleEventsReach, Exists
<1> QED BY <1>1, <1>2, <1>3 DEF IInv

-----------------------------------------------------------------------------
(* The steps that end a reconcile.  They have in common that the CR keeps  *)
(* its place among those that exist and gets an entry, or is gone.         *)

\* The parts that do not depend on what was written.
LEMMA EndKeeps ==
  ASSUME IInv, cur \in CRs, Ended,
         UNCHANGED <<events, beaten, missed, owed>>, own \subseteq own', own' \subseteq own \cup {cur},
         hold'[cur] > 0 => own' = own
  PROVE  Bounded' /\ Holding' /\ Verdict' /\ RoleEventsReach'
<1>1. Bounded' /\ cur' = None
  BY DEF Ended, Idle
<1>2. Holding'
  BY <1>1, WorkQueueAssumption DEF IInv, Ended, Holding, TypeOK, events
<1>3. Verdict'
  BY <1>1, WorkQueueAssumption DEF IInv, TypeOK, Verdict
<1>4. RoleEventsReach'
  BY DEF IInv, Ended, RoleEventsReach, TypeOK, events
<1> QED BY <1>1, <1>2, <1>3, <1>4

\* A CR whose status was written, and possibly its Application recorded or
\* forgotten.
LEMMA FinishKeeps ==
  ASSUME IInv, cur \in CRs, Ended, ~stopped => wait'[cur] # None,
         NEW recorded \in BOOLEAN, Finish(recorded),
         recorded # pk[cur] => pc = "work",
         UNCHANGED <<events, beaten, missed, owed, edits>>, fails' \in 0..MaxFails
  PROVE  IInv'
<1>1. /\ pk' = [pk EXCEPT ![cur] = recorded] /\ UNCHANGED <<phase, own>>
      /\ sameSlug \subseteq sameSlug' /\ sameSlug' \subseteq CRs
      /\ recorded # pk[cur] => cur \in sameSlug'
  BY DEF Finish, Notify, Passes, DeletionStarted, ConflictPredicate, IInv, TypeOK
<1>2. cur' = None /\ pc' = "idle" /\ Bounded'
  BY DEF Ended, Idle
<1>3. pk' \in [CRs -> BOOLEAN]
  BY <1>1, Zenon DEF IInv, TypeOK
<1>4. TypeOK'
  <2>1. wait' \in [CRs -> Nat \cup {None}]
    BY <1>2, WorkQueueAssumption DEF Bounded
  <2> QED BY <1>1, <1>2, <1>3, <2>1, WorkQueueAssumption DEF IInv, TypeOK, Ended, events
<1>5. Bounded' /\ Holding' /\ Verdict' /\ RoleEventsReach'
  BY <1>1, EndKeeps
<1>6. HasEntry'
  BY <1>1, <1>2 DEF IInv, HasEntry, Ended, Exists, events
<1>7. Woken'
  <2> SUFFICES ASSUME ~stopped, NEW c \in beaten \ missed, phase[c] = "active", ~Loses(c)'
               PROVE  wait'[c] = 0 \/ c \in own \/ sameSlug' \ {c} # {}
    BY <1>1 DEF Woken, events
  <2>1. c \in CRs
    BY DEF IInv, TypeOK
  <2>2. CASE recorded = pk[cur]
    <3>1. pk' = pk
      BY <1>1, <2>2, Zenon DEF IInv, TypeOK
    <3>2. ~Loses(c)
      BY <1>1, <3>1 DEF Loses, Beats
    <3>3. wait[c] = 0 \/ c \in own \/ sameSlug \ {c} # {}
      BY <3>2 DEF IInv, Woken
    <3> QED BY <1>1, <2>1, <3>3 DEF Ended
  <2>3. CASE recorded # pk[cur]
    <3>1. cur # c
      BY <2>3 DEF IInv, Verdict
    <3> QED BY <1>1, <2>3, <3>1
  <2> QED BY <2>2, <2>3
<1> QED BY <1>4, <1>5, <1>6, <1>7 DEF IInv

LEMMA FinishLostKeeps == IInv /\ FinishLost => IInv'
<1> SUFFICES ASSUME IInv, FinishLost PROVE IInv'
  OBVIOUS
<1>1. cur \in CRs
  BY DEF IInv, TypeOK, FinishLost
<1>2. Ended /\ (~stopped => wait'[cur] # None)
  BY <1>1, ReturnResyncEnds DEF FinishLost
<1> QED BY <1>1, <1>2, FinishKeeps DEF FinishLost, IInv, TypeOK

LEMMA FinishWorkKeeps == IInv /\ FinishWork => IInv'
<1> SUFFICES ASSUME IInv, FinishWork PROVE IInv'
  OBVIOUS
<1>1. cur \in CRs
  BY DEF IInv, TypeOK, FinishWork
<1>2. Ended /\ (~stopped => wait'[cur] # None)
  BY <1>1, ReturnResyncEnds DEF FinishWork
<1> QED BY <1>1, <1>2, FinishKeeps DEF FinishWork, IInv, TypeOK

LEMMA FinishErrorKeeps == IInv /\ FinishError => IInv'
<1> SUFFICES ASSUME IInv, FinishError PROVE IInv'
  OBVIOUS
<1>1. cur \in CRs
  BY DEF IInv, TypeOK, FinishError
<1>2. Ended /\ (~stopped => wait'[cur] # None)
  BY <1>1, ReturnErrorEnds DEF FinishError
<1>3. fails' \in 0..MaxFails
  BY WorkQueueAssumption DEF FinishError, Fails, IInv, TypeOK
<1>4. pk[cur] \in BOOLEAN
  BY <1>1, Zenon DEF IInv, TypeOK
<1>5. PICK recorded \in BOOLEAN : Finish(recorded) /\ (recorded # pk[cur] => pc = "work")
  BY <1>4 DEF FinishError
<1> QED BY <1>1, <1>2, <1>3, <1>5, FinishKeeps DEF FinishError

LEMMA ReleaseFailsKeeps == IInv /\ ReleaseFails => IInv'
<1> SUFFICES ASSUME IInv, ReleaseFails PROVE IInv'
  OBVIOUS
<1>1. cur \in CRs
  BY DEF IInv, TypeOK, ReleaseFails
<1>2. Ended /\ (~stopped => wait'[cur] # None)
  BY <1>1, ReturnErrorEnds DEF ReleaseFails
<1>3. fails' \in 0..MaxFails
  BY WorkQueueAssumption DEF ReleaseFails, Fails, IInv, TypeOK
<1>4. Finish(pk[cur])
  BY <1>1, Zenon DEF ReleaseFails, Finish, IInv, TypeOK
<1>5. pk[cur] \in BOOLEAN
  BY <1>1, Zenon DEF IInv, TypeOK
<1> QED BY <1>1, <1>2, <1>3, <1>4, <1>5, FinishKeeps DEF ReleaseFails

LEMMA RemoveFinalizerKeeps == IInv /\ RemoveFinalizer => IInv'
<1> SUFFICES ASSUME IInv, RemoveFinalizer PROVE IInv'
  OBVIOUS
<1>1. cur \in CRs
  BY DEF IInv, TypeOK, RemoveFinalizer
<1>2. Ended /\ wait' = wait /\ hold'[cur] = 0
  BY <1>1, ReturnDoneEnds DEF RemoveFinalizer
<1>3. /\ phase' = [phase EXCEPT ![cur] = "gone"]
      /\ own' = own \cup {cur} /\ sameSlug' = sameSlug \cup {cur}
  BY DEF RemoveFinalizer, Notify, Passes, ConflictPredicate
<1>4. cur' = None /\ pc' = "idle"
  BY <1>2 DEF Ended, Idle
<1>5. TypeOK'
  BY <1>1, <1>2, <1>3, <1>4, WorkQueueAssumption DEF IInv, TypeOK, Ended, RemoveFinalizer, events
<1>6. Bounded' /\ Holding' /\ Verdict' /\ RoleEventsReach'
  BY <1>1, <1>2, <1>3, EndKeeps DEF RemoveFinalizer
<1>7. HasEntry'
  BY <1>1, <1>2, <1>3 DEF IInv, TypeOK, HasEntry, Exists, RemoveFinalizer, events
<1>8. Woken'
  <2> SUFFICES ASSUME NEW c \in beaten, phase'[c] = "active"
               PROVE  sameSlug' \ {c} # {}
    BY DEF Woken, RemoveFinalizer
  <2>1. c # cur
    BY <1>1, <1>3 DEF IInv, TypeOK
  <2> QED BY <1>3, <2>1
<1> QED BY <1>5, <1>6, <1>7, <1>8 DEF IInv

LEMMA NotFoundKeeps == IInv /\ NotFound => IInv'
<1> SUFFICES ASSUME IInv, NotFound PROVE IInv'
  OBVIOUS
<1>1. cur \in CRs
  BY DEF IInv, TypeOK, NotFound
<1>2. Ended /\ wait' = wait /\ hold'[cur] = 0
  BY <1>1, ReturnDoneEnds DEF NotFound
<1>3. cur' = None /\ pc' = "idle" /\ UNCHANGED <<phase, pk, own, sameSlug>>
  BY <1>2 DEF Ended, Idle, NotFound, kube, watches
<1>4. TypeOK'
  BY <1>2, <1>3 DEF IInv, TypeOK, Ended, NotFound, events
<1>5. Bounded' /\ Holding' /\ Verdict' /\ RoleEventsReach'
  BY <1>1, <1>2, <1>3, EndKeeps DEF NotFound
<1>6. HasEntry'
  BY <1>2, <1>3 DEF IInv, HasEntry, Exists, NotFound, events
<1>7. Woken'
  BY <1>2, <1>3 DEF IInv, Woken, Loses, Beats, NotFound, events
<1> QED BY <1>4, <1>5, <1>6, <1>7 DEF IInv

-----------------------------------------------------------------------------
(* The steps in the course of a reconcile.                                 *)

LEMMA EnsureFinalizerKeeps == IInv /\ EnsureFinalizer => IInv'
<1> SUFFICES ASSUME IInv, EnsureFinalizer PROVE IInv'
  OBVIOUS
<1>1. cur \in CRs /\ cur \notin beaten
  BY DEF IInv, TypeOK, EnsureFinalizer, Verdict
<1>2. CASE phase[cur] \in {"new", "active", "deleting"} /\ pc' = "check"
  <2>1. /\ UNCHANGED <<pk, own, sameSlug, wait, backoff, cur, events, hold, beaten, missed, owed, edits, fails>>
        /\ phase' \in {phase, [phase EXCEPT ![cur] = "active"]}
        /\ \A c \in CRs \ {cur} : phase'[c] = phase[c]
        /\ \A c \in CRs : phase'[c] \in {"new", "active"} <=> phase[c] \in {"new", "active"}
    BY <1>1, <1>2 DEF EnsureFinalizer, ReturnError, Idle, IInv, TypeOK, Notify, Passes,
       DeletionStarted, ConflictPredicate, queue, watches
  <2>2. TypeOK'
    BY <1>1, <1>2, <2>1 DEF IInv, TypeOK, EnsureFinalizer, events
  <2>3. Bounded' /\ Holding' /\ Verdict' /\ RoleEventsReach'
    BY <1>1, <2>1 DEF IInv, Bounded, Holding, Verdict, RoleEventsReach, events
  <2>4. HasEntry'
    BY <1>2, <2>1, <1>1 DEF IInv, HasEntry, Exists, EnsureFinalizer, events, TypeOK
  <2>5. Woken'
    <3>1. \A c \in CRs : Loses(c)' <=> Loses(c)
      BY <2>1 DEF Loses, Beats
    <3> QED BY <1>1, <2>1, <3>1 DEF IInv, TypeOK, Woken, events
  <2> QED BY <2>2, <2>3, <2>4, <2>5 DEF IInv
<1>3. CASE phase[cur] = "gone" /\ ReturnError /\ UNCHANGED <<phase, watches>>
  <2>1. Ended /\ (~stopped => wait'[cur] # None)
    BY <1>1, <1>3, ReturnErrorEnds
  <2>2. Finish(pk[cur])
    BY <1>1, <1>3, Zenon DEF EnsureFinalizer, Finish, Notify, Passes, DeletionStarted,
       ConflictPredicate, watches, IInv, TypeOK
  <2> QED BY <1>1, <2>1, <2>2, FinishKeeps DEF EnsureFinalizer, IInv, TypeOK
<1> QED BY <1>2, <1>3 DEF EnsureFinalizer

LEMMA CheckConflictKeeps == IInv /\ CheckConflict => IInv'
<1> SUFFICES ASSUME IInv, CheckConflict PROVE IInv'
  OBVIOUS
<1>1. cur \in CRs
  BY DEF IInv, TypeOK, CheckConflict
<1>2. /\ UNCHANGED <<phase, pk, own, sameSlug, wait, backoff, cur, events, hold, missed, owed, edits, fails>>
      /\ \/ pc' = "lost" /\ beaten' = beaten \cup {cur} /\ Loses(cur)
         \/ pc' = "work" /\ beaten' = beaten
  BY DEF CheckConflict, kube, watches, queue
<1>3. TypeOK'
  BY <1>1, <1>2 DEF IInv, TypeOK, CheckConflict, events
<1>4. Bounded' /\ Holding' /\ Verdict' /\ RoleEventsReach' /\ HasEntry'
  BY <1>1, <1>2 DEF IInv, Bounded, Holding, Verdict, RoleEventsReach, HasEntry, Exists, events, CheckConflict
<1>5. Woken'
  <2>1. \A c \in CRs : Loses(c)' <=> Loses(c)
    BY <1>2 DEF Loses, Beats
  <2> QED BY <1>1, <1>2, <2>1 DEF IInv, TypeOK, Woken, events
<1> QED BY <1>3, <1>4, <1>5 DEF IInv

LEMMA ReconcileKeeps ==
  ASSUME IInv, ~stopped, NEW c \in CRs, Reconcile(c)
  PROVE  IInv' /\ hold[c] = 0
<1>1. /\ UNCHANGED <<phase, pk, own, sameSlug, backoff, events, hold, edits, fails>>
      /\ wait' = [wait EXCEPT ![c] = None] /\ wait[c] = 0
      /\ pc = "idle" /\ cur = None /\ cur' = c
      /\ beaten' = beaten \ {c} /\ missed' = missed \ {c} /\ owed' = owed \ {c}
  BY DEF Reconcile, kube, watches, IInv, TypeOK
<1>2. /\ pc' \in {"notFound", "release", "ensure"}
      /\ pc' = "notFound" <=> ~Exists(c)
  BY DEF Reconcile, Exists
<1>3. hold[c] = 0
  BY <1>1, WorkQueueAssumption DEF IInv, Holding, TypeOK
<1>4. TypeOK' /\ Bounded'
  BY <1>1, <1>2, WorkQueueAssumption DEF IInv, TypeOK, Bounded, events
<1>5. Holding' /\ Verdict' /\ RoleEventsReach'
  BY <1>1, <1>3, WorkQueueAssumption DEF IInv, TypeOK, Holding, Verdict, RoleEventsReach, events
<1>6. HasEntry'
  BY <1>1, <1>2, WorkQueueAssumption DEF IInv, TypeOK, HasEntry, Exists, events
<1>7. Woken'
  <2>1. \A d \in CRs : Loses(d)' <=> Loses(d)
    BY <1>1 DEF Loses, Beats
  <2> QED BY <1>1, <2>1 DEF IInv, TypeOK, Woken, events
<1> QED BY <1>3, <1>4, <1>5, <1>6, <1>7 DEF IInv

-----------------------------------------------------------------------------
(* The handlers and the role events.                                       *)

\* Losing depends on the CRs only.
LEMMA LosesSame == UNCHANGED <<phase, pk>> => \A c \in CRs : Loses(c)' <=> Loses(c)
BY DEF Loses, Beats

LEMMA ZeroDelay == 0 \in 0..Resync
BY WorkQueueAssumption

LEMMA HandleOwnKeeps ==
  ASSUME IInv, ~stopped, NEW c \in CRs, HandleOwn(c)
  PROVE  IInv'
<1>1. /\ UNCHANGED <<phase, pk, sameSlug, backoff, cur, pc, events, hold, beaten, missed, owed, edits, fails>>
      /\ c \in own /\ own' = own \ {c}
  BY DEF HandleOwn, worker, history
<1>2. /\ Bounded' /\ wait'[c] = 0
      /\ \A d \in CRs \ {c} : wait'[d] = wait[d]
  BY ZeroDelay, AddEntry DEF HandleOwn, IInv, TypeOK
<1>3. TypeOK'
  BY <1>1, <1>2, WorkQueueAssumption DEF IInv, TypeOK, Bounded, events
<1>4. HasEntry' /\ Verdict' /\ RoleEventsReach'
  BY <1>1, <1>2, WorkQueueAssumption DEF IInv, TypeOK, HasEntry, Verdict, RoleEventsReach, Exists, events
<1>5. Holding'
  BY <1>1, <1>2 DEF IInv, Holding, events
<1>6. Woken'
  BY <1>1, <1>2, LosesSame DEF IInv, TypeOK, Woken, events
<1> QED BY <1>2, <1>3, <1>4, <1>5, <1>6 DEF IInv

\* Waking the CRs of S, by whoever does.
LEMMA WakeEffect ==
  ASSUME IInv, ~stopped, NEW S \in SUBSET CRs, Wake(S)
  PROVE  /\ Bounded' /\ hold' \in [CRs -> Nat]
         /\ \A d \in S : wait'[d] = 0 /\ hold'[d] = 0
         /\ \A d \in CRs \ S : wait'[d] = wait[d] /\ hold'[d] = hold[d]
<1>1. Add(S, 0) /\ hold' = [c \in CRs |-> IF c \in S THEN 0 ELSE hold[c]]
  BY DEF Wake
<1>2. /\ Bounded' /\ \A d \in S : wait'[d] = 0
      /\ \A d \in CRs \ S : wait'[d] = wait[d]
  BY <1>1, ZeroDelay, AddEntry DEF IInv, TypeOK
<1> QED BY <1>1, <1>2 DEF IInv, TypeOK

\* What a wake-up leaves of the invariant, the part about losers excepted.
LEMMA WakeKeeps ==
  ASSUME IInv, ~stopped, NEW S \in SUBSET CRs, Wake(S),
         UNCHANGED <<phase, pk, own, backoff, cur, pc, role, stopped, beaten, owed, fails>>,
         missed' \subseteq missed,
         sameSlug' \subseteq CRs, sender' \subseteq CRs, sender \ S \subseteq sender',
         edits' \in 0..MaxEdits
  PROVE  TypeOK' /\ Bounded' /\ HasEntry' /\ Holding' /\ Verdict' /\ RoleEventsReach'
<1>1. /\ Bounded' /\ hold' \in [CRs -> Nat]
      /\ \A d \in S : wait'[d] = 0 /\ hold'[d] = 0
      /\ \A d \in CRs \ S : wait'[d] = wait[d] /\ hold'[d] = hold[d]
  BY WakeEffect
<1>2. TypeOK'
  BY <1>1, WorkQueueAssumption DEF IInv, TypeOK, Bounded
<1>3. HasEntry' /\ Verdict' /\ RoleEventsReach'
  BY <1>1, WorkQueueAssumption DEF IInv, TypeOK, HasEntry, Verdict, RoleEventsReach, Exists
<1>4. Holding'
  BY <1>1 DEF IInv, TypeOK, Holding
<1> QED BY <1>1, <1>2, <1>3, <1>4

LEMMA HandleSameSlugKeeps ==
  ASSUME IInv, ~stopped, NEW c \in CRs, HandleSameSlug(c)
  PROVE  IInv'
<1> DEFINE S == {d \in CRs \ {c} : Exists(d)}
<1>1. /\ UNCHANGED <<phase, pk, own, backoff, cur, pc, role, sender, stopped, beaten, owed, edits, fails>>
      /\ sameSlug' = sameSlug \ {c} /\ Wake(S) /\ missed' = missed \cap {c}
  BY DEF HandleSameSlug, worker, events
<1>2. TypeOK' /\ Bounded' /\ HasEntry' /\ Holding' /\ Verdict' /\ RoleEventsReach'
  BY <1>1, WakeKeeps DEF IInv, TypeOK
<1>3. \A d \in S : wait'[d] = 0
  BY <1>1, WakeEffect
<1>4. Woken'
  <2> SUFFICES ASSUME NEW d \in beaten \ missed', phase[d] = "active", ~Loses(d)
               PROVE  wait'[d] = 0 \/ d \in own \/ sameSlug' \ {d} # {}
    BY <1>1, LosesSame DEF Woken, IInv, TypeOK
  <2>1. CASE d # c
    BY <1>3, <2>1 DEF Exists, IInv, TypeOK
  <2>2. CASE d = c
    <3>1. wait'[c] = wait[c]
      BY <1>1, WakeEffect
    <3> QED BY <1>1, <2>2, <3>1 DEF IInv, Woken
  <2> QED BY <2>1, <2>2
<1> QED BY <1>2, <1>4 DEF IInv

\* A step that leaves the queue, the CRs and the worker alone.
LEMMA QuietKeeps ==
  ASSUME IInv, TypeOK',
         UNCHANGED <<phase, pk, own, wait, backoff, cur, pc, stopped, hold>>,
         beaten' = beaten, missed \subseteq missed', RoleEventsReach',
         ~stopped => \A c \in beaten \ missed' : sameSlug \ {c} # {} => sameSlug' \ {c} # {}
  PROVE  IInv'
<1>1. Bounded' /\ HasEntry' /\ Holding' /\ Verdict'
  BY DEF IInv, Bounded, HasEntry, Holding, Verdict, Exists
<1>2. Woken'
  BY LosesSame DEF IInv, TypeOK, Woken
<1> QED BY <1>1, <1>2 DEF IInv

LEMMA HandleSameSlugFailsKeeps ==
  ASSUME IInv, NEW c \in CRs, HandleSameSlugFails(c)
  PROVE  IInv'
<1>1. /\ UNCHANGED <<phase, pk, own, wait, backoff, cur, pc, role, sender, stopped, hold, beaten, owed, edits>>
      /\ sameSlug' = sameSlug \ {c} /\ missed' = missed \cup (beaten \ {c}) /\ fails' \in 0..MaxFails
  BY WorkQueueAssumption DEF HandleSameSlugFails, Fails, queue, worker, events, IInv, TypeOK
<1>2. TypeOK' /\ RoleEventsReach'
  BY <1>1 DEF IInv, TypeOK, RoleEventsReach
<1> QED BY <1>1, <1>2, QuietKeeps

LEMMA RequeueAllKeeps == IInv /\ RequeueAll => IInv'
<1> SUFFICES ASSUME IInv, RequeueAll PROVE IInv'
  OBVIOUS
<1>1. /\ UNCHANGED <<phase, pk, own, sameSlug, wait, backoff, cur, pc, stopped, hold, beaten, missed, edits, fails>>
      /\ role' = "known"
      /\ sender' = sender \cup {c \in CRs : Exists(c)} /\ owed' = owed \cup {c \in CRs : Exists(c)}
  BY DEF RequeueAll, kube, watches, queue, worker
<1>2. TypeOK' /\ RoleEventsReach'
  BY <1>1 DEF IInv, TypeOK, RoleEventsReach
<1> QED BY <1>1, <1>2, QuietKeeps

LEMMA RequeueAllFailsKeeps == IInv /\ RequeueAllFails => IInv'
<1> SUFFICES ASSUME IInv, RequeueAllFails PROVE IInv'
  OBVIOUS
<1>1. /\ UNCHANGED <<phase, pk, own, sameSlug, wait, backoff, cur, pc, sender, stopped, hold, beaten, missed, owed, edits>>
      /\ role' = "known" /\ fails' \in 0..MaxFails
  BY WorkQueueAssumption DEF RequeueAllFails, Fails, kube, watches, queue, worker, history, IInv, TypeOK
<1>2. TypeOK' /\ RoleEventsReach'
  BY <1>1 DEF IInv, TypeOK, RoleEventsReach
<1> QED BY <1>1, <1>2, QuietKeeps

LEMMA SendRoleEventKeeps ==
  ASSUME IInv, NEW c \in CRs, SendRoleEvent(c)
  PROVE  IInv'
<1>1. UNCHANGED <<phase, pk, own, sameSlug, backoff, cur, pc, role, stopped, beaten, missed, owed, edits, fails>>
  BY DEF SendRoleEvent, kube, watches, worker
<1>2. CASE ~stopped /\ sender' = sender \ {c} /\ Wake({c})
  <2>1. TypeOK' /\ Bounded' /\ HasEntry' /\ Holding' /\ Verdict' /\ RoleEventsReach'
    BY <1>1, <1>2, WakeKeeps DEF IInv, TypeOK
  <2>2. wait'[c] = 0 /\ \A d \in CRs \ {c} : wait'[d] = wait[d]
    BY <1>2, WakeEffect
  <2>3. Woken'
    BY <1>1, <2>2, LosesSame DEF IInv, TypeOK, Woken
  <2> QED BY <2>1, <2>3 DEF IInv
<1>3. CASE stopped /\ sender' = {} /\ UNCHANGED <<wait, hold>>
  <2>1. TypeOK' /\ RoleEventsReach'
    BY <1>1, <1>3 DEF IInv, TypeOK, RoleEventsReach
  <2> QED BY <1>1, <1>3, <2>1, QuietKeeps
<1> QED BY <1>2, <1>3 DEF SendRoleEvent

-----------------------------------------------------------------------------
(* Time, and people.                                                       *)

LEMMA TickKeeps == IInv /\ Tick => IInv'
<1> SUFFICES ASSUME IInv, Tick PROVE IInv'
  OBVIOUS
<1>1. /\ UNCHANGED <<phase, pk, own, sameSlug, backoff, cur, pc, role, sender, stopped, beaten, missed, owed, edits, fails>>
      /\ \A c \in CRs : wait'[c] = IF wait[c] \in {None, 0} THEN wait[c] ELSE wait[c] - 1
      /\ \A c \in CRs : hold'[c] = IF hold[c] = 0 THEN 0 ELSE hold[c] - 1
  BY DEF Tick, kube, watches, worker, events
<1>2. Bounded' /\ hold' \in [CRs -> Nat]
  BY WorkQueueAssumption DEF Tick, IInv, TypeOK, Bounded
<1>3. TypeOK'
  BY <1>1, <1>2, WorkQueueAssumption DEF IInv, TypeOK, Bounded
<1>4. \A c \in CRs : /\ wait[c] = 0 => wait'[c] = 0
                     /\ wait'[c] = None <=> wait[c] = None
  BY <1>1, WorkQueueAssumption DEF IInv, Bounded
<1>5. HasEntry' /\ Verdict' /\ RoleEventsReach'
  BY <1>1, <1>4 DEF IInv, TypeOK, HasEntry, Verdict, RoleEventsReach, Exists
<1>6. Holding'
  BY <1>1, WorkQueueAssumption DEF IInv, TypeOK, Bounded, Holding
<1>7. Woken'
  BY <1>1, <1>4, LosesSame DEF IInv, TypeOK, Woken
<1> QED BY <1>2, <1>3, <1>5, <1>6, <1>7 DEF IInv

LEMMA StopKeeps == IInv /\ Stop => IInv'
<1> SUFFICES ASSUME IInv, Stop PROVE IInv'
  OBVIOUS
<1>1. /\ stopped' /\ stopped' = TRUE /\ own' = {} /\ sameSlug' = {} /\ beaten' = {} /\ missed' = {} /\ owed' = {}
      /\ wait' = [c \in CRs |-> None] /\ backoff' = [c \in CRs |-> 1] /\ hold' = [c \in CRs |-> 0]
      /\ UNCHANGED <<phase, pk, cur, pc, role, sender, edits, fails>>
  BY DEF Stop, worker
<1>2. /\ Bounded' /\ wait' \in [CRs -> Nat \cup {None}]
      /\ backoff' \in [CRs -> 1..Resync] /\ hold' \in [CRs -> Nat]
  BY <1>1, WorkQueueAssumption DEF Bounded
<1>3. TypeOK'
  BY <1>1, <1>2 DEF IInv, TypeOK
<1>4. HasEntry' /\ Holding' /\ Verdict' /\ Woken' /\ RoleEventsReach'
  BY <1>1 DEF HasEntry, Holding, Verdict, Woken, RoleEventsReach
<1> QED BY <1>2, <1>3, <1>4 DEF IInv

\* An edit of a CR that is reported to the watch of its own events, and to the
\* CRs with its slug unless it leaves the winner as it is.
LEMMA TouchKeeps ==
  ASSUME IInv, NEW c \in CRs, NEW new, NEW change, Touch(c, new, change), Edit,
         new \in {"new", "active", "deleting", "gone"},
         Passes(c, change),
         \/ ConflictPredicate(change)
         \/ phase[c] = new,
         new = "active" => phase[c] = "active"
  PROVE  IInv'
<1>1. /\ phase' = [phase EXCEPT ![c] = new] /\ hold' = [hold EXCEPT ![c] = 0]
      /\ own' = own \cup {c} /\ sameSlug \subseteq sameSlug' /\ sameSlug' \subseteq CRs
      /\ ConflictPredicate(change) => c \in sameSlug'
      /\ UNCHANGED <<pk, wait, backoff, cur, pc, role, sender, stopped, beaten, missed, owed, fails>>
  BY DEF Touch, Notify, queue, worker, events, IInv, TypeOK
<1>2. edits' \in 0..MaxEdits
  BY WorkQueueAssumption DEF Edit, IInv, TypeOK
<1>3. TypeOK' /\ Bounded'
  BY <1>1, <1>2 DEF IInv, TypeOK, Bounded
<1>4. HasEntry' /\ Verdict' /\ RoleEventsReach'
  BY <1>1 DEF IInv, TypeOK, HasEntry, Verdict, RoleEventsReach, Exists
<1>5. Holding'
  BY <1>1 DEF IInv, TypeOK, Holding
<1>6. Woken'
  <2> SUFFICES ASSUME ~stopped, NEW d \in beaten \ missed, phase'[d] = "active", ~Loses(d)'
               PROVE  wait[d] = 0 \/ d \in own' \/ sameSlug' \ {d} # {}
    BY <1>1 DEF Woken
  <2>1. CASE d = c
    BY <1>1, <2>1
  <2>2. CASE d # c /\ ConflictPredicate(change)
    BY <1>1, <2>2
  <2>3. CASE phase[c] = new
    <3>1. UNCHANGED <<phase, pk>>
      BY <1>1, <2>3 DEF IInv, TypeOK
    <3> QED BY <1>1, <3>1, LosesSame DEF IInv, TypeOK, Woken
  <2> QED BY <2>1, <2>2, <2>3
<1> QED BY <1>3, <1>4, <1>5, <1>6 DEF IInv

LEMMA EditKeeps ==
  ASSUME IInv, NEW c \in CRs, CreateCR(c) \/ EditSpec(c) \/ DeleteCR(c)
  PROVE  IInv'
<1>1. CASE CreateCR(c)
  BY <1>1, TouchKeeps DEF CreateCR, Passes, ConflictPredicate
<1>2. CASE EditSpec(c)
  BY <1>2, TouchKeeps DEF EditSpec, Passes, Exists
<1>3. CASE DeleteCR(c)
  BY <1>3, TouchKeeps DEF DeleteCR, Passes, DeletionStarted, ConflictPredicate
<1> QED BY <1>1, <1>2, <1>3

LEMMA SecretChangesKeeps ==
  ASSUME IInv, ~stopped, NEW c \in CRs, SecretChanges(c)
  PROVE  IInv'
<1>1. /\ UNCHANGED <<phase, pk, own, sameSlug, backoff, cur, pc, role, sender, stopped, beaten, missed, owed, fails>>
      /\ Wake({c}) /\ edits' \in 0..MaxEdits
  BY WorkQueueAssumption DEF SecretChanges, Edit, kube, watches, worker, events, IInv, TypeOK
<1>2. TypeOK' /\ Bounded' /\ HasEntry' /\ Holding' /\ Verdict' /\ RoleEventsReach'
  BY <1>1, WakeKeeps DEF IInv, TypeOK
<1>3. wait'[c] = 0 /\ \A d \in CRs \ {c} : wait'[d] = wait[d]
  BY <1>1, WakeEffect
<1>4. Woken'
  BY <1>1, <1>3, LosesSame DEF IInv, TypeOK, Woken
<1> QED BY <1>2, <1>4 DEF IInv

LEMMA RecreateRoleKeeps == IInv /\ RecreateRole => IInv'
<1> SUFFICES ASSUME IInv, RecreateRole PROVE IInv'
  OBVIOUS
<1>1. /\ UNCHANGED <<phase, pk, own, sameSlug, wait, backoff, cur, pc, sender, stopped, hold, beaten, missed, owed, fails>>
      /\ role' = "recreated" /\ edits' \in 0..MaxEdits
  BY WorkQueueAssumption DEF RecreateRole, Edit, kube, watches, queue, worker, history, IInv, TypeOK
<1>2. TypeOK' /\ RoleEventsReach'
  BY <1>1 DEF IInv, TypeOK, RoleEventsReach
<1> QED BY <1>1, <1>2, QuietKeeps

-----------------------------------------------------------------------------
LEMMA NextIInv == IInv /\ [Next]_vars => IInv'
<1> SUFFICES ASSUME IInv, [Next]_vars PROVE IInv'
  OBVIOUS
<1>1. CASE WorkerStep
  BY <1>1, NotFoundKeeps, EnsureFinalizerKeeps, CheckConflictKeeps, FinishLostKeeps,
     FinishWorkKeeps, RemoveFinalizerKeeps DEF WorkerStep
<1>2. CASE FailedStep
  BY <1>2, FinishErrorKeeps, ReleaseFailsKeeps, RequeueAllFailsKeeps,
     HandleSameSlugFailsKeeps DEF FailedStep
<1>3. CASE ~stopped /\ PeopleStep
  BY <1>3, EditKeeps, SecretChangesKeeps, RecreateRoleKeeps DEF PeopleStep
<1>4. CASE Tick \/ Stop \/ RequeueAll
  BY <1>4, TickKeeps, StopKeeps, RequeueAllKeeps
<1>5. ASSUME ~stopped, NEW c \in CRs, HandleOwn(c) \/ HandleSameSlug(c) \/ Reconcile(c)
      PROVE  IInv'
  BY <1>5, HandleOwnKeeps, HandleSameSlugKeeps, ReconcileKeeps
<1>6. ASSUME NEW c \in CRs, SendRoleEvent(c)
      PROVE  IInv'
  BY <1>6, SendRoleEventKeeps
<1>7. CASE UNCHANGED vars
  <2>1. UNCHANGED <<phase, pk, own, sameSlug, wait, backoff, cur, pc, role, sender, stopped,
                    hold, beaten, missed, owed, edits, fails>>
    BY <1>7 DEF vars, kube, watches, queue, worker, events, history
  <2>2. TypeOK' /\ RoleEventsReach'
    BY <2>1 DEF IInv, TypeOK, RoleEventsReach
  <2> QED BY <2>1, <2>2, QuietKeeps
<1> QED BY <1>1, <1>2, <1>3, <1>4, <1>5, <1>6, <1>7 DEF Next, Running

LEMMA InvariantHolds == Spec => []IInv
BY InitIInv, NextIInv, PTL DEF Spec

\* The queue, the limiter and the worker are in the states that the code gives
\* them; above all the delay of a CR that fails never exceeds the resync
\* interval, however often it fails.
THEOREM TypeCorrect == Spec => []TypeOK
<1>1. IInv => TypeOK
  BY DEF IInv
<1> QED BY <1>1, InvariantHolds, PTL

\* While the manager runs no CR drops out of the queue, for any number of CRs
\* and failures and whatever debt the token bucket has (Reconcile, finish and
\* finalize, with NewRateLimiter).
THEOREM NobodyForgotten == Spec => []Attended
<1>1. IInv => Attended
  BY WorkQueueAssumption DEF IInv, Bounded, HasEntry, Attended
<1> QED BY <1>1, InvariantHolds, PTL

\* The losers of a slug do not miss that they win it (sameSlugRequests and
\* conflictPredicate).
THEOREM LosersAreWoken == Spec => []LoserIsWoken
<1>1. IInv => LoserIsWoken
  BY DEF IInv, Woken, LoserIsWoken, Ready
<1> QED BY <1>1, InvariantHolds, PTL

\* The events of requeueAll are not lost while the manager runs.
THEOREM RoleEventsArrive == Spec => []RoleEventsReach
<1>1. IInv => RoleEventsReach
  BY DEF IInv
<1> QED BY <1>1, InvariantHolds, PTL

\* What a reconcile writes never brings its own CR back before the delay that
\* it ended with (deletionStarted, GenerationChangedPredicate).
THEOREM DelaysAreKept == Spec => DelayKept
<1> DEFINE Kept == \A c \in CRs : cur # c /\ cur' = c => hold[c] = 0
<1>1. IInv /\ [Next]_vars => [Kept]_vars
  <2> SUFFICES ASSUME IInv, Next, NEW c \in CRs, cur # c, cur' = c
               PROVE  hold[c] = 0
    OBVIOUS
  <2>1. \E d \in CRs : ~stopped /\ Reconcile(d)
    BY WorkQueueAssumption DEF Next, Running, WorkerStep, FailedStep, PeopleStep, NotFound,
       EnsureFinalizer, CheckConflict, FinishLost, FinishWork, RemoveFinalizer, FinishError,
       ReleaseFails, ReturnDone, ReturnResync, ReturnError, Idle, RequeueAll, RequeueAllFails,
       HandleOwn, HandleSameSlug, HandleSameSlugFails, SendRoleEvent, Tick, Stop, CreateCR,
       EditSpec, DeleteCR, Touch, SecretChanges, RecreateRole, worker
  <2> QED BY <2>1, ReconcileKeeps DEF Reconcile
<1> QED BY <1>1, InvariantHolds, PTL DEF Spec, DelayKept
==============================================================================
