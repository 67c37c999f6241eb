---------------------------- MODULE OutpostProofs ----------------------------
(***************************************************************************)
(* Proofs about Outpost, for every set of CRs, Providers and Outposts and  *)
(* every number of edits and failures.                                     *)
(***************************************************************************)
EXTENDS Outpost, TLAPS

\* The worker has a CR exactly while it works, and comes to leave the recorded
\* Outpost only when that is another one than the one of the spec.
Shape ==
  /\ (pc = "idle") <=> (cur = None)
  /\ pc = "idle" => edited = {}
  /\ pc # "idle" => copy \in Resource
  /\ pc \in {"previous", "drop"} => copy.rec \notin {None, copy.spec}

\* A list that people left alone since it was fetched is the one to be
\* replaced, but for Providers that were deleted meanwhile.
Fetched ==
  /\ pc \in {"join", "leave"} /\ copy.spec \notin edited => seen \cap provs = members[copy.spec]
  /\ pc = "drop" /\ copy.rec \notin edited => seen \cap provs = members[copy.rec]

\* The Provider has joined before it leaves ...
Joined ==
  pc \in {"previous", "drop"} /\ copy.spec \notin edited => cur \in members[copy.spec]

\* ... and has left before the new Outpost is recorded.
Left ==
  pc = "record" /\ copy.rec \notin edited \cup {None, copy.spec} => cur \notin members[copy.rec]

IInv == TypeOK /\ Shape /\ Fetched /\ Joined /\ Left

-----------------------------------------------------------------------------
(* Steps that are alike.                                                   *)

Counted == edits' \in 0..MaxEdits /\ fails' \in 0..MaxFails

\* The writes to a CR.
LEMMA CRsTyped ==
  ASSUME TypeOK, NEW c \in CRs
  PROVE  /\ crs[c] \in Resource /\ view[c] \in Resource
         /\ \A o \in Outposts : [crs EXCEPT ![c].spec = o] \in [CRs -> Resource]
         /\ \A o \in Outposts : [crs EXCEPT ![c].rec = o] \in [CRs -> Resource]
         /\ \A p \in {"deleting", "gone"} : [crs EXCEPT ![c].phase = p] \in [CRs -> Resource]
BY DEF TypeOK, Resource

\* However a reconcile ends.
LEMMA IdleKeeps ==
  ASSUME IInv, Idle, UNCHANGED <<outposts, members, provs>>,
         crs' \in [CRs -> Resource], view' \in [CRs -> Resource], Counted
  PROVE  IInv'
BY DEF IInv, TypeOK, Shape, Fetched, Joined, Left, Idle, Counted

\* A step of Kubernetes that the worker does not notice.
LEMMA KubeKeeps ==
  ASSUME IInv, UNCHANGED <<outposts, members, provs, cur, pc, copy, seen, edited>>,
         crs' \in [CRs -> Resource], view' \in [CRs -> Resource], Counted
  PROVE  IInv'
BY DEF IInv, TypeOK, Shape, Fetched, Joined, Left, Counted

\* The CR that the worker has.
LEMMA AtWork ==
  ASSUME IInv, pc # "idle"
  PROVE  /\ cur \in CRs /\ cur \in Providers
         /\ copy.spec \in Outposts /\ copy.rec \in Outposts \cup {None}
         /\ copy.spec # None
BY OutpostAssumption DEF IInv, TypeOK, Shape, Resource, Providers

\* A list that is replaced.
LEMMA ListTyped ==
  ASSUME TypeOK, NEW o \in Outposts, NEW list, SetOutpostProviders(o, list), UNCHANGED <<outposts, provs>>
  PROVE  /\ members' \in [Outposts -> SUBSET provs]
         /\ \A q \in Outposts \ outposts : members'[q] = {}
         /\ members'[o] = list /\ o \in outposts /\ list \subseteq provs
         /\ \A q \in Outposts \ {o} : members'[q] = members[q]
BY DEF TypeOK, SetOutpostProviders, Accepts

-----------------------------------------------------------------------------
(* reconcileOutpost.                                                       *)

LEMMA ReconcileKeeps ==
  ASSUME IInv, ReconcileStep
  PROVE  IInv'
<1> USE OutpostAssumption DEF server, kube
<1>1. ASSUME NEW c \in CRs, StartReconcile(c)
      PROVE  IInv'
  BY <1>1, CRsTyped DEF StartReconcile, IInv, TypeOK, Shape, Fetched, Joined, Left
<1>2. CASE GetOutpost
  <2>1. CASE copy.spec \notin outposts /\ Idle
    BY <1>2, <2>1, IdleKeeps DEF GetOutpost, IInv, TypeOK, Counted
  <2>2. CASE /\ copy.spec \in outposts
             /\ Fetch(copy.spec, IF cur \in members[copy.spec] THEN AfterJoin ELSE "join")
    BY <1>2, <2>2, AtWork
       DEF GetOutpost, Fetch, AfterJoin, IInv, TypeOK, Shape, Fetched, Joined, Left, Providers
  <2> QED BY <1>2, <2>1, <2>2 DEF GetOutpost
<1>3. CASE JoinOutpost
  <2>1. CASE SetOutpostProviders(copy.spec, seen \cup {cur}) /\ Goto(AfterJoin)
    BY <1>3, <2>1, AtWork, ListTyped
       DEF JoinOutpost, Goto, AfterJoin, IInv, TypeOK, Shape, Fetched, Joined, Left
  <2>2. CASE Idle /\ UNCHANGED members
    BY <1>3, <2>2, IdleKeeps DEF JoinOutpost, IInv, TypeOK, Counted
  <2> QED BY <1>3, <2>1, <2>2 DEF JoinOutpost
<1>4. CASE GetPrevious
  <2>1. CASE Fetch(copy.rec, "drop") /\ copy.rec \in outposts
    BY <1>4, <2>1, AtWork DEF GetPrevious, Fetch, IInv, TypeOK, Shape, Fetched, Joined, Left, Providers
  <2>2. CASE Goto("record") /\ ~(copy.rec \in outposts /\ cur \in members[copy.rec])
    BY <1>4, <2>2, AtWork DEF GetPrevious, Goto, IInv, TypeOK, Shape, Fetched, Joined, Left
  <2> QED BY <1>4, <2>1, <2>2 DEF GetPrevious
<1>5. CASE LeavePrevious
  <2>1. CASE SetOutpostProviders(copy.rec, seen \ {cur}) /\ Goto("record")
    BY <1>5, <2>1, AtWork, ListTyped
       DEF LeavePrevious, RemoveProviderFromOutpost, Goto, IInv, TypeOK, Shape, Fetched, Joined, Left
  <2>2. CASE copy.rec \notin outposts /\ Goto("record") /\ UNCHANGED members
    BY <1>5, <2>2, AtWork
       DEF LeavePrevious, RemoveProviderFromOutpost, Goto, IInv, TypeOK, Shape, Fetched, Joined, Left
  <2>3. CASE Idle /\ UNCHANGED members
    BY <1>5, <2>3, IdleKeeps DEF LeavePrevious, RemoveProviderFromOutpost, IInv, TypeOK, Counted
  <2> QED BY <1>5, <2>1, <2>2, <2>3 DEF LeavePrevious, RemoveProviderFromOutpost
<1>6. CASE RecordOutpost
  <2>1. cur \in CRs /\ copy.spec \in Outposts
    BY <1>6, AtWork DEF RecordOutpost
  <2>2. crs' \in [CRs -> Resource] /\ view' \in [CRs -> Resource]
    BY <1>6, <2>1, CRsTyped DEF RecordOutpost, Store, IInv, TypeOK
  <2> QED BY <1>6, <2>2, IdleKeeps DEF RecordOutpost, IInv, TypeOK, Counted
<1> QED BY <1>1, <1>2, <1>3, <1>4, <1>5, <1>6 DEF ReconcileStep

-----------------------------------------------------------------------------
(* finalize.                                                               *)

LEMMA FinalizeKeeps ==
  ASSUME IInv, FinalizeStep
  PROVE  IInv'
<1> USE OutpostAssumption DEF server, kube
<1>1. ASSUME NEW c \in CRs, StartFinalize(c)
      PROVE  IInv'
  BY <1>1, CRsTyped DEF StartFinalize, IInv, TypeOK, Shape, Fetched, Joined, Left
<1>2. CASE FindOutpost
  BY <1>2, AtWork DEF FindOutpost, Fetch, Goto, IInv, TypeOK, Shape, Fetched, Joined, Left, Providers
<1>3. CASE LeaveOutpost
  <2>1. CASE SetOutpostProviders(copy.spec, seen \ {cur}) /\ Goto("delete")
    BY <1>3, <2>1, AtWork, ListTyped
       DEF LeaveOutpost, RemoveProviderFromOutpost, Goto, IInv, TypeOK, Shape, Fetched, Joined, Left
  <2>2. CASE Goto("delete") /\ UNCHANGED members
    BY <1>3, <2>2 DEF LeaveOutpost, RemoveProviderFromOutpost, Goto, IInv, TypeOK, Shape, Fetched, Joined, Left
  <2>3. CASE Idle /\ UNCHANGED members
    BY <1>3, <2>3, IdleKeeps DEF LeaveOutpost, RemoveProviderFromOutpost, IInv, TypeOK, Counted
  <2> QED BY <1>3, <2>1, <2>2, <2>3 DEF LeaveOutpost, RemoveProviderFromOutpost
<1>4. CASE DeleteProvider
  <2>1. members' \in [Outposts -> SUBSET provs'] /\ \A q \in Outposts : members'[q] \subseteq members[q]
    BY <1>4 DEF DeleteProvider, WithoutProvider, IInv, TypeOK
  <2> QED BY <1>4, <2>1 DEF DeleteProvider, Goto, IInv, TypeOK, Shape, Fetched, Joined, Left
<1>5. CASE RemoveFinalizer
  <2>1. cur \in CRs
    BY <1>5, AtWork DEF RemoveFinalizer
  <2>2. crs' \in [CRs -> Resource] /\ view' \in [CRs -> Resource]
    BY <1>5, <2>1, CRsTyped DEF RemoveFinalizer, Store, IInv, TypeOK
  <2> QED BY <1>5, <2>2, IdleKeeps DEF RemoveFinalizer, IInv, TypeOK, Counted
<1> QED BY <1>1, <1>2, <1>3, <1>4, <1>5 DEF FinalizeStep

-----------------------------------------------------------------------------
(* People.                                                                 *)

\* People change the list of an Outpost.
LEMMA ListEdited ==
  ASSUME IInv, NEW o \in Outposts, NEW list \in SUBSET provs, Touch(o),
         members' = [members EXCEPT ![o] = list],
         outposts' \subseteq Outposts, \A q \in Outposts \ outposts' : q = o \/ q \notin outposts,
         o \notin outposts' => list = {},
         UNCHANGED <<provs, crs, view, cur, pc, copy, seen>>, Counted
  PROVE  IInv'
<1>1. /\ members' \in [Outposts -> SUBSET provs]
      /\ \A q \in Outposts \ {o} : members'[q] = members[q]
      /\ members'[o] = list
  BY DEF IInv, TypeOK
<1>2. TypeOK'
  BY <1>1 DEF IInv, TypeOK, Touch, Counted
<1>3. CASE pc = "idle"
  BY <1>2, <1>3 DEF IInv, Shape, Fetched, Joined, Left, Touch
<1>4. CASE pc # "idle"
  <2>1. edited' = edited \cup {o}
    BY <1>4 DEF Touch
  <2> QED BY <1>1, <1>2, <1>4, <2>1, AtWork DEF IInv, Shape, Fetched, Joined, Left
<1> QED BY <1>3, <1>4

LEMMA EditCounted ==
  ASSUME TypeOK, Edit, UNCHANGED fails
  PROVE  Counted
BY OutpostAssumption DEF TypeOK, Edit, Counted

LEMMA PeopleKeep ==
  ASSUME IInv, PeopleStep
  PROVE  IInv'
<1> USE OutpostAssumption DEF server, kube, locals
<1>1. ASSUME NEW c \in CRs, DeleteCR(c) \/ \E o \in Outposts : EditSpec(c, o)
      PROVE  IInv'
  <2>1. crs' \in [CRs -> Resource] /\ UNCHANGED view
    <3>1. CASE DeleteCR(c)
      BY <3>1, CRsTyped DEF DeleteCR, Store, IInv
    <3>2. ASSUME NEW o \in Outposts, EditSpec(c, o)
          PROVE  crs' \in [CRs -> Resource] /\ UNCHANGED view
      <4>1. [crs EXCEPT ![c].spec = o] \in [CRs -> Resource]
        BY CRsTyped DEF IInv
      <4> QED BY <3>2, <4>1 DEF EditSpec, Store
    <3> QED BY <1>1, <3>1, <3>2
  <2>2. view' \in [CRs -> Resource] /\ UNCHANGED <<outposts, members, provs, cur, pc, copy, seen, edited>>
    BY <1>1, <2>1 DEF DeleteCR, EditSpec, IInv, TypeOK
  <2>3. Counted
    BY <1>1, EditCounted DEF DeleteCR, EditSpec, IInv
  <2> QED BY <2>1, <2>2, <2>3, KubeKeeps
<1>2. ASSUME NEW o \in Outposts, UIDeleteOutpost(o)
      PROVE  IInv'
  <2>1. Counted
    BY <1>2, EditCounted DEF UIDeleteOutpost, IInv
  <2>2. outposts' \subseteq Outposts /\ \A q \in Outposts \ outposts' : q = o \/ q \notin outposts
    BY <1>2 DEF UIDeleteOutpost, IInv, TypeOK
  <2>3. {} \in SUBSET provs
    OBVIOUS
  <2> QED BY <1>2, <2>1, <2>2, <2>3, ListEdited DEF UIDeleteOutpost
<1>3. ASSUME NEW o \in Outposts, NEW p \in Providers, UIAttach(o, p)
      PROVE  IInv'
  <2>1. Counted
    BY <1>3, EditCounted DEF UIAttach, IInv
  <2>2. members[o] \cup {p} \in SUBSET provs /\ members' = [members EXCEPT ![o] = members[o] \cup {p}]
    BY <1>3 DEF UIAttach, IInv, TypeOK
  <2>3. outposts' \subseteq Outposts /\ o \in outposts'
    BY <1>3 DEF UIAttach, IInv, TypeOK
  <2> QED BY <1>3, <2>1, <2>2, <2>3, ListEdited DEF UIAttach
<1>4. ASSUME NEW o \in Outposts, NEW p \in Providers, UIDetach(o, p)
      PROVE  IInv'
  <2>1. Counted
    BY <1>4, EditCounted DEF UIDetach, IInv
  <2>2. members[o] \ {p} \in SUBSET provs /\ members' = [members EXCEPT ![o] = members[o] \ {p}]
    BY <1>4 DEF UIDetach, IInv, TypeOK
  <2>3. outposts' \subseteq Outposts /\ o \in outposts'
    BY <1>4 DEF UIDetach, IInv, TypeOK
  <2> QED BY <1>4, <2>1, <2>2, <2>3, ListEdited DEF UIDetach
<1>5. ASSUME NEW p \in Hand, UIDeleteProvider(p)
      PROVE  IInv'
  <2>1. /\ members' \in [Outposts -> SUBSET provs']
        /\ \A q \in Outposts : members'[q] = members[q] \ {p}
    BY <1>5 DEF UIDeleteProvider, WithoutProvider, IInv, TypeOK
  <2>2. TypeOK'
    BY <1>5, <2>1 DEF UIDeleteProvider, Edit, IInv, TypeOK
  <2>3. Fetched' /\ Joined' /\ Left' /\ Shape'
    BY <1>5, <2>1, AtWork DEF UIDeleteProvider, IInv, Shape, Fetched, Joined, Left
  <2> QED BY <2>2, <2>3 DEF IInv
<1> QED BY <1>1, <1>2, <1>3, <1>4, <1>5 DEF PeopleStep

-----------------------------------------------------------------------------
LEMMA InitIInv == Init => IInv
BY OutpostAssumption DEF Init, IInv, TypeOK, Shape, Fetched, Joined, Left, Resource, Nothing, Providers

LEMMA NextIInv == IInv /\ [Next]_vars => IInv'
<1> SUFFICES ASSUME IInv, [Next]_vars
             PROVE  IInv'
  OBVIOUS
<1>1. CASE Interrupt
  BY <1>1, IdleKeeps, OutpostAssumption DEF Interrupt, IInv, TypeOK, Counted, server, kube
<1>2. CASE Deliver
  BY <1>2, KubeKeeps DEF Deliver, IInv, TypeOK, Counted, server, locals
<1>3. CASE UNCHANGED vars
  BY <1>3, KubeKeeps DEF vars, IInv, TypeOK, Counted, server, kube, locals
<1> QED BY <1>1, <1>2, <1>3, ReconcileKeeps, FinalizeKeeps, PeopleKeep DEF Next

LEMMA InvariantHolds == Spec => []IInv
BY InitIInv, NextIInv, PTL DEF Spec

\* No list names a Provider that does not exist, and the worker is where the
\* code can be (reconcileOutpost, deleteProvider, and the cascade of the
\* server).
THEOREM TypeCorrect == Spec => []TypeOK
<1>1. IInv => TypeOK
  BY DEF IInv
<1> QED BY <1>1, InvariantHolds, PTL

\* A write of reconcileOutpost, leaveOutpost or leaveOutpostByUUID replaces a
\* list that other CRs and people share, and changes nothing in it but the
\* membership of its own Provider.
THEOREM SharedListsKept == Spec => OthersKept
<1> DEFINE Kept == Writes => \A o \in Outposts \ edited, p \in Providers \ {cur} :
                     p \in members[o] <=> p \in members'[o]
<1>1. IInv /\ [Next]_vars => [Kept]_vars
  <2> SUFFICES ASSUME IInv, Next, Writes
               PROVE  \A o \in Outposts \ edited, p \in Providers \ {cur} :
                        p \in members[o] <=> p \in members'[o]
    OBVIOUS
  <2>1. pc \in {"join", "drop", "leave", "delete"} /\ pc # "idle" /\ pc' # pc
    BY DEF Writes
  <2>2. JoinOutpost \/ LeavePrevious \/ LeaveOutpost \/ DeleteProvider \/ UNCHANGED members
    BY <2>1 DEF Next, ReconcileStep, FinalizeStep, PeopleStep, StartReconcile, GetOutpost,
       GetPrevious, RecordOutpost, StartFinalize, FindOutpost, RemoveFinalizer, Interrupt, Deliver,
       EditSpec, DeleteCR, UIAttach, UIDetach, UIDeleteOutpost, UIDeleteProvider, server, locals
  <2>3. ASSUME NEW o \in Outposts, NEW list, SetOutpostProviders(o, list), UNCHANGED <<outposts, provs>>,
               list \in {seen \cup {cur}, seen \ {cur}},
               o \notin edited => seen \cap provs = members[o]
        PROVE  \A q \in Outposts \ edited, p \in Providers \ {cur} :
                 p \in members[q] <=> p \in members'[q]
    BY <2>3, ListTyped DEF IInv
  <2>4. CASE JoinOutpost
    BY <2>1, <2>3, <2>4, AtWork DEF JoinOutpost, IInv, Fetched
  <2>5. CASE LeavePrevious
    BY <2>1, <2>3, <2>5, AtWork DEF LeavePrevious, RemoveProviderFromOutpost, IInv, Shape, Fetched
  <2>6. CASE LeaveOutpost
    BY <2>1, <2>3, <2>6, AtWork DEF LeaveOutpost, RemoveProviderFromOutpost, IInv, Fetched
  <2>7. CASE DeleteProvider
    BY <2>7 DEF DeleteProvider, WithoutProvider, IInv, TypeOK
  <2> QED BY <2>2, <2>4, <2>5, <2>6, <2>7
<1> QED BY <1>1, InvariantHolds, PTL DEF Spec, OthersKept

\* Changing the Outpost of a spec leaves no moment at which no Outpost serves
\* the Provider (the order of the requests in reconcileOutpost).
THEOREM MovesWithoutGap == Spec => NeverDetached
<1> DEFINE Gapless == copy.spec \notin edited /\ pc \in {"join", "drop"} /\ pc' # pc =>
                        (Served(cur) => \E o \in outposts : cur \in members'[o])
<1>1. IInv /\ [Next]_vars => [Gapless]_vars
  <2> SUFFICES ASSUME IInv, Next, copy.spec \notin edited, pc \in {"join", "drop"}, pc' # pc,
                      NEW q \in outposts, cur \in members[q]
               PROVE  \E o \in outposts : cur \in members'[o]
    BY DEF Served
  <2>1. JoinOutpost \/ LeavePrevious \/ UNCHANGED members
    BY DEF Next, ReconcileStep, FinalizeStep, PeopleStep, StartReconcile, GetOutpost,
       GetPrevious, RecordOutpost, StartFinalize, FindOutpost, RemoveFinalizer, Interrupt, Deliver,
       LeaveOutpost, DeleteProvider,
       EditSpec, DeleteCR, UIAttach, UIDetach, UIDeleteOutpost, UIDeleteProvider, server, locals
  <2>2. CASE JoinOutpost /\ members' # members
    BY <2>2, AtWork, ListTyped DEF JoinOutpost, IInv
  <2>3. CASE LeavePrevious /\ members' # members
    <3>1. /\ copy.spec \in Outposts /\ copy.rec \in Outposts /\ copy.rec # copy.spec
          /\ cur \in members[copy.spec]
      BY <2>3, AtWork DEF LeavePrevious, IInv, Shape, Joined
    <3>2. copy.spec \in outposts
      BY <3>1 DEF IInv, TypeOK
    <3> QED BY <2>3, <3>1, <3>2, ListTyped DEF LeavePrevious, RemoveProviderFromOutpost, IInv
  <2> QED BY <2>1, <2>2, <2>3
<1> QED BY <1>1, InvariantHolds, PTL DEF Spec, NeverDetached

\* No failure and no crash makes the operator forget an Outpost in which its
\* Provider still is (the status is written last in reconcileOutpost).
THEOREM OutpostLeftFirst == Spec => LeftBeforeForgotten
<1> DEFINE Remembered ==
      \A c \in CRs :
        /\ crs'[c].rec # crs[c].rec /\ crs[c].rec = copy.rec
        /\ copy.rec \notin edited \cup {None}
        => c \notin members[copy.rec]
<1>1. IInv /\ [Next]_vars => [Remembered]_vars
  <2> SUFFICES ASSUME IInv, Next, NEW c \in CRs, crs'[c].rec # crs[c].rec,
                      copy.rec \notin edited \cup {None}
               PROVE  c \notin members[copy.rec]
    OBVIOUS
  <2>1. \A d \in CRs : crs[d] \in Resource
    BY CRsTyped DEF IInv
  <2>2. ASSUME NEW d \in CRs, NEW o \in Outposts, crs' = [crs EXCEPT ![d].spec = o]
        PROVE  FALSE
    BY <2>1, <2>2 DEF IInv, TypeOK, Resource
  <2>3. ASSUME NEW d \in CRs, NEW p, crs' = [crs EXCEPT ![d].phase = p]
        PROVE  FALSE
    BY <2>1, <2>3 DEF IInv, TypeOK, Resource
  <2>4. CASE RecordOutpost
    <3>1. pc = "record" /\ cur \in CRs /\ copy.spec # copy.rec /\ crs' = [crs EXCEPT ![cur].rec = copy.spec]
      BY <2>4, AtWork DEF RecordOutpost, Store
    <3>2. c = cur
      BY <2>1, <3>1 DEF IInv, TypeOK
    <3> QED BY <3>1, <3>2 DEF IInv, Left
  <2>5. CASE RemoveFinalizer
    BY <2>3, <2>5, AtWork DEF RemoveFinalizer, Store
  <2>6. CASE PeopleStep
    BY <2>2, <2>3, <2>6 DEF PeopleStep, EditSpec, DeleteCR, Store, UIAttach, UIDetach,
       UIDeleteOutpost, UIDeleteProvider, kube
  <2>7. RecordOutpost \/ RemoveFinalizer \/ PeopleStep
    BY DEF Next, ReconcileStep, FinalizeStep, StartReconcile, GetOutpost, JoinOutpost,
       GetPrevious, LeavePrevious, LeaveOutpost, RemoveProviderFromOutpost, DeleteProvider,
       StartFinalize, FindOutpost, Interrupt, Deliver, kube
  <2> QED BY <2>4, <2>5, <2>6, <2>7
<1> QED BY <1>1, InvariantHolds, PTL DEF Spec, LeftBeforeForgotten
=============================================================================
