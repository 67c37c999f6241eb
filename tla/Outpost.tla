------------------------------- MODULE Outpost -------------------------------
(***************************************************************************)
(* Which Outposts serve the Proxy Providers of the CRs.  The list of       *)
(* Providers of an Outpost is read and then replaced as a whole, by the    *)
(* worker for one CR at a time and by people at any moment.  When          *)
(* spec.provider.proxy.outpost changes, the Provider joins the new Outpost,*)
(* leaves the recorded one, and the new one is recorded in the status with *)
(* which the reconcile ends.                                               *)
(*                                                                         *)
(* The CRs start where their Provider exists and is recorded; it is named  *)
(* after its CR here.  That a managed Provider is lost and made again is   *)
(* the subject of Takeover.                                                *)
(***************************************************************************)
EXTENDS Naturals, FiniteSets

CONSTANTS CRs,       \* each with a Proxy Provider
          Hand,      \* Proxy Providers made by hand
          Outposts,  \* UUIDs
          Embedded,  \* the Outpost of a spec that names none
          None,      \* no Outpost recorded
          Deleting,  \* the CRs with deletionPolicy Delete
          MaxEdits,  \* bound: edits by people, of CRs or in the UI
          MaxFails   \* bound: failed requests and crashes

ASSUME OutpostAssumption ==
  /\ CRs \cap Hand = {} /\ Deleting \subseteq CRs
  /\ Embedded \in Outposts /\ None \notin Outposts \cup CRs
  /\ MaxEdits \in Nat /\ MaxFails \in Nat

VARIABLES
  outposts,       \* authentik: the Outposts that exist
  members,        \* authentik: the Providers of every Outpost
  provs,          \* authentik: the Proxy Providers that exist
  crs,            \* Kubernetes: life, outpost and status.outpostUUID of every CR
  view,           \* the informer's copy of crs
  cur, pc, copy,  \* the worker: the CR, where its reconcile is, the CR as it was read
  seen,           \* the list of Providers as it was fetched
  edited,         \* history: Outposts whose list people changed since the worker read it
  edits, fails

server == <<outposts, members, provs>>
kube   == <<crs, view>>
locals == <<cur, pc, copy, seen>>
vars   == <<server, kube, locals, edited, edits, fails>>

Providers == CRs \cup Hand
Resource  == [phase : {"active", "deleting", "gone"}, spec : Outposts, rec : Outposts \cup {None}]
Nothing   == [phase |-> "gone", spec |-> None, rec |-> None]

\* An Outpost lists only what exists, and reconcileOutpost comes to leave only
\* an Outpost that is recorded and is not the one of the spec.
TypeOK ==
  /\ outposts \subseteq Outposts /\ provs \subseteq Providers
  /\ members \in [Outposts -> SUBSET provs]
  /\ \A o \in Outposts \ outposts : members[o] = {}
  /\ crs \in [CRs -> Resource] /\ view \in [CRs -> Resource]
  /\ cur \in CRs \cup {None} /\ copy \in Resource \cup {Nothing}
  /\ pc \in {"idle", "get", "join", "previous", "drop", "record", "find", "leave", "delete", "finalizer"}
  /\ pc \in {"previous", "drop"} => copy.rec \notin {None, copy.spec}
  /\ seen \subseteq Providers /\ edited \subseteq Outposts
  /\ edits \in 0..MaxEdits /\ fails \in 0..MaxFails

Init ==
  /\ outposts = Outposts /\ provs = Providers
  /\ members = [o \in Outposts |-> Hand]
  /\ crs = [c \in CRs |-> [phase |-> "active", spec |-> Embedded, rec |-> None]]
  /\ view = crs
  /\ cur = None /\ pc = "idle" /\ copy = Nothing /\ seen = {}
  /\ edited = {} /\ edits = 0 /\ fails = 0

-----------------------------------------------------------------------------
(* Kubernetes.                                                             *)

\* A write to the API server; the informer shows it when it is delivered.
Store(new) == crs' = new /\ UNCHANGED view

Deliver ==
  /\ view # crs
  /\ view' = crs
  /\ UNCHANGED <<server, crs, locals, edited, edits, fails>>

Idle == cur' = None /\ pc' = "idle" /\ copy' = Nothing /\ seen' = {} /\ edited' = {}
Goto(at) == pc' = at /\ seen' = {} /\ UNCHANGED <<cur, copy, edited>>

-----------------------------------------------------------------------------
(* The requests about Outposts.                                            *)

\* GetOutpost and FindOutpostsByName.
Fetch(o, at) ==
  /\ seen' = members[o] /\ edited' = edited \ {o}
  /\ pc' = at /\ UNCHANGED <<cur, copy>>

\* SetOutpostProviders: 404 for an Outpost, 400 for a Provider that is gone.
Accepts(o, list) == o \in outposts /\ list \subseteq provs
SetOutpostProviders(o, list) ==
  /\ Accepts(o, list)
  /\ members' = [members EXCEPT ![o] = list]

\* Mutant: every error is taken for an Outpost that is gone.
RemoveProviderIgnoresErrors(o, at) ==
  /\ SetOutpostProviders(o, seen \ {cur}) \/ (~Accepts(o, seen \ {cur}) /\ UNCHANGED members)
  /\ Goto(at)
  /\ UNCHANGED <<outposts, provs, kube, edits, fails>>

\* removeProviderFromOutpost, with the list that was fetched: an Outpost that
\* is gone is skipped, any other error ends the reconcile.
RemoveProviderFromOutpost(o, at) ==
  /\ \/ SetOutpostProviders(o, seen \ {cur}) /\ Goto(at)
     \/ o \notin outposts /\ Goto(at) /\ UNCHANGED members
     \/ o \in outposts /\ ~Accepts(o, seen \ {cur}) /\ Idle /\ UNCHANGED members
  /\ UNCHANGED <<outposts, provs, kube, edits, fails>>

-----------------------------------------------------------------------------
(* reconcileOutpost.                                                       *)

\* A CR whose Outpost is not found is not reconciled any further.
StartReconcile(c) ==
  /\ pc = "idle"
  /\ view[c].phase = "active" /\ view[c].spec \in outposts
  /\ cur' = c /\ copy' = view[c] /\ pc' = "get"
  /\ UNCHANGED <<server, kube, seen, edited, edits, fails>>

\* Mutant: the Outpost that was recorded is left although it is the same.
AfterJoinAlways == IF copy.rec = None THEN "record" ELSE "previous"

\* The Outpost that was recorded is left when it is another one.
AfterJoin == IF copy.rec \in {None, copy.spec} THEN "record" ELSE "previous"

\* Mutant: a Provider that is recorded with the Outpost is not looked for.
GetOutpostTrustsStatus ==
  /\ pc = "get"
  /\ \/ copy.spec \notin outposts /\ Idle
     \/ copy.spec \in outposts /\ Fetch(copy.spec, IF copy.rec = copy.spec THEN "record" ELSE "join")
  /\ UNCHANGED <<server, kube, edits, fails>>

GetOutpost ==
  /\ pc = "get"
  /\ \/ copy.spec \notin outposts /\ Idle
     \/ copy.spec \in outposts
        /\ Fetch(copy.spec, IF cur \in members[copy.spec] THEN AfterJoin ELSE "join")
  /\ UNCHANGED <<server, kube, edits, fails>>

\* Mutant: the reconcile goes on when the list was refused.
JoinOutpostIgnoresError ==
  /\ pc = "join"
  /\ \/ SetOutpostProviders(copy.spec, seen \cup {cur})
     \/ ~Accepts(copy.spec, seen \cup {cur}) /\ UNCHANGED members
  /\ Goto(AfterJoin)
  /\ UNCHANGED <<outposts, provs, kube, edits, fails>>

JoinOutpost ==
  /\ pc = "join"
  /\ \/ SetOutpostProviders(copy.spec, seen \cup {cur}) /\ Goto(AfterJoin)
     \/ ~Accepts(copy.spec, seen \cup {cur}) /\ Idle /\ UNCHANGED members
  /\ UNCHANGED <<outposts, provs, kube, edits, fails>>

\* Mutant: the list of the new Outpost, fetched before, is used again.
GetPreviousReusesList ==
  /\ pc = "previous"
  /\ pc' = IF copy.rec \in outposts /\ cur \in members[copy.rec] THEN "drop" ELSE "record"
  /\ seen' = members[copy.spec] /\ UNCHANGED <<cur, copy, edited>>
  /\ UNCHANGED <<server, kube, edits, fails>>

\* leaveOutpostByUUID: the recorded Outpost may be gone, or without the
\* Provider.
GetPrevious ==
  /\ pc = "previous"
  /\ IF copy.rec \in outposts /\ cur \in members[copy.rec]
     THEN Fetch(copy.rec, "drop")
     ELSE Goto("record")
  /\ UNCHANGED <<server, kube, edits, fails>>

LeavePrevious == pc = "drop" /\ RemoveProviderFromOutpost(copy.rec, "record")

\* finish: a merge patch, so what the reconcile did not change stays.
RecordOutpost ==
  /\ pc = "record"
  /\ Store(IF copy.spec = copy.rec THEN crs ELSE [crs EXCEPT ![cur].rec = copy.spec])
  /\ Idle
  /\ UNCHANGED <<server, edits, fails>>

-----------------------------------------------------------------------------
(* release and deleteProvider; with Retain the Provider stays where it is. *)

StartFinalize(c) ==
  /\ pc = "idle"
  /\ view[c].phase = "deleting"
  /\ cur' = c /\ copy' = view[c]
  /\ pc' = IF c \in Deleting THEN "find" ELSE "finalizer"
  /\ UNCHANGED <<server, kube, seen, edited, edits, fails>>

\* Mutant: the Outpost has to be found.
FindOutpostRequired ==
  /\ pc = "find"
  /\ \/ copy.spec \notin outposts /\ Idle
     \/ copy.spec \in outposts
        /\ IF cur \in members[copy.spec] THEN Fetch(copy.spec, "leave") ELSE Goto("delete")
  /\ UNCHANGED <<server, kube, edits, fails>>

\* leaveOutpost, by the Outpost of the spec; one that is not found is skipped.
FindOutpost ==
  /\ pc = "find"
  /\ IF copy.spec \in outposts /\ cur \in members[copy.spec]
     THEN Fetch(copy.spec, "leave")
     ELSE Goto("delete")
  /\ UNCHANGED <<server, kube, edits, fails>>

LeaveOutpost == pc = "leave" /\ RemoveProviderFromOutpost(copy.spec, "delete")

\* The server takes a Provider that is deleted from every Outpost.
WithoutProvider(p) == [o \in Outposts |-> members[o] \ {p}]

DeleteProvider ==
  /\ pc = "delete"
  /\ provs' = provs \ {cur} /\ members' = WithoutProvider(cur)
  /\ Goto("finalizer")
  /\ UNCHANGED <<outposts, kube, edits, fails>>

\* The patch of a CR that has gone already is ignored.
RemoveFinalizer ==
  /\ pc = "finalizer"
  /\ Store([crs EXCEPT ![cur].phase = "gone"])
  /\ Idle
  /\ UNCHANGED <<server, edits, fails>>

\* A request fails, or the operator crashes: the status keeps the Outpost that
\* was recorded.
Interrupt ==
  /\ pc # "idle"
  /\ fails < MaxFails /\ fails' = fails + 1
  /\ Idle
  /\ UNCHANGED <<server, kube, edits>>

-----------------------------------------------------------------------------
(* People.                                                                 *)

Edit == edits < MaxEdits /\ edits' = edits + 1
Touch(o) == edited' = IF pc = "idle" THEN {} ELSE edited \cup {o}

EditSpec(c, o) ==
  /\ Edit
  /\ crs[c].phase = "active" /\ crs[c].spec # o
  /\ Store([crs EXCEPT ![c].spec = o])
  /\ UNCHANGED <<server, locals, edited, fails>>

DeleteCR(c) ==
  /\ Edit
  /\ crs[c].phase = "active"
  /\ Store([crs EXCEPT ![c].phase = "deleting"])
  /\ UNCHANGED <<server, locals, edited, fails>>

UIAttach(o, p) ==
  /\ Edit
  /\ o \in outposts /\ p \in provs \ members[o]
  /\ members' = [members EXCEPT ![o] = @ \cup {p}] /\ Touch(o)
  /\ UNCHANGED <<outposts, provs, kube, locals, fails>>

UIDetach(o, p) ==
  /\ Edit
  /\ p \in members[o]
  /\ members' = [members EXCEPT ![o] = @ \ {p}] /\ Touch(o)
  /\ UNCHANGED <<outposts, provs, kube, locals, fails>>

UIDeleteOutpost(o) ==
  /\ Edit
  /\ o \in outposts
  /\ outposts' = outposts \ {o}
  /\ members' = [members EXCEPT ![o] = {}] /\ Touch(o)
  /\ UNCHANGED <<provs, kube, locals, fails>>

UIDeleteProvider(p) ==
  /\ Edit
  /\ p \in provs
  /\ provs' = provs \ {p} /\ members' = WithoutProvider(p)
  /\ UNCHANGED <<outposts, kube, locals, edited, fails>>

-----------------------------------------------------------------------------
ReconcileStep ==
  \/ \E c \in CRs : StartReconcile(c)
  \/ GetOutpost \/ JoinOutpost \/ GetPrevious \/ LeavePrevious \/ RecordOutpost

FinalizeStep ==
  \/ \E c \in CRs : StartFinalize(c)
  \/ FindOutpost \/ LeaveOutpost \/ DeleteProvider \/ RemoveFinalizer

PeopleStep ==
  \/ \E c \in CRs : DeleteCR(c) \/ \E o \in Outposts : EditSpec(c, o)
  \/ \E o \in Outposts : UIDeleteOutpost(o) \/ \E p \in Providers : UIAttach(o, p) \/ UIDetach(o, p)
  \/ \E p \in Hand : UIDeleteProvider(p)

Next == ReconcileStep \/ FinalizeStep \/ PeopleStep \/ Interrupt \/ Deliver

Spec == Init /\ [][Next]_vars

(* The worker comes to every CR again and again, a reconcile goes on       *)
(* unless it is interrupted, and the informer catches up.                  *)
Fairness ==
  /\ \A c \in CRs : SF_vars(StartReconcile(c) \/ StartFinalize(c))
  /\ WF_vars(pc # "idle" /\ (ReconcileStep \/ FinalizeStep))
  /\ WF_vars(Deliver)

FairSpec == Spec /\ Fairness

-----------------------------------------------------------------------------
Writes == pc \in {"join", "drop", "leave", "delete"} /\ pc' # pc

\* A write of the worker changes the membership of its own Provider only,
\* although it replaces a list that several CRs and people share; what people
\* changed after the list was read is excepted.
OthersKept ==
  [][Writes => \A o \in Outposts \ edited, p \in Providers \ {cur} :
                 p \in members[o] <=> p \in members'[o]]_vars

Served(p) == \E o \in outposts : p \in members[o]

\* A reconcile never takes its Provider from the last Outpost that serves it,
\* unless people change the Outpost of the spec under its hands.
NeverDetached ==
  [][copy.spec \notin edited /\ pc \in {"join", "drop"} /\ pc' # pc =>
       (Served(cur) => \E o \in outposts : cur \in members'[o])]_vars

\* The Outpost in the status is replaced only when the Provider has left it or
\* people put it back, so that no failure and no crash makes the operator
\* forget an Outpost; a record newer than the copy that the worker read is
\* excepted.
LeftBeforeForgotten ==
  [][\A c \in CRs :
       /\ crs'[c].rec # crs[c].rec /\ crs[c].rec = copy.rec
       /\ copy.rec \notin edited \cup {None}
       => c \notin members[copy.rec]]_vars

\* The same of every record: the Provider leaves the Outpost that is recorded
\* when another one is, also when the status was written after the informer's
\* copy was made.
NeverForgotten ==
  [][\A c \in CRs :
       crs'[c].rec # crs[c].rec /\ crs[c].rec \notin edited \cup {None}
       => c \notin members[crs[c].rec]]_vars

\* In the end the Outpost of the spec serves the Provider and is recorded.
EventuallyServed ==
  <>[](\A c \in CRs :
         \/ crs[c].phase # "active" \/ crs[c].spec \notin outposts
         \/ c \in members[crs[c].spec] /\ crs[c].rec = crs[c].spec)

\* The finalizer of a deleted CR goes away whatever becomes of the Outposts,
\* and with deletionPolicy Delete no Outpost lists the Provider after it.
EventuallyReleased ==
  \A c \in CRs : crs[c].phase = "deleting" ~>
    /\ crs[c].phase = "gone"
    /\ c \in Deleting => \A o \in Outposts : c \notin members[o]
=============================================================================
