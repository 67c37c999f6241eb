------------------------------ MODULE Ownership ------------------------------
(***************************************************************************)
(* What the operator promises about the markers of objects in authentik,   *)
(* without the role, the cached list, the mutex, the requests and their    *)
(* failures, by which module MarkerCache brings it about.                  *)
(*                                                                         *)
(* An object is marked only while a CR claims it, loses its marker only    *)
(* because a CR is being deleted, because it does not exist, or with all   *)
(* others when the role is deleted, and no CR goes away and leaves its     *)
(* marker on an Application or a Provider, unless the operator was misled  *)
(* by an old copy of its status.                                           *)
(*                                                                         *)
(* A claim may be taken over, from a CR that is being deleted above all,   *)
(* and the release of that CR takes the marker all the same; that no two   *)
(* CRs which stay manage one Application is the subject of Takeover.       *)
(***************************************************************************)
CONSTANTS Objects,   \* pks
          Bindings,  \* the objects that are recorded only after they are marked
          CRs, NoCR

VARIABLES object,    \* the life of an object
          marked,    \* the objects that carry the marker
          holder,    \* the CR that claims an object, NoCR for a manual one
          phase,     \* the life of a CR
          misled     \* the CRs that the operator once knew by an old copy only

vars == <<object, marked, holder, phase, misled>>

Init ==
  /\ object = [o \in Objects |-> "unborn"]
  /\ marked = {}
  /\ holder = [o \in Objects |-> NoCR]
  /\ phase = [c \in CRs |-> "active"]
  /\ misled = {}

\* People or the operator make an object ...
Appear(o) ==
  /\ object[o] = "unborn"
  /\ object' = [object EXCEPT ![o] = "live"]
  /\ UNCHANGED <<marked, holder, phase, misled>>

\* ... which is claimed at once by the CR that it was made for, ...
AppearFor(o, c) ==
  /\ object[o] = "unborn" /\ phase[c] # "gone"
  /\ object' = [object EXCEPT ![o] = "live"]
  /\ holder' = [holder EXCEPT ![o] = c]
  /\ UNCHANGED <<marked, phase, misled>>

\* ... and delete it; the marker stays.
Disappear(o) ==
  /\ object[o] = "live"
  /\ object' = [object EXCEPT ![o] = "gone"]
  /\ UNCHANGED <<marked, holder, phase, misled>>

Claim(o, c) ==
  /\ object[o] # "unborn" /\ phase[c] # "gone"
  /\ holder' = [holder EXCEPT ![o] = c]
  /\ UNCHANGED <<object, marked, phase, misled>>

MarkFor(o, c) ==
  /\ object[o] = "live" /\ holder[o] = c
  /\ phase[c] = "gone" => o \in Bindings \/ c \in misled
  /\ marked' = marked \cup {o}
  /\ UNCHANGED <<object, holder, phase, misled>>

\* The object loses its marker, and becomes a manual one unless another CR
\* claims it or the answer was lost and it is still to be released.
Release(o, c) ==
  /\ phase[c] = "deleting"
  /\ marked' = marked \ {o}
  /\ holder' = holder \/ (holder[o] = c /\ holder' = [holder EXCEPT ![o] = NoCR])
  /\ UNCHANGED <<object, phase, misled>>

Collect(o) ==
  /\ object[o] = "gone"
  /\ marked' = marked \ {o}
  /\ UNCHANGED <<object, holder, phase, misled>>

LoseRole ==
  /\ marked' = {}
  /\ UNCHANGED <<object, holder, phase, misled>>

\* The operator starts to act for a CR from an old copy.
Mislead(c) ==
  /\ phase[c] # "gone"
  /\ misled' = misled \cup {c}
  /\ UNCHANGED <<object, marked, holder, phase>>

StartDeletion(c) ==
  /\ phase[c] = "active"
  /\ phase' = [phase EXCEPT ![c] = "deleting"]
  /\ UNCHANGED <<object, marked, holder, misled>>

FinishDeletion(c) ==
  /\ phase[c] = "deleting"
  /\ c \in misled \/ \A o \in marked \ Bindings : object[o] = "live" => holder[o] # c
  /\ phase' = [phase EXCEPT ![c] = "gone"]
  /\ UNCHANGED <<object, marked, holder, misled>>

Next ==
  \/ \E o \in Objects : Appear(o) \/ Disappear(o) \/ Collect(o)
  \/ \E o \in Objects, c \in CRs : AppearFor(o, c) \/ Claim(o, c) \/ MarkFor(o, c) \/ Release(o, c)
  \/ \E c \in CRs : Mislead(c) \/ StartDeletion(c) \/ FinishDeletion(c)
  \/ LoseRole

Spec == Init /\ [][Next]_vars
=============================================================================
