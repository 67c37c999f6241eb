--------------------------- MODULE MarkerCacheProofs ---------------------------
(***************************************************************************)
(* Proofs about MarkerCache, for every set of objects and CRs and every    *)
(* bound.  The inductive invariant IInv is the conjunction of TypeOK and   *)
(* the named parts below; TLC has checked each of them on the instance of  *)
(* MarkerCache.cfg.                                                        *)
(***************************************************************************)
EXTENDS MarkerCache, TLAPS

\* Which operation holds markerCache.mu, on behalf of whom.
Shape ==
  /\ pc = "idle" <=> op = "none"
  /\ mu = "free" <=> op = "none"
  /\ mu = "worker" <=> op \in {"ensure", "isManaged", "contains", "remove"}
  /\ op \in {"ensure", "isManaged", "contains"} => job = "reconcile"
  /\ op = "remove" => job = "finalize"
  /\ op \in {"ensure", "remove"} => arg \in todo
  /\ op \notin {"none", "collect"} => arg \in Objects
  /\ job # "idle" => cur \in CRs

\* A pk that was never handed out is mentioned nowhere.
Unborn ==
  \A o \in Objects : object[o] = "unborn" =>
    /\ o \notin perms \cup cached \cup todo \cup adopted \cup gcTodo \cup own
    /\ o # arg
    /\ claim[o] = NoCR
    /\ \A c \in CRs : o \notin status[c] \cup view[c]

\* What carries a marker, or is listed or about to be marked, is claimed.
Claimed ==
  /\ op = "ensure" => claim[arg] = cur
  /\ \A o \in perms \cup cached : claim[o] # NoCR

\* The CR under reconcile, and what is done for it.
Examining ==
  /\ job = "reconcile" => phase[cur] # "gone"
  /\ job \in {"delete", "finalize"} => phase[cur] = "deleting" /\ todo \subseteq own
  /\ adopted \subseteq Bindings
  /\ op = "contains" => arg \in Bindings

\* Unless it was read from an old copy, the status in memory is the stored
\* one, and an Application or a Provider to be marked is recorded in it.
Current ==
  job # "idle" /\ cur \notin misled =>
    /\ own = status[cur]
    /\ job = "reconcile" => \A o \in todo \ Bindings : Live(o) => o \in status[cur]

\* An Application or a Provider that a CR holds is recorded in its status,
\* and a release forgets none of them.
Recorded ==
  \A c \in CRs \ misled, o \in Objects \ Bindings : Live(o) /\ claim[o] = c =>
    /\ o \in status[c]
    /\ phase[c] # "gone"
    /\ job = "finalize" /\ cur = c => o \in todo

\* The object whose marker the collector is about to remove does not exist.
Orphan == pc = "unmark" => op = "orphan" /\ object[arg] = "gone"

\* A list within its TTL was read under the remembered role; an existing
\* object it has in excess is being released and will be released again.
Trusted ==
  /\ age # "nil" \/ pc = "list" => known # 0
  /\ pc \in {"find", "create", "refind", "list"} => age # "fresh"
  /\ age = "fresh" /\ known = role =>
       \A o \in cached \ perms : Live(o) =>
         \E c \in CRs :
           /\ phase[c] # "active"
           /\ c \in misled \/ (/\ phase[c] = "deleting" /\ o \in status[c]
                               /\ job = "finalize" /\ cur = c => o \in todo)

IInv ==
  /\ TypeOK
  /\ Shape
  /\ Unborn
  /\ Claimed
  /\ Examining
  /\ Current
  /\ Recorded
  /\ Orphan
  /\ Trusted

-----------------------------------------------------------------------------
\* The initial state satisfies the invariant.
LEMMA InitEstablishes == Init => IInv
BY MarkerCacheAssumption
   DEF Init, IInv, TypeOK, Shape, Unborn, Claimed, Current, Examining, Recorded, Orphan,
       Trusted, Live

\* The steps inside markerCache.mu keep the invariant.
LEMMA LockedPreserves == IInv /\ LockedStep => IInv'
<1> SUFFICES ASSUME IInv, LockedStep PROVE IInv'
  OBVIOUS
<1>0. TypeOK /\ Shape /\ Unborn /\ Claimed /\ Examining /\ Current /\ Recorded /\ Orphan
        /\ Trusted
  BY DEF IInv
<1> USE MarkerCacheAssumption DEF server, cache, section, worker, collector,
      Lock, Goto, Unlock, EndJob, EndCollect
<1>1. CASE FindRole
  BY <1>0, <1>1 DEF FindRole, AfterRole, TypeOK, Shape, Unborn, Claimed, Current,
     Examining, Recorded, Orphan, Trusted, IInv, Live
<1>2. CASE CreateRole
  <2>1. TypeOK' /\ Shape' /\ Orphan'
    BY <1>0, <1>2 DEF CreateRole, AfterRole, NewRole, CountFailure, TypeOK, Shape,
       Orphan, Unborn, Live
  <2>2. Unborn' /\ Claimed'
    BY <1>0, <1>2 DEF CreateRole, AfterRole, NewRole, CountFailure, Unborn, TypeOK,
       Shape, Claimed, Current, Live
  <2>3. Current' /\ Examining'
    BY <1>0, <1>2 DEF CreateRole, AfterRole, NewRole, CountFailure, Current, TypeOK,
       Shape, Unborn, Claimed, Examining, Live
  <2>4. Recorded'
    BY <1>0, <1>2 DEF CreateRole, AfterRole, NewRole, CountFailure, Recorded, TypeOK,
       Shape, Unborn, Claimed, Current, Examining, Live
  <2>5. Trusted'
    BY <1>0, <1>2 DEF CreateRole, AfterRole, NewRole, CountFailure, Trusted, TypeOK,
       Shape, Unborn, Claimed, Current, Examining, Orphan, Live
  <2> QED
    BY <2>1, <2>2, <2>3, <2>4, <2>5 DEF IInv
<1>3. CASE RefindRole
  BY <1>0, <1>3 DEF RefindRole, AfterRole, Abort, Finish, PatchStatus, TypeOK, Shape, Unborn, Claimed, Current,
     Examining, Recorded, Orphan, Trusted, IInv, Live
<1>4. CASE ListManaged
  BY <1>0, <1>4 DEF ListManaged, Marked, TypeOK, Shape, Unborn, Claimed, Current,
     Examining, Recorded, Orphan, Trusted, IInv, Live
<1>5. CASE Mark
  <2>1. TypeOK' /\ Shape' /\ Orphan'
    BY <1>0, <1>5 DEF Mark, Assign, Abort, Finish, PatchStatus, CountFailure, RoleFound, TypeOK, Shape,
       Orphan, Unborn, Live
  <2>2. Unborn' /\ Claimed'
    BY <1>0, <1>5 DEF Mark, Assign, Abort, Finish, PatchStatus, CountFailure, RoleFound, Unborn, TypeOK,
       Shape, Claimed, Current, Live
  <2>3. Current' /\ Examining'
    BY <1>0, <1>5 DEF Mark, Assign, Abort, Finish, PatchStatus, CountFailure, RoleFound, Current, TypeOK,
       Shape, Unborn, Claimed, Examining, Live
  <2>4. Recorded'
    BY <1>0, <1>5 DEF Mark, Assign, Abort, Finish, PatchStatus, CountFailure, RoleFound, Recorded, TypeOK,
       Shape, Unborn, Claimed, Current, Examining, Live
  <2>5. Trusted'
    BY <1>0, <1>5 DEF Mark, Assign, Abort, Finish, PatchStatus, CountFailure, RoleFound, Trusted, TypeOK,
       Shape, Unborn, Claimed, Current, Examining, Orphan, Live
  <2> QED
    BY <2>1, <2>2, <2>3, <2>4, <2>5 DEF IInv
<1>6. CASE IsManaged
  <2>1. TypeOK' /\ Shape' /\ Orphan'
    BY <1>0, <1>6 DEF IsManaged, Record, Finish, PatchStatus, Marked, CountFailure, TypeOK, Shape, Orphan,
       Unborn, Live
  <2>2. Unborn' /\ Claimed'
    BY <1>0, <1>6 DEF IsManaged, Record, Finish, PatchStatus, Marked, CountFailure, Unborn, TypeOK, Shape,
       Claimed, Current, Live
  <2>3. Current' /\ Examining'
    BY <1>0, <1>6 DEF IsManaged, Record, Finish, PatchStatus, Marked, CountFailure, Current, TypeOK, Shape,
       Unborn, Claimed, Examining, Live
  <2>4. Recorded'
    BY <1>0, <1>6 DEF IsManaged, Record, Finish, PatchStatus, Marked, CountFailure, Recorded, TypeOK,
       Shape, Unborn, Claimed, Current, Examining, Live
  <2>5. Trusted'
    BY <1>0, <1>6 DEF IsManaged, Record, Finish, PatchStatus, Marked, CountFailure, Trusted, TypeOK, Shape,
       Unborn, Claimed, Current, Examining, Orphan, Live
  <2> QED
    BY <2>1, <2>2, <2>3, <2>4, <2>5 DEF IInv
<1>7. CASE Contains
  <2>1. TypeOK' /\ Shape' /\ Orphan'
    BY <1>0, <1>7 DEF Contains, TypeOK, Shape, Orphan, Unborn, Live
  <2>2. Unborn' /\ Claimed'
    BY <1>0, <1>7 DEF Contains, Unborn, TypeOK, Shape, Claimed, Current, Live
  <2>3. Current' /\ Examining'
    BY <1>0, <1>7 DEF Contains, Current, TypeOK, Shape, Unborn, Claimed, Examining, Live
  <2>4. Recorded'
    BY <1>0, <1>7 DEF Contains, Recorded, TypeOK, Shape, Unborn, Claimed, Current,
       Examining, Live
  <2>5. Trusted'
    BY <1>0, <1>7 DEF Contains, Trusted, TypeOK, Shape, Unborn, Claimed, Current,
       Examining, Orphan, Live
  <2> QED
    BY <2>1, <2>2, <2>3, <2>4, <2>5 DEF IInv
<1>8. CASE Unmark
  <2>1. TypeOK' /\ Shape' /\ Orphan'
    BY <1>0, <1>8 DEF Unmark, Unassign, Abort, Finish, PatchStatus, CountFailure, RoleFound, TypeOK, Shape,
       Orphan, Unborn, Live
  <2>2. Unborn' /\ Claimed'
    BY <1>0, <1>8 DEF Unmark, Unassign, Abort, Finish, PatchStatus, CountFailure, RoleFound, Unborn,
       TypeOK, Shape, Claimed, Current, Live
  <2>3. Current' /\ Examining'
    BY <1>0, <1>8 DEF Unmark, Unassign, Abort, Finish, PatchStatus, CountFailure, RoleFound, Current, TypeOK,
       Shape, Unborn, Claimed, Examining, Live
  <2>4. Recorded'
    BY <1>0, <1>8 DEF Unmark, Unassign, Abort, Finish, PatchStatus, CountFailure, RoleFound, Recorded,
       TypeOK, Shape, Unborn, Claimed, Current, Examining, Live
  <2>5. Trusted'
    BY <1>0, <1>8 DEF Unmark, Unassign, Abort, Finish, PatchStatus, CountFailure, RoleFound, Trusted,
       TypeOK, Shape, Unborn, Claimed, Current, Examining, Orphan, Live
  <2> QED
    BY <2>1, <2>2, <2>3, <2>4, <2>5 DEF IInv
<1>9. CASE CopyList
  BY <1>0, <1>9 DEF CopyList, TypeOK, Shape, Unborn, Claimed, Current, Examining, Recorded,
     Orphan, Trusted, IInv, Live
<1>10. CASE MarkIfExists
  <2>1. TypeOK' /\ Shape' /\ Orphan'
    BY <1>0, <1>10 DEF MarkIfExists, Assign, Examined, Abort, Finish, PatchStatus, CountFailure, RoleFound,
       TypeOK, Shape, Orphan, Unborn, Live
  <2>2. Unborn' /\ Claimed'
    BY <1>0, <1>10 DEF MarkIfExists, Assign, Examined, Abort, Finish, PatchStatus, CountFailure, RoleFound,
       Unborn, TypeOK, Shape, Claimed, Current, Live
  <2>3. Current' /\ Examining'
    BY <1>0, <1>10 DEF MarkIfExists, Assign, Examined, Abort, Finish, PatchStatus, CountFailure, RoleFound,
       Current, TypeOK, Shape, Unborn, Claimed, Examining, Live
  <2>4. Recorded'
    BY <1>0, <1>10 DEF MarkIfExists, Assign, Examined, Abort, Finish, PatchStatus, CountFailure, RoleFound,
       Recorded, TypeOK, Shape, Unborn, Claimed, Current, Examining, Live
  <2>5. Trusted'
    BY <1>0, <1>10 DEF MarkIfExists, Assign, Examined, Abort, Finish, PatchStatus, CountFailure, RoleFound,
       Trusted, TypeOK, Shape, Unborn, Claimed, Current, Examining, Orphan, Live
  <2> QED
    BY <2>1, <2>2, <2>3, <2>4, <2>5 DEF IInv
<1>11. CASE UnmarkOrphan
  <2>1. TypeOK' /\ Shape' /\ Orphan'
    BY <1>0, <1>11 DEF UnmarkOrphan, Unassign, Examined, Abort, Finish, PatchStatus, CountFailure,
       RoleFound, TypeOK, Shape, Orphan, Unborn, Live
  <2>2. Unborn' /\ Claimed'
    BY <1>0, <1>11 DEF UnmarkOrphan, Unassign, Examined, Abort, Finish, PatchStatus, CountFailure,
       RoleFound, Unborn, TypeOK, Shape, Claimed, Current, Live
  <2>3. Current' /\ Examining'
    BY <1>0, <1>11 DEF UnmarkOrphan, Unassign, Examined, Abort, Finish, PatchStatus, CountFailure,
       RoleFound, Current, TypeOK, Shape, Unborn, Claimed, Examining, Live
  <2>4. Recorded'
    BY <1>0, <1>11 DEF UnmarkOrphan, Unassign, Examined, Abort, Finish, PatchStatus, CountFailure,
       RoleFound, Recorded, TypeOK, Shape, Unborn, Claimed, Current, Examining, Live
  <2>5. Trusted'
    BY <1>0, <1>11 DEF UnmarkOrphan, Unassign, Examined, Abort, Finish, PatchStatus, CountFailure,
       RoleFound, Trusted, TypeOK, Shape, Unborn, Claimed, Current, Examining, Orphan,
       Live
  <2> QED
    BY <2>1, <2>2, <2>3, <2>4, <2>5 DEF IInv
<1> QED
  BY <1>1, <1>2, <1>3, <1>4, <1>5, <1>6, <1>7, <1>8, <1>9, <1>10, <1>11 DEF LockedStep

\* The steps of a reconcile outside markerCache.mu keep the invariant.
LEMMA ReconcilePreserves == IInv /\ ReconcileStep => IInv'
<1> SUFFICES ASSUME IInv, ReconcileStep PROVE IInv'
  OBVIOUS
<1>0. TypeOK /\ Shape /\ Unborn /\ Claimed /\ Examining /\ Current /\ Recorded /\ Orphan
        /\ Trusted
  BY DEF IInv
<1> USE MarkerCacheAssumption DEF server, cache, section, worker, collector,
      Lock, Goto, Unlock, EndJob, EndCollect
<1>1. ASSUME NEW c \in CRs, StartReconcile(c) PROVE IInv'
  <2>1. TypeOK' /\ Shape' /\ Orphan'
    BY <1>0, <1>1 DEF StartReconcile, Read, TypeOK, Shape, Orphan, Unborn, Live
  <2>2. Unborn' /\ Claimed'
    BY <1>0, <1>1 DEF StartReconcile, Read, Unborn, TypeOK, Shape, Claimed, Current, Live
  <2>3. Current' /\ Examining'
    BY <1>0, <1>1 DEF StartReconcile, Read, Current, TypeOK, Shape, Unborn, Claimed, Examining, Live
  <2>4. Recorded'
    BY <1>0, <1>1 DEF StartReconcile, Read, Recorded, TypeOK, Shape, Unborn, Claimed, Current,
       Examining, Live
  <2>5. Trusted'
    BY <1>0, <1>1 DEF StartReconcile, Read, Trusted, TypeOK, Shape, Unborn, Claimed, Current,
       Examining, Orphan, Live
  <2> QED
    BY <2>1, <2>2, <2>3, <2>4, <2>5 DEF IInv
<1>2. ASSUME NEW o \in Objects, CreateObject(o) PROVE IInv'
  <2>1. TypeOK' /\ Shape' /\ Orphan'
    BY <1>0, <1>2 DEF CreateObject, Record, PatchStatus, CountFailure, TypeOK, Shape, Orphan,
       Unborn, Live
  <2>2. Unborn' /\ Claimed'
    BY <1>0, <1>2 DEF CreateObject, Record, PatchStatus, CountFailure, Unborn, TypeOK, Shape,
       Claimed, Current, Live
  <2>3. Current' /\ Examining'
    BY <1>0, <1>2 DEF CreateObject, Record, PatchStatus, CountFailure, Current, TypeOK, Shape, Unborn,
       Claimed, Examining, Live
  <2>4. Recorded'
    BY <1>0, <1>2 DEF CreateObject, Record, PatchStatus, CountFailure, Recorded, TypeOK, Shape,
       Unborn, Claimed, Current, Examining, Live
  <2>5. Trusted'
    BY <1>0, <1>2 DEF CreateObject, Record, PatchStatus, CountFailure, Trusted, TypeOK, Shape,
       Unborn, Claimed, Current, Examining, Orphan, Live
  <2> QED
    BY <2>1, <2>2, <2>3, <2>4, <2>5 DEF IInv
<1>3. ASSUME NEW o \in Objects, BeginEnsure(o) PROVE IInv'
  BY <1>0, <1>3 DEF BeginEnsure, RefreshLocked, TypeOK, Shape, Unborn, Claimed, Current,
     Examining, Recorded, Orphan, Trusted, IInv, Live
<1>4. ASSUME NEW o \in Objects, BeginIsManaged(o) PROVE IInv'
  BY <1>0, <1>4 DEF BeginIsManaged, RefreshLocked, Visible, TypeOK, Shape, Unborn,
     Claimed, Current, Examining, Recorded, Orphan, Trusted, IInv, Live
<1>5. ASSUME NEW o \in Objects, BeginContains(o) PROVE IInv'
  BY <1>0, <1>5 DEF BeginContains, RefreshLocked, Visible, TypeOK, Shape, Unborn,
     Claimed, Current, Examining, Recorded, Orphan, Trusted, IInv, Live
<1>6. CASE FinishReconcile
  <2>1. TypeOK' /\ Shape' /\ Orphan'
    BY <1>0, <1>6 DEF FinishReconcile, PatchStatus, CountFailure, TypeOK, Shape, Orphan, Unborn, Live
  <2>2. Unborn' /\ Claimed'
    BY <1>0, <1>6 DEF FinishReconcile, PatchStatus, CountFailure, Unborn, TypeOK, Shape, Claimed,
       Current, Live
  <2>3. Current' /\ Examining'
    BY <1>0, <1>6 DEF FinishReconcile, PatchStatus, CountFailure, Current, TypeOK, Shape, Unborn,
       Claimed, Examining, Live
  <2>4. Recorded'
    BY <1>0, <1>6 DEF FinishReconcile, PatchStatus, CountFailure, Recorded, TypeOK, Shape, Unborn,
       Claimed, Current, Examining, Live
  <2>5. Trusted'
    BY <1>0, <1>6 DEF FinishReconcile, PatchStatus, CountFailure, Trusted, TypeOK, Shape, Unborn,
       Claimed, Current, Examining, Orphan, Live
  <2> QED
    BY <2>1, <2>2, <2>3, <2>4, <2>5 DEF IInv
<1> QED
  BY <1>1, <1>2, <1>3, <1>4, <1>5, <1>6 DEF ReconcileStep

\* The steps of a finalize outside markerCache.mu keep the invariant.
LEMMA FinalizePreserves == IInv /\ FinalizeStep => IInv'
<1> SUFFICES ASSUME IInv, FinalizeStep PROVE IInv'
  OBVIOUS
<1>0. TypeOK /\ Shape /\ Unborn /\ Claimed /\ Examining /\ Current /\ Recorded /\ Orphan
        /\ Trusted
  BY DEF IInv
<1> USE MarkerCacheAssumption DEF server, cache, section, worker, collector,
      Lock, Goto, Unlock, EndJob, EndCollect
<1>1. ASSUME NEW c \in CRs, StartFinalize(c) PROVE IInv'
  <2>1. TypeOK' /\ Shape' /\ Orphan'
    BY <1>0, <1>1 DEF StartFinalize, Read, TypeOK, Shape, Orphan, Unborn, Live
  <2>2. Unborn' /\ Claimed'
    BY <1>0, <1>1 DEF StartFinalize, Read, Unborn, TypeOK, Shape, Claimed, Current, Live
  <2>3. Current' /\ Examining'
    BY <1>0, <1>1 DEF StartFinalize, Read, Current, TypeOK, Shape, Unborn, Claimed, Examining, Live
  <2>4. Recorded'
    BY <1>0, <1>1 DEF StartFinalize, Read, Recorded, TypeOK, Shape, Unborn, Claimed, Current,
       Examining, Live
  <2>5. Trusted'
    BY <1>0, <1>1 DEF StartFinalize, Read, Trusted, TypeOK, Shape, Unborn, Claimed, Current,
       Examining, Orphan, Live
  <2> QED
    BY <2>1, <2>2, <2>3, <2>4, <2>5 DEF IInv
<1>2. ASSUME NEW o \in Objects, DeleteObject(o) PROVE IInv'
  BY <1>0, <1>2 DEF DeleteObject, CountFailure, TypeOK, Shape, Unborn, Claimed, Current,
     Examining, Recorded, Orphan, Trusted, IInv, Live
<1>3. ASSUME NEW o \in Objects, BeginRemove(o) PROVE IInv'
  BY <1>0, <1>3 DEF BeginRemove, TypeOK, Shape, Unborn, Claimed, Current, Examining,
     Recorded, Orphan, Trusted, IInv, Live
<1>4. CASE StartRemove
  BY <1>0, <1>4 DEF StartRemove, TypeOK, Shape, Unborn, Claimed, Current, Examining,
     Recorded, Orphan, Trusted, IInv, Live
<1>5. CASE FinishFinalize
  <2>1. TypeOK' /\ Shape' /\ Orphan'
    BY <1>0, <1>5 DEF FinishFinalize, CountFailure, TypeOK, Shape, Orphan, Unborn, Live
  <2>2. Unborn' /\ Claimed'
    BY <1>0, <1>5 DEF FinishFinalize, CountFailure, Unborn, TypeOK, Shape, Claimed,
       Current, Live
  <2>3. Current' /\ Examining'
    BY <1>0, <1>5 DEF FinishFinalize, CountFailure, Current, TypeOK, Shape, Unborn,
       Claimed, Examining, Live
  <2>4. Recorded'
    BY <1>0, <1>5 DEF FinishFinalize, CountFailure, Recorded, TypeOK, Shape, Unborn,
       Claimed, Current, Examining, Live
  <2>5. Trusted'
    BY <1>0, <1>5 DEF FinishFinalize, CountFailure, Trusted, TypeOK, Shape, Unborn,
       Claimed, Current, Examining, Orphan, Live
  <2> QED
    BY <2>1, <2>2, <2>3, <2>4, <2>5 DEF IInv
<1> QED
  BY <1>1, <1>2, <1>3, <1>4, <1>5 DEF FinalizeStep

\* The steps of the collector outside markerCache.mu keep the invariant.
LEMMA CollectPreserves == IInv /\ CollectStep => IInv'
<1> SUFFICES ASSUME IInv, CollectStep PROVE IInv'
  OBVIOUS
<1>0. TypeOK /\ Shape /\ Unborn /\ Claimed /\ Examining /\ Current /\ Recorded /\ Orphan
        /\ Trusted
  BY DEF IInv
<1> USE MarkerCacheAssumption DEF server, cache, section, worker, collector,
      Lock, Goto, Unlock, EndJob, EndCollect
<1>1. CASE BeginCollect
  BY <1>0, <1>1 DEF BeginCollect, TypeOK, Shape, Unborn, Claimed, Current, Examining,
     Recorded, Orphan, Trusted, IInv, Live
<1>2. CASE FinishCollect
  BY <1>0, <1>2 DEF FinishCollect, TypeOK, Shape, Unborn, Claimed, Current, Examining,
     Recorded, Orphan, Trusted, IInv, Live
<1>3. ASSUME NEW o \in Objects, BeginRemoveIfOrphaned(o) PROVE IInv'
  BY <1>0, <1>3 DEF BeginRemoveIfOrphaned, TypeOK, Shape, Unborn, Claimed, Current,
     Examining, Recorded, Orphan, Trusted, IInv, Live
<1> QED
  BY <1>1, <1>2, <1>3 DEF CollectStep

\* Failures, restarts, the clock, other replicas and people keep the invariant.
LEMMA EnvironmentPreserves == IInv /\ Environment => IInv'
<1> SUFFICES ASSUME IInv, Environment PROVE IInv'
  OBVIOUS
<1>0. TypeOK /\ Shape /\ Unborn /\ Claimed /\ Examining /\ Current /\ Recorded /\ Orphan
        /\ Trusted
  BY DEF IInv
<1> USE MarkerCacheAssumption DEF server, cache, section, worker, collector,
      Lock, Goto, Unlock, EndJob, EndCollect
<1>1. CASE CallFails
  BY <1>0, <1>1 DEF CallFails, Calling, CountFailure, Abort, Finish, PatchStatus, TypeOK, Shape, Unborn,
     Claimed, Current, Examining, Recorded, Orphan, Trusted, IInv, Live
<1>2. CASE Restart
  BY <1>0, <1>2 DEF Restart, CountFailure, NewRole, TypeOK, Shape, Unborn, Claimed,
     Current, Examining, Recorded, Orphan, Trusted, IInv, Live
<1>3. CASE Expire
  BY <1>0, <1>3 DEF Expire, TypeOK, Shape, Unborn, Claimed, Current, Examining, Recorded,
     Orphan, Trusted, IInv, Live
<1>9. CASE Deliver
  BY <1>0, <1>9 DEF Deliver, TypeOK, Shape, Unborn, Claimed, Current, Examining, Recorded,
     Orphan, Trusted, IInv, Live
<1>4. CASE OtherReplicaCreatesRole
  BY <1>0, <1>4 DEF OtherReplicaCreatesRole, NewRole, TypeOK, Shape, Unborn, Claimed,
     Current, Examining, Recorded, Orphan, Trusted, IInv, Live
<1>5. CASE UIDeleteRole
  BY <1>0, <1>5 DEF UIDeleteRole, TypeOK, Shape, Unborn, Claimed, Current, Examining,
     Recorded, Orphan, Trusted, IInv, Live
<1>6. ASSUME NEW o \in Objects, UICreateObject(o) PROVE IInv'
  BY <1>0, <1>6 DEF UICreateObject, TypeOK, Shape, Unborn, Claimed, Current, Examining,
     Recorded, Orphan, Trusted, IInv, Live
<1>7. ASSUME NEW o \in Objects, UIDeleteObject(o) PROVE IInv'
  BY <1>0, <1>7 DEF UIDeleteObject, TypeOK, Shape, Unborn, Claimed, Current, Examining,
     Recorded, Orphan, Trusted, IInv, Live
<1>8. ASSUME NEW c \in CRs, DeleteCR(c) PROVE IInv'
  BY <1>0, <1>8 DEF DeleteCR, TypeOK, Shape, Unborn, Claimed, Current, Examining, Recorded,
     Orphan, Trusted, IInv, Live
<1> QED
  BY <1>1, <1>2, <1>3, <1>4, <1>5, <1>6, <1>7, <1>8, <1>9 DEF Environment

\* Every step, and every stuttering step, keeps the invariant.
LEMMA NextPreserves == IInv /\ [Next]_vars => IInv'
<1> SUFFICES ASSUME IInv, [Next]_vars PROVE IInv'
  OBVIOUS
<1>1. CASE Next
  BY <1>1, LockedPreserves, ReconcilePreserves, FinalizePreserves,
     CollectPreserves, EnvironmentPreserves DEF Next
<1>2. CASE UNCHANGED vars
  BY <1>2 DEF vars, server, cache, section, worker, collector, IInv, TypeOK, Shape,
     Unborn, Claimed, Current, Examining, Recorded, Orphan, Trusted, Live
<1> QED
  BY <1>1, <1>2

\* IInv is an invariant.
LEMMA Invariance == Spec => []IInv
BY InitEstablishes, NextPreserves, PTL DEF Spec

\* Type correctness.
THEOREM TypeCorrect == Spec => []TypeOK
<1>1. IInv => TypeOK
  BY DEF IInv
<1> QED
  BY <1>1, Invariance, PTL

\* No marker on an object that no CR holds: whatever the collector, the cached
\* list, restarts and role recreations do, a released or manual object is
\* never marked behind the back of the people who own it (markers.go, collect).
THEOREM ManualObjectsStayUnmarked == Spec => []ManualStaysUnmarked
<1>1. IInv => ManualStaysUnmarked
  BY DEF IInv, Claimed, ManualStaysUnmarked
<1> QED
  BY <1>1, Invariance, PTL

\* No Application or Provider keeps a marker attached for a CR that is gone,
\* unless the CR was once read from an old copy: the record precedes the
\* marker, and the release forgets no record, also when another CR took the
\* object over meanwhile (deletion.go, release; application.go,
\* reconcileApplication).
THEOREM NoMarkerSurvivesItsCR == Spec => []GoneLeavesNoMarker
<1>1. IInv => GoneLeavesNoMarker
  BY DEF IInv, TypeOK, Recorded, GoneLeavesNoMarker
<1> QED
  BY <1>1, Invariance, PTL

\* A hit in the cached list may replace the API call: the object has its
\* marker, or does not exist, or a CR that is being deleted will release it
\* again (markers.go, ensure).
THEOREM CachedListTrusted == Spec => []CacheTrusted
<1>1. IInv => CacheTrusted
  BY DEF IInv, Trusted, CacheTrusted
<1> QED
  BY <1>1, Invariance, PTL

\* The collector unmarks only objects that do not exist, although checking
\* and unmarking are two requests (markers.go, removeIfOrphaned).
THEOREM CollectorSafe == Spec => CollectorSparesLiveObjects
<1>1. ASSUME IInv, Next, NEW o \in perms, o \notin perms', role' = role, mu = "gc"
      PROVE  ~Live(o)
  <2> USE DEF server, Assign, Unassign, NewRole, Abort
  <2>1. Shape /\ Orphan /\ TypeOK
    BY <1>1 DEF IInv
  <2>2. CASE UnmarkOrphan
    BY <1>1, <2>1, <2>2 DEF Orphan, UnmarkOrphan, Live
  <2>3. CASE Unmark
    BY <1>1, <2>1, <2>3 DEF Shape, Unmark
  <2>4. CASE UIDeleteRole
    BY <1>1, <2>4 DEF UIDeleteRole
  <2>5. CASE LockedStep /\ ~UnmarkOrphan /\ ~Unmark
    BY <1>1, <2>5 DEF LockedStep, FindRole, CreateRole, RefindRole, ListManaged, Mark,
       IsManaged, Contains, CopyList, MarkIfExists
  <2>6. CASE ReconcileStep \/ FinalizeStep \/ CollectStep
    BY <1>1, <2>6 DEF ReconcileStep, StartReconcile, CreateObject, BeginEnsure,
       BeginIsManaged, BeginContains, FinishReconcile, FinalizeStep, StartFinalize,
       DeleteObject, BeginRemove, StartRemove, FinishFinalize, CollectStep, BeginCollect,
       FinishCollect, BeginRemoveIfOrphaned
  <2>7. CASE Environment /\ ~UIDeleteRole
    BY <1>1, <2>7 DEF Environment, CallFails, Restart, Expire, OtherReplicaCreatesRole,
       Deliver, UICreateObject, UIDeleteObject, DeleteCR
  <2> QED
    BY <1>1, <2>2, <2>3, <2>4, <2>5, <2>6, <2>7 DEF Next
<1>2. IInv /\ [Next]_vars =>
        [\A o \in perms : o \notin perms' /\ role' = role /\ mu = "gc" => ~Live(o)]_vars
  BY <1>1
<1> QED
  BY <1>2, Invariance, PTL DEF Spec, CollectorSparesLiveObjects

-----------------------------------------------------------------------------
(* The refinement.  Each step of MarkerCache that changes an object, a     *)
(* marker, a claim or the life of a CR is a step of Ownership; every other *)
(* step leaves the variables of Ownership alone.                           *)

\* The steps inside markerCache.mu.
LEMMA LockedRefines == IInv /\ LockedStep => [Own!Next]_(Own!vars)
<1> SUFFICES ASSUME IInv, LockedStep PROVE [Own!Next]_(Own!vars)
  OBVIOUS
<1>0. TypeOK /\ Shape /\ Unborn /\ Claimed /\ Examining /\ Recorded /\ Orphan
  BY DEF IInv
<1> USE MarkerCacheAssumption DEF server, cache, section, worker, collector
<1>1. CASE FindRole \/ CreateRole \/ RefindRole \/ ListManaged \/ CopyList
  BY <1>1 DEF FindRole, CreateRole, NewRole, RefindRole, ListManaged, CopyList, Abort,
     Finish, Own!vars
<1>2. CASE Mark
  <2>1. arg \in Objects /\ cur \in CRs /\ claim[arg] = cur /\ job = "reconcile"
    BY <1>0, <1>2 DEF Mark, Shape, Claimed
  <2>2. UNCHANGED <<object, claim, phase, misled>>
    BY <1>2 DEF Mark, Assign, Abort, Finish
  <2>3. CASE perms' = perms
    BY <2>2, <2>3 DEF Own!vars
  <2>4. CASE Live(arg) /\ perms' = perms \cup {arg}
    <3>1. Own!MarkFor(arg, cur)
      BY <1>0, <2>1, <2>2, <2>4 DEF Own!MarkFor, Live, Examining
    <3> QED BY <2>1, <3>1 DEF Own!Next
  <2> QED BY <1>2, <2>3, <2>4 DEF Mark, Assign
<1>3. CASE IsManaged
  <2>1. arg \in Objects /\ cur \in CRs /\ job = "reconcile"
    BY <1>0, <1>3 DEF IsManaged, Shape
  <2>2. UNCHANGED <<object, perms, phase, misled>>
    BY <1>3 DEF IsManaged, Record, Finish
  <2>3. CASE claim' = claim
    BY <2>2, <2>3 DEF Own!vars
  <2>4. CASE claim' = [claim EXCEPT ![arg] = cur]
    <3>1. Own!Claim(arg, cur)
      BY <1>0, <1>3, <2>1, <2>2, <2>4 DEF Own!Claim, IsManaged, Unborn, Examining
    <3> QED BY <2>1, <3>1 DEF Own!Next
  <2> QED BY <1>3, <2>3, <2>4 DEF IsManaged, Record
<1>4. CASE Contains
  <2>1. arg \in Objects /\ cur \in CRs /\ job = "reconcile"
    BY <1>0, <1>4 DEF Contains, Shape
  <2>2. UNCHANGED <<object, perms, phase, misled>>
    BY <1>4 DEF Contains
  <2>3. CASE claim' = claim
    BY <2>2, <2>3 DEF Own!vars
  <2>4. CASE claim' = [claim EXCEPT ![arg] = cur]
    <3>1. Own!Claim(arg, cur)
      BY <1>0, <1>4, <2>1, <2>2, <2>4 DEF Own!Claim, Contains, Unborn, Examining
    <3> QED BY <2>1, <3>1 DEF Own!Next
  <2> QED BY <1>4, <2>3, <2>4 DEF Contains
<1>5. CASE Unmark
  <2>1. arg \in Objects /\ cur \in CRs /\ phase[cur] = "deleting"
    BY <1>0, <1>5 DEF Unmark, Shape, Examining
  <2>2. UNCHANGED <<object, phase, misled>>
    BY <1>5 DEF Unmark, Unassign, Abort, Finish
  <2>3. CASE perms' = perms /\ claim' = claim
    BY <2>2, <2>3 DEF Own!vars
  <2>4. CASE perms' = perms \ {arg} /\ claim' = claim
    <3>1. Own!Release(arg, cur)
      BY <2>1, <2>2, <2>4 DEF Own!Release
    <3> QED BY <2>1, <3>1 DEF Own!Next
  <2>5. CASE /\ perms' = perms \ {arg}
             /\ claim' = [claim EXCEPT ![arg] = IF @ = cur THEN NoCR ELSE @]
    <3>1. CASE claim[arg] = cur
      <4>1. claim' = [claim EXCEPT ![arg] = NoCR]
        BY <2>5, <3>1
      <4>2. Own!Release(arg, cur)
        BY <2>1, <2>2, <2>5, <3>1, <4>1 DEF Own!Release
      <4> QED BY <2>1, <4>2 DEF Own!Next
    <3>2. CASE claim[arg] # cur
      <4>1. claim' = claim
        BY <1>0, <2>1, <2>5, <3>2 DEF TypeOK
      <4> QED BY <2>4, <2>5, <4>1
    <3> QED BY <3>1, <3>2
  <2> QED BY <1>5, <2>3, <2>4, <2>5 DEF Unmark, Unassign, Abort
<1>6. CASE MarkIfExists
  <2>1. UNCHANGED <<object, claim, phase, misled>>
    BY <1>6 DEF MarkIfExists, Assign, Abort, Finish
  <2>2. CASE perms' = perms
    BY <2>1, <2>2 DEF Own!vars
  <2>3. CASE arg \in cached /\ Live(arg) /\ perms' = perms \cup {arg}
    <3>1. arg \in Objects /\ claim[arg] \in CRs
      BY <1>0, <2>3 DEF TypeOK, Claimed
    <3>2. phase[claim[arg]] = "gone" => arg \in Bindings \/ claim[arg] \in misled
      BY <1>0, <2>3, <3>1 DEF Recorded
    <3>3. Own!MarkFor(arg, claim[arg])
      BY <2>1, <2>3, <3>2 DEF Own!MarkFor, Live
    <3> QED BY <3>1, <3>3 DEF Own!Next
  <2> QED BY <1>6, <2>2, <2>3 DEF MarkIfExists, Assign
<1>7. CASE UnmarkOrphan
  <2>1. UNCHANGED <<object, claim, phase, misled>>
    BY <1>7 DEF UnmarkOrphan, Unassign, Abort, Finish
  <2>2. arg \in Objects /\ object[arg] = "gone"
    BY <1>0, <1>7 DEF UnmarkOrphan, Orphan, Shape
  <2>3. CASE perms' = perms
    BY <2>1, <2>3 DEF Own!vars
  <2>4. CASE perms' = perms \ {arg}
    <3>1. Own!Collect(arg)
      BY <2>1, <2>2, <2>4 DEF Own!Collect
    <3> QED BY <2>2, <3>1 DEF Own!Next
  <2> QED BY <1>7, <2>3, <2>4 DEF UnmarkOrphan, Unassign
<1> QED BY <1>1, <1>2, <1>3, <1>4, <1>5, <1>6, <1>7 DEF LockedStep

\* The worker's steps outside of it, and the collector's.
LEMMA WorkerRefines == IInv /\ (ReconcileStep \/ FinalizeStep \/ CollectStep) => [Own!Next]_(Own!vars)
<1> SUFFICES ASSUME IInv, ReconcileStep \/ FinalizeStep \/ CollectStep PROVE [Own!Next]_(Own!vars)
  OBVIOUS
<1>0. TypeOK /\ Shape /\ Unborn /\ Examining /\ Recorded
  BY DEF IInv
<1> USE MarkerCacheAssumption DEF server, cache, section, worker, collector
<1>1. ASSUME NEW o \in Objects, CreateObject(o)
      PROVE  [Own!Next]_(Own!vars)
  <2>1. /\ object[o] = "unborn" /\ object' = [object EXCEPT ![o] = "live"]
        /\ UNCHANGED <<perms, phase, misled>> /\ job = "reconcile"
    BY <1>1 DEF CreateObject, Record
  <2>2. cur \in CRs /\ phase[cur] # "gone"
    BY <1>0, <2>1 DEF Shape, Examining
  <2>3. CASE claim' = claim
    BY <2>1, <2>3 DEF Own!Next, Own!Appear
  <2>4. CASE claim' = [claim EXCEPT ![o] = cur]
    BY <2>1, <2>2, <2>4 DEF Own!Next, Own!AppearFor
  <2> QED BY <1>1, <2>3, <2>4 DEF CreateObject, Record
<1>2. ASSUME NEW o \in Objects, BeginEnsure(o)
      PROVE  [Own!Next]_(Own!vars)
  <2>1. cur \in CRs /\ phase[cur] # "gone" /\ object[o] # "unborn"
    BY <1>0, <1>2 DEF BeginEnsure, Shape, Examining, Unborn
  <2>2. Own!Claim(o, cur)
    BY <1>2, <2>1 DEF BeginEnsure, Own!Claim
  <2> QED BY <2>1, <2>2 DEF Own!Next
<1>3. ASSUME NEW c \in CRs, StartReconcile(c) \/ StartFinalize(c)
      PROVE  [Own!Next]_(Own!vars)
  <2>1. phase[c] # "gone" /\ UNCHANGED <<object, perms, claim, phase>>
    BY <1>3 DEF StartReconcile, StartFinalize
  <2>2. CASE misled' = misled
    BY <2>1, <2>2 DEF Own!vars
  <2>3. CASE misled' = misled \cup {c}
    BY <2>1, <2>3 DEF Own!Next, Own!Mislead
  <2> QED BY <1>3, <2>2, <2>3 DEF StartReconcile, StartFinalize, Read
<1>4. ASSUME NEW o \in Objects, DeleteObject(o)
      PROVE  [Own!Next]_(Own!vars)
  <2>1. o \in todo /\ UNCHANGED <<perms, phase, claim, misled>> /\ object[o] \in {"live", "gone"}
    BY <1>0, <1>4 DEF DeleteObject, Unborn, TypeOK
  <2>2. CASE object' = object
    BY <2>1, <2>2 DEF Own!vars
  <2>3. CASE object' = [object EXCEPT ![o] = "gone"] /\ object[o] = "live"
    BY <2>1, <2>3 DEF Own!Next, Own!Disappear
  <2>4. CASE object' = [object EXCEPT ![o] = "gone"] /\ object[o] = "gone"
    <3>1. object' = object
      BY <1>0, <2>4 DEF TypeOK
    <3> QED BY <2>2, <3>1
  <2> QED BY <1>4, <2>1, <2>2, <2>3, <2>4 DEF DeleteObject
<1>5. CASE FinishFinalize
  <2>1. /\ cur \in CRs /\ phase[cur] = "deleting" /\ todo = {}
        /\ job = "finalize" /\ UNCHANGED <<object, perms, claim, misled>>
    BY <1>0, <1>5 DEF FinishFinalize, Shape, Examining
  <2>2. CASE phase' = phase
    BY <2>1, <2>2 DEF Own!vars
  <2>3. CASE phase' = [phase EXCEPT ![cur] = "gone"]
    <3>1. cur \in misled \/ \A o \in perms \ Bindings : object[o] = "live" => claim[o] # cur
      BY <1>0, <2>1 DEF Recorded, TypeOK, Live
    <3>2. Own!FinishDeletion(cur)
      BY <2>1, <2>3, <3>1 DEF Own!FinishDeletion
    <3> QED BY <2>1, <3>2 DEF Own!Next
  <2> QED BY <1>5, <2>2, <2>3 DEF FinishFinalize
<1>6. CASE UNCHANGED <<object, perms, claim, phase, misled>>
  BY <1>6 DEF Own!vars
<1> QED
  BY <1>1, <1>2, <1>3, <1>4, <1>5, <1>6 DEF ReconcileStep, BeginIsManaged, BeginContains,
     FinishReconcile, FinalizeStep, BeginRemove, StartRemove, CollectStep, BeginCollect,
     FinishCollect, BeginRemoveIfOrphaned

\* Everyone else.
LEMMA EnvironmentRefines == IInv /\ Environment => [Own!Next]_(Own!vars)
<1> SUFFICES ASSUME IInv, Environment PROVE [Own!Next]_(Own!vars)
  OBVIOUS
<1> USE DEF server, cache, section, worker, collector
<1>1. CASE CallFails \/ Restart \/ Expire \/ Deliver \/ OtherReplicaCreatesRole
  BY <1>1 DEF CallFails, Abort, Finish, Restart, Expire, Deliver, OtherReplicaCreatesRole,
     NewRole, Own!vars
<1>2. CASE UIDeleteRole
  BY <1>2 DEF UIDeleteRole, Own!Next, Own!LoseRole
<1>3. ASSUME NEW o \in Objects, UICreateObject(o) \/ UIDeleteObject(o)
      PROVE  [Own!Next]_(Own!vars)
  BY <1>3 DEF UICreateObject, UIDeleteObject, Live, Own!Next, Own!Appear, Own!Disappear
<1>4. ASSUME NEW c \in CRs, DeleteCR(c)
      PROVE  [Own!Next]_(Own!vars)
  BY <1>4 DEF DeleteCR, Own!Next, Own!StartDeletion
<1> QED BY <1>1, <1>2, <1>3, <1>4 DEF Environment

\* markerCache, the reconcile worker and the collector keep the promise of
\* Ownership: no object is marked that no CR claims, none loses its marker but
\* by the release of a CR that is being deleted, a collection or the loss of
\* the role, and no CR goes away while it holds a marked Application or
\* Provider, unless it was read from an old copy (markers.go, deletion.go).
THEOREM OwnershipImplemented == Spec => ImplementsOwnership
<1>1. Init => Own!Init
  BY DEF Init, Own!Init
<1>2. IInv /\ [Next]_vars => [Own!Next]_(Own!vars)
  <2>1. CASE UNCHANGED vars
    BY <2>1 DEF vars, server, worker, Own!vars
  <2> QED BY <2>1, LockedRefines, WorkerRefines, EnvironmentRefines DEF Next
<1> QED BY <1>1, <1>2, Invariance, PTL DEF Spec, ImplementsOwnership, Own!Spec
==============================================================================
