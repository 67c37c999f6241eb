---------------------------- MODULE ProviderSync ----------------------------
(***************************************************************************)
(* The fields of one Application and its Provider: which of them the spec  *)
(* of a CR manages, how an object made by hand is compared before it is    *)
(* adopted, what a partial update sends and what the server makes of it,   *)
(* and the credentials Secret of an OAuth2 Provider.  People edit objects, *)
(* CR and Secret between any two requests, and any request may fail.       *)
(*                                                                         *)
(* An object is a function from its fields to their values.  A desired     *)
(* state and the body of a request are functions on some of the fields:    *)
(* the others are not managed, or not sent.  Fields that the code treats   *)
(* alike have one representative: token_validity for the optional ones,    *)
(* property_mappings for the lists, group for those of the Application.    *)
(* One Provider has the name that the spec gives it: names are unique.     *)
(* Which CR works on the Application, and its deletion, are the subject of *)
(* module Takeover; the Outpost of a Proxy Provider is not modelled.       *)
(***************************************************************************)
EXTENDS Naturals, Sequences, SequencesExt

CONSTANTS Specs,     \* the specs a CR may have
          HandMade,  \* Providers that people made before there was a CR
          MaxEdits,  \* bound: edits of objects, references, CR and Secret
          MaxFails   \* bound: failed requests and crashes

Values   == {"a", "b"}   \* "a" is also the default of the server
Mappings == {"m1", "m2"}
Modes    == {"proxy", "forward_single", "forward_domain"}

\* A spec; Unset and NoScopes are fields that it leaves out.
Unset == "unset"
NoScopes == <<Unset>>
Policy == {"Never", "IfMatch", "Force"}

ProxySpecs ==
  [kind : {"proxy"}, adopt : Policy, group : Values \cup {Unset},
   mode : Modes, host : Values, validity : Values \cup {Unset}]

OAuth2Specs ==
  [kind : {"oauth2"}, adopt : Policy, group : Values \cup {Unset},
   scopes : Seq(Mappings) \cup {NoScopes}, credentials : BOOLEAN, validity : Values \cup {Unset}]

AnySpec == ProxySpecs \cup OAuth2Specs

Nothing == <<>>      \* no object; the empty desired state; the empty body
None    == "none"    \* no Secret
NoKey   == "nokey"   \* a Secret without the key that the spec names

\* The Providers of authentik.  Mode proxy needs an internal host.
Providers(kind) ==
  IF kind = "proxy"
  THEN {p \in [mode : Modes, external_host : Values, internal_host : {"", "a"},
               cookie_domain : {"", "a"}, token_validity : Values] :
          p.mode = "proxy" => p.internal_host # ""}
  ELSE [property_mappings : SUBSET Mappings, client_secret : Values, token_validity : Values]

AllProviders == Providers("proxy") \cup Providers("oauth2")

ASSUME ProviderSyncAssumption ==
  /\ Specs \subseteq AnySpec /\ HandMade \subseteq AllProviders
  /\ MaxEdits \in Nat /\ MaxFails \in Nat

KindOf(p) == IF "mode" \in DOMAIN p THEN "proxy" ELSE "oauth2"

\* The Applications: provider says whether the Provider is attached.
Applications == [group : Values, provider : BOOLEAN]

VARIABLES
  prov,      \* authentik: the Provider, or Nothing
  appl,      \* authentik: the Application, or Nothing
  found,     \* authentik: objects with a name that the spec or a default refers to
  spec,      \* Kubernetes: the spec of the CR
  secret,    \* Kubernetes: client secret in the credentials Secret
  recorded,  \* Kubernetes: the Application is recorded in the status
  pc,        \* the reconcile: where it is
  cr,        \* the spec it works with
  creds,     \* the Secret as resolved
  seenApp,   \* the Application and ...
  seen,      \* ... the Provider as fetched
  hand,      \* history: values that people or the creation gave the fields
  owned,     \* history: fields that a desired state had since then
  quiet,     \* history: met under IfMatch, nothing edited since then
  edits, fails

server == <<prov, appl, found>>
kube   == <<spec, secret, recorded>>
locals == <<cr, creds, seenApp, seen>>
marks  == <<hand, owned, quiet>>
bounds == <<edits, fails>>
vars   == <<server, kube, pc, locals, marks, bounds>>

TypeOK ==
  /\ prov \in AllProviders \cup {Nothing}
  /\ {appl, seenApp} \subseteq Applications \cup {Nothing}
  /\ found \in 0..2
  /\ spec \in Specs /\ cr \in AnySpec
  /\ secret \in Values \cup {None, NoKey} /\ creds \in Values \cup {None}
  /\ recorded \in BOOLEAN /\ quiet \in BOOLEAN
  /\ pc \in {"idle", "resolve", "observe", "adopt", "record", "provider", "create",
             "sync", "export", "secret", "application"}
  /\ prov # Nothing => DOMAIN hand = DOMAIN prov
  /\ owned \subseteq DOMAIN hand
  /\ edits \in 0..MaxEdits /\ fails \in 0..MaxFails

\* Nothing is there, or objects made by hand: a Provider of the one type or
\* the other, an Application with it, or an Application alone.
Init ==
  /\ spec \in Specs /\ cr = spec
  /\ prov \in HandMade \cup {Nothing}
  /\ appl \in Applications \cup {Nothing}
  /\ prov = Nothing /\ appl # Nothing => ~appl.provider
  /\ found = 1 /\ secret = None /\ recorded = FALSE
  /\ pc = "idle" /\ creds = None /\ seenApp = Nothing /\ seen = Nothing
  /\ hand = prov /\ owned = {} /\ quiet = FALSE
  /\ edits = 0 /\ fails = 0

\* The fields of f, and those of g that f does not have.
f ++ g == [x \in DOMAIN f \cup DOMAIN g |-> IF x \in DOMAIN f THEN f[x] ELSE g[x]]

(***************************************************************************)
(* Desired states                                                          *)
(***************************************************************************)
\* The fields that are set: one that the spec leaves out is not managed.
Managed(fields) == Restrict(fields, {f \in DOMAIN fields : fields[f] # Unset})

\* The Provider is managed once its pk is known, and not when it is adopted.
DesiredApplication(s, withProvider) ==
  LET group == Managed([group |-> s.group])
  IN  IF withProvider THEN group ++ [provider |-> TRUE] ELSE group

\* The mode decides which of the hosts and domains are managed.
DesiredProxyProvider(s) ==
  Managed([mode |-> s.mode, external_host |-> s.host,
           internal_host |-> IF s.mode = "proxy" THEN "a" ELSE Unset,
           cookie_domain |-> IF s.mode = "forward_domain" THEN "a" ELSE Unset,
           token_validity |-> s.validity])

\* Without the Secret the client secret is not managed.
DesiredOAuth2Provider(s, c) ==
  Managed([property_mappings |-> IF s.scopes = NoScopes THEN Unset ELSE s.scopes,
           client_secret |-> IF s.credentials /\ c # None THEN c ELSE Unset,
           token_validity |-> s.validity])

Desired(s, c) ==
  IF s.kind = "proxy" THEN DesiredProxyProvider(s) ELSE DesiredOAuth2Provider(s, c)

(***************************************************************************)
(* The body of a partial update                                            *)
(***************************************************************************)
\* sameSet for the lists, whose order the server does not keep.
Same(f, want, have) ==
  IF f = "property_mappings" THEN Range(want) = Range(have) ELSE want = have

\* The fields of the desired state that differ from the object as fetched.
Diff(want, have) ==
  Restrict(want, {f \in DOMAIN want : ~Same(f, want[f], have[f])})

DiffApplication(want, have) == Diff(want, have)

\* Mutant: the whole object is sent, as a PUT would.
DiffOAuth2Whole(want, have) ==
  IF Diff(want, have) = Nothing THEN Nothing ELSE want ++ have

DiffOAuth2Provider(want, have) == Diff(want, have)

\* Mutant: the mode is sent only when it differs.
DiffProxyWithoutMode(want, have) == Diff(want, have)

\* A body that is not empty carries the mode.
DiffProxyProvider(want, have) ==
  LET patch == Diff(want, have)
  IN  IF patch = Nothing THEN Nothing ELSE [mode |-> want.mode] ++ patch

DiffProvider(s, want, have) ==
  IF s.kind = "proxy" THEN DiffProxyProvider(want, have) ELSE DiffOAuth2Provider(want, have)

(***************************************************************************)
(* The server                                                              *)
(***************************************************************************)
\* What the validation of a Proxy Provider accepts: it looks at the body alone.
CheckProxyMode(body) ==
  \/ "mode" \in DOMAIN body /\ body.mode # "proxy"
  \/ "internal_host" \in DOMAIN body /\ body.internal_host # ""

Accepts(s, body) == s.kind = "proxy" => CheckProxyMode(body)

\* Lists are stored as sets, and returned in any order.
Store(body) ==
  [f \in DOMAIN body |-> IF f = "property_mappings" THEN Range(body[f]) ELSE body[f]]

Listing(p) ==
  IF KindOf(p) = "proxy" THEN {p}
  ELSE {[p EXCEPT !.property_mappings = l] : l \in SetToSeqs(p.property_mappings)}

\* What the server gives the fields that a create request leaves out, and, for
\* the scopes of an OAuth2 Provider, the creation defaults of the operator.
CreateProxyProvider(want) ==
  {want ++ [internal_host |-> "", cookie_domain |-> "", token_validity |-> "a"]}

\* Mutant: no default scopes.
CreateOAuth2WithoutScopes(want) ==
  {Store(want ++ [client_secret |-> v, token_validity |-> "a"]) : v \in Values}

CreateOAuth2Provider(want) ==
  {Store(want ++ [property_mappings |-> <<"m1">>, client_secret |-> v, token_validity |-> "a"]) :
     v \in Values}

(***************************************************************************)
(* The reconcile                                                           *)
(***************************************************************************)
\* An error, a stop or the end of the reconcile.
End == pc' = "idle"

\* It may be called at any time: by an event, a retry or the resync.
ReadCR ==
  /\ pc = "idle"
  /\ pc' = "resolve" /\ cr' = spec
  /\ quiet' = IF recorded THEN quiet
              ELSE spec.adopt = "IfMatch" /\ appl # Nothing /\ appl.provider
  /\ UNCHANGED <<server, kube, creds, seenApp, seen, hand, owned, bounds>>

\* What the credentials resolve to.  A missing Secret is no failure, a missing
\* key in it is.
ResolveCredentials(s) == IF s.kind = "oauth2" /\ s.credentials THEN secret ELSE None

\* Every reference has to name one object.
Resolves(s) == found = 1 /\ ResolveCredentials(s) # NoKey

\* The defaults of the fields that a spec leaves out, when a Provider is created.
ResolveCreationDefaults(s) == s.kind = "oauth2" /\ s.scopes = NoScopes => found = 1

Resolve ==
  /\ pc = "resolve"
  /\ \/ /\ Resolves(cr)
        /\ creds' = ResolveCredentials(cr)
        /\ pc' = "observe"
     \/ ~Resolves(cr) /\ End /\ UNCHANGED creds
  /\ UNCHANGED <<server, kube, cr, seenApp, seen, marks, bounds>>

ObserveApplication ==
  /\ pc = "observe"
  /\ seenApp' = appl
  /\ pc' = IF appl = Nothing \/ recorded THEN "provider" ELSE "adopt"
  /\ UNCHANGED <<server, kube, cr, creds, seen, marks, bounds>>

\* The Application as fetched has a Provider.
SeenAttached == seenApp # Nothing /\ seenApp.provider

\* Mutant: the fields of the Provider are not compared.
AdoptsAnyProvider(p) ==
  /\ cr.adopt # "Never"
  /\ p # Nothing => KindOf(p) = cr.kind
  /\ cr.adopt = "IfMatch" =>
       DiffApplication(DesiredApplication(cr, FALSE), seenApp) = Nothing

\* The policy adopts the Application with its Provider p, or without one.
Adopts(p) ==
  /\ cr.adopt # "Never"
  /\ p # Nothing => KindOf(p) = cr.kind
  /\ cr.adopt = "IfMatch" =>
       /\ DiffApplication(DesiredApplication(cr, FALSE), seenApp) = Nothing
       /\ p # Nothing => DiffProvider(cr, Desired(cr, creds), p) = Nothing

AdoptApplication ==
  /\ pc = "adopt"
  /\ \E p \in IF SeenAttached /\ prov # Nothing THEN Listing(prov) ELSE {Nothing} :
       \/ Adopts(p) /\ pc' = "record"
       \/ ~Adopts(p) /\ End
  /\ UNCHANGED <<server, kube, locals, marks, bounds>>

\* patchStatus: the answer replaces the spec in memory by the stored one, but
\* for what was resolved before: the scopes and whether there are credentials.
Reread ==
  IF spec.kind = "proxy" THEN spec
  ELSE [spec EXCEPT !.scopes = cr.scopes, !.credentials = cr.credentials]

\* When the pk of the Provider is recorded its desired state is made already;
\* that of the Application is not.
RereadApplication == [cr EXCEPT !.group = spec.group]

\* The pk of an Application that was adopted, or created at the end.
RecordApplication ==
  /\ pc = "record"
  /\ recorded' = TRUE
  /\ IF seenApp = Nothing THEN End ELSE pc' = "provider"
  /\ cr' = Reread
  /\ UNCHANGED <<server, spec, secret, creds, seenApp, seen, marks, bounds>>

\* By the pk in the status, the Application or the name: the same Provider.
\* Its pk is recorded unless the status has it.
FindProvider ==
  /\ pc = "provider"
  /\ \/ /\ prov # Nothing /\ KindOf(prov) = cr.kind
        /\ seen' \in Listing(prov) /\ pc' = "sync" /\ cr' \in {cr, RereadApplication}
     \/ /\ prov # Nothing /\ KindOf(prov) # cr.kind /\ SeenAttached
        /\ End /\ UNCHANGED <<seen, cr>>
     \/ /\ prov # Nothing => KindOf(prov) # cr.kind /\ ~SeenAttached
        /\ pc' = "create" /\ UNCHANGED <<seen, cr>>
  /\ UNCHANGED <<server, kube, creds, seenApp, marks, bounds>>

\* The step after the Provider: the Secret, when it was missing, comes first.
AfterProvider ==
  pc' = IF cr.kind = "oauth2" /\ cr.credentials /\ creds = None THEN "export" ELSE "application"

\* The Application as fetched is not attached to the new Provider, whose pk is
\* recorded.  The request fails when the name is taken, or a creation default does not resolve.
CreateProvider ==
  /\ pc = "create"
  /\ LET want    == Desired(cr, creds)
         created == prov = Nothing /\ ResolveCreationDefaults(cr)
     IN  \/ ~created /\ End /\ UNCHANGED <<prov, cr, seenApp, hand, owned, quiet>>
         \/ /\ created
            /\ prov' \in IF cr.kind = "proxy" THEN CreateProxyProvider(want)
                         ELSE CreateOAuth2Provider(want)
            /\ seenApp' = IF seenApp = Nothing THEN Nothing ELSE [seenApp EXCEPT !.provider = FALSE]
            /\ hand' = prov' /\ owned' = DOMAIN want /\ quiet' = FALSE
            /\ cr' = RereadApplication /\ AfterProvider
  /\ UNCHANGED <<appl, found, kube, creds, seen, bounds>>

\* PATCH with the fields that differ; no request when there are none.
SyncProvider ==
  /\ pc = "sync"
  /\ LET want == Desired(cr, creds)
         body == DiffProvider(cr, want, seen)
     IN  \/ body = Nothing /\ AfterProvider /\ UNCHANGED <<prov, owned>>
         \/ /\ body # Nothing /\ prov # Nothing /\ Accepts(cr, body)
            /\ prov' = Store(body) ++ prov
            /\ owned' = owned \cup DOMAIN want
            /\ AfterProvider
         \/ /\ body # Nothing /\ ~(prov # Nothing /\ Accepts(cr, body))
            /\ End /\ UNCHANGED <<prov, owned>>
  /\ UNCHANGED <<appl, found, kube, locals, hand, quiet, bounds>>

\* Read the Provider again for its client secret ...
ExportCredentials ==
  /\ pc = "export"
  /\ \/ prov # Nothing /\ seen' \in Listing(prov) /\ pc' = "secret"
     \/ prov = Nothing /\ End /\ UNCHANGED seen
  /\ UNCHANGED <<server, kube, cr, creds, seenApp, marks, bounds>>

\* Mutant: the Secret is created or updated.
CreateOrUpdateSecret ==
  /\ pc = "secret"
  /\ secret' = seen.client_secret /\ pc' = "application"
  /\ UNCHANGED <<server, spec, recorded, locals, marks, bounds>>

\* ... and create the Secret, which fails when it appeared in the meantime, or
\* when a status patch replaced the spec by one that names no Secret.
CreateSecret ==
  /\ pc = "secret"
  /\ \/ secret = None /\ secret' = seen.client_secret /\ pc' = "application"
     \/ secret # None /\ End /\ UNCHANGED secret
     \/ ~spec.credentials /\ End /\ UNCHANGED secret
  /\ UNCHANGED <<server, spec, recorded, locals, marks, bounds>>

\* Create the Application, or PATCH what differs.  The server refuses to attach
\* a Provider that is gone.
ReconcileApplication ==
  /\ pc = "application"
  /\ LET want == DesiredApplication(cr, TRUE)
         body == IF seenApp = Nothing THEN want ELSE DiffApplication(want, seenApp)
     IN  \/ "provider" \in DOMAIN body /\ prov = Nothing /\ End /\ UNCHANGED appl
         \/ /\ "provider" \in DOMAIN body => prov # Nothing
            /\ \/ /\ seenApp = Nothing
                  /\ appl' = want ++ [group |-> "a"] /\ pc' = "record"
               \/ /\ seenApp # Nothing
                  /\ appl' = body ++ appl /\ End
  /\ UNCHANGED <<prov, found, kube, locals, marks, bounds>>

Reconcile ==
  \/ ReadCR \/ Resolve \/ ObserveApplication \/ AdoptApplication \/ RecordApplication
  \/ FindProvider \/ CreateProvider \/ SyncProvider
  \/ ExportCredentials \/ CreateSecret \/ ReconcileApplication

\* A request fails, or the process crashes.
Interrupt ==
  /\ pc # "idle" /\ fails < MaxFails
  /\ fails' = fails + 1 /\ End
  /\ UNCHANGED <<server, kube, locals, marks, edits>>

(***************************************************************************)
(* People                                                                  *)
(***************************************************************************)
Edit == edits < MaxEdits /\ edits' = edits + 1 /\ quiet' = FALSE

\* A field of the Provider in the UI.
UIEditProvider ==
  /\ Edit /\ prov # Nothing
  /\ \E f \in DOMAIN prov :
       /\ prov' \in {p \in Providers(KindOf(prov)) :
                       p # prov /\ \A g \in DOMAIN prov \ {f} : p[g] = prov[g]}
       /\ hand' = [hand EXCEPT ![f] = prov'[f]]
       /\ owned' = owned \ {f}
  /\ UNCHANGED <<appl, found, kube, pc, locals, fails>>

\* The group of the Application, or its Provider.
UIEditApplication ==
  /\ Edit /\ appl # Nothing
  /\ appl' \in Applications \ {appl}
  /\ appl'.provider => prov # Nothing
  /\ UNCHANGED <<prov, found, kube, pc, locals, hand, owned, fails>>

\* The Application is detached when its Provider is deleted.
UIDeleteProvider ==
  /\ Edit /\ prov # Nothing
  /\ prov' = Nothing /\ hand' = Nothing /\ owned' = {}
  /\ appl' = IF appl = Nothing THEN Nothing ELSE [appl EXCEPT !.provider = FALSE]
  /\ UNCHANGED <<found, kube, pc, locals, fails>>

\* An object that the spec refers to is deleted, created or becomes ambiguous.
UIReference ==
  /\ Edit /\ found' \in 0..2 \ {found}
  /\ UNCHANGED <<prov, appl, kube, pc, locals, hand, owned, fails>>

\* The type of the Provider is immutable.
EditSpec ==
  /\ Edit /\ spec' \in {s \in Specs : s # spec /\ s.kind = spec.kind}
  /\ UNCHANGED <<server, secret, recorded, pc, locals, hand, owned, fails>>

\* The Secret is written, rotated or deleted.
EditSecret ==
  /\ Edit /\ spec.kind = "oauth2"
  /\ secret' \in (Values \cup {None, NoKey}) \ {secret}
  /\ UNCHANGED <<server, spec, recorded, pc, locals, hand, owned, fails>>

People ==
  \/ UIEditProvider \/ UIEditApplication \/ UIDeleteProvider \/ UIReference
  \/ EditSpec \/ EditSecret

Next == Reconcile \/ Interrupt \/ People

Spec == Init /\ [][Next]_vars

\* The work queue calls the reconcile again and again, at the latest at the
\* resync interval, and each of its steps ends.
FairSpec == Spec /\ WF_vars(Reconcile)

(***************************************************************************)
(* Properties                                                              *)
(***************************************************************************)
\* A field of the Provider that no desired state had since a person or the
\* creation set it keeps the value it was given: an edit between the GET and the
\* PATCH of a reconcile is not lost, and neither mode nor type of the Provider
\* makes the operator touch what the spec leaves out (desired.go, patch.go).
UnmanagedFieldsKept ==
  prov # Nothing => \A f \in DOMAIN prov \ owned : prov[f] = hand[f]

\* The operator changes no field of an Application and a Provider that it meets
\* under IfMatch, before, while and after it adopts them, until somebody edits
\* something: what the check compares is what later reconciles compare, and the
\* Secret it exports agrees with the Provider (adoption.go, credentials.go).
AdoptedUnchanged ==
  [][quiet /\ edits' = edits => UNCHANGED <<prov, appl>>]_vars

\* A Secret that somebody wrote while the operator was about to export the
\* credentials is kept: it is the source of truth (credentials.go).
SecretKept ==
  [][secret # None /\ edits' = edits => UNCHANGED secret]_vars

\* What the reconcile waits for a person to change: a reference, a Provider of
\* the other type, or an Application that the policy does not adopt.
NeedsPerson ==
  \/ ~Resolves(spec)
  \/ prov # Nothing /\ KindOf(prov) # spec.kind
  \/ appl # Nothing /\ ~recorded /\ spec.adopt # "Force"

\* The objects have the values in the spec, and the Secret exists.
Agree ==
  /\ prov # Nothing /\ appl # Nothing
  /\ \A f \in DOMAIN Desired(spec, secret) :
       prov[f] = Store(Desired(spec, secret))[f]
  /\ DiffApplication(DesiredApplication(spec, TRUE), appl) = Nothing
  /\ spec.kind = "oauth2" /\ spec.credentials => secret # None

\* Drift repair: when the edits and the failures end, the objects come to the
\* values in the spec and stay there, unless a person has to act.
DriftRepaired == <>[](NeedsPerson \/ Agree)
=============================================================================
