------------------------- MODULE ProviderSyncProofs -------------------------
(***************************************************************************)
(* Proofs about ProviderSync, for every set of specs and of Providers made *)
(* by hand and every number of edits and failures.                         *)
(***************************************************************************)
EXTENDS ProviderSync, FiniteSetTheorems, TLAPS

ProxyFields  == {"mode", "external_host", "internal_host", "cookie_domain", "token_validity"}
OAuth2Fields == {"property_mappings", "client_secret", "token_validity"}

\* Where the reconcile has resolved the credentials for what it does next, and
\* where it has fetched the Application.
Resolved == {"observe", "adopt", "record", "provider", "create", "sync", "export", "secret"}
Adopted  == {"provider", "sync", "export", "secret", "application"}
Observed == {"adopt", "record", "create"} \cup Adopted

\* The type in the spec does not change.  The Provider that a request goes to
\* has it, or is gone.
\* An Application that was fetched is still there, and no Application is
\* attached to a Provider that is gone.
Placed ==
  /\ cr.kind = spec.kind
  /\ pc \in {"sync", "export"} /\ prov # Nothing => KindOf(prov) = cr.kind
  /\ pc \in {"export", "secret"} => cr.kind = "oauth2"
  /\ pc = "secret" => seen.client_secret \in Values
  /\ seenApp # Nothing => appl # Nothing
  /\ appl # Nothing /\ appl.provider => prov # Nothing

\* The object has the values of the desired state, as the server stores them.
Fits(want, have) == \A f \in DOMAIN want : Store(want)[f] = have[f]

\* The objects need no update.
Matching ==
  /\ KindOf(prov) = spec.kind
  /\ ResolveCredentials(spec) # NoKey
  /\ Fits(Desired(spec, ResolveCredentials(spec)), prov)
  /\ spec.group # Unset => appl.group = spec.group

\* Since the objects were met under IfMatch and nothing was edited, what the
\* reconcile holds is current, and it goes beyond the adoption only with
\* objects that need no update.
Met ==
  quiet =>
    /\ cr = spec /\ spec.adopt = "IfMatch"
    /\ appl # Nothing /\ appl.provider
    /\ pc # "create"
    /\ pc \in Observed => seenApp = appl
    /\ pc \in Resolved => creds = ResolveCredentials(spec)
    /\ pc \in Adopted => recorded
    /\ recorded \/ pc = "record" => Matching
    /\ pc = "sync" => seen \in Listing(prov)
    /\ pc = "secret" => seen.client_secret = prov.client_secret

IInv == TypeOK /\ UnmanagedFieldsKept /\ Placed /\ Met

-----------------------------------------------------------------------------
(* The operators.                                                          *)

LEMMA SpecFacts ==
  ASSUME NEW s \in AnySpec
  PROVE  /\ s.kind \in {"proxy", "oauth2"}
         /\ s.kind = "proxy" => s \in ProxySpecs
         /\ s.kind = "oauth2" => s \in OAuth2Specs
         /\ s.adopt \in Policy /\ s.group \in Values \cup {Unset}
<1>1. s \in ProxySpecs \/ s \in OAuth2Specs
  BY DEF AnySpec
<1> QED BY <1>1 DEF ProxySpecs, OAuth2Specs

LEMMA ProxyShape ==
  ASSUME NEW p \in Providers("proxy")
  PROVE  /\ DOMAIN p = ProxyFields /\ p # Nothing /\ KindOf(p) = "proxy"
         /\ p.mode \in Modes /\ p.external_host \in Values /\ p.internal_host \in {"", "a"}
         /\ p.cookie_domain \in {"", "a"} /\ p.token_validity \in Values
         /\ p.mode = "proxy" => p.internal_host # ""
<1>1. /\ p \in [mode : Modes, external_host : Values, internal_host : {"", "a"},
                cookie_domain : {"", "a"}, token_validity : Values]
      /\ p.mode = "proxy" => p.internal_host # ""
  BY DEF Providers
<1>2. DOMAIN p = ProxyFields
  BY <1>1 DEF ProxyFields
<1>3. DOMAIN Nothing = {}
  BY DEF Nothing
<1> QED BY <1>1, <1>2, <1>3 DEF ProxyFields, KindOf

LEMMA OAuth2Shape ==
  ASSUME NEW p \in Providers("oauth2")
  PROVE  /\ DOMAIN p = OAuth2Fields /\ p # Nothing /\ KindOf(p) = "oauth2"
         /\ p.property_mappings \subseteq Mappings /\ p.client_secret \in Values
         /\ p.token_validity \in Values
BY DEF Providers, OAuth2Fields, KindOf, Nothing

LEMMA ProxyMade ==
  ASSUME NEW p, p = [f \in ProxyFields |-> p[f]],
         p["mode"] \in Modes, p["external_host"] \in Values, p["internal_host"] \in {"", "a"},
         p["cookie_domain"] \in {"", "a"}, p["token_validity"] \in Values,
         p["mode"] = "proxy" => p["internal_host"] # ""
  PROVE  p \in Providers("proxy")
BY DEF Providers, ProxyFields

LEMMA OAuth2Made ==
  ASSUME NEW p, p = [f \in OAuth2Fields |-> p[f]],
         p["property_mappings"] \in SUBSET Mappings, p["client_secret"] \in Values,
         p["token_validity"] \in Values
  PROVE  p \in Providers("oauth2")
BY DEF Providers, OAuth2Fields

\* The fields of a Provider are those of its type.
LEMMA Shape ==
  ASSUME NEW p \in AllProviders
  PROVE  /\ p # Nothing /\ KindOf(p) \in {"proxy", "oauth2"} /\ p \in Providers(KindOf(p))
         /\ DOMAIN p = IF KindOf(p) = "proxy" THEN ProxyFields ELSE OAuth2Fields
         /\ p = [f \in DOMAIN p |-> p[f]]
<1>1. CASE p \in Providers("proxy")
  <2>1. p = [f \in DOMAIN p |-> p[f]]
    BY <1>1 DEF Providers
  <2> QED BY <1>1, <2>1, ProxyShape
<1>2. CASE p \in Providers("oauth2")
  <2>1. p = [f \in DOMAIN p |-> p[f]]
    BY <1>2 DEF Providers
  <2> QED BY <1>2, <2>1, OAuth2Shape
<1> QED BY <1>1, <1>2 DEF AllProviders

\* The desired state of a Proxy Provider.
LEMMA ProxyDesired ==
  ASSUME NEW s \in ProxySpecs, NEW c
  PROVE  /\ {"mode", "external_host"} \subseteq DOMAIN Desired(s, c)
         /\ DOMAIN Desired(s, c) \subseteq ProxyFields
         /\ Desired(s, c)["mode"] = s.mode /\ s.mode \in Modes
         /\ Desired(s, c)["external_host"] \in Values
         /\ s.mode = "proxy" <=> "internal_host" \in DOMAIN Desired(s, c)
         /\ "internal_host" \in DOMAIN Desired(s, c) => Desired(s, c)["internal_host"] = "a"
         /\ "cookie_domain" \in DOMAIN Desired(s, c) => Desired(s, c)["cookie_domain"] = "a"
         /\ "token_validity" \in DOMAIN Desired(s, c) => Desired(s, c)["token_validity"] \in Values
BY DEF ProxySpecs, Desired, DesiredProxyProvider, Managed, Restrict, ProxyFields, Unset, Modes, Values

\* The desired state of an OAuth2 Provider.
LEMMA OAuth2Desired ==
  ASSUME NEW s \in OAuth2Specs, NEW c \in Values \cup {None}
  PROVE  /\ DOMAIN Desired(s, c) \subseteq OAuth2Fields
         /\ "property_mappings" \in DOMAIN Desired(s, c) =>
              Desired(s, c)["property_mappings"] \in Seq(Mappings)
         /\ "client_secret" \in DOMAIN Desired(s, c) =>
              s.credentials /\ c # None /\ Desired(s, c)["client_secret"] = c
         /\ "token_validity" \in DOMAIN Desired(s, c) => Desired(s, c)["token_validity"] \in Values
BY DEF OAuth2Specs, Desired, DesiredOAuth2Provider, Managed, Restrict, OAuth2Fields, Unset, Values, None

\* The fields that differ: none when the object has the values, compared as
\* sets for a list.
LEMMA DiffFacts ==
  ASSUME NEW want, NEW have
  PROVE  /\ DOMAIN Diff(want, have) \subseteq DOMAIN want
         /\ \A f \in DOMAIN Diff(want, have) : Diff(want, have)[f] = want[f]
         /\ Diff(want, have) = Nothing <=> \A f \in DOMAIN want : Same(f, want[f], have[f])
<1> DEFINE S == {f \in DOMAIN want : ~Same(f, want[f], have[f])}
           d == [f \in S |-> want[f]]
<1>1. Diff(want, have) = d
  BY DEF Diff, Restrict
<1>2. DOMAIN d = S /\ \A f \in S : d[f] = want[f]
  OBVIOUS
<1>3. d = Nothing => S = {}
  BY <1>2 DEF Nothing
<1>4. S = {} => d = Nothing
  BY DEF Nothing
<1>5. S = {} <=> \A f \in DOMAIN want : Same(f, want[f], have[f])
  OBVIOUS
<1> QED BY <1>1, <1>2, <1>3, <1>4, <1>5

\* The body of a PATCH has fields of the desired state only, and the mode of a
\* Proxy Provider unless it is empty.
LEMMA BodyFacts ==
  ASSUME NEW s, NEW want, NEW have, s.kind = "proxy" => "mode" \in DOMAIN want
  PROVE  LET body == DiffProvider(s, want, have)
         IN  /\ DOMAIN body \subseteq DOMAIN want
             /\ \A f \in DOMAIN body : body[f] = want[f]
             /\ body = Nothing <=> \A f \in DOMAIN want : Same(f, want[f], have[f])
             /\ s.kind = "proxy" /\ body # Nothing => "mode" \in DOMAIN body
<1> DEFINE body == DiffProvider(s, want, have)
           d == Diff(want, have)
           m == [mode |-> want.mode]
<1>0. DOMAIN Nothing = {}
  BY DEF Nothing
<1>1. CASE s.kind # "proxy"
  BY <1>1, DiffFacts DEF DiffProvider, DiffOAuth2Provider
<1>2. CASE s.kind = "proxy"
  <2>1. body = IF d = Nothing THEN Nothing ELSE m ++ d
    BY <1>2 DEF DiffProvider, DiffProxyProvider
  <2>2. DOMAIN m = {"mode"} /\ m["mode"] = want["mode"]
    OBVIOUS
  <2> HIDE DEF body, d, m
  <2>3. /\ DOMAIN (m ++ d) = {"mode"} \cup DOMAIN d
        /\ \A f \in {"mode"} \cup DOMAIN d : (m ++ d)[f] = want[f]
    <3>1. \A f \in DOMAIN d : d[f] = want[f]
      BY DiffFacts DEF d
    <3>2. \A f \in DOMAIN m : m[f] = want[f]
      BY <2>2
    <3>3. /\ DOMAIN (m ++ d) = DOMAIN m \cup DOMAIN d
          /\ \A x \in DOMAIN m \cup DOMAIN d : (m ++ d)[x] = IF x \in DOMAIN m THEN m[x] ELSE d[x]
      BY DEF ++
    <3> QED BY <2>2, <3>1, <3>2, <3>3
  <2>4. m ++ d # Nothing
    BY <1>0, <2>3
  <2>5. /\ DOMAIN body \subseteq DOMAIN want
        /\ \A f \in DOMAIN body : body[f] = want[f]
    BY <1>0, <1>2, <2>1, <2>3, DiffFacts DEF d
  <2>6. body = Nothing <=> d = Nothing
    BY <2>1, <2>4
  <2>7. body # Nothing => "mode" \in DOMAIN body
    BY <2>1, <2>3
  <2> QED BY <2>5, <2>6, <2>7, DiffFacts DEF d, body
<1> QED BY <1>1, <1>2

LEMMA StoreFacts ==
  ASSUME NEW body
  PROVE  /\ DOMAIN Store(body) = DOMAIN body
         /\ \A f \in DOMAIN body : Store(body)[f] = IF f = "property_mappings" THEN Range(body[f]) ELSE body[f]
BY DEF Store

\* The lists that the server returns for a set have its members.
LEMMA ListFacts ==
  ASSUME NEW S \in SUBSET Mappings, NEW l \in SetToSeqs(S)
  PROVE  Range(l) = S
<1> DEFINE n == Cardinality(S)
<1>1. IsFiniteSet(S)
  <2>1. IsFiniteSet({"m1"}) /\ IsFiniteSet({"m2"})
    BY FS_Singleton
  <2>2. IsFiniteSet({"m1"} \cup {"m2"})
    BY <2>1, FS_Union
  <2>3. S \subseteq {"m1"} \cup {"m2"}
    BY DEF Mappings
  <2> QED BY <2>2, <2>3, FS_Subset
<1>2. n \in Nat
  BY <1>1, FS_CardinalityType
<1>3. IsFiniteSet(1..n) /\ Cardinality(1..n) = n
  BY <1>2, FS_Interval
<1>4. l \in [1..n -> S] /\ \A i, j \in 1..n : i # j => l[i] # l[j]
  BY DEF SetToSeqs
<1>5. l \in Injection(1..n, S)
  BY <1>4 DEF Injection, IsInjective
<1>6. l \in Surjection(1..n, S)
  BY <1>1, <1>3, <1>5, FS_Injection
<1> QED BY <1>4, <1>6 DEF Surjection, Range

\* A Provider as the API returns it.
LEMMA ListingFacts ==
  ASSUME NEW p \in AllProviders, NEW l \in Listing(p)
  PROVE  /\ l # Nothing /\ KindOf(l) = KindOf(p) /\ DOMAIN l = DOMAIN p
         /\ \A f \in DOMAIN p \ {"property_mappings"} : l[f] = p[f]
         /\ "property_mappings" \in DOMAIN p => Range(l["property_mappings"]) = p["property_mappings"]
<1>1. CASE KindOf(p) = "proxy"
  <2>1. l = p
    BY <1>1 DEF Listing
  <2>2. "property_mappings" \notin DOMAIN p
    BY <1>1, Shape DEF ProxyFields
  <2> QED BY <2>1, <2>2, Shape
<1>2. CASE KindOf(p) # "proxy"
  <2>1. PICK m \in SetToSeqs(p.property_mappings) : l = [p EXCEPT !.property_mappings = m]
    BY <1>2 DEF Listing
  <2>2. p \in Providers("oauth2") /\ DOMAIN p = OAuth2Fields
    BY <1>2, Shape
  <2>3. Range(m) = p.property_mappings
    BY <2>2, OAuth2Shape, ListFacts
  <2>4. DOMAIN l = DOMAIN p /\ \A f \in DOMAIN p : l[f] = IF f = "property_mappings" THEN m ELSE p[f]
    BY <2>1
  <2>5. KindOf(l) = KindOf(p) /\ l # Nothing
    <3>1. DOMAIN Nothing = {} /\ "client_secret" \in DOMAIN l
      BY <2>2, <2>4 DEF Nothing, OAuth2Fields
    <3> QED BY <2>4, <3>1 DEF KindOf
  <2> QED BY <2>2, <2>3, <2>4, <2>5 DEF OAuth2Fields
<1> QED BY <1>1, <1>2

\* What is sent for a Provider as fetched is empty when it has the values.
LEMMA FitsListing ==
  ASSUME NEW p \in AllProviders, NEW l \in Listing(p), NEW want, DOMAIN want \subseteq DOMAIN p
  PROVE  (\A f \in DOMAIN want : Same(f, want[f], l[f])) <=> Fits(want, p)
<1>1. ASSUME NEW f \in DOMAIN want PROVE Same(f, want[f], l[f]) <=> Store(want)[f] = p[f]
  <2>1. CASE f = "property_mappings"
    BY <2>1, ListingFacts, StoreFacts DEF Same
  <2>2. CASE f # "property_mappings"
    BY <2>2, ListingFacts, StoreFacts DEF Same
  <2> QED BY <2>1, <2>2
<1> QED BY <1>1 DEF Fits

LEMMA DesiredFields ==
  ASSUME NEW s \in AnySpec, NEW c \in Values \cup {None}, NEW p \in Providers(s.kind)
  PROVE  DOMAIN Desired(s, c) \subseteq DOMAIN p
BY SpecFacts, ProxyDesired, OAuth2Desired, ProxyShape, OAuth2Shape

\* A Provider is created with the fields of its type, whatever the spec and
\* the Secret leave out.
LEMMA CreatedTyped ==
  ASSUME NEW s \in AnySpec, NEW c \in Values \cup {None},
         NEW p \in IF s.kind = "proxy" THEN CreateProxyProvider(Desired(s, c))
                                       ELSE CreateOAuth2Provider(Desired(s, c))
  PROVE  p \in Providers(s.kind)
<1> DEFINE want == Desired(s, c)
<1>1. CASE s.kind = "proxy"
  <2> DEFINE rest == [internal_host |-> "", cookie_domain |-> "", token_validity |-> "a"]
  <2>1. s \in ProxySpecs
    BY <1>1, SpecFacts
  <2>2. p = want ++ rest
    BY <1>1 DEF CreateProxyProvider
  <2>3. /\ DOMAIN rest = {"internal_host", "cookie_domain", "token_validity"}
        /\ rest["internal_host"] = "" /\ rest["cookie_domain"] = "" /\ rest["token_validity"] = "a"
    OBVIOUS
  <2>4. DOMAIN want \cup DOMAIN rest = ProxyFields
    BY <2>1, <2>3, ProxyDesired DEF ProxyFields
  <2> HIDE DEF want, rest
  <2>5. p = [f \in DOMAIN want \cup DOMAIN rest |-> IF f \in DOMAIN want THEN want[f] ELSE rest[f]]
    BY <2>2 DEF ++
  <2>6. /\ p = [f \in ProxyFields |-> p[f]]
        /\ \A f \in ProxyFields : p[f] = IF f \in DOMAIN want THEN want[f] ELSE rest[f]
    BY <2>4, <2>5
  <2>7. /\ p["mode"] = s.mode /\ s.mode \in Modes /\ p["external_host"] \in Values
        /\ p["internal_host"] \in {"", "a"}
        /\ s.mode = "proxy" => p["internal_host"] = "a"
    BY <2>1, <2>3, <2>6, ProxyDesired DEF want, ProxyFields
  <2>8. p["cookie_domain"] \in {"", "a"} /\ p["token_validity"] \in Values
    BY <2>1, <2>3, <2>6, ProxyDesired DEF want, ProxyFields, Values
  <2>9. p["mode"] \in Modes /\ (p["mode"] = "proxy" => p["internal_host"] # "")
    BY <2>7
  <2>10. p \in Providers("proxy")
    BY <2>6, <2>7, <2>8, <2>9, ProxyMade
  <2> QED BY <1>1, <2>10
<1>2. CASE s.kind = "oauth2"
  <2>1. s \in OAuth2Specs
    BY <1>2, SpecFacts
  <2>2. PICK v \in Values :
          p = Store(want ++ [property_mappings |-> <<"m1">>, client_secret |-> v, token_validity |-> "a"])
    BY <1>2 DEF CreateOAuth2Provider
  <2> DEFINE rest == [property_mappings |-> <<"m1">>, client_secret |-> v, token_validity |-> "a"]
             all == want ++ rest
  <2>3. /\ DOMAIN rest = OAuth2Fields
        /\ rest["property_mappings"] = <<"m1">> /\ rest["client_secret"] = v /\ rest["token_validity"] = "a"
    BY DEF OAuth2Fields
  <2>4. p = Store(all)
    BY <2>2
  <2>5. DOMAIN want \cup DOMAIN rest = OAuth2Fields
    BY <2>1, <2>3, OAuth2Desired
  <2>6. all = [f \in DOMAIN want \cup DOMAIN rest |-> IF f \in DOMAIN want THEN want[f] ELSE rest[f]]
    BY DEF ++
  <2> HIDE DEF want, rest, all
  <2>7. DOMAIN all = OAuth2Fields /\ \A f \in OAuth2Fields : all[f] = IF f \in DOMAIN want THEN want[f] ELSE rest[f]
    BY <2>5, <2>6
  <2>8. all["client_secret"] \in Values /\ all["token_validity"] \in Values
    BY <2>1, <2>3, <2>7, OAuth2Desired DEF want, OAuth2Fields, Values
  <2>9. Range(all["property_mappings"]) \subseteq Mappings
    <3>1. <<"m1">> \in Seq(Mappings)
      BY DEF Mappings
    <3>2. all["property_mappings"] \in Seq(Mappings)
      BY <2>1, <2>3, <2>7, <3>1, OAuth2Desired DEF want, OAuth2Fields
    <3> QED BY <3>2 DEF Range
  <2>10. /\ p = [f \in OAuth2Fields |-> p[f]]
         /\ \A f \in OAuth2Fields : p[f] = IF f = "property_mappings" THEN Range(all[f]) ELSE all[f]
    BY <2>4, <2>7 DEF Store
  <2>11. /\ p["property_mappings"] \in SUBSET Mappings /\ p["client_secret"] \in Values
         /\ p["token_validity"] \in Values
    BY <2>8, <2>9, <2>10 DEF OAuth2Fields
  <2> QED BY <1>2, <2>10, <2>11, OAuth2Made
<1> QED BY <1>1, <1>2, SpecFacts

\* A partial update that the server accepts leaves a Provider of the same
\* type, and the fields that are not in the desired state as they are.
LEMMA PatchTyped ==
  ASSUME NEW s \in AnySpec, NEW c \in Values \cup {None}, NEW have, NEW p \in Providers(s.kind),
         DiffProvider(s, Desired(s, c), have) # Nothing,
         Accepts(s, DiffProvider(s, Desired(s, c), have))
  PROVE  LET q == Store(DiffProvider(s, Desired(s, c), have)) ++ p
         IN  /\ q \in Providers(s.kind) /\ DOMAIN q = DOMAIN p
             /\ \A f \in DOMAIN p \ DOMAIN Desired(s, c) : q[f] = p[f]
<1> DEFINE want == Desired(s, c)
           body == DiffProvider(s, want, have)
           q == Store(body) ++ p
<1>1. s.kind = "proxy" => "mode" \in DOMAIN want
  BY SpecFacts, ProxyDesired
<1>2. /\ DOMAIN body \subseteq DOMAIN want /\ \A f \in DOMAIN body : body[f] = want[f]
      /\ s.kind = "proxy" => "mode" \in DOMAIN body
  BY <1>1, BodyFacts
<1>3. DOMAIN want \subseteq DOMAIN p
  BY DesiredFields
<1>4. DOMAIN Store(body) = DOMAIN body
  BY StoreFacts
<1> HIDE DEF want, body
<1>5. q = [f \in DOMAIN body \cup DOMAIN p |-> IF f \in DOMAIN body THEN Store(body)[f] ELSE p[f]]
  BY <1>4 DEF ++
<1> HIDE DEF q
<1>6. DOMAIN body \cup DOMAIN p = DOMAIN p
  BY <1>2, <1>3
<1>7. /\ DOMAIN q = DOMAIN p /\ q = [f \in DOMAIN p |-> q[f]]
      /\ \A f \in DOMAIN p : q[f] = IF f \in DOMAIN body THEN Store(body)[f] ELSE p[f]
  BY <1>5, <1>6
<1>8. \A f \in DOMAIN p \ DOMAIN want : q[f] = p[f]
  BY <1>2, <1>7
<1>9. \A f \in DOMAIN p \ {"property_mappings"} : q[f] = IF f \in DOMAIN body THEN want[f] ELSE p[f]
  BY <1>2, <1>7, StoreFacts
<1>10. CASE s.kind = "proxy"
  <2>1. s \in ProxySpecs /\ p \in Providers("proxy")
    BY <1>10, SpecFacts
  <2>2. DOMAIN p = ProxyFields
    BY <2>1, ProxyShape
  <2>3. \A f \in ProxyFields : q[f] = IF f \in DOMAIN body THEN want[f] ELSE p[f]
    BY <1>9, <2>2 DEF ProxyFields
  <2>4. q["mode"] = s.mode /\ s.mode \in Modes /\ q["external_host"] \in Values
    BY <1>2, <1>10, <2>1, <2>3, ProxyDesired, ProxyShape DEF want, ProxyFields
  <2>5. q["internal_host"] \in {"", "a"} /\ q["cookie_domain"] \in {"", "a"}
    BY <1>2, <2>1, <2>3, ProxyDesired, ProxyShape DEF want, ProxyFields
  <2>6. q["token_validity"] \in Values
    BY <1>2, <2>1, <2>3, ProxyDesired, ProxyShape DEF want, ProxyFields
  <2>7. q["mode"] = "proxy" => q["internal_host"] # ""
    <3> SUFFICES ASSUME q["mode"] = "proxy" PROVE q["internal_host"] # ""
      OBVIOUS
    <3>1. body["mode"] = "proxy"
      BY <1>2, <1>10, <2>1, <2>4, ProxyDesired DEF want
    <3>2. CheckProxyMode(body)
      BY <1>10 DEF Accepts, body, want
    <3>3. "internal_host" \in DOMAIN body /\ body["internal_host"] # ""
      BY <3>1, <3>2 DEF CheckProxyMode
    <3> QED BY <1>2, <2>3, <3>3 DEF ProxyFields
  <2>8. q \in Providers("proxy")
    BY <1>7, <2>2, <2>4, <2>5, <2>6, <2>7, ProxyMade
  <2> QED BY <1>7, <1>8, <1>10, <2>8 DEF q, body, want
<1>11. CASE s.kind = "oauth2"
  <2>1. s \in OAuth2Specs /\ p \in Providers("oauth2")
    BY <1>11, SpecFacts
  <2>2. DOMAIN p = OAuth2Fields
    BY <2>1, OAuth2Shape
  <2>3. q["client_secret"] \in Values /\ q["token_validity"] \in Values
    BY <1>2, <1>9, <2>1, <2>2, OAuth2Desired, OAuth2Shape DEF want, OAuth2Fields
  <2>4. q["property_mappings"] \in SUBSET Mappings
    <3>1. CASE "property_mappings" \in DOMAIN body
      <4>1. q["property_mappings"] = Range(want["property_mappings"])
        BY <1>2, <1>7, <2>2, <3>1, StoreFacts DEF OAuth2Fields
      <4>2. want["property_mappings"] \in Seq(Mappings)
        BY <1>2, <2>1, <3>1, OAuth2Desired DEF want
      <4> QED BY <4>1, <4>2 DEF Range
    <3>2. CASE "property_mappings" \notin DOMAIN body
      BY <1>7, <2>1, <2>2, <3>2, OAuth2Shape DEF OAuth2Fields
    <3> QED BY <3>1, <3>2
  <2>5. q \in Providers("oauth2")
    BY <1>7, <2>2, <2>3, <2>4, OAuth2Made
  <2> QED BY <1>7, <1>8, <1>11, <2>5 DEF q, body, want
<1> QED BY <1>10, <1>11, SpecFacts

\* The desired state of the Application.
LEMMA AppDesired ==
  ASSUME NEW s \in AnySpec, NEW w \in BOOLEAN
  PROVE  LET want == DesiredApplication(s, w)
         IN  /\ DOMAIN want = (IF s.group # Unset THEN {"group"} ELSE {}) \cup (IF w THEN {"provider"} ELSE {})
             /\ "group" \in DOMAIN want => want["group"] = s.group /\ s.group \in Values
             /\ w => want["provider"] = TRUE
<1> DEFINE g == Managed([group |-> s.group])
           t == [provider |-> TRUE]
<1>1. s.group \in Values \cup {Unset}
  BY SpecFacts
<1>2. /\ DOMAIN g = IF s.group # Unset THEN {"group"} ELSE {}
      /\ "group" \in DOMAIN g => g["group"] = s.group
  BY DEF Managed, Restrict
<1>3. DOMAIN t = {"provider"} /\ t["provider"] = TRUE
  OBVIOUS
<1>4. DesiredApplication(s, w) = IF w THEN g ++ t ELSE g
  BY DEF DesiredApplication
<1> HIDE DEF g, t
<1>5. /\ DOMAIN (g ++ t) = DOMAIN g \cup {"provider"}
      /\ "group" \in DOMAIN g => (g ++ t)["group"] = g["group"]
      /\ (g ++ t)["provider"] = TRUE
  <2>1. g ++ t = [x \in DOMAIN g \cup {"provider"} |-> IF x \in DOMAIN g THEN g[x] ELSE t[x]]
    BY <1>3 DEF ++
  <2>2. "provider" \notin DOMAIN g
    BY <1>2
  <2> QED BY <1>3, <2>1, <2>2
<1> QED BY <1>1, <1>2, <1>4, <1>5

LEMMA AppShape ==
  ASSUME NEW a \in Applications
  PROVE  /\ a # Nothing /\ DOMAIN a = {"group", "provider"} /\ a = [f \in DOMAIN a |-> a[f]]
         /\ a["group"] \in Values /\ a["provider"] \in BOOLEAN
         /\ [a EXCEPT !.provider = FALSE] \in Applications
         /\ ~ [a EXCEPT !.provider = FALSE].provider
<1>1. DOMAIN a = {"group", "provider"} /\ a = [f \in DOMAIN a |-> a[f]]
  BY DEF Applications
<1>2. DOMAIN Nothing = {}
  BY DEF Nothing
<1>3. a["group"] \in Values /\ a["provider"] \in BOOLEAN
  BY DEF Applications
<1>4. [a EXCEPT !.provider = FALSE] \in Applications /\ ~ [a EXCEPT !.provider = FALSE].provider
  BY DEF Applications
<1> QED BY <1>1, <1>2, <1>3, <1>4

LEMMA AppMade ==
  ASSUME NEW a, a = [f \in {"group", "provider"} |-> a[f]], a["group"] \in Values, a["provider"] \in BOOLEAN
  PROVE  a \in Applications
BY DEF Applications

LEMMA AppCreated ==
  ASSUME NEW s \in AnySpec
  PROVE  DesiredApplication(s, TRUE) ++ [group |-> "a"] \in Applications
<1> DEFINE want == DesiredApplication(s, TRUE)
           g == [group |-> "a"]
           a == want ++ g
<1>1. DOMAIN g = {"group"} /\ g["group"] = "a"
  OBVIOUS
<1>2. /\ "provider" \in DOMAIN want /\ DOMAIN want \cup {"group"} = {"group", "provider"}
      /\ "group" \in DOMAIN want => want["group"] \in Values
      /\ want["provider"] = TRUE
  BY AppDesired
<1> HIDE DEF want, g
<1>3. a = [x \in {"group", "provider"} |-> IF x \in DOMAIN want THEN want[x] ELSE g[x]]
  BY <1>1, <1>2 DEF ++
<1> HIDE DEF a
<1>4. a["group"] \in Values /\ a = [f \in {"group", "provider"} |-> a[f]]
  BY <1>1, <1>2, <1>3 DEF Values
<1>5. a["provider"] = TRUE
  BY <1>2, <1>3
<1>6. a["provider"] \in BOOLEAN
  BY <1>5
<1>7. a \in Applications
  BY <1>4, <1>6, AppMade
<1> QED BY <1>7 DEF a, want, g

\* An update of the Application, and one that has nothing to send.
LEMMA AppPatched ==
  ASSUME NEW s \in AnySpec, NEW have, NEW a \in Applications
  PROVE  LET body == DiffApplication(DesiredApplication(s, TRUE), have)
         IN  /\ body ++ a \in Applications
             /\ "provider" \notin DOMAIN body => (body ++ a).provider = a.provider
             /\ body = Nothing => body ++ a = a
<1> DEFINE want == DesiredApplication(s, TRUE)
           body == DiffApplication(want, have)
           b == body ++ a
<1>1. /\ DOMAIN want \subseteq {"group", "provider"}
      /\ "group" \in DOMAIN want => want["group"] \in Values
      /\ want["provider"] = TRUE
  BY AppDesired
<1>2. DOMAIN body \subseteq DOMAIN want /\ \A f \in DOMAIN body : body[f] = want[f]
  BY DiffFacts DEF DiffApplication
<1>3. DOMAIN a = {"group", "provider"} /\ a = [f \in DOMAIN a |-> a[f]]
  BY AppShape
<1> HIDE DEF want, body
<1>4. b = [x \in {"group", "provider"} |-> IF x \in DOMAIN body THEN body[x] ELSE a[x]]
  <2>1. DOMAIN body \cup DOMAIN a = {"group", "provider"}
    BY <1>1, <1>2, <1>3
  <2> QED BY <2>1 DEF ++
<1> HIDE DEF b
<1>5. b["group"] \in Values /\ b = [f \in {"group", "provider"} |-> b[f]]
  BY <1>1, <1>2, <1>4, AppShape
<1>6. b["provider"] = IF "provider" \in DOMAIN body THEN TRUE ELSE a["provider"]
  BY <1>1, <1>2, <1>4
<1>7. b["provider"] \in BOOLEAN
  BY <1>6, AppShape
<1>8. b \in Applications
  BY <1>5, <1>7, AppMade
<1>9. body = Nothing => b = a
  <2> SUFFICES ASSUME body = Nothing PROVE b = a
    OBVIOUS
  <2>1. DOMAIN body = {}
    BY DEF Nothing
  <2> QED BY <1>3, <1>4, <2>1
<1>10. "provider" \notin DOMAIN body => b.provider = a.provider
  BY <1>6
<1> QED BY <1>8, <1>9, <1>10 DEF b, body, want

\* The Secret that is exported has the value of the Provider.
LEMMA SecretFits ==
  ASSUME NEW s \in OAuth2Specs, NEW c \in Values \cup {None}, NEW p, Fits(Desired(s, c), p),
         NEW d \in Values \cup {None}, d \in {None, p["client_secret"]}
  PROVE  Fits(Desired(s, d), p)
<1> SUFFICES ASSUME NEW f \in DOMAIN Desired(s, d)
             PROVE  Store(Desired(s, d))[f] = p[f]
  BY DEF Fits
<1>1. CASE f = "client_secret"
  BY <1>1, OAuth2Desired, StoreFacts
<1>2. CASE f # "client_secret"
  <2>1. f \in DOMAIN Desired(s, c) /\ Desired(s, c)[f] = Desired(s, d)[f]
    BY <1>2 DEF OAuth2Specs, Desired, DesiredOAuth2Provider, Managed, Restrict
  <2>2. Store(Desired(s, c))[f] = p[f]
    BY <2>1 DEF Fits
  <2> QED BY <2>1, <2>2, StoreFacts
<1> QED BY <1>1, <1>2

-----------------------------------------------------------------------------
(* Each step keeps the invariant.                                          *)

Points == {"idle", "resolve", "observe", "adopt", "record", "provider", "create",
           "sync", "export", "secret", "application"}

\* What the invariant says of objects that were met and not edited.
LEMMA MetFacts ==
  ASSUME IInv, quiet
  PROVE  /\ appl \in Applications /\ appl.provider /\ prov \in AllProviders
         /\ cr = spec /\ spec \in Specs
<1>1. /\ appl \in Applications /\ appl # Nothing /\ appl.provider /\ cr = spec /\ spec \in Specs
  BY DEF IInv, Met, TypeOK
<1>2. prov # Nothing
  BY <1>1 DEF IInv, Placed
<1> QED BY <1>1, <1>2 DEF IInv, TypeOK

\* Nothing is sent to a Provider that needs no update.
LEMMA NothingToSend ==
  ASSUME IInv, quiet, Matching, creds = ResolveCredentials(spec), NEW l \in Listing(prov)
  PROVE  DiffProvider(cr, Desired(cr, creds), l) = Nothing
<1>1. /\ prov \in AllProviders /\ cr = spec /\ cr \in AnySpec /\ creds \in Values \cup {None}
      /\ prov \in Providers(cr.kind) /\ Fits(Desired(cr, creds), prov)
  BY MetFacts, Shape DEF IInv, TypeOK, Matching
<1>2. DOMAIN Desired(cr, creds) \subseteq DOMAIN prov
  BY <1>1, DesiredFields
<1>3. \A f \in DOMAIN Desired(cr, creds) : Same(f, Desired(cr, creds)[f], l[f])
  BY <1>1, <1>2, FitsListing
<1>4. cr.kind = "proxy" => "mode" \in DOMAIN Desired(cr, creds)
  BY <1>1, SpecFacts, ProxyDesired
<1> QED BY <1>3, <1>4, BodyFacts

\* The spec in memory after a status patch: it has the type of the CR, and is
\* the same when nothing was edited.
LEMMA RereadFacts ==
  ASSUME IInv
  PROVE  /\ Reread \in AnySpec /\ Reread.kind = spec.kind /\ (cr = spec => Reread = spec)
         /\ RereadApplication \in AnySpec /\ RereadApplication.kind = spec.kind
         /\ cr = spec => RereadApplication = spec
         /\ spec \in AnySpec
<1>1. spec \in AnySpec /\ cr \in AnySpec /\ cr.kind = spec.kind
  BY ProviderSyncAssumption DEF IInv, TypeOK, Placed
<1>2. CASE spec \in ProxySpecs /\ cr \in ProxySpecs
  <2>1. Reread = spec
    BY <1>2 DEF Reread, ProxySpecs
  <2>2. RereadApplication \in ProxySpecs
    BY <1>2 DEF RereadApplication, ProxySpecs
  <2>3. RereadApplication.kind = cr.kind /\ (cr = spec => RereadApplication = spec)
    BY <1>2 DEF RereadApplication, ProxySpecs
  <2> QED BY <1>1, <2>1, <2>2, <2>3 DEF AnySpec
<1>3. CASE spec \in OAuth2Specs /\ cr \in OAuth2Specs
  <2>1. Reread = [spec EXCEPT !.scopes = cr.scopes, !.credentials = cr.credentials]
    BY <1>3 DEF Reread, OAuth2Specs
  <2>2. Reread \in OAuth2Specs /\ Reread.kind = spec.kind
    BY <1>3, <2>1 DEF OAuth2Specs
  <2>3. cr = spec => Reread = spec
    BY <1>3, <2>1 DEF OAuth2Specs
  <2>4. RereadApplication \in OAuth2Specs
    BY <1>3 DEF RereadApplication, OAuth2Specs
  <2>5. RereadApplication.kind = cr.kind /\ (cr = spec => RereadApplication = spec)
    BY <1>3 DEF RereadApplication, OAuth2Specs
  <2> QED BY <1>1, <2>2, <2>3, <2>4, <2>5 DEF AnySpec
<1> QED BY <1>1, <1>2, <1>3, SpecFacts

\* A step that changes only what the reconcile holds.
LEMMA LocalStep ==
  ASSUME IInv, UNCHANGED <<server, kube, marks, bounds>>, cr' \in AnySpec,
         creds' \in Values \cup {None}, seenApp' \in {seenApp, appl}, pc' \in Points, Placed', Met'
  PROVE  IInv'
<1>1. TypeOK'
  BY DEF IInv, TypeOK, server, kube, marks, bounds, Points
<1>2. UnmanagedFieldsKept'
  BY DEF IInv, UnmanagedFieldsKept, server, marks
<1> QED BY <1>1, <1>2 DEF IInv

\* The reconcile ends where it is.
LEMMA EndKeeps ==
  ASSUME IInv, End, UNCHANGED <<server, kube, locals, marks, edits>>, fails' \in 0..MaxFails
  PROVE  IInv'
<1>1. TypeOK'
  BY DEF IInv, TypeOK, server, kube, locals, marks, End
<1>2. UnmanagedFieldsKept'
  BY DEF IInv, UnmanagedFieldsKept, server, marks
<1>3. Placed'
  BY DEF IInv, Placed, kube, server, locals, End
<1>4. Met'
  <2>1. Matching => Matching'
    BY DEF Matching, server, kube, ResolveCredentials
  <2> QED BY <2>1 DEF IInv, Met, server, kube, locals, marks, End, Observed, Resolved, Adopted
<1> QED BY <1>1, <1>2, <1>3, <1>4 DEF IInv

LEMMA ReadKeeps ==
  ASSUME IInv, ReadCR
  PROVE  IInv'
<1>0. /\ pc' = "resolve" /\ cr' = spec
      /\ UNCHANGED <<server, kube, creds, seenApp, seen, hand, owned, bounds>>
  BY DEF ReadCR
<1>1. quiet' \in BOOLEAN
  <2>1. quiet \in BOOLEAN
    BY DEF IInv, TypeOK
  <2>2. CASE recorded
    BY <2>1, <2>2 DEF ReadCR
  <2>3. CASE ~recorded
    <3>1. quiet' = (spec.adopt = "IfMatch" /\ appl # Nothing /\ appl.provider)
      BY <2>3 DEF ReadCR
    <3> QED BY <3>1, Zenon
  <2> QED BY <2>2, <2>3
<1>2. TypeOK'
  BY <1>0, <1>1, RereadFacts DEF IInv, TypeOK, server, kube, bounds
<1>3. UnmanagedFieldsKept'
  BY <1>0 DEF IInv, UnmanagedFieldsKept, server
<1>4. Placed'
  BY <1>0 DEF IInv, Placed, kube, server
<1>5. Met'
  <2>1. Matching => Matching'
    BY <1>0 DEF Matching, server, kube, ResolveCredentials
  <2>2. CASE recorded
    <3>1. quiet' = quiet /\ recorded' = recorded
      BY <1>0, <2>2 DEF ReadCR, kube
    <3> QED BY <1>0, <2>1, <2>2, <3>1 DEF IInv, Met, server, kube, Observed, Resolved, Adopted
  <2>3. CASE ~recorded
    <3>1. ~recorded'
      BY <1>0, <2>3, Zenon DEF kube
    <3>2. quiet' = (spec.adopt = "IfMatch" /\ appl # Nothing /\ appl.provider)
      BY <2>3 DEF ReadCR
    <3>3. quiet' => spec.adopt = "IfMatch" /\ appl # Nothing /\ appl.provider
      BY <3>2, Zenon
    <3> QED BY <1>0, <3>1, <3>3 DEF Met, server, kube, Observed, Resolved, Adopted
  <2> QED BY <2>2, <2>3
<1> QED BY <1>2, <1>3, <1>4, <1>5 DEF IInv

LEMMA ResolveKeeps ==
  ASSUME IInv, Resolve \/ ObserveApplication
  PROVE  IInv'
<1>1. CASE Resolve /\ ~Resolves(cr)
  BY <1>1, EndKeeps DEF IInv, TypeOK, Resolve, locals, bounds
<1>2. CASE Resolve /\ Resolves(cr)
  <2>0. /\ creds' = ResolveCredentials(cr) /\ pc' = "observe"
        /\ UNCHANGED <<server, kube, cr, seenApp, seen, marks, bounds>>
    BY <1>2 DEF Resolve
  <2>1. creds' \in Values \cup {None}
    BY <1>2, <2>0 DEF Resolves, ResolveCredentials, IInv, TypeOK
  <2>2. Placed'
    BY <2>0 DEF IInv, Placed, kube, server
  <2>3. Met'
    <3>1. (Matching => Matching') /\ ResolveCredentials(spec)' = ResolveCredentials(spec)
      BY <2>0 DEF Matching, server, kube, ResolveCredentials
    <3> QED BY <2>0, <3>1 DEF IInv, Met, server, kube, marks, Observed, Resolved, Adopted
  <2> QED BY <2>0, <2>1, <2>2, <2>3, LocalStep DEF Points, IInv, TypeOK
<1>3. CASE ObserveApplication
  <2>0. /\ pc = "observe" /\ seenApp' = appl
        /\ pc' = IF appl = Nothing \/ recorded THEN "provider" ELSE "adopt"
        /\ UNCHANGED <<server, kube, cr, creds, seen, marks, bounds>>
    BY <1>3 DEF ObserveApplication
  <2>1. creds' \in Values \cup {None} /\ pc' \in Points
    BY <2>0 DEF IInv, TypeOK, Points
  <2>2. Placed'
    BY <2>0 DEF IInv, Placed, kube, server
  <2>3. Met'
    <3>1. (Matching => Matching') /\ ResolveCredentials(spec)' = ResolveCredentials(spec)
      BY <2>0 DEF Matching, server, kube, ResolveCredentials
    <3> QED BY <2>0, <3>1 DEF IInv, Met, server, kube, marks, Observed, Resolved, Adopted
  <2> QED BY <2>0, <2>1, <2>2, <2>3, LocalStep DEF IInv, TypeOK
<1> QED BY <1>1, <1>2, <1>3 DEF Resolve

\* What the policy IfMatch adopts needs no update.
LEMMA AdoptsMatching ==
  ASSUME IInv, quiet, pc = "adopt", NEW p \in Listing(prov), Adopts(p)
  PROVE  Matching
<1>1. /\ prov \in AllProviders /\ cr = spec /\ cr \in AnySpec /\ cr.adopt = "IfMatch"
      /\ seenApp = appl /\ creds = ResolveCredentials(spec) /\ creds \in Values \cup {None}
  BY MetFacts DEF IInv, Met, TypeOK, Observed, Resolved
<1>2. p # Nothing /\ KindOf(p) = KindOf(prov)
  BY <1>1, ListingFacts
<1>3. KindOf(prov) = cr.kind /\ prov \in Providers(cr.kind)
  BY <1>1, <1>2, Shape DEF Adopts
<1>4. /\ DiffApplication(DesiredApplication(cr, FALSE), seenApp) = Nothing
      /\ DiffProvider(cr, Desired(cr, creds), p) = Nothing
  BY <1>1, <1>2 DEF Adopts
<1>5. spec.group # Unset => appl.group = spec.group
  <2>1. spec.group # Unset => /\ "group" \in DOMAIN DesiredApplication(cr, FALSE)
                              /\ DesiredApplication(cr, FALSE)["group"] = spec.group
    BY <1>1, AppDesired
  <2>2. \A f \in DOMAIN DesiredApplication(cr, FALSE) : Same(f, DesiredApplication(cr, FALSE)[f], appl[f])
    BY <1>1, <1>4, DiffFacts DEF DiffApplication
  <2> QED BY <2>1, <2>2 DEF Same
<1>6. Fits(Desired(cr, creds), prov)
  <2>1. cr.kind = "proxy" => "mode" \in DOMAIN Desired(cr, creds)
    BY <1>1, SpecFacts, ProxyDesired
  <2>2. \A f \in DOMAIN Desired(cr, creds) : Same(f, Desired(cr, creds)[f], p[f])
    BY <1>4, <2>1, BodyFacts
  <2>3. DOMAIN Desired(cr, creds) \subseteq DOMAIN prov
    BY <1>1, <1>3, DesiredFields
  <2> QED BY <1>1, <2>2, <2>3, FitsListing
<1>7. creds # NoKey
  BY <1>1 DEF Values, None, NoKey
<1> QED BY <1>1, <1>3, <1>5, <1>6, <1>7 DEF Matching

LEMMA AdoptKeeps ==
  ASSUME IInv, AdoptApplication
  PROVE  IInv'
<1>0. /\ pc = "adopt" /\ UNCHANGED <<server, kube, locals, marks, bounds>>
  BY DEF AdoptApplication
<1>1. PICK p \in IF SeenAttached /\ prov # Nothing THEN Listing(prov) ELSE {Nothing} :
        \/ Adopts(p) /\ pc' = "record"
        \/ ~Adopts(p) /\ End
  BY DEF AdoptApplication
<1>2. CASE Adopts(p) /\ pc' = "record"
  <2>1. creds' \in Values \cup {None} /\ pc' \in Points /\ seenApp' = seenApp /\ cr' = cr
    BY <1>0, <1>2 DEF IInv, TypeOK, Points, locals
  <2>2. Placed'
    BY <1>0, <1>2 DEF IInv, Placed, kube, server, locals
  <2>3. Met'
    <3>1. (Matching => Matching') /\ ResolveCredentials(spec)' = ResolveCredentials(spec)
      BY <1>0 DEF Matching, server, kube, ResolveCredentials
    <3>2. quiet => Matching
      <4> SUFFICES ASSUME quiet PROVE Matching
        OBVIOUS
      <4>1. seenApp = appl /\ appl # Nothing /\ appl.provider /\ prov # Nothing
        BY <1>0 DEF IInv, Met, Placed, Observed
      <4>2. p \in Listing(prov)
        BY <1>1, <4>1 DEF SeenAttached
      <4> QED BY <1>0, <1>2, <4>2, AdoptsMatching
    <3> QED BY <1>0, <1>2, <3>1, <3>2 DEF IInv, Met, server, kube, locals, marks, Observed, Resolved, Adopted
  <2> QED BY <1>0, <2>1, <2>2, <2>3, LocalStep DEF IInv, TypeOK
<1>3. CASE ~Adopts(p) /\ End
  BY <1>0, <1>3, EndKeeps DEF IInv, TypeOK, bounds
<1> QED BY <1>1, <1>2, <1>3

LEMMA RecordKeeps ==
  ASSUME IInv, RecordApplication
  PROVE  IInv'
<1>0. /\ pc = "record" /\ UNCHANGED <<server, spec, secret, creds, seenApp, seen, marks, bounds>>
      /\ cr' = Reread /\ pc' = IF seenApp = Nothing THEN "idle" ELSE "provider"
  BY DEF RecordApplication, End
<1>1. recorded' = TRUE
  BY DEF RecordApplication
<1>2. recorded' \in BOOLEAN
  BY <1>1
<1>3. TypeOK'
  BY <1>0, <1>2, RereadFacts DEF IInv, TypeOK, server, marks, bounds
<1>4. UnmanagedFieldsKept'
  BY <1>0 DEF IInv, UnmanagedFieldsKept, server, marks
<1>5. Placed'
  BY <1>0, RereadFacts DEF IInv, Placed, server
<1>6. Met'
  <2>1. (Matching => Matching') /\ ResolveCredentials(spec)' = ResolveCredentials(spec)
    BY <1>0 DEF Matching, server, ResolveCredentials
  <2> QED BY <1>0, <1>1, <2>1, RereadFacts DEF IInv, Met, server, marks, Observed, Resolved, Adopted
<1> QED BY <1>3, <1>4, <1>5, <1>6 DEF IInv

\* A Provider that was adopted has the type of the spec: it is found, and no
\* other one is created.
LEMMA FindKeeps ==
  ASSUME IInv, FindProvider
  PROVE  IInv'
<1>0. /\ pc = "provider" /\ UNCHANGED <<server, kube, creds, seenApp, marks, bounds>>
  BY DEF FindProvider
<1>1. quiet => prov # Nothing /\ KindOf(prov) = cr.kind
  BY <1>0 DEF IInv, Met, Placed, Matching, Adopted
<1>2. (Matching => Matching') /\ ResolveCredentials(spec)' = ResolveCredentials(spec)
  BY <1>0 DEF Matching, server, kube, ResolveCredentials
<1>3. creds' \in Values \cup {None} /\ seenApp' = seenApp /\ cr \in AnySpec
  BY <1>0 DEF IInv, TypeOK
<1>4. CASE /\ prov # Nothing /\ KindOf(prov) = cr.kind /\ seen' \in Listing(prov) /\ pc' = "sync"
           /\ cr' \in {cr, RereadApplication}
  <2>0. cr' \in AnySpec /\ cr'.kind = spec.kind /\ cr.kind = spec.kind /\ (cr = spec => cr' = spec)
    BY <1>3, <1>4, RereadFacts DEF IInv, Placed
  <2>1. Placed'
    BY <1>0, <1>4, <2>0 DEF IInv, Placed, kube, server
  <2>2. Listing(prov)' = Listing(prov)
    BY <1>0 DEF Listing, server
  <2>3. Met'
    BY <1>0, <1>2, <1>4, <2>0, <2>2 DEF IInv, Met, server, kube, marks, Observed, Resolved, Adopted
  <2> QED BY <1>0, <1>3, <1>4, <2>0, <2>1, <2>3, LocalStep DEF Points
<1>5. CASE End /\ UNCHANGED <<seen, cr>>
  BY <1>0, <1>5, EndKeeps DEF IInv, TypeOK, locals, bounds
<1>6. CASE /\ prov # Nothing => KindOf(prov) # cr.kind /\ ~SeenAttached
           /\ pc' = "create" /\ UNCHANGED <<seen, cr>>
  <2>1. Placed'
    BY <1>0, <1>6 DEF IInv, Placed, kube, server
  <2>2. ~quiet'
    BY <1>0, <1>1, <1>6 DEF marks
  <2>3. Met'
    BY <2>2 DEF Met
  <2> QED BY <1>0, <1>3, <1>6, <2>1, <2>3, LocalStep DEF Points
<1> QED BY <1>4, <1>5, <1>6 DEF FindProvider

LEMMA CreateKeeps ==
  ASSUME IInv, CreateProvider
  PROVE  IInv'
<1> DEFINE want == Desired(cr, creds)
<1>0. /\ pc = "create" /\ UNCHANGED <<appl, found, kube, creds, seen, bounds>>
      /\ cr \in AnySpec /\ creds \in Values \cup {None}
  BY DEF CreateProvider, IInv, TypeOK
<1>1. CASE End /\ UNCHANGED <<prov, cr, seenApp, hand, owned, quiet>>
  BY <1>0, <1>1, EndKeeps DEF IInv, TypeOK, locals, bounds, server, marks
<1>2. CASE /\ prov' \in IF cr.kind = "proxy" THEN CreateProxyProvider(want) ELSE CreateOAuth2Provider(want)
           /\ seenApp' = IF seenApp = Nothing THEN Nothing ELSE [seenApp EXCEPT !.provider = FALSE]
           /\ hand' = prov' /\ owned' = DOMAIN want /\ quiet' = FALSE
           /\ cr' = RereadApplication /\ AfterProvider
  <2>0. cr' \in AnySpec /\ cr'.kind = cr.kind /\ cr'.kind = spec.kind
    BY <1>2, RereadFacts DEF IInv, Placed
  <2>1. prov' \in Providers(cr.kind)
    BY <1>0, <1>2, CreatedTyped
  <2>2. prov' \in AllProviders /\ KindOf(prov)' = cr.kind /\ DOMAIN want \subseteq DOMAIN prov'
    <3>1. prov' \in AllProviders /\ KindOf(prov') = cr.kind
      BY <1>0, <2>1, SpecFacts, ProxyShape, OAuth2Shape DEF AllProviders
    <3>2. KindOf(prov)' = KindOf(prov')
      BY DEF KindOf
    <3> QED BY <1>0, <2>1, <3>1, <3>2, DesiredFields
  <2>3. /\ seenApp' \in Applications \cup {Nothing}
        /\ seenApp' # Nothing => seenApp # Nothing
    BY <1>2, AppShape DEF IInv, TypeOK
  <2>4. /\ pc' \in {"export", "application"} /\ (pc' = "export" => cr.kind = "oauth2")
        /\ hand' = prov' /\ owned' = DOMAIN want
    BY <1>2 DEF AfterProvider
  <2>5. ~quiet' /\ quiet' \in BOOLEAN
    BY <1>2
  <2> HIDE DEF want
  <2>6. TypeOK'
    BY <1>0, <2>0, <2>2, <2>3, <2>4, <2>5 DEF IInv, TypeOK, kube, bounds
  <2>7. UnmanagedFieldsKept'
    BY <2>4 DEF UnmanagedFieldsKept
  <2>8. Placed'
    <3>1. prov' # Nothing
      BY <2>2, Shape
    <3> QED BY <1>0, <2>0, <2>2, <2>3, <2>4, <3>1 DEF IInv, Placed, kube
  <2>9. Met'
    BY <2>5 DEF Met
  <2> QED BY <2>6, <2>7, <2>8, <2>9 DEF IInv
<1> QED BY <1>1, <1>2 DEF CreateProvider

\* A Provider that was met and not edited gets no update.
LEMMA QuietSync ==
  ASSUME IInv, quiet, SyncProvider
  PROVE  DiffProvider(cr, Desired(cr, creds), seen) = Nothing
<1>1. pc = "sync"
  BY DEF SyncProvider
<1>2. Matching /\ creds = ResolveCredentials(spec) /\ seen \in Listing(prov)
  BY <1>1 DEF IInv, Met, Adopted, Resolved
<1> QED BY <1>2, NothingToSend

LEMMA SyncKeeps ==
  ASSUME IInv, SyncProvider
  PROVE  IInv'
<1> DEFINE want == Desired(cr, creds)
           body == DiffProvider(cr, want, seen)
<1>0. /\ pc = "sync" /\ UNCHANGED <<appl, found, kube, locals, hand, quiet, bounds>>
      /\ cr \in AnySpec /\ creds \in Values \cup {None}
  BY DEF SyncProvider, IInv, TypeOK
<1>1. AfterProvider => pc' \in {"export", "application"} /\ (pc' = "export" => cr.kind = "oauth2")
  BY DEF AfterProvider
<1>2. CASE AfterProvider /\ UNCHANGED <<prov, owned>>
  <2>1. /\ UNCHANGED <<server, kube, cr, marks, bounds>> /\ cr' \in AnySpec /\ creds' \in Values \cup {None}
        /\ seenApp' = seenApp /\ seen' = seen /\ creds' = creds
    BY <1>0, <1>2 DEF server, marks, locals
  <2>2. Placed'
    BY <1>0, <1>1, <1>2, <2>1 DEF IInv, Placed, kube
  <2>3. Met'
    <3>1. (Matching => Matching') /\ ResolveCredentials(spec)' = ResolveCredentials(spec)
      BY <2>1 DEF Matching, server, kube, ResolveCredentials
    <3> QED BY <1>0, <1>1, <1>2, <2>1, <3>1 DEF IInv, Met, server, kube, marks, Observed, Resolved, Adopted
  <2> QED BY <1>1, <1>2, <2>1, <2>2, <2>3, LocalStep DEF Points
<1>3. CASE /\ body # Nothing /\ prov # Nothing /\ Accepts(cr, body)
           /\ prov' = Store(body) ++ prov
           /\ owned' = owned \cup DOMAIN want
           /\ AfterProvider
  <2>1. prov \in AllProviders /\ prov \in Providers(cr.kind) /\ KindOf(prov) = cr.kind
    BY <1>0, <1>3, Shape DEF IInv, TypeOK, Placed
  <2>2. /\ prov' \in Providers(cr.kind) /\ DOMAIN prov' = DOMAIN prov
        /\ \A f \in DOMAIN prov \ DOMAIN want : prov'[f] = prov[f]
    BY <1>0, <1>3, <2>1, PatchTyped
  <2>3. DOMAIN want \subseteq DOMAIN prov
    BY <1>0, <2>1, DesiredFields
  <2>4. ~quiet
    BY <1>3, QuietSync
  <2> HIDE DEF want, body
  <2>5. prov' \in AllProviders /\ KindOf(prov)' = cr.kind /\ prov' # Nothing
    <3>1. prov' \in AllProviders /\ KindOf(prov') = cr.kind /\ prov' # Nothing
      BY <1>0, <2>2, SpecFacts, ProxyShape, OAuth2Shape DEF AllProviders
    <3>2. KindOf(prov)' = KindOf(prov')
      BY DEF KindOf
    <3> QED BY <3>1, <3>2
  <2>6. TypeOK'
    BY <1>0, <1>1, <1>3, <2>2, <2>3, <2>5 DEF IInv, TypeOK, kube, locals, bounds
  <2>7. UnmanagedFieldsKept'
    BY <1>0, <1>3, <2>2 DEF IInv, UnmanagedFieldsKept
  <2>8. Placed'
    BY <1>0, <1>1, <1>3, <2>5 DEF IInv, Placed, kube, locals
  <2>9. Met'
    BY <1>0, <2>4 DEF Met
  <2> QED BY <2>6, <2>7, <2>8, <2>9 DEF IInv
<1>4. CASE End /\ UNCHANGED <<prov, owned>>
  BY <1>0, <1>4, EndKeeps DEF IInv, TypeOK, bounds, server, marks
<1> QED BY <1>2, <1>3, <1>4 DEF SyncProvider

LEMMA ExportKeeps ==
  ASSUME IInv, ExportCredentials
  PROVE  IInv'
<1>0. pc = "export" /\ UNCHANGED <<server, kube, cr, creds, seenApp, marks, bounds>>
  BY DEF ExportCredentials
<1>1. CASE prov # Nothing /\ seen' \in Listing(prov) /\ pc' = "secret"
  <2>1. prov \in Providers("oauth2") /\ prov \in AllProviders /\ cr.kind = "oauth2"
    BY <1>0, <1>1, Shape DEF IInv, TypeOK, Placed
  <2>2. seen'["client_secret"] = prov["client_secret"] /\ prov["client_secret"] \in Values
    <3>1. "client_secret" \in DOMAIN prov \ {"property_mappings"}
      BY <2>1, OAuth2Shape DEF OAuth2Fields
    <3> QED BY <1>1, <2>1, <3>1, ListingFacts, OAuth2Shape
  <2>3. Placed'
    BY <1>0, <1>1, <2>1, <2>2 DEF IInv, Placed, kube, server
  <2>4. Met'
    <3>1. (Matching => Matching') /\ ResolveCredentials(spec)' = ResolveCredentials(spec)
      BY <1>0 DEF Matching, server, kube, ResolveCredentials
    <3> QED BY <1>0, <1>1, <2>2, <3>1 DEF IInv, Met, server, kube, marks, Observed, Resolved, Adopted
  <2> QED BY <1>0, <1>1, <2>3, <2>4, LocalStep DEF IInv, TypeOK, Points
<1>2. CASE End /\ UNCHANGED seen
  BY <1>0, <1>2, EndKeeps DEF IInv, TypeOK, locals, bounds
<1> QED BY <1>1, <1>2 DEF ExportCredentials

\* The Secret gets the client secret of the Provider, so later reconciles do
\* not change it.
LEMMA SecretKeeps ==
  ASSUME IInv, CreateSecret
  PROVE  IInv'
<1>0. /\ pc = "secret" /\ UNCHANGED <<server, spec, recorded, locals, marks, bounds>>
      /\ cr.kind = "oauth2" /\ seen.client_secret \in Values
  BY DEF CreateSecret, IInv, Placed
<1>1. CASE secret = None /\ secret' = seen.client_secret /\ pc' = "application"
  <2>1. TypeOK'
    BY <1>0, <1>1 DEF IInv, TypeOK, server, locals, marks, bounds
  <2>2. UnmanagedFieldsKept'
    BY <1>0 DEF IInv, UnmanagedFieldsKept, server, marks
  <2>3. Placed'
    BY <1>0, <1>1 DEF IInv, Placed, kube, server, locals
  <2>4. quiet => Matching'
    <3> SUFFICES ASSUME quiet PROVE Matching'
      OBVIOUS
    <3>1. /\ Matching /\ cr = spec /\ spec \in OAuth2Specs /\ creds = ResolveCredentials(spec)
          /\ seen.client_secret = prov.client_secret /\ creds \in Values \cup {None}
      BY <1>0, MetFacts, SpecFacts DEF IInv, Met, TypeOK, Adopted, Resolved
    <3> DEFINE d == ResolveCredentials(spec)'
    <3>2. d \in {None, secret'}
      BY DEF ResolveCredentials
    <3>3. d \in Values \cup {None} /\ d \in {None, prov["client_secret"]} /\ d # NoKey
      BY <1>0, <1>1, <3>1, <3>2 DEF Values, None, NoKey
    <3>4. Fits(Desired(spec, creds), prov)
      BY <3>1 DEF Matching
    <3>5. Fits(Desired(spec, d), prov)
      BY <3>1, <3>3, <3>4, SecretFits
    <3>6. prov' = prov /\ spec' = spec /\ appl' = appl
      BY <1>0 DEF server
    <3>7. Fits(Desired(spec, ResolveCredentials(spec)), prov)' = Fits(Desired(spec, d), prov)
      BY <3>6 DEF Fits, Desired, DesiredProxyProvider, DesiredOAuth2Provider
    <3>8. KindOf(prov)' = KindOf(prov)
      BY <3>6 DEF KindOf
    <3> QED BY <3>1, <3>3, <3>5, <3>6, <3>7, <3>8 DEF Matching
  <2>5. Met'
    BY <1>0, <1>1, <2>4 DEF IInv, Met, server, locals, marks, Observed, Resolved, Adopted
  <2> QED BY <2>1, <2>2, <2>3, <2>5 DEF IInv
<1>2. CASE End /\ UNCHANGED secret
  BY <1>0, <1>2, EndKeeps DEF IInv, TypeOK, bounds, kube
<1> QED BY <1>1, <1>2 DEF CreateSecret

\* An Application that was met and not edited gets no update.
LEMMA QuietApplication ==
  ASSUME IInv, quiet, ReconcileApplication
  PROVE  /\ seenApp # Nothing /\ DiffApplication(DesiredApplication(cr, TRUE), seenApp) = Nothing
         /\ UNCHANGED appl
<1> DEFINE want == DesiredApplication(cr, TRUE)
<1>1. /\ pc = "application" /\ seenApp = appl /\ Matching /\ cr = spec /\ cr \in AnySpec
      /\ appl \in Applications /\ appl # Nothing
  BY MetFacts DEF ReconcileApplication, IInv, TypeOK, Met, Observed, Adopted
<1>2. appl["provider"] = TRUE
  <2>1. appl.provider /\ appl["provider"] \in BOOLEAN
    BY <1>1, MetFacts, AppShape
  <2> QED BY <2>1
<1>3. ASSUME NEW f \in DOMAIN want PROVE Same(f, want[f], seenApp[f])
  <2>1. CASE f = "group"
    <3>0. "group" \in DOMAIN want => want["group"] = cr.group /\ cr.group \in Values
      BY <1>1, AppDesired
    <3>1. want["group"] = spec.group /\ spec.group # Unset
      BY <1>1, <2>1, <3>0 DEF Values, Unset
    <3>2. appl["group"] = spec.group
      BY <1>1, <3>1 DEF Matching
    <3> QED BY <1>1, <2>1, <3>1, <3>2 DEF Same
  <2>2. CASE f = "provider"
    <3>1. want["provider"] = TRUE
      BY <1>1, AppDesired
    <3> QED BY <1>1, <1>2, <2>2, <3>1 DEF Same
  <2> QED BY <1>1, <2>1, <2>2, AppDesired
<1>4. DiffApplication(want, seenApp) = Nothing
  BY <1>3, DiffFacts DEF DiffApplication
<1>5. UNCHANGED appl
  <2>1. DiffApplication(want, seenApp) ++ appl = appl
    BY <1>1, <1>4, AppPatched
  <2> QED BY <1>1, <2>1 DEF ReconcileApplication
<1> QED BY <1>1, <1>4, <1>5

LEMMA ApplicationKeeps ==
  ASSUME IInv, ReconcileApplication
  PROVE  IInv'
<1> DEFINE want == DesiredApplication(cr, TRUE)
           body == DiffApplication(want, seenApp)
<1>0. /\ pc = "application" /\ UNCHANGED <<prov, found, kube, locals, marks, bounds>> /\ cr \in AnySpec
  BY DEF ReconcileApplication, IInv, TypeOK
<1>1. CASE End /\ UNCHANGED appl
  BY <1>0, <1>1, EndKeeps DEF IInv, TypeOK, server, bounds
<1>2. CASE seenApp = Nothing /\ ("provider" \in DOMAIN want => prov # Nothing)
           /\ appl' = want ++ [group |-> "a"] /\ pc' = "record"
  <2>1. appl' \in Applications
    BY <1>0, <1>2, AppCreated
  <2>2. ~quiet
    BY <1>2, QuietApplication
  <2>3. prov # Nothing
    BY <1>0, <1>2, AppDesired
  <2>4. TypeOK'
    BY <1>0, <1>2, <2>1 DEF IInv, TypeOK, kube, locals, marks, bounds
  <2>5. UnmanagedFieldsKept'
    BY <1>0 DEF IInv, UnmanagedFieldsKept, marks
  <2>6. Placed'
    BY <1>0, <1>2, <2>3 DEF IInv, Placed, kube, locals
  <2>7. Met'
    BY <1>0, <2>2 DEF Met, marks
  <2> QED BY <2>4, <2>5, <2>6, <2>7 DEF IInv
<1>3. CASE seenApp # Nothing /\ ("provider" \in DOMAIN body => prov # Nothing)
           /\ appl' = body ++ appl /\ End
  <2>1. appl \in Applications /\ appl # Nothing
    BY <1>3 DEF IInv, TypeOK, Placed
  <2>2. /\ appl' \in Applications
        /\ "provider" \notin DOMAIN body => appl'.provider = appl.provider
    BY <1>0, <1>3, <2>1, AppPatched
  <2>3. CASE UNCHANGED appl
    BY <1>1, <1>3, <2>3
  <2>4. CASE ~quiet
    <3>1. TypeOK'
      BY <1>0, <1>3, <2>2 DEF IInv, TypeOK, kube, locals, marks, bounds, End
    <3>2. UnmanagedFieldsKept'
      BY <1>0 DEF IInv, UnmanagedFieldsKept, marks
    <3>3. appl' # Nothing /\ (appl'.provider => prov # Nothing)
      BY <1>3, <2>1, <2>2, AppShape DEF IInv, Placed
    <3>4. Placed'
      BY <1>0, <1>3, <3>3 DEF IInv, Placed, kube, locals, End
    <3>5. Met'
      BY <1>0, <2>4 DEF Met, marks
    <3> QED BY <3>1, <3>2, <3>4, <3>5 DEF IInv
  <2> QED BY <2>3, <2>4, QuietApplication
<1> QED BY <1>1, <1>2, <1>3 DEF ReconcileApplication

\* Whatever people edit.
LEMMA PeopleKeeps ==
  ASSUME IInv, People
  PROVE  IInv'
<1>1. Edit => edits' \in 0..MaxEdits
  BY ProviderSyncAssumption DEF IInv, TypeOK, Edit
<1>2. People => Edit
  BY DEF People, UIEditProvider, UIEditApplication, UIDeleteProvider, UIReference, EditSpec, EditSecret
<1>3. quiet' = FALSE
  BY <1>2 DEF Edit
<1>4. quiet' \in BOOLEAN /\ edits' \in 0..MaxEdits
  BY <1>1, <1>2, <1>3
<1>5. Met'
  BY <1>3 DEF Met
<1>6. CASE UIEditProvider
  <2>0. prov \in AllProviders /\ UNCHANGED <<appl, found, kube, pc, locals, fails>>
    BY <1>6 DEF UIEditProvider, IInv, TypeOK
  <2>1. PICK f \in DOMAIN prov :
          /\ prov' \in Providers(KindOf(prov)) /\ \A g \in DOMAIN prov \ {f} : prov'[g] = prov[g]
          /\ hand' = [hand EXCEPT ![f] = prov'[f]] /\ owned' = owned \ {f}
    BY <1>6 DEF UIEditProvider
  <2>2. /\ prov' \in AllProviders /\ prov' # Nothing /\ DOMAIN prov' = DOMAIN prov
        /\ KindOf(prov)' = KindOf(prov)
    <3>1. /\ prov' \in AllProviders /\ prov' # Nothing /\ DOMAIN prov' = DOMAIN prov
          /\ KindOf(prov') = KindOf(prov)
      BY <2>0, <2>1, Shape, ProxyShape, OAuth2Shape DEF AllProviders
    <3>2. KindOf(prov)' = KindOf(prov')
      BY DEF KindOf
    <3> QED BY <3>1, <3>2
  <2>3. DOMAIN hand = DOMAIN prov /\ DOMAIN hand' = DOMAIN hand /\ prov # Nothing
    BY <2>0, <2>1, Shape DEF IInv, TypeOK
  <2>4. TypeOK'
    BY <1>4, <2>0, <2>1, <2>2, <2>3 DEF IInv, TypeOK, kube, locals
  <2>5. UnmanagedFieldsKept'
    <3> SUFFICES ASSUME NEW g \in DOMAIN prov \ owned' PROVE prov'[g] = hand'[g]
      BY <2>2 DEF UnmanagedFieldsKept
    <3>1. CASE g = f
      BY <2>1, <2>3, <3>1
    <3>2. CASE g # f
      BY <2>1, <2>3, <3>2 DEF IInv, UnmanagedFieldsKept
    <3> QED BY <3>1, <3>2
  <2>6. Placed'
    BY <2>0, <2>2, <2>3 DEF IInv, Placed, kube, locals
  <2> QED BY <1>5, <2>4, <2>5, <2>6 DEF IInv
<1>7. CASE UIEditApplication
  <2>1. /\ appl' \in Applications /\ (appl'.provider => prov # Nothing) /\ appl # Nothing
        /\ UNCHANGED <<prov, found, kube, pc, locals, hand, owned, fails>>
    BY <1>7 DEF UIEditApplication
  <2>2. TypeOK'
    BY <1>4, <2>1 DEF IInv, TypeOK, kube, locals
  <2>3. UnmanagedFieldsKept'
    BY <2>1 DEF IInv, UnmanagedFieldsKept
  <2>4. Placed'
    BY <2>1, AppShape DEF IInv, Placed, kube, locals
  <2> QED BY <1>5, <2>2, <2>3, <2>4 DEF IInv
<1>8. CASE UIDeleteProvider
  <2>1. /\ prov' = Nothing /\ hand' = Nothing /\ owned' = {}
        /\ appl' = IF appl = Nothing THEN Nothing ELSE [appl EXCEPT !.provider = FALSE]
        /\ UNCHANGED <<found, kube, pc, locals, fails>>
    BY <1>8 DEF UIDeleteProvider
  <2>2. /\ appl' \in Applications \cup {Nothing} /\ (appl' = Nothing <=> appl = Nothing)
        /\ appl' # Nothing => ~appl'.provider
    BY <2>1, AppShape DEF IInv, TypeOK
  <2>3. TypeOK'
    BY <1>4, <2>1, <2>2 DEF IInv, TypeOK, kube, locals
  <2>4. UnmanagedFieldsKept'
    BY <2>1 DEF UnmanagedFieldsKept
  <2>5. Placed'
    BY <2>1, <2>2 DEF IInv, Placed, kube, locals
  <2> QED BY <1>5, <2>3, <2>4, <2>5 DEF IInv
<1>9. CASE UIReference \/ EditSpec \/ EditSecret
  <2>1. /\ found' \in 0..2 /\ spec' \in Specs /\ secret' \in Values \cup {None, NoKey}
        /\ UNCHANGED <<prov, appl, recorded, pc, locals, hand, owned, fails>>
        /\ spec'.kind = spec.kind
    BY <1>9 DEF UIReference, EditSpec, EditSecret, IInv, TypeOK, server, kube
  <2>2. TypeOK'
    BY <1>4, <2>1 DEF IInv, TypeOK, locals
  <2>3. UnmanagedFieldsKept' /\ Placed'
    BY <2>1 DEF IInv, UnmanagedFieldsKept, Placed, kube, locals
  <2> QED BY <1>5, <2>2, <2>3 DEF IInv
<1> QED BY <1>6, <1>7, <1>8, <1>9 DEF People

-----------------------------------------------------------------------------
(* The invariant holds, and what follows from it.                          *)

LEMMA InitIInv == Init => IInv
<1> SUFFICES ASSUME Init PROVE IInv
  OBVIOUS
<1>0. MaxEdits \in Nat /\ MaxFails \in Nat /\ HandMade \subseteq AllProviders
  BY ProviderSyncAssumption
<1>1. recorded = FALSE /\ quiet = FALSE
  BY DEF Init
<1>2. recorded \in BOOLEAN /\ quiet \in BOOLEAN
  BY <1>1
<1>3. TypeOK
  <2>1. /\ prov \in AllProviders \cup {Nothing} /\ {appl, seenApp} \subseteq Applications \cup {Nothing}
        /\ spec \in Specs /\ cr \in AnySpec /\ hand = prov
    BY <1>0, ProviderSyncAssumption DEF Init
  <2>2. found \in 0..2 /\ edits \in 0..MaxEdits /\ fails \in 0..MaxFails /\ owned = {}
    BY <1>0 DEF Init
  <2>3. secret = None /\ creds = None /\ pc = "idle"
    BY DEF Init
  <2> QED BY <1>2, <2>1, <2>2, <2>3 DEF TypeOK
<1>4. UnmanagedFieldsKept
  BY DEF Init, UnmanagedFieldsKept
<1>5. Placed
  <2>1. pc = "idle" /\ cr = spec /\ seenApp = Nothing /\ (prov = Nothing /\ appl # Nothing => ~appl.provider)
    BY DEF Init
  <2> QED BY <2>1 DEF Placed, kube
<1>6. Met
  BY <1>1 DEF Met
<1> QED BY <1>3, <1>4, <1>5, <1>6 DEF IInv

LEMMA NextIInv == IInv /\ [Next]_vars => IInv'
<1>1. ASSUME IInv, Interrupt PROVE IInv'
  <2>1. fails' \in 0..MaxFails
    BY <1>1, ProviderSyncAssumption DEF IInv, TypeOK, Interrupt
  <2> QED BY <1>1, <2>1, EndKeeps DEF Interrupt
<1>2. ASSUME IInv, UNCHANGED vars PROVE IInv'
  <2>0. UNCHANGED <<server, kube, pc, locals, marks, bounds>>
    BY <1>2 DEF vars
  <2>1. TypeOK'
    BY <1>2, <2>0 DEF IInv, TypeOK, server, kube, locals, marks, bounds
  <2>2. UnmanagedFieldsKept' /\ Placed'
    BY <1>2, <2>0 DEF IInv, UnmanagedFieldsKept, Placed, kube, server, locals, marks
  <2>3. Met'
    <3>1. /\ Matching => Matching'
          /\ ResolveCredentials(spec)' = ResolveCredentials(spec) /\ Listing(prov)' = Listing(prov)
      BY <2>0 DEF Matching, server, kube, ResolveCredentials, Listing
    <3> QED BY <1>2, <2>0, <3>1 DEF IInv, Met, server, kube, locals, marks
  <2> QED BY <2>1, <2>2, <2>3 DEF IInv
<1>3. ASSUME IInv, Reconcile PROVE IInv'
  BY <1>3, ReadKeeps, ResolveKeeps, AdoptKeeps, RecordKeeps, FindKeeps, CreateKeeps, SyncKeeps,
     ExportKeeps, SecretKeeps, ApplicationKeeps DEF Reconcile
<1> QED BY <1>1, <1>2, <1>3, PeopleKeeps DEF Next

LEMMA InvariantHolds == Spec => []IInv
BY InitIInv, NextIInv, PTL DEF Spec

\* The objects keep their types, for every spec and every Provider made by
\* hand: no create or PATCH that the server accepts leaves a Provider without
\* a field of its type, or a Proxy Provider in mode proxy without a host.
THEOREM TypeCorrect == Spec => []TypeOK
<1>1. IInv => TypeOK
  BY DEF IInv
<1> QED BY <1>1, InvariantHolds, PTL

\* The body that DiffProxyProvider or DiffOAuth2Provider makes touches fields
\* of the desired state only: what the spec leaves out keeps the value that a
\* person or the creation gave it, edits between the GET and the PATCH included.
THEOREM FieldsKept == Spec => []UnmanagedFieldsKept
<1>1. IInv => UnmanagedFieldsKept
  BY DEF IInv
<1> QED BY <1>1, InvariantHolds, PTL

\* What adoptApplication compares for IfMatch is what the later updates
\* compare, and exportCredentials writes the client secret that the Provider
\* has: the operator never changes an Application and a Provider
\* that it met under IfMatch until somebody edits something.
THEOREM AdoptionChangesNothing == Spec => AdoptedUnchanged
<1> DEFINE P == quiet /\ edits' = edits => UNCHANGED <<prov, appl>>
<1>1. ASSUME IInv, Next, quiet, edits' = edits PROVE UNCHANGED <<prov, appl>>
  <2>1. ~People
    <3>1. edits \in Nat
      BY <1>1, ProviderSyncAssumption DEF IInv, TypeOK
    <3>2. ~Edit
      BY <1>1, <3>1 DEF Edit
    <3> QED BY <3>2 DEF People, UIEditProvider, UIEditApplication, UIDeleteProvider, UIReference,
                        EditSpec, EditSecret
  <2>2. ASSUME Interrupt \/ ReadCR \/ Resolve \/ ObserveApplication \/ AdoptApplication \/ RecordApplication
        PROVE  UNCHANGED <<prov, appl>>
    BY <2>2 DEF Interrupt, ReadCR, Resolve, ObserveApplication, AdoptApplication, RecordApplication, server
  <2>3. ASSUME FindProvider \/ ExportCredentials \/ CreateSecret
        PROVE  UNCHANGED <<prov, appl>>
    BY <2>3 DEF FindProvider, ExportCredentials, CreateSecret, server
  <2>4. ~CreateProvider
    BY <1>1 DEF CreateProvider, IInv, Met
  <2>5. SyncProvider => UNCHANGED <<prov, appl>>
    BY <1>1, QuietSync DEF SyncProvider
  <2>6. ReconcileApplication => UNCHANGED <<prov, appl>>
    BY <1>1, QuietApplication DEF ReconcileApplication
  <2> QED BY <1>1, <2>1, <2>2, <2>3, <2>4, <2>5, <2>6 DEF Next, Reconcile
<1>2. IInv /\ [Next]_vars => [P]_vars
  BY <1>1
<1> QED BY <1>2, InvariantHolds, PTL DEF Spec, AdoptedUnchanged

\* exportCredentials only creates: whatever somebody writes to the Secret
\* between the read that found none and the write, the operator keeps it.
THEOREM SecretNotOverwritten == Spec => SecretKept
<1> DEFINE P == secret # None /\ edits' = edits => UNCHANGED secret
<1>1. ASSUME IInv, Next, secret # None, edits' = edits PROVE UNCHANGED secret
  <2>1. ~EditSecret
    <3>1. edits \in Nat
      BY <1>1, ProviderSyncAssumption DEF IInv, TypeOK
    <3> QED BY <1>1, <3>1 DEF EditSecret, Edit
  <2>2. CreateSecret => UNCHANGED secret
    BY <1>1 DEF CreateSecret
  <2>3. ASSUME Interrupt \/ ReadCR \/ Resolve \/ ObserveApplication \/ AdoptApplication \/ RecordApplication
        PROVE  UNCHANGED secret
    BY <2>3 DEF Interrupt, ReadCR, Resolve, ObserveApplication, AdoptApplication, RecordApplication, kube
  <2>4. ASSUME FindProvider \/ CreateProvider \/ SyncProvider \/ ExportCredentials \/ ReconcileApplication
        PROVE  UNCHANGED secret
    BY <2>4 DEF FindProvider, CreateProvider, SyncProvider, ExportCredentials, ReconcileApplication, kube
  <2>5. ASSUME UIEditProvider \/ UIEditApplication \/ UIDeleteProvider \/ UIReference \/ EditSpec
        PROVE  UNCHANGED secret
    BY <2>5 DEF UIEditProvider, UIEditApplication, UIDeleteProvider, UIReference, EditSpec, kube
  <2> QED BY <1>1, <2>1, <2>2, <2>3, <2>4, <2>5 DEF Next, Reconcile, People
<1>2. IInv /\ [Next]_vars => [P]_vars
  BY <1>1
<1> QED BY <1>2, InvariantHolds, PTL DEF Spec, SecretKept
=============================================================================
