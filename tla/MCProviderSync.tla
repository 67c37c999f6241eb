--------------------------- MODULE MCProviderSync ---------------------------
(***************************************************************************)
(* Instances of ProviderSync: the specs that a CR may have.                *)
(***************************************************************************)
EXTENDS ProviderSync

Proxy(adopt, group, mode, host, validity) ==
  [kind |-> "proxy", adopt |-> adopt, group |-> group,
   mode |-> mode, host |-> host, validity |-> validity]

OAuth2(adopt, group, scopes, credentials, validity) ==
  [kind |-> "oauth2", adopt |-> adopt, group |-> group,
   scopes |-> scopes, credentials |-> credentials, validity |-> validity]

\* Forward auth for one host and for a domain, and OAuth2 with and without
\* scopes and credentials.
ForwardAndOAuth2 ==
  {Proxy("IfMatch", "a", "forward_single", "a", Unset),
   Proxy("Force", Unset, "forward_domain", "b", "b"),
   OAuth2("IfMatch", "a", <<"m1", "m2">>, TRUE, Unset),
   OAuth2("Never", Unset, NoScopes, FALSE, "b")}

\* For each type one that has the fields of a spec and one that does not.
OneOfEach ==
  {[mode |-> "forward_single", external_host |-> "a", internal_host |-> "a",
    cookie_domain |-> "", token_validity |-> "b"],
   [mode |-> "proxy", external_host |-> "b", internal_host |-> "a",
    cookie_domain |-> "a", token_validity |-> "a"],
   [property_mappings |-> Mappings, client_secret |-> "b", token_validity |-> "b"],
   [property_mappings |-> {"m2"}, client_secret |-> "a", token_validity |-> "a"]}

\* The reverse proxy mode.
ReverseProxy == {Proxy("Force", Unset, "proxy", "a", Unset)}
=============================================================================
