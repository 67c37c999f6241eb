----------------------------- MODULE MCBindings -----------------------------
(* Small instances of Bindings for TLC. *)
EXTENDS Bindings, TLC

CONSTANTS g, p

RuleOf(s, n) == [subject |-> s, negate |-> n]
SpecOf(rules, pruned) == [rules |-> rules, prune |-> pruned]

\* A group and a policy, a rule negated, a rule repeated, and the public
\* Application.
FiveSpecs == {SpecOf(<<RuleOf(g, FALSE)>>, FALSE),
              SpecOf(<<RuleOf(p, FALSE), RuleOf(g, TRUE)>>, TRUE),
              SpecOf(<<RuleOf(p, TRUE)>>, FALSE),
              SpecOf(<<RuleOf(g, FALSE), RuleOf(g, FALSE)>>, FALSE),
              SpecOf(<<>>, FALSE)}
=============================================================================
