------------------------------- MODULE Policy -------------------------------
(***************************************************************************)
(* The decisions about one call that need no state: the policy engine      *)
(* (src/atlas_mcp/auth/policy.py), the outbound allowlist (governance/     *)
(* http_allowlist.py), the scopes (context.py and, again, registry.py) and *)
(* the bounds of an argument tree (validation/adversarial.py).             *)
(*                                                                         *)
(* Names that patterns match are sequences of their parts, cut where the   *)
(* patterns cut them: "tenant:acme/s3.put_object" is                       *)
(* <<"tenant:", "acme", "/", "s3.put_object">>.                            *)
(***************************************************************************)
EXTENDS Naturals, Sequences, FiniteSets, SequencesExt

(* Policy *)

\* A pattern is its text and whether a star ends it; "*" is the star alone.
\* A star anywhere else is a character like any other.
Pattern(text) == [text |-> text, star |-> FALSE]
Glob(text) == [text |-> text, star |-> TRUE]

GlobAny(patterns, value) ==
    \E p \in patterns : p.text = value \/ (p.star /\ IsPrefix(p.text, value))

\* A condition is the first entry of the rule's conditions, the only one the
\* loop ever looks at; NoCondition stands for a rule without any.
NoCondition == [key |-> "none", values |-> {}]

ConditionsMatch(condition, context) ==
    \/ condition.key = "none"
    \/ condition.key = "sql_contains_any" /\ condition.values \cap context.sql # {}
    \/ condition.key = "pii_fields" /\ condition.values \cap context.columns # {}

RuleMatches(rule, subject, action, resource, context) ==
    /\ GlobAny(rule.subjects, subject)
    /\ GlobAny(rule.actions, action)
    /\ GlobAny(rule.resources, resource)
    /\ ConditionsMatch(rule.condition, context)

FullResource(tenant, resource) == <<"tenant:", tenant, "/">> \o resource

Matching(rules, effect, subject, tenant, action, resource, context) ==
    {rule \in rules :
        /\ rule.effect = effect
        /\ RuleMatches(rule, subject, action, FullResource(tenant, resource), context)}

-----------------------------------------------------------------------------
(* Allowlist *)

\* A host is the sequence of its labels.  "*." takes one label more at least.
HostMatches(pattern, host) ==
    \/ ~pattern.star /\ pattern.text = host
    \/ pattern.star /\ IsSuffix(pattern.text, host) /\ Len(host) > Len(pattern.text)

\* The tenant's own patterns and those for everybody.
HostAllowed(allowlist, tenant, host) ==
    \E owner \in {tenant, "*"} \cap DOMAIN allowlist :
        \E pattern \in allowlist[owner] : HostMatches(pattern, host)

-----------------------------------------------------------------------------
(* Scopes *)

AdminScope == "tool:*:admin"
ImpersonateScope == "tenant:*:impersonate"

\* has_scope(), of a RequestContext and of a Principal: the admin scope stands
\* for those that start with "tool:" (toolScopes).
HasScope(scopes, required, toolScopes) ==
    required \in scopes \/ (required \in toolScopes /\ AdminScope \in scopes)

\* Mutant: one of the scopes is enough.
MutantScopesSatisfied(required, scopes) ==
    required = {} \/ \E scope \in required : scope \in scopes \/ AdminScope \in scopes

\* _scopes_satisfied(): the admin scope stands for any.
ScopesSatisfied(required, scopes) ==
    \A scope \in required : scope \in scopes \/ AdminScope \in scopes

-----------------------------------------------------------------------------
(* Arguments *)

MaxArgumentBytes == 64 * 1024
MaxNestingDepth == 8
MaxListLength == 1000
MaxObjectKeys == 100

\* bound_argument_tree(): the whole, its deepest node, its widest ones.
Bounded(arguments) ==
    /\ arguments.bytes <= MaxArgumentBytes
    /\ arguments.depth <= MaxNestingDepth
    /\ arguments.keys <= MaxObjectKeys
    /\ arguments.items <= MaxListLength
=============================================================================
