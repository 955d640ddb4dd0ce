--------------------------- MODULE GatewayProofs ---------------------------
(* Theorems about the gate of approval and about the way to it, for any       *)
(* tokens, policy, registry and number of tenants.                            *)
EXTENDS Gateway, TLAPS

(* The records *)

\* An approval stored is the last decision, and expires ApprovalTtl after it.
ConsentInv ==
    /\ ApprovalTypeOK
    /\ \A k \in Keys : record[k].state = "approved" =>
          /\ decision[k].was = "approved"
          /\ record[k].expires = decision[k].at + ApprovalTtl

LEMMA ConsentInit == ApprovalInit => ConsentInv
  BY DEF ApprovalInit, ConsentInv, ApprovalTypeOK, States

\* Every step of the gate, whatever key it is for, keeps what is stored.
LEMMA ConsentStep == ConsentInv /\ [ApprovalNext]_approvalVars => ConsentInv'
<1> SUFFICES ASSUME ConsentInv, [ApprovalNext]_approvalVars PROVE ConsentInv'
  OBVIOUS
<1> USE ApprovalAssumption DEF ConsentInv, ApprovalTypeOK, States
<1>1. ASSUME NEW k \in Keys, Hold(k) PROVE ConsentInv'
  <2>1. CASE record' = record
    BY <1>1, <2>1 DEF Hold
  <2>2. CASE Set(k, "pending")
    <3>1. ApprovalTypeOK'
      BY <1>1, <2>2 DEF Hold, Set
    <3>2. \A j \in Keys : record'[j].state = "approved" => j # k /\ record'[j] = record[j]
      BY <2>2 DEF Set
    <3>3. QED
      BY <1>1, <3>1, <3>2 DEF Hold
  <2>3. QED
    BY <1>1, <2>1, <2>2 DEF Hold
<1>2. ASSUME NEW k \in Keys, NEW state \in {"approved", "denied"}, Decide(k, state)
      PROVE  ConsentInv'
  BY <1>2 DEF Decide, Set
<1>3. CASE Restart
  BY <1>3 DEF Restart
<1>4. CASE Pass
  BY <1>4 DEF Pass
<1>5. CASE UNCHANGED approvalVars
  BY <1>5 DEF approvalVars
<1>6. QED
  BY <1>1, <1>2, <1>3, <1>4, <1>5 DEF ApprovalNext

LEMMA ConsentInvFresh == ConsentInv => ConsentIsFresh
  BY ApprovalAssumption DEF ConsentInv, ApprovalTypeOK, States, ConsentIsFresh, LetsThrough, Found

\* ApprovalGate lets a call through only on a human's last decision, and for
\* ApprovalTtl after it.
THEOREM ApprovalsAreFresh == ApprovalSpec => []ConsentIsFresh
<1>1. ApprovalSpec => []ConsentInv
  BY ConsentInit, ConsentStep, PTL DEF ApprovalSpec
<1>2. QED
  BY <1>1, ConsentInvFresh, PTL

-----------------------------------------------------------------------------
(* The way of the request *)

\* What the stages before this one have established.
RequestInv ==
    /\ request = [at |-> request.at, bearer |-> request.bearer,
                  header |-> request.header, message |-> request.message]
    /\ context = [subject |-> context.subject, tenant |-> context.tenant,
                  scopes |-> context.scopes]
    /\ request.header \in Headers \cup {NoHeader}
    /\ request.message \in Messages \cup {ToolsList}
    /\ request.at \in {"received", "authenticated", "tenanted"} => request.bearer \in Bearers
    /\ request.at \in {"authenticated", "tenanted"} => request.bearer.found = "valid"
    /\ request.at \in {"tenanted", "bound", "quota", "run"} =>
          /\ context.tenant \in Tenants
          /\ request.bearer.found = "valid" =>
                context.tenant = Principal.tenant \/ ImpersonateScope \in Principal.scopes
    /\ request.at \in {"quota", "run"} => request.message.kind = "call"

LEMMA RequestInit == Init => RequestInv
  BY DEF Init, RequestInv, NoRequest, Nobody

\* No built-in tool declares the impersonation scope, so the admin scope does
\* not stand for it.
LEMMA AdminDoesNotImpersonate == Impersonates => ImpersonateScope \in Principal.scopes
<1>1. ImpersonateScope \notin ToolScopes
  <2>1. \A t \in {Builtin[i] : i \in 1..Len(Builtin)} : ImpersonateScope \notin t.scopes
    BY DEF Builtin, Tool, StubPing, PostgresQuery, ElasticsearchSearch, VectorSearch, S3Get,
           S3Put, HTTPFetch, SemanticSearch, HybridSearch, CustomerContext, ImpersonateScope
  <2>2. QED
    BY <2>1 DEF ToolScopes
<1>2. QED
  BY <1>1 DEF Impersonates, HasScope

\* A step that answers the request leaves nothing to establish.
LEMMA AnsweredInv ==
  ASSUME RequestInv, NEW status, NEW error, Answer(status, error),
         context' = context
  PROVE  RequestInv'
  BY DEF RequestInv, Answer, Goto

LEMMA RequestStep == RequestInv /\ [Next]_vars => RequestInv'
<1> SUFFICES ASSUME RequestInv, [Next]_vars PROVE RequestInv'
  OBVIOUS
<1>1. CASE UNCHANGED requestVars
  BY <1>1 DEF RequestInv, requestVars, Principal
<1>2. CASE RestartServer
  BY <1>2 DEF RestartServer, RequestInv, NoRequest, Nobody
<1>3. CASE Arrive
  BY <1>3 DEF Arrive, RequestInv, Principal
<1>4. CASE ArriveOnStdio
  <2>1. PICK message \in Messages :
           request' = [at |-> "bound", bearer |-> NoBearer, header |-> NoHeader, message |-> message]
    BY <1>4 DEF ArriveOnStdio, NoRequest
  <2>2. context' = [subject |-> <<"dev:local">>, tenant |-> StdioTenant, scopes |-> {}]
    BY <1>4 DEF ArriveOnStdio
  <2>3. NoBearer.found # "valid"
    BY DEF NoBearer
  <2>4. QED
    BY <2>1, <2>2, <2>3 DEF RequestInv, Tenants
<1>5. CASE Leave
  BY <1>5 DEF Leave, RequestInv, NoRequest, Nobody
<1>6. CASE Authenticate
  <2>1. CASE request.bearer.found = "valid"
    BY <1>6, <2>1 DEF Authenticate, Goto, RequestInv, Principal
  <2>2. CASE request.bearer.found # "valid"
    BY <1>6, <2>2, AnsweredInv DEF Authenticate, Refuse
  <2>3. QED
    BY <2>1, <2>2
<1>7. CASE BindTenant
  <2>1. Principal.tenant \in Tenants
    BY <1>7 DEF BindTenant, RequestInv, Principal, Tenants
  <2>2. CASE request.header \in {NoHeader, Principal.tenant}
    BY <1>7, <2>1, <2>2 DEF BindTenant, Goto, RequestInv, Principal
  <2>3. CASE request.header \notin {NoHeader, Principal.tenant} /\ Impersonates
    <3>1. request.header \in Tenants
      BY <2>3 DEF RequestInv, Tenants
    <3>2. QED
      BY <1>7, <2>3, <3>1, AdminDoesNotImpersonate DEF BindTenant, Goto, RequestInv, Principal
  <2>4. CASE request.header \notin {NoHeader, Principal.tenant} /\ ~Impersonates
    BY <1>7, <2>4, AnsweredInv DEF BindTenant, Refuse
  <2>5. QED
    BY <2>2, <2>3, <2>4
<1>8. CASE BindContext
  BY <1>8 DEF BindContext, Goto, RequestInv, Principal
<1>9. CASE CallPasses
  BY <1>9 DEF CallPasses, AtGates, Goto, RequestInv, Principal
<1>10. CASE Admitted
  BY <1>10 DEF Admitted, Goto, RequestInv, Principal
<1>11. CASE ListTools \/ CallRefused \/ RateLimited \/ Held \/ Returns \/ BackendFails \/ PipelineFails
  BY <1>11, AnsweredInv
     DEF ListTools, CallRefused, RateLimited, Held, Returns, BackendFails, PipelineFails
<1>12. QED
  BY <1>1, <1>2, <1>3, <1>4, <1>5, <1>6, <1>7, <1>8, <1>9, <1>10, <1>11
     DEF Next, vars, requestVars, Register, Unregister, Discover, HumanDecides, Tick

LEMMA RequestHolds == Spec => []RequestInv
  BY RequestInit, RequestStep, PTL DEF Spec

\* TenantMiddleware: what runs for another tenant than the token's runs for a
\* token that may impersonate, for any tokens and tenants.
THEOREM TenantIsBound == Spec => []TenantBound
<1>1. RequestInv => TenantBound
  BY DEF RequestInv, TenantBound
<1>2. QED
  BY <1>1, RequestHolds, PTL

-----------------------------------------------------------------------------
(* The gate in the server *)

\* A destructive call that reaches the gate has an approval id.
LEMMA HasApprovalId == RequestInv /\ request.at = "quota" /\ Destructive => ApprovalId \in Keys
<1> SUFFICES ASSUME RequestInv, request.at = "quota", Destructive PROVE ApprovalId \in Keys
  OBVIOUS
<1>1. request.message \in Messages
  BY DEF RequestInv, ToolsList
<1>2. QED
  BY <1>1, GatewayAssumption DEF RequestInv, Destructive, ApprovalId

LEMMA GateStep == RequestInv /\ [Next]_vars => [ApprovalNext]_approvalVars
<1> SUFFICES ASSUME RequestInv, [Next]_vars, ~UNCHANGED approvalVars PROVE ApprovalNext
  OBVIOUS
<1>1. CASE Held
  BY <1>1, HasApprovalId DEF Held, ApprovalNext
<1>2. CASE RestartServer
  BY <1>2 DEF RestartServer, ApprovalNext
<1>3. CASE \E k \in Keys : HumanDecides(k)
  BY <1>3 DEF HumanDecides, ApprovalNext
<1>4. CASE Tick
  BY <1>4 DEF Tick, ApprovalNext
<1>5. QED
  BY <1>1, <1>2, <1>3, <1>4
     DEF Next, vars, Register, Unregister, Discover, Arrive, ArriveOnStdio, Leave, Authenticate,
         BindTenant, BindContext, ListTools, CallRefused, CallPasses, RateLimited, Admitted,
         Returns, BackendFails, PipelineFails

\* Whatever the server does with its requests is, for the records of approval, a
\* step of the gate or none.
THEOREM ServerUsesGate == Spec => ApprovalSpec
<1>1. Init => ApprovalInit
  BY DEF Init
<1>2. QED
  BY <1>1, RequestHolds, GateStep, PTL DEF Spec, ApprovalSpec

\* dispatch: a destructive call runs only on a fresh approval of this very call
\* for the tenant it is made for, whatever was retried, denied or restarted.
THEOREM DestructiveNeedsApproval == Spec => WritesAreApproved
<1>1. ConsentInv /\ RequestInv /\ [Next]_vars =>
         [ (request.at = "quota" /\ request'.at = "run" /\ Destructive) =>
             LET d == decision[<<context.tenant, request.message.tool, request.message.arguments>>]
             IN  d.was = "approved" /\ clock <= d.at + ApprovalTtl ]_vars
  <2> SUFFICES ASSUME ConsentInv, RequestInv, Next,
                      request.at = "quota", request'.at = "run", Destructive
               PROVE  /\ decision[ApprovalId].was = "approved"
                      /\ clock <= decision[ApprovalId].at + ApprovalTtl
    BY DEF ApprovalId
  <2>1. ~UNCHANGED requestVars
    BY DEF requestVars
  <2>2. ~Held /\ ~RateLimited
    BY DEF Held, RateLimited, Answer, Goto, RequestInv
  <2>3. ~RestartServer /\ ~Arrive /\ ~ArriveOnStdio /\ ~Leave
    BY DEF RestartServer, Arrive, ArriveOnStdio, Leave, NoRequest
  <2>4. Admitted
    BY <2>1, <2>2, <2>3
       DEF Next, Register, Unregister, Discover, HumanDecides, Tick, Authenticate, BindTenant,
           BindContext, ListTools, CallRefused, CallPasses, AtGates, Returns, BackendFails,
           PipelineFails
  <2>5. LetsThrough(ApprovalId) /\ ApprovalId \in Keys
    BY <2>4, HasApprovalId DEF Admitted
  <2>6. QED
    BY <2>5, ConsentInvFresh DEF ConsentIsFresh
<1>2. Spec => []ConsentInv
  BY ServerUsesGate, ConsentInit, ConsentStep, PTL DEF ApprovalSpec
<1>3. QED
  BY <1>1, <1>2, RequestHolds, PTL DEF Spec, WritesAreApproved

-----------------------------------------------------------------------------
(* The registry *)

\* All the tools that may ever be registered.
Known == Plugins \cup {Builtin[i] : i \in 1..Len(Builtin)}

RegistryInv ==
    /\ registered \subseteq Known
    /\ DiscoveryComplete

LEMMA RegistryStep == RegistryInv /\ [Next]_vars => RegistryInv'
<1> SUFFICES ASSUME RegistryInv, [Next]_vars PROVE RegistryInv'
  OBVIOUS
<1> USE DEF RegistryInv, DiscoveryComplete, Names
<1>1. CASE UNCHANGED registryVars
  BY <1>1 DEF registryVars
<1>2. ASSUME NEW t \in Plugins, Register(t) PROVE RegistryInv'
  BY <1>2 DEF Register, Known
<1>3. ASSUME NEW name \in Removable, Unregister(name) PROVE RegistryInv'
  BY <1>3 DEF Unregister
<1>4. CASE Discover
  <2>1. registered' \subseteq Known
    BY <1>4 DEF Discover, Known
  <2>2. ASSUME Clashes = {} PROVE {Builtin[i] : i \in 1..Len(Builtin)} \subseteq registered'
    BY <1>4, <2>2 DEF Discover
  <2>3. QED
    BY <1>4, <2>1, <2>2 DEF Discover
<1>5. CASE RestartServer
  BY <1>5 DEF RestartServer
<1>6. QED
  BY <1>1, <1>2, <1>3, <1>4, <1>5
     DEF Next, vars, registryVars, Arrive, ArriveOnStdio, Leave, Authenticate, BindTenant,
         BindContext, ListTools, CallRefused, CallPasses, RateLimited, Held, Admitted, Returns,
         BackendFails, PipelineFails, HumanDecides, Tick

LEMMA RegistryHolds == Spec => []RegistryInv
<1>1. Init => RegistryInv
  BY DEF Init, RegistryInv, DiscoveryComplete
<1>2. QED
  BY <1>1, RegistryStep, PTL DEF Spec

\* startup(): a server that serves has registered every built-in tool, whatever
\* names an embedder took before and however often discover() was run again.
THEOREM DiscoveryIsComplete == Spec => []DiscoveryComplete
<1>1. RegistryInv => DiscoveryComplete
  BY DEF RegistryInv
<1>2. QED
  BY <1>1, RegistryHolds, PTL

-----------------------------------------------------------------------------
(* List and call *)

\* A name stands for one tool, with the scopes it declares.
NamesAreTools == \A t, u \in Known : t.name = u.name => t.scopes = u.scopes

\* What the list says of a tool, by its name.
ListedInv ==
    /\ \A t \in Known : t.name \in listed.visible => ScopesSatisfied(t.scopes, listed.scopes)
    /\ \A t \in Known : t.name \in listed.hidden => ~ScopesSatisfied(t.scopes, listed.scopes)
    /\ listed.visible \subseteq Names(registered) \cup removed

Asked == request.message.tool

Allows(t) == \A scope \in t.scopes : HasScope(context.scopes, scope, ToolScopes)

\* What a call's answer says of its tool.
CallInv ==
    /\ charged => request.at \in {"run", "answered"}
    /\ (request.at \in {"quota", "run"} \/ charged) =>
          \E t \in Known : t.name = Asked /\ Allows(t)
    /\ (Answered /\ reply.code = "insufficient_scope") =>
          \E t \in Known : t.name = Asked /\ ~Allows(t)
    /\ (Answered /\ reply.code = "tool_not_found" /\ Asked \in listed.visible) =>
          Asked \in removed

LEMMA ListedStep == NamesAreTools /\ RegistryInv /\ ListedInv /\ [Next]_vars => ListedInv'
<1> SUFFICES ASSUME NamesAreTools, RegistryInv, ListedInv, [Next]_vars PROVE ListedInv'
  OBVIOUS
<1> DEFINE Answerable == listed.visible \subseteq Names(registered) \cup removed
<1> USE DEF ListedInv, Names
<1>1. ASSUME UNCHANGED registryVars, UNCHANGED listed PROVE ListedInv'
  BY <1>1 DEF registryVars
<1>2. CASE ListTools
  <2>1. /\ listed'.scopes = context.scopes
        /\ listed'.visible = {t.name : t \in Visible}
        /\ listed'.hidden = {t.name : t \in registered \ Visible}
        /\ UNCHANGED registryVars
    BY <1>2 DEF ListTools
  <2>2. registered \subseteq Known
    BY DEF RegistryInv
  <2>3. \A t \in Known, u \in registered : t.name = u.name => t.scopes = u.scopes
    BY <2>2 DEF NamesAreTools
  <2>4. QED
    BY <2>1, <2>3 DEF Visible, registryVars
<1>3. ASSUME NEW t \in Plugins, Register(t) PROVE ListedInv'
  <2>1. UNCHANGED listed
    BY <1>3 DEF Register, requestVars
  <2>2. Answerable'
    BY <1>3, <2>1 DEF Register
  <2>3. QED
    BY <2>1, <2>2
<1>4. ASSUME NEW name \in Removable, Unregister(name) PROVE ListedInv'
  <2>1. UNCHANGED listed
    BY <1>4 DEF Unregister, requestVars
  <2>2. Answerable'
    BY <1>4, <2>1 DEF Unregister
  <2>3. QED
    BY <2>1, <2>2
<1>5. CASE Discover
  <2>1. UNCHANGED listed
    BY <1>5 DEF Discover, requestVars
  <2>2. Answerable'
    BY <1>5, <2>1 DEF Discover
  <2>3. QED
    BY <2>1, <2>2
<1>6. CASE RestartServer
  BY <1>6 DEF RestartServer
<1>7. QED
  BY <1>1, <1>2, <1>3, <1>4, <1>5, <1>6
     DEF Next, vars, requestVars, Arrive, ArriveOnStdio, Leave, Authenticate, BindTenant,
         BindContext, CallRefused, CallPasses, RateLimited, Held, Admitted, Returns,
         BackendFails, PipelineFails, HumanDecides, Tick

\* No tool answers for its backend what the gates before it answer.
LEMMA BackendErrorCodes ==
  ASSUME NEW name, NEW f, NEW error \in Errors(name, f)
  PROVE  error.code \notin {"insufficient_scope", "tool_not_found"}
<1> USE DEF ToolError, InternalError
<1>1. /\ PostgresError(f).code = "postgres_error"
      /\ ElasticsearchError(f).code = "elasticsearch_error"
      /\ S3Error(f).code \in {"not_found", "s3_error"}
  BY DEF PostgresError, ElasticsearchError, S3Error
<1>2. VectorError(f).code \in {"vector_network_error", "vector_error", "vector_http_error"}
  BY DEF VectorError
<1>3. EmbeddingError(f).code \in {"embedding_network_error", "internal_error", "embedding_error"}
  BY DEF EmbeddingError
<1>4. \A e \in HTTPFetchErrors(f) : e.code \in {"http_timeout", "http_network_error"}
  BY DEF HTTPFetchErrors
<1>5. QED
  BY <1>1, <1>2, <1>3, <1>4 DEF Errors, SemanticErrors, HybridErrors

\* Any other answer than the two, to a call that was charged or not.
LEMMA OtherAnswers ==
  ASSUME CallInv, NEW status, NEW error, Answer(status, error),
         error.code \notin {"insufficient_scope", "tool_not_found"},
         UNCHANGED <<context, charged>>
  PROVE  CallInv'
<1>1. /\ request'.at = "answered" /\ Asked' = Asked /\ reply'.code = error.code
      /\ \A t : Allows(t)' = Allows(t)
  BY DEF Answer, Goto, Asked, Allows
<1>2. QED
  BY <1>1 DEF CallInv

\* A refusal at the gates says what is so: the tool is not registered, or it
\* asks for a scope that the call has not.
LEMMA RefusalsAreTrue ==
  ASSUME RequestInv, RegistryInv, ListedInv, CallInv, CallRefused
  PROVE  CallInv'
<1>1. PICK i \in 1..Len(Gates) : RefusedBy(i) /\ Answer("error", Refusal(Gates[i]))
  BY DEF CallRefused
<1>2. /\ request'.at = "answered" /\ reply'.code = Gates[i] /\ Asked' = Asked
      /\ UNCHANGED <<context, charged, listed, registered, removed>>
      /\ request.at = "bound" /\ ~charged /\ \A t : Allows(t)' = Allows(t)
  BY <1>1 DEF CallRefused, AtGates, Answer, Goto, Refusal, ToolError, Asked, Allows,
              registryVars, CallInv
<1>3. ASSUME Gates[i] = "insufficient_scope"
      PROVE  \E t \in Known : t.name = Asked /\ ~Allows(t)
  <2>1. i # 1 /\ Gates[1] = "tool_not_found"
    BY <1>3 DEF Gates
  <2>2. ~Refuses("tool_not_found") /\ Refuses("insufficient_scope")
    BY <1>1, <1>3, <2>1 DEF RefusedBy
  <2>3. Asked \in Names(registered)
    BY <2>2 DEF Refuses, Asked
  <2>4. Lookup(Asked) \in registered /\ Lookup(Asked).name = Asked
    BY <2>3 DEF Names, Lookup
  <2>5. Missing(Lookup(Asked)) # {}
    BY <2>2 DEF Refuses, Asked
  <2>6. ~Allows(Lookup(Asked))
    BY <2>5 DEF Missing, Allows
  <2>7. QED
    BY <2>4, <2>6 DEF RegistryInv
<1>4. ASSUME Gates[i] = "tool_not_found", Asked \in listed.visible PROVE Asked \in removed
  <2>1. Refuses("tool_not_found")
    BY <1>1, <1>4 DEF RefusedBy
  <2>2. Asked \notin Names(registered)
    BY <2>1 DEF Refuses, Asked
  <2>3. QED
    BY <1>4, <2>2 DEF ListedInv
<1>5. QED
  BY <1>2, <1>3, <1>4 DEF CallInv, Answered

\* A call that passes the gates has the scopes of its tool.
LEMMA PassingIsAllowed ==
  ASSUME RegistryInv, CallPasses
  PROVE  \E t \in Known : t.name = Asked /\ Allows(t)
<1>1. \A j \in 1..Len(Gates) : ~Refuses(Gates[j])
  BY DEF CallPasses
<1>2. ~Refuses("tool_not_found") /\ ~Refuses("insufficient_scope")
  <2>1. /\ 1 \in 1..Len(Gates) /\ 3 \in 1..Len(Gates)
        /\ Gates[1] = "tool_not_found" /\ Gates[3] = "insufficient_scope"
    BY DEF Gates
  <2>2. QED
    BY <1>1, <2>1
<1>3. Asked \in Names(registered)
  BY <1>2 DEF Refuses, Asked
<1>4. Lookup(Asked) \in registered /\ Lookup(Asked).name = Asked
  BY <1>3 DEF Names, Lookup
<1>5. Allows(Lookup(Asked))
  BY <1>2 DEF Refuses, Missing, Allows, Asked
<1>6. QED
  BY <1>4, <1>5 DEF RegistryInv

LEMMA CallStep == RequestInv /\ RegistryInv /\ ListedInv /\ CallInv /\ [Next]_vars => CallInv'
<1> SUFFICES ASSUME RequestInv, RegistryInv, ListedInv, CallInv, [Next]_vars PROVE CallInv'
  OBVIOUS
<1>1. ASSUME UNCHANGED requestVars, removed \subseteq removed' PROVE CallInv'
  BY <1>1 DEF requestVars, CallInv, Answered, Asked, Allows
<1>2. CASE RestartServer
  BY <1>2 DEF RestartServer, CallInv, Answered, NoRequest, ToolsList
<1>3. CASE Arrive
  BY <1>3 DEF Arrive, CallInv, Answered
<1>4. CASE ArriveOnStdio
  BY <1>4 DEF ArriveOnStdio, CallInv, Answered, NoRequest
<1>5. CASE Leave
  BY <1>5 DEF Leave, CallInv, Answered, NoRequest, ToolsList
<1>6. CASE Authenticate
  <2>1. CASE request.bearer.found = "valid"
    BY <1>6, <2>1 DEF Authenticate, Goto, CallInv, Answered, RequestInv
  <2>2. CASE request.bearer.found # "valid"
    BY <1>6, <2>2, OtherAnswers DEF Authenticate, Refuse, Refusal, ToolError
  <2>3. QED
    BY <2>1, <2>2
<1>7. CASE BindTenant
  <2>1. ~charged /\ ~charged'
    BY <1>7 DEF BindTenant, CallInv
  <2>2. CASE Goto("tenanted")
    BY <2>1, <2>2 DEF Goto, CallInv, Answered, RequestInv
  <2>3. CASE Refuse("tenant_mismatch") /\ UNCHANGED context
    BY <1>7, <2>3, OtherAnswers DEF BindTenant, Refuse, Refusal, ToolError
  <2>4. QED
    BY <1>7, <2>2, <2>3 DEF BindTenant
<1>8. CASE BindContext
  BY <1>8 DEF BindContext, Goto, CallInv, Answered, RequestInv
<1>9. CASE ListTools
  BY <1>9, OtherAnswers DEF ListTools, ToolError
<1>10. CASE CallRefused
  BY <1>10, RefusalsAreTrue
<1>11. CASE CallPasses
  <2>1. request'.at = "quota" /\ ~charged' /\ Asked' = Asked /\ UNCHANGED context
    BY <1>11 DEF CallPasses, AtGates, Goto, CallInv, RequestInv, Asked
  <2>2. QED
    BY <1>11, <2>1, PassingIsAllowed DEF CallInv, Answered, Allows
<1>12. CASE RateLimited
  BY <1>12, OtherAnswers DEF RateLimited, RateLimitError, InternalError, ToolError
<1>13. CASE Held
  <2>1. \E t \in Known : t.name = Asked /\ Allows(t)
    BY <1>13 DEF Held, CallInv
  <2>2. /\ request'.at = "answered" /\ Asked' = Asked /\ UNCHANGED context
        /\ reply'.code \in {"approval_denied", "pending_approval"}
    BY <1>13 DEF Held, Answer, Goto, Asked, RequestInv, Refusal, ToolError
  <2>3. QED
    BY <2>1, <2>2 DEF CallInv, Answered, Allows
<1>14. CASE Admitted
  <2>1. \E t \in Known : t.name = Asked /\ Allows(t)
    BY <1>14 DEF Admitted, CallInv
  <2>2. request'.at = "run" /\ Asked' = Asked /\ UNCHANGED context
    BY <1>14 DEF Admitted, Goto, Asked, RequestInv
  <2>3. QED
    BY <2>1, <2>2 DEF CallInv, Answered, Allows
<1>15. CASE Returns
  BY <1>15, OtherAnswers DEF Returns, ToolError
<1>16. CASE BackendFails
  BY <1>16, OtherAnswers, BackendErrorCodes DEF BackendFails
<1>17. CASE PipelineFails
  BY <1>17, OtherAnswers
     DEF PipelineFails, TimeoutError_, CircuitOpenError, InternalError, ToolError
<1>18. CASE UNCHANGED vars \/ (\E t \in Plugins : Register(t)) \/ Discover \/ Tick
            \/ (\E name \in Removable : Unregister(name)) \/ (\E k \in Keys : HumanDecides(k))
  BY <1>1, <1>18 DEF vars, registryVars, Register, Unregister, Discover, HumanDecides, Tick
<1>19. QED
  BY <1>2, <1>3, <1>4, <1>5, <1>6, <1>7, <1>8, <1>9, <1>10, <1>11, <1>12, <1>13, <1>14,
     <1>15, <1>16, <1>17, <1>18 DEF Next

\* list_tools and dispatch decide with two copies of the scope rule and over a
\* registry that changes between them.  As long as a name stands for one tool,
\* they agree as ListAgreesWithCalls says.
THEOREM ListAndCallsAgree == NamesAreTools => (Spec => []ListAgreesWithCalls)
<1> SUFFICES ASSUME NamesAreTools PROVE Spec => []ListAgreesWithCalls
  OBVIOUS
<1>1. Init => ListedInv /\ CallInv
  BY DEF Init, ListedInv, CallInv, Answered, NoRequest, ToolsList
<1>2. ListedInv /\ CallInv => ListAgreesWithCalls
  <2> SUFFICES ASSUME ListedInv, CallInv, Answered, context.scopes = listed.scopes
               PROVE  ListAgreesWithCalls
    BY DEF ListAgreesWithCalls
  <2>1. ASSUME Asked \in listed.hidden, charged PROVE FALSE
    <3>1. PICK t \in Known : t.name = Asked /\ Allows(t)
      BY <2>1 DEF CallInv
    <3>2. ~ScopesSatisfied(t.scopes, context.scopes)
      BY <2>1, <3>1 DEF ListedInv
    <3>3. QED
      BY <3>1, <3>2 DEF Allows, HasScope, ScopesSatisfied
  <2>2. ASSUME Asked \in listed.visible, reply.code = "insufficient_scope"
        PROVE  \E t \in Plugins : t.name = Asked /\ ~(t.scopes \subseteq ToolScopes)
    <3>1. PICK t \in Known : t.name = Asked /\ ~Allows(t)
      BY <2>2 DEF CallInv
    <3>2. ScopesSatisfied(t.scopes, context.scopes)
      BY <2>2, <3>1 DEF ListedInv
    <3>3. ~(t.scopes \subseteq ToolScopes)
      BY <3>1, <3>2 DEF Allows, HasScope, ScopesSatisfied
    <3>4. t \in Plugins
      BY <3>3 DEF Known, ToolScopes
    <3>5. QED
      BY <3>1, <3>3, <3>4
  <2>3. ASSUME Asked \in listed.visible, reply.code = "tool_not_found" PROVE Asked \in removed
    BY <2>3 DEF CallInv
  <2>4. QED
    BY <2>1, <2>2, <2>3 DEF ListAgreesWithCalls, Asked
<1>3. RequestInv /\ RegistryInv /\ (ListedInv /\ CallInv) /\ [Next]_vars
        => (ListedInv /\ CallInv)'
  BY ListedStep, CallStep
<1>4. QED
  BY <1>1, <1>2, <1>3, RequestHolds, RegistryHolds, PTL DEF Spec

=============================================================================
