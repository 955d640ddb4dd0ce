------------------------------- MODULE Tools -------------------------------
(***************************************************************************)
(* The built-in tools: what each declares of itself (ToolMetadata) and     *)
(* the error it makes of what goes wrong in its backend (src/atlas_mcp/    *)
(* tools and errors/framework.py).                                         *)
(*                                                                         *)
(* A backend fails in one of a few ways that its driver tells apart:       *)
(*   refused      no connection can be made                                *)
(*   timeout      the driver's own timeout passes                          *)
(*   lost         the connection breaks, or the driver has none            *)
(*   overloaded   429, SlowDown, too many connections                      *)
(*   unavailable  502, 503, 504                                            *)
(*   internal     500, InternalError                                       *)
(*   missing      404, NoSuchKey                                           *)
(*   rejected     any other 4xx (but 408), a syntax error                  *)
(*   garbled      an answer that cannot be read                            *)
(***************************************************************************)
EXTENDS FiniteSets, Sequences

Failure == {"refused", "timeout", "lost", "overloaded", "unavailable", "internal",
            "missing", "rejected", "garbled"}

-----------------------------------------------------------------------------
(* Errors: the SERF fields the properties look at *)

ToolError(code, retryable) == [code |-> code, retryable |-> retryable]

RateLimitError == ToolError("rate_limited", TRUE)
CircuitOpenError == ToolError("circuit_open", TRUE)
TimeoutError_ == ToolError("timeout", TRUE)

\* PolicyError, ValidationError and ToolNotFoundError, as every place raises them.
Refusal(code) == ToolError(code, FALSE)

\* What normalise_exception makes of anything that is not a ToolError.
InternalError == ToolError("internal_error", FALSE)

-----------------------------------------------------------------------------
(* Metadata *)

Tool(name, level, scopes, destructive, cacheable) ==
    [name |-> name, level |-> level, scopes |-> scopes,
     destructive |-> destructive, cacheable |-> cacheable]

StubPing == Tool("server.ping", "atomic", {}, FALSE, FALSE)
PostgresQuery == Tool("postgres.query", "atomic", {"tool:postgres:read"}, FALSE, TRUE)
ElasticsearchSearch ==
    Tool("elasticsearch.search", "atomic", {"tool:elasticsearch:read"}, FALSE, TRUE)
VectorSearch == Tool("vector.search", "atomic", {"tool:vector:read"}, FALSE, TRUE)
S3Get == Tool("s3.get_object", "atomic", {"tool:s3:read"}, FALSE, TRUE)
S3Put == Tool("s3.put_object", "atomic", {"tool:s3:write"}, TRUE, FALSE)
HTTPFetch == Tool("http.fetch", "atomic", {"tool:http:fetch"}, FALSE, FALSE)
SemanticSearch ==
    Tool("semantic_search", "composed", {"tool:vector:read", "tool:postgres:read"}, FALSE, TRUE)
HybridSearch ==
    Tool("hybrid_search", "composed", {"tool:vector:read", "tool:elasticsearch:read"}, FALSE, TRUE)
CustomerContext ==
    Tool("customer.build_context", "workflow",
         {"tool:postgres:read", "tool:elasticsearch:read", "tool:vector:read"}, FALSE, TRUE)

\* In the order in which discover() registers them.
Builtin == <<StubPing, PostgresQuery, ElasticsearchSearch, VectorSearch, S3Get, S3Put,
             HTTPFetch, SemanticSearch, HybridSearch, CustomerContext>>

-----------------------------------------------------------------------------
(* The error of a failure, per backend *)

\* By the name of the exception's class; OSError and TimeoutError are not there.
PostgresError(failure) == ToolError("postgres_error", failure \in {"lost", "overloaded"})

\* By the status; without an answer there is none.
ElasticsearchError(failure) ==
    ToolError("elasticsearch_error", failure \in {"overloaded", "internal", "unavailable"})

\* By the code of the error document; without an answer there is none.
S3Error(failure) ==
    IF failure = "missing" THEN ToolError("not_found", FALSE)
    ELSE ToolError("s3_error", failure \in {"internal", "overloaded"})

\* The client's classification first; what it lets through is a vector_error.
VectorError(failure) ==
    CASE failure \in {"refused", "timeout", "lost"} -> ToolError("vector_network_error", TRUE)
      [] failure = "garbled" -> ToolError("vector_error", TRUE)
      [] OTHER -> ToolError("vector_http_error", failure = "unavailable")

EmbeddingError(failure) ==
    CASE failure \in {"refused", "timeout", "lost"} -> ToolError("embedding_network_error", TRUE)
      [] failure = "garbled" -> InternalError
      [] OTHER -> ToolError("embedding_error",
                            failure \in {"overloaded", "internal", "unavailable"})

\* Every status is a result of the tool.
HTTPFetchErrors(failure) ==
    CASE failure = "timeout" -> {ToolError("http_timeout", TRUE)}
      [] failure \in {"refused", "lost", "garbled"} -> {ToolError("http_network_error", TRUE)}
      [] OTHER -> {}

\* embed, then vector.search, then the rows from Postgres: the first to fail.
SemanticErrors(failure) ==
    {EmbeddingError(failure), VectorError(failure), PostgresError(failure)}

\* hybrid_search has the embedding, the text search and the vector search.
HybridErrors(failure) ==
    {EmbeddingError(failure), ElasticsearchError(failure), VectorError(failure)}

\* The errors a tool may raise when one of its backends fails that way;
\* customer.build_context raises none (FanOut).
Errors(name, failure) ==
    CASE name = "postgres.query" -> {PostgresError(failure)}
      [] name = "elasticsearch.search" -> {ElasticsearchError(failure)}
      [] name = "vector.search" -> {VectorError(failure)}
      [] name \in {"s3.get_object", "s3.put_object"} -> {S3Error(failure)}
      [] name = "http.fetch" -> HTTPFetchErrors(failure)
      [] name = "semantic_search" -> SemanticErrors(failure)
      [] name = "hybrid_search" -> HybridErrors(failure)
      [] OTHER -> {}
=============================================================================
