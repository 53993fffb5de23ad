--------------------------- MODULE ModelProviders ---------------------------
(***************************************************************************)
(* The clients of language models (src/backend/ai_gateway/providers/,      *)
(* output_validator.py): which are registered, which one a question is put *)
(* to, and what becomes of a reply.  A client keeps no state between       *)
(* calls: the servers may have changed at every one.                       *)
(***************************************************************************)
CONSTANTS
  OllamaEnabled,      \* the environment at start-up: TORQPRO_OLLAMA_ENABLED,
  AnthropicEnabled,   \* TORQPRO_ANTHROPIC_ENABLED
  HasAnthropicKey     \* and a key that is not blank

ASSUME ProvidersAssumption ==
  {OllamaEnabled, AnthropicEnabled, HasAnthropicKey} \subseteq BOOLEAN

\* The registry.  Ollama's address and model have defaults, so being enabled
\* is enough; the deterministic client is always there.
Providers ==
  {"deterministic"}
  \cup {name \in {"ollama"} : OllamaEnabled}
  \cup {name \in {"anthropic"} : AnthropicEnabled /\ HasAnthropicKey}

----------------------------------------------------------------------------
(* Readiness *)

\* The models that Ollama may list: the configured one, another tag of the
\* same name, and another one altogether.
Models == {"configured", "same_name", "other"}

\* What a GET of /api/tags may come to.
Probes ==
  [answer : {"none", "bad_status", "unreadable"}, lists : {{}}]
  \cup [answer : {"listing"}, lists : SUBSET Models]

\* check_readiness: any tag of the configured name will do.
CheckReadiness(probe) ==
  CASE probe.answer \in {"none", "bad_status"} -> "server_unavailable"
    [] probe.answer = "unreadable" -> "server_reachable"
    [] probe.answer = "listing" ->
         IF probe.lists \cap {"configured", "same_name"} # {}
           THEN "model_ready"
           ELSE "model_missing"

ReadinessStatus(name, probe) ==
  CASE name = "ollama" -> CheckReadiness(probe)
    [] name = "deterministic" -> "not_applicable"
    [] name = "anthropic" -> "enabled"

\* Mutant of DefaultQueryClient: any client that is there is preferred to the
\* offline one.
PaidQueryClient(probe) ==
  IF "anthropic" \in Providers THEN "anthropic" ELSE "deterministic"

\* _select_default_query_client: Ollama if it is ready, otherwise the
\* deterministic client; the paid one is never taken unasked.
DefaultQueryClient(probe) ==
  IF "ollama" \in Providers /\ CheckReadiness(probe) = "model_ready"
    THEN "ollama"
    ELSE "deterministic"

----------------------------------------------------------------------------
(* Completions *)

\* What a server may reply, down to texts: one that is no string, is blank, is
\* too long, contains half of a surrogate pair, or is as it should be.
Replies ==
  {"timeout", "unreachable", "network_error", "bad_status", "not_json", "wrong_shape",
   "empty", "not_text", "blank", "oversized", "half_surrogate", "text"}

StringReplies == {"blank", "oversized", "half_surrogate", "text"}

ModelErrors == {"ModelTimeoutError", "ModelUnavailableError"}

\* complete of each client: the text it hands on, or the error it raises.
Completion(name, reply) ==
  CASE name = "deterministic" -> "text"
    [] name # "deterministic" /\ reply = "timeout" -> "ModelTimeoutError"
    [] name = "ollama" /\ reply \in StringReplies -> reply
    [] name = "anthropic" /\ reply \in StringReplies \cup {"not_text"} -> reply
    [] OTHER -> "ModelUnavailableError"

\* validate_model_response: text that can be passed on, or an error.
Validated(completion) ==
  IF completion \in {"not_text", "blank", "oversized"}
    THEN "ModelUnavailableError"
    ELSE completion

\* What a client that is asked may come to once its reply is validated.
ModelOutcomes(name) == {Validated(Completion(name, reply)) : reply \in Replies}
=============================================================================
