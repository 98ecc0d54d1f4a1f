----------------------------- MODULE LLMClient -----------------------------
(***************************************************************************)
(* How a server gets its LLM client (internal/config, internal/llm         *)
(* provider.go), and what each client makes of one HTTP exchange with its  *)
(* provider (openai.go, anthropic.go).  The mock answers every request.    *)
(***************************************************************************)
EXTENDS Integers

Providers == {"openai", "anthropic"}

\* The environment variables; "" is unset.
Env == [provider : Providers \cup {"", "other"}, mode : {"", "auto", "mock", "live", "other"},
        model : {"", "custom"}, keys : SUBSET Providers]

\* config.Load
Load(env) ==
  [provider |-> IF env.provider = "" THEN "openai" ELSE env.provider,
   mode     |-> IF env.mode = "" THEN "auto" ELSE env.mode,
   model    |-> env.model, keys |-> env.keys]

\* A mutant of LLMLive: any key switches the live calls on.
LiveWithAnyKey(cfg) == cfg.mode = "live" \/ (cfg.mode # "mock" /\ cfg.keys # {})

LLMLive(cfg) ==
  \/ cfg.mode = "live"
  \/ /\ cfg.mode # "mock"
     /\ (IF cfg.provider = "openai" THEN "openai" ELSE "anthropic") \in cfg.keys

DefaultModel(provider) ==
  IF provider = "openai" THEN "gpt-6.1-sol" ELSE "claude-opus-4-8"

Refused == [kind |-> "error", model |-> ""]
Mock    == [kind |-> "mock", model |-> "mock"]

\* NewClient, NewOpenAI and NewAnthropic
NewClient(cfg) ==
  IF cfg.mode \notin {"auto", "mock", "live"} \/ cfg.provider \notin Providers THEN Refused
  ELSE IF ~LLMLive(cfg) THEN Mock
  ELSE IF cfg.provider \notin cfg.keys THEN Refused
  ELSE [kind  |-> cfg.provider,
        model |-> IF cfg.model = "" THEN DefaultModel(cfg.provider) ELSE cfg.model]

Live(client) == client.kind \in Providers

-----------------------------------------------------------------------------
(* One exchange.  sent: the request was answered at all; read: the body     *)
(* could be read; json: it decodes (and is not too long); says: what the    *)
(* decoded answer is.  "nothing" is an answer without text, "prose" a text  *)
(* that holds no JSON object, "result" what the feature asked for.          *)

Exchange ==
  [sent : BOOLEAN, status : {200, 400, 429, 500}, read : BOOLEAN, json : BOOLEAN,
   says : {"error", "incomplete", "refusal", "nothing", "prose", "result"}]

Overloaded(x) == x.status = 429 \/ x.status >= 500

\* OpenAI.doOnce: the status first, "gateways can return HTML on 429/5xx"
OpenAIOnce(x) ==
  IF ~x.sent THEN "retry"
  ELSE IF x.status # 200 THEN IF Overloaded(x) THEN "retry" ELSE "fail"
  ELSE IF ~x.read THEN "retry"
  ELSE IF ~x.json \/ x.says \in {"error", "incomplete", "refusal", "nothing"} THEN "fail"
  ELSE "answer"

\* Anthropic.doOnce: the body first
AnthropicOnce(x) ==
  IF ~x.sent \/ ~x.read THEN "retry"
  ELSE IF ~x.json THEN "fail"
  ELSE IF x.status # 200 THEN IF Overloaded(x) THEN "retry" ELSE "fail"
  ELSE IF x.says = "refusal" THEN "fail"
  ELSE "answer"

Once(client, x) == IF client.kind = "openai" THEN OpenAIOnce(x) ELSE AnthropicOnce(x)

\* The attempts of Complete
Attempts == 3

=============================================================================
