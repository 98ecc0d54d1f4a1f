---------------------------- MODULE MCTriageDesk ----------------------------
(***************************************************************************)
(* Small instances of TriageDesk.                                          *)
(***************************************************************************)
EXTENDS TriageDesk

CONSTANTS r1, r2, a1

MCEnv(provider, mode, keys) == [provider |-> provider, mode |-> mode, model |-> "", keys |-> keys]

\* A server with the key it needs, one forced to the other provider, and one
\* whose only key is the other provider's, in auto and in live mode.
MCEnvs ==
  {MCEnv("", "", {"openai"}), 
   MCEnv("anthropic", "live", Providers), MCEnv("openai", "auto", {"anthropic"}),
   MCEnv("openai", "live", {"anthropic"})}

\* Each thing that may go wrong, alone, an overloaded gateway that answers with
\* HTML, and what a completed answer may say.
Completed(says) == [sent |-> TRUE, status |-> 200, read |-> TRUE, json |-> TRUE, says |-> says]

MCExchanges ==
  {[Completed("result") EXCEPT !.sent = FALSE], [Completed("result") EXCEPT !.read = FALSE],
   [Completed("result") EXCEPT !.json = FALSE], [Completed("error") EXCEPT !.status = 400],
   [Completed("error") EXCEPT !.status = 500],
   [Completed("error") EXCEPT !.status = 429, !.json = FALSE]}
    \cup {Completed(says) : says \in {"incomplete", "refusal", "nothing", "prose", "result"}}
=============================================================================
