------------------------------ MODULE Providers ------------------------------
(***************************************************************************)
(* What the language model's answer to one request becomes: the adapters   *)
(* infrastructure/llm/openai_client.py and gemini.py behind provider.py.   *)
(* A reply is named for what the provider sent:                            *)
(*   claims, none  a complete claim set, with and without claims           *)
(*   refused       a refusal (OpenAI), a blocked answer with no text       *)
(*   cut           a text that hit the output limit                        *)
(*   garbled       a text that is not the schema                           *)
(*   rate, spent   429: too fast, or the day's quota or the credit is gone *)
(*   server        5xx            rejected  another 4xx                    *)
(*   transport     a failure without a status                              *)
(* An outcome is what the caller gets: a claim set, GenerationUnavailable  *)
(* with or without a hint when to retry, or another exception.             *)
(***************************************************************************)
EXTENDS Naturals, Sequences

ProviderNames == {"openai", "gemini"}

Complete == {"claims", "none"}
Declined == {"refused", "cut", "garbled"}
Errors   == {"rate", "spent", "server", "rejected", "transport"}
Replies  == Complete \cup Declined \cup Errors

Outcomes == [kind : {"claims", "none", "unavailable", "exception"}, hint : BOOLEAN]

Claims(kind) == [kind |-> kind, hint |-> FALSE]
Exception    == [kind |-> "exception", hint |-> FALSE]
Unavailable(hint) == [kind |-> "unavailable", hint |-> hint]

\* Waiting clears a rate limit and a server's failure, never a spent quota; only
\* one adapter knows a dropped connection.
Retryable(provider, reply) ==
  \/ reply \in {"rate", "server"}
  \/ reply = "transport" /\ provider = "openai"

\* as_unavailable: the hint is passed on for a limit that waiting clears.
AsUnavailable(reply, hinted) == Unavailable(hinted /\ reply = "rate")

\* An error that ends a call: errors without a status are no APIError to one adapter.
Failed(provider, reply, hinted) ==
  IF reply = "transport" /\ provider = "gemini" THEN Exception ELSE AsUnavailable(reply, hinted)

\* json.loads and no more: a text of another shape raises there or as claims are built;
\* an object without claims is an empty set of them, a claim without kind an assertion.
Unchecked == {Claims("none"), Claims("claims"), Exception}

\* Mutant: a refusal is read as a claim set without claims.
CallOutcomes_RefusalIsEmpty(provider, reply, hinted) ==
  CASE reply \in Errors   -> {Failed(provider, reply, hinted)}
    [] reply \in Complete -> {Claims(reply)}
    [] reply = "refused"  -> {Claims("none")}
    [] reply \in {"cut", "garbled"} /\ provider = "openai" -> {Unavailable(FALSE)}
    [] reply = "garbled" /\ provider = "gemini" -> Unchecked
    [] OTHER -> {Exception}

\* A buffered call.  One adapter tells refusal, truncation and malformed text apart and
\* validates the rest; the other only parses, and an answer without text does not parse.
CallOutcomes(provider, reply, hinted) ==
  CASE reply \in Errors   -> {Failed(provider, reply, hinted)}
    [] reply \in Complete -> {Claims(reply)}
    [] reply \in Declined /\ provider = "openai"  -> {Unavailable(FALSE)}
    [] reply = "garbled" /\ provider = "gemini" -> Unchecked
    [] OTHER -> {Exception}

\* What a streamed text comes to once it is parsed, of either provider: empty or broken
\* text counts as no claims, nothing is validated.  Only one adapter sees a refusal.
StreamOutcomes(provider, reply, hinted) ==
  CASE reply \in Errors   -> {Failed(provider, reply, hinted)}
    [] reply \in Complete -> {Claims(reply)}
    [] reply = "refused" /\ provider = "openai" -> {Unavailable(FALSE)}
    [] reply = "garbled"  -> Unchecked
    [] OTHER -> {Claims("none")}
=============================================================================
