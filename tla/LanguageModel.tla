--------------------------- MODULE LanguageModel ----------------------------
(***************************************************************************)
(* One client of a language model, llm/client.py.  Every provider asks at  *)
(* most twice: an answer that does not fit the schema is sent back once    *)
(* with the error.  What the provider bills and what the client adds up in *)
(* cost_usd are kept apart; the unit of both is one answer.                *)
(*                                                                         *)
(* No variables: a client is a record that module Drafting keeps for each  *)
(* request, because get_llm builds a new one for each.                     *)
(***************************************************************************)
EXTENDS Naturals

Providers == {"fake", "anthropic", "openai"}

Clients == [provider : Providers,
            attempt  : 0..1,   \* answers to the present question so far
            cost     : Nat,    \* cost_usd
            billed   : Nat,    \* what the provider charged for
            omitted  : Nat]    \* answers that came without their usage

NewClient(provider) ==
  [provider |-> provider, attempt |-> 0, cost |-> 0, billed |-> 0, omitted |-> 0]

\* Only OpenAI leaves usage out; _usage_tokens then counts nothing.
MayOmitUsage(c) == c.provider = "openai"

\* Mutant: usage is added up when the answer turns out to be valid.
AnsweredIfValid(c, valid, usage) ==
  IF c.provider = "fake" THEN c
  ELSE [c EXCEPT !.billed = @ + 1,
                 !.cost = IF usage /\ valid THEN @ + 1 ELSE @,
                 !.omitted = IF usage THEN @ ELSE @ + 1,
                 !.attempt = IF valid THEN 0 ELSE 1]

\* The client after an answer, valid or not.  FakeLLM takes its answers from a
\* queue and charges nothing.
Answered(c, valid, usage) ==
  IF c.provider = "fake" THEN c
  ELSE [c EXCEPT !.billed = @ + 1,
                 !.cost = IF usage THEN @ + 1 ELSE @,
                 !.omitted = IF usage THEN @ ELSE @ + 1,
                 !.attempt = IF valid THEN 0 ELSE 1]

\* The answers that end structured() with an exception: the second bad one, and
\* any bad one of a FakeLLM.
GivesUp(c) == c.provider = "fake" \/ c.attempt = 1
=============================================================================
