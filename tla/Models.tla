--------------------------------- MODULE Models ---------------------------------
(*****************************************************************************)
(* Asking the language model: what a response of the API means, when a call  *)
(* is repeated, and what its callers make of no answer.                      *)
(*                                                                           *)
(* A response is [status, after, body]: after is the Retry-After of a busy   *)
(* API, body Unknown unless it holds a JSON object, then [valid, verdict]:   *)
(* whether the object has the shape the caller expects, and the              *)
(* recommendation as the model spells it, Unknown if it is no text.          *)
(*****************************************************************************)
EXTENDS Integers, Sequences, FiniteSetsExt

CONSTANTS
    Unknown,
    Upper(_),    \* of a text: stripped, in capitals, with underscores
    Verdicts,    \* MatchRecommendation
    BaseDelay    \* llm_retry_base_delay_seconds

\* How complete_json ends.
Failed(error, after) == [error |-> error, after |-> after, content |-> Unknown]

CompleteJson(response) ==
    CASE response.status \in {"timeout", "network", "failing"} -> Failed("unavailable", Unknown)
      [] response.status = "busy" -> Failed("rate limited", response.after)
      [] response.status = "rejected" -> Failed("rejected", Unknown)
      [] OTHER -> IF response.body = Unknown THEN Failed("response", Unknown)
                  ELSE [error |-> "none", after |-> Unknown, content |-> response.body]

Retryable == {"unavailable", "rate limited", "response"}

\* The n-th call sees responses[n]; the last response stays.  A call that does
\* not end in time counts as one that found nobody.
CompleteWithRetries(responses, maxRetries) ==
    LET Answer(n) == CompleteJson(responses[Min({n, Len(responses)})])
        final == {n \in 1 .. maxRetries : Answer(n).error \notin Retryable} \union {maxRetries + 1}
        backoff[n \in 1 .. maxRetries] == IF n = 1 THEN BaseDelay ELSE 2 * backoff[n - 1]
        Delay(n) == IF Answer(n).after = Unknown THEN backoff[n]
                    ELSE Max({backoff[n], Answer(n).after})
    IN  [answer |-> Answer(Min(final)), calls |-> Min(final),
         delays |-> [n \in 1 .. Min(final) - 1 |-> Delay(n)]]

\* An object of another shape is as good as none; it is not asked for again.
Validated(answer) ==
    IF answer.error = "none" /\ answer.content.valid THEN answer.content ELSE Unknown

Analyse(responses, maxRetries) == Validated(CompleteWithRetries(responses, maxRetries).answer)

\* The remarks on a skill gap: one call, and the stored remarks if it fails.
Remarks(cached, response) ==
    LET content == Validated(CompleteWithRetries(<<response>>, 0).answer)
    IN  IF content = Unknown THEN cached ELSE content

NormalizeRecommendation(verdict) ==
    IF verdict # Unknown /\ Upper(verdict) \in Verdicts THEN Upper(verdict) ELSE Unknown

\* One call, without the loop.
Explain(response) ==
    LET content == Validated(CompleteJson(response))
    IN  IF content = Unknown THEN Unknown
        ELSE [content EXCEPT !.verdict = NormalizeRecommendation(@)]

\* The match that is stored: without an explanation the band decides.
Explained(overall, band, response) ==
    LET content == Explain(response)
        said == IF content = Unknown THEN Unknown ELSE content.verdict
    IN  [overall |-> overall, verdict |-> IF said = Unknown THEN band ELSE said,
         byModel |-> content # Unknown]
===============================================================================
