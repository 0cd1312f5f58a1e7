--------------------------- MODULE ProviderErrors ---------------------------
(***************************************************************************)
(* From an exception of the vendor's SDK to what _record_failure of        *)
(* providers/base.py tells apart: _map_error of adapters/llm/openai.py and *)
(* the translation in _invoke of providers/implementations.py.             *)
(***************************************************************************)
EXTENDS Naturals

\* What _map_error looks at: the status code (0 if there is none), the name of
\* the class, and whether the text speaks of a quota or of a timeout.
SdkException ==
  [status : {0, 401, 408, 429, 500},
   name : {"RateLimitError", "APITimeoutError", "APIStatusError"},
   quota : BOOLEAN,
   timed_out : BOOLEAN]

RateLimitStatus == 429
TimeoutStatus == 408

\* _map_error: the class of ProviderError. A quota is looked for only in a
\* rate limit; auth errors are generic ones.
MapError(exc) ==
  CASE exc.status = RateLimitStatus \/ exc.name = "RateLimitError" ->
         IF exc.quota THEN "ProviderCreditExhausted" ELSE "ProviderRateLimited"
    [] exc.status # RateLimitStatus /\ exc.name # "RateLimitError" ->
         IF exc.name = "APITimeoutError" \/ exc.status = TimeoutStatus \/ exc.timed_out
         THEN "ProviderTimeout" ELSE "ProviderError"

\* complete of the adapter maps what the call raises. What it raises itself on
\* a response without choices is no ProviderError, and _invoke makes it one.
Raised == {MapError(exc) : exc \in SdkException} \cup {"ProviderError"}

\* The branch of _record_failure: a timeout counts like any other error.
Kind(class) ==
  CASE class = "ProviderRateLimited" -> "rate_limited"
    [] class = "ProviderCreditExhausted" -> "credit_exhausted"
    [] class \in {"ProviderTimeout", "ProviderError"} -> "error"

Errors == {Kind(class) : class \in Raised}
=============================================================================
