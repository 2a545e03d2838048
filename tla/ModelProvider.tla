--------------------------- MODULE ModelProvider ----------------------------
(***************************************************************************)
(* One call of a model: a failure is told from another by whether a second *)
(* request may help, and the delays between requests double.               *)
(***************************************************************************)
EXTENDS Integers

CONSTANTS
    Attempts,     \* requests of one call
    BaseDelay     \* seconds before the second

ASSUME AttemptsAssumption == Attempts \in Nat \ {0}
ASSUME BaseDelayAssumption == BaseDelay \in Nat \ {0}

Failure(kind, status) == [kind |-> kind, status |-> status]

\* An answer with a status that is no success, a success with an error for a
\* body, none at all, or one that is cut off, empty or breaks the protocol.
\* Status 0 is none, or one that is no number.
Statuses == {0, 400, 429, 500, 503}

Failures(provider) ==
    IF provider = "mock" THEN {}
    ELSE {Failure("status", s) : s \in Statuses \ {0}}
         \union {Failure(k, 0) : k \in {"timeout", "network", "truncated"}}
         \union IF provider = "openrouter"
                THEN {Failure("upstream", s) : s \in Statuses}
                     \union {Failure(k, 0) : k \in {"protocol", "empty"}}
                ELSE {}

\* Fault: any answer that is an error.
IsTransient_AnyError(status) == status >= 400

\* Fault: only the server's own errors.
IsTransient_ServerOnly(status) == status >= 500

IsTransient(status) == status = 429 \/ status >= 500

\* What the one SDK raises counts by its status alone; of the other gateway
\* silence counts, too. One request to the first is one call of its SDK, whose
\* client may itself ask more than once before it raises: what is counted here
\* are the requests and the waits of RetryingProvider.
Transient(provider, f) ==
    \/ f.kind \in {"status", "upstream"} /\ IsTransient(f.status)
    \/ provider = "openrouter" /\ f.kind \in {"timeout", "network"}

NoFailure == Failure("none", 0)

\* `last' is how the request before this one failed.
Call == [request |-> 1, waited |-> 0, last |-> NoFailure]

PowerOfTwo[n \in 0..Attempts] == IF n = 0 THEN 1 ELSE 2 * PowerOfTwo[n - 1]

\* After a failure of request n.
Delay(n) == BaseDelay * PowerOfTwo[n - 1]

\* The next request, or the same call if that was the last one.
Again(call, provider, f) ==
    IF Transient(provider, f) /\ call.request < Attempts
    THEN [request |-> call.request + 1,
          waited |-> call.waited + Delay(call.request),
          last |-> f]
    ELSE call

Calls ==
    [request : 1..Attempts,
     waited : 0..BaseDelay * PowerOfTwo[Attempts],
     last : {NoFailure} \union Failures("openrouter") \union Failures("anthropic")]
=============================================================================
