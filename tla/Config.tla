------------------------------- MODULE Config -------------------------------
(***************************************************************************)
(* What load_config accepts, and what the run gets from it.  An            *)
(* environment is a record of raw settings; loading is all or nothing, and *)
(* a refusal is an exception before anything else has happened.            *)
(***************************************************************************)
EXTENDS Integers

CONSTANTS
    Unset,        \* no such variable
    Empty,        \* the variable is ""
    Malformed     \* it is not a number

Given(raw) == raw \notin {Unset, Empty}

\* Only a text that is not set at all has its default.
Text(raw) == raw # Empty

Number(raw, default) == IF Given(raw) THEN raw ELSE default

Provider(env) == IF Given(env.provider) THEN env.provider ELSE "mock"

\* Who is paid wants a key; the mock has to run without any secret.
AcceptedProvider(env) ==
    /\ Provider(env) \in {"anthropic", "openrouter", "mock"}
    /\ Provider(env) # "mock" => Given(env.key)
    /\ Provider(env) = "openrouter" => Text(env.base_url)
    /\ Text(env.model)

\* In percent.
Threshold(env) == Number(env.threshold, 95)

MaxRetries(env) == Number(env.retries, 2)

AcceptedPipeline(env) ==
    /\ Number(env.causal_window, 15) \in Nat \ {0}
    /\ Threshold(env) \in 1..100
    /\ MaxRetries(env) \in Nat
    /\ Number(env.max_events, 5000) \in Nat \ {0}

\* The weights have to be there and be sound (Confidence: AcceptedModel);
\* service names may go without a file, but not with a broken one.
AcceptedFiles(env) ==
    /\ env.weights = "sound"
    /\ env.services \in {"sound", "absent"}

Accepted(env) ==
    /\ AcceptedProvider(env)
    /\ Given(env.password)
    /\ AcceptedPipeline(env)
    /\ AcceptedFiles(env)

Load(env) ==
    [provider |-> Provider(env), threshold |-> Threshold(env),
     max_retries |-> MaxRetries(env)]
=============================================================================
