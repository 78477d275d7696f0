------------------------------- MODULE Backoff -------------------------------
(***************************************************************************)
(* How long the middleware asks the broker to wait before a failed job is     *)
(* handed out again: the settings of internal/config, their defaults in        *)
(* internal/resilience/backoff.go, and the exponential interval.  Intervals    *)
(* are counted in units of 500 ms; jitter draws the wait below the interval,   *)
(* which is all that is kept of it.                                          *)
(***************************************************************************)
EXTENDS Integers

CONSTANT Word      \* 2^31, scaled down

ASSUME WordIsPositive == Word \in Nat \ {0}

\* Conversion to, and arithmetic in, a 32-bit integer.
Int32(n) == ((n + Word) % (2 * Word)) - Word

\* getEnvAsInt and getEnvAsDuration: a setting is empty when the environment
\* variable is unset, empty or does not parse.
FromEnv(setting, default) == IF setting = {} THEN default ELSE CHOOSE n \in setting : TRUE

\* LoadConfig
Config(env) == [initial |-> FromEnv(env.initial, 1),
                max     |-> FromEnv(env.max, 60),
                retries |-> FromEnv(env.retries, 3)]

NewExponentialBackoff(cfg) == [initial |-> IF cfg.initial <= 0 THEN 1 ELSE cfg.initial,
                               max     |-> IF cfg.max <= 0 THEN 60 ELSE cfg.max,
                               retries |-> IF cfg.retries <= 0 THEN 5 ELSE cfg.retries]

\* The retries that count as attempt 0: the setting as RegisterWorkers converts it,
\* or that of the backoff when it is not positive.
InitialRetries(cfg) == IF Int32(cfg.retries) <= 0
                       THEN Int32(NewExponentialBackoff(cfg).retries) ELSE Int32(cfg.retries)

\* Mutant of CalculateBackoff: attempts count from 1.
CalculateBackoffFromOne(b, attempt) ==
    LET raw == b.initial * 2^(IF attempt < 0 THEN 1 ELSE attempt + 1)
    IN  IF raw > b.max THEN b.max ELSE raw

CalculateBackoff(b, attempt) ==
    LET raw == b.initial * 2^(IF attempt < 0 THEN 0 ELSE attempt)
    IN  IF raw > b.max THEN b.max ELSE raw

\* The interval failJob asks for, from the retries its copy of the job had.
AskedFor(cfg, seen) == CalculateBackoff(NewExponentialBackoff(cfg), Int32(InitialRetries(cfg) - seen))
=============================================================================
