------------------------ MODULE CircuitBreakerGate ------------------------
(* The refinement mapping: a CircuitBreaker is a BreakerGate.               *)
EXTENDS CircuitBreaker

GateOf(s) == CASE s = StateClosed -> "through"
               [] s = StateOpen   -> "blocked"
               [] OTHER           -> "trial"

Gate == INSTANCE BreakerGate WITH
            Clients       <- Callers,
            CoolingPeriod <- Recovery,
            TrialLength   <- Passes,
            gate          <- GateOf(state),
            waited        <- IF state = StateOpen THEN elapsed ELSE 0,
            good          <- consecutivePasses,
            client        <- call

\* The breaker keeps the promise of BreakerGate: no call reaches the service
\* before an open circuit has cooled down for the whole recovery timeout, and
\* a half-open circuit closes only on SuccessThreshold successes in a row.
ImplementsGate == Gate!GateSpec
=============================================================================
