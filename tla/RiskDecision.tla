---------------------------- MODULE RiskDecision ----------------------------
(* The decision table of bpmn/order-risk-rules.dmn, hit policy FIRST.       *)
EXTENDS Integers

Tiers == {"PLATINUM", "GOLD", "SILVER", "BRONZE", "STANDARD"}

Output(risk, percent, approval) == [risk |-> risk, percent |-> percent, approval |-> approval]

\* Mutant of HighValueRisk: an order of exactly 5000 is not of high value.
HighValueRiskAbove(amount, fraud) == amount > 5000 /\ fraud >= 40

\* The rule that asks for a manager, its two unary tests.
HighValueRisk(amount, fraud) == amount >= 5000 /\ fraud >= 40

\* The rules in their order: when each applies, and what it answers.
Applies(rule, tier, amount, fraud) ==
    CASE rule = 1 -> fraud >= 80
      [] rule = 2 -> HighValueRisk(amount, fraud)
      [] rule = 3 -> tier = "PLATINUM" /\ fraud < 40
      [] rule = 4 -> tier = "GOLD" /\ fraud < 40
      [] rule = 5 -> tier = "SILVER" /\ fraud < 40
      [] rule = 6 -> TRUE

Answer(rule) == CASE rule = 1 -> Output("CRITICAL", 0, FALSE)
                  [] rule = 2 -> Output("HIGH", 5, TRUE)
                  [] rule = 3 -> Output("LOW", 20, FALSE)
                  [] rule = 4 -> Output("LOW", 15, FALSE)
                  [] rule = 5 -> Output("MEDIUM", 10, FALSE)
                  [] rule = 6 -> Output("MEDIUM", 0, FALSE)

Decide(tier, amount, fraud) ==
    LET hits == {r \in 1..6 : Applies(r, tier, amount, fraud)}
    IN  Answer(CHOOSE r \in hits : \A q \in hits : r <= q)
=============================================================================
