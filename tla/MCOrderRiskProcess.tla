------------------------- MODULE MCOrderRiskProcess -------------------------
(* Instances of OrderRiskProcess for TLC: every tier, fraud scores and        *)
(* amounts on both sides of each boundary of the decision table.             *)
EXTENDS OrderRiskProcess, OrderStarts

Request(customer, tier, amount, fraud, custom) ==
    ServerStart([process |-> "", customer |-> customer, tier |-> tier, amount |-> amount,
                 fraud |-> fraud, custom |-> custom])

Boundaries ==
    {Request(c, t, a, f, <<>>) : c \in {"regular", "decline"}, t \in Tiers,
                                 a \in {900, 4900, 5000}, f \in {39, 40, 79, 80}}
    \cup {Request(c, "", a, f, <<>>) : c \in {"", "transient"}, a \in {-100, 100100}, f \in {5, 40}}

\* The order of the request replaced by one that is out of stock, or the amount
\* the table sees by another than the order's.
Overridden ==
    {Request("", t, 900, f, [order |-> OrderOf("regular", "scarce", a, a)]) :
        t \in Tiers, f \in {39, 79}, a \in {900, 5000}}
    \cup {Request("", "GOLD", 8000, f, [totalAmount |-> 100]) : f \in {5, 55}}

FromStarter == {StarterStart(n, c, p) : n \in DOMAIN Scenarios, c \in {"", "decline"}, p \in {"", Risk}}

AllStarts == StartsOf(Risk, Boundaries \cup Overridden \cup FromStarter)
FewStarts == StartsOf(Risk, FromStarter)
=============================================================================
