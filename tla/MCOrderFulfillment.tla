------------------------- MODULE MCOrderFulfillment -------------------------
(* Instances of OrderFulfillment for TLC: amounts on both sides of the review *)
(* boundary, declared amounts that differ from the items, invalid orders.     *)
EXTENDS OrderFulfillment, OrderStarts

Request(customer, amount, custom) ==
    ServerStart([process |-> Fulfillment, customer |-> customer, tier |-> "", amount |-> amount,
                 fraud |-> 5, custom |-> custom])

FromServer == {Request(c, a, <<>>) : c \in Customers, a \in {0, 900, 1000, 100100}}

\* The order of the request, and the variables beside it, replaced by others.
Overridden ==
    {Request("", 100, [order |-> OrderOf(c, i, worth, total), totalAmount |-> root]) :
        c \in Customers, i \in {"none", "malformed", "fine"},
        worth \in {900, 1000, 100100}, total \in {100, 1000}, root \in {100, 1000}}

FromStarter == {StarterStart(n, c, p) : n \in DOMAIN Scenarios, c \in Customers, p \in {"", Fulfillment}}

AllStarts == StartsOf(Fulfillment, FromServer \cup Overridden \cup FromStarter)
=============================================================================
