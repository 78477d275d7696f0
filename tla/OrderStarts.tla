----------------------------- MODULE OrderStarts -----------------------------
(***************************************************************************)
(* The two ways an order is started, as the process and the variables an      *)
(* instance begins with: POST /api/instances of the server, and the scenarios *)
(* of the starter command.                                                   *)
(***************************************************************************)
EXTENDS TaskHandlers

Risk        == "order-risk-fulfillment-process"
Fulfillment == "order-fulfillment-process"

OrDefault(given, default) == IF given = "" THEN default ELSE given

\* handleStartInstance builds an order of one item at the requested amount.
WebOrder(customer, amount) ==
    OrderOf(OrDefault(customer, "regular"), IF amount > 0 THEN "fine" ELSE "malformed",
            amount, amount)

\* Custom variables replace those the server prepared, the order included; they
\* are not compared with the rest of the request.
ServerStart(req) ==
    [process |-> OrDefault(req.process, Risk),
     vars    |-> Merge(StartVars(WebOrder(req.customer, req.amount),
                                 OrDefault(req.tier, "GOLD"), req.amount, req.fraud),
                       req.custom)]

\* What a scenario of the starter fixes; `own` customers ignore -customer.
Scenario(process, tier, fraud, customer, own, items, total) ==
    [process |-> process, tier |-> tier, fraud |-> fraud, customer |-> customer,
     own |-> own, items |-> items, total |-> total]

Scenarios ==
    [success       |-> Scenario(Fulfillment, "STANDARD", 5, "regular", FALSE, "fine", 100),
     review        |-> Scenario(Fulfillment, "STANDARD", 5, "regular", FALSE, "fine", 2500),
     decline       |-> Scenario(Fulfillment, "STANDARD", 5, "decline", FALSE, "fine", 50),
     invalid       |-> Scenario(Fulfillment, "STANDARD", 5, "", TRUE, "none", 0),
     risk_platinum |-> Scenario(Risk, "PLATINUM", 5, "regular", TRUE, "fine", 1500),
     risk_fraud    |-> Scenario(Risk, "STANDARD", 95, "regular", TRUE, "fine", 15000),
     risk_high     |-> Scenario(Risk, "GOLD", 55, "regular", TRUE, "fine", 8000),
     risk_stock    |-> Scenario(Risk, "SILVER", 10, "regular", TRUE, "scarce", 800)]

\* `starter -start -scenario name -customer c -process p`; any other name, the
\* advertised "transient" included, is the scenario success.
StarterStart(name, customer, process) ==
    LET s == Scenarios[name]
        c == IF s.own THEN s.customer ELSE OrDefault(customer, s.customer)
    IN  [process |-> OrDefault(process, s.process),
         vars    |-> StartVars(OrderOf(c, s.items, s.total, s.total), s.tier, s.total, s.fraud)]

\* The variables of the instances of one process among a set of starts.
StartsOf(process, starts) == {s.vars : s \in {t \in starts : t.process = process}}
=============================================================================
