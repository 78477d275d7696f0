--------------------------- MODULE MCPaymentWorker ---------------------------
(* An instance of PaymentWorker for TLC.                                    *)
EXTENDS PaymentWorker

CONSTANTS j1, s1, s2

TwoSlots == {s1, s2}
OneJob   == {j1}
=============================================================================
