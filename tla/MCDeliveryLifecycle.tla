------------------------ MODULE MCDeliveryLifecycle ------------------------
(***************************************************************************)
(* One claimed reply and one operator reply; one or two callbacks and      *)
(* sweeps; two attempts, so that a row can fail, be retried and exhaust.   *)
(***************************************************************************)
EXTENDS DeliveryLifecycle, TLC

CONSTANTS m1, m2, b1, b2, w1, w2

OneDelivery   == {m1}
TwoDeliveries == {m1, m2}
MCClaimed     == {m1}
OneCallback   == {b1}
TwoCallbacks  == {b1, b2}
OneSweep      == {w1}
TwoSweeps     == {w1, w2}
NoSweep       == {}
None          == {}
OperatorReply == {m2}
=============================================================================
