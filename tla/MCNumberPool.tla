---------------------------- MODULE MCNumberPool ----------------------------
(***************************************************************************)
(* Two tenants after the same numbers; with three checkouts one of them    *)
(* buys twice, which moves its telephone channel to its second number.     *)
(***************************************************************************)
EXTENDS NumberPool, TLC

CONSTANTS t1, t2, n1, n2, r1, r2, r3, c1, c2, c3, l1, l2, h1, h2

MCTenants    == {t1, t2}
OneNumber    == {n1}
TwoNumbers   == {n1, n2}
TwoReservations   == {r1, r2}
ThreeReservations == {r1, r2, r3}
OneCheckout  == {c1}
TwoCheckouts == {c1, c2}
OnePayer     == [c \in OneCheckout |-> t1]
TwoPayers    == [c \in TwoCheckouts |-> IF c = c1 THEN t1 ELSE t2]
ThreeCheckouts == {c1, c2, c3}
ThreePayers  == [c \in ThreeCheckouts |-> IF c = c1 THEN t1 ELSE t2]
OneListing   == {l1}
TwoListings  == {l1, l2}
OneHandler   == {h1}
Nobody       == {}
OneTenant    == {t1}

PoolSymmetry == Permutations(TwoNumbers) \cup Permutations(ThreeReservations)
                    \cup Permutations(TwoListings) \cup Permutations({c2, c3})
=============================================================================
