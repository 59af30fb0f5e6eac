------------------------------ MODULE MCRaces ------------------------------
(***************************************************************************)
(* The number pool and the delivery row for TLC, where what matters is who *)
(* overtakes whom.  They share no state, so a behaviour moves only the one *)
(* its focus names; a row may come to rest, the pool must not get stuck.   *)
(***************************************************************************)
EXTENDS MCNumberPool, MCDeliveryLifecycle

VARIABLE focus

racesVars == <<focus, poolVars, deliveryVars>>

RacesInit ==
    /\ focus \in {"pool", "delivery"}
    /\ PoolInit /\ DeliveryInit

RacesNext ==
    /\ UNCHANGED focus
    /\ \/ focus = "pool" /\ PoolNext /\ UNCHANGED deliveryVars
       \/ focus = "delivery" /\ DeliveryNext /\ UNCHANGED poolVars
       \/ focus = "delivery" /\ UNCHANGED <<poolVars, deliveryVars>>

RacesSpec == RacesInit /\ [][RacesNext]_racesVars

RacesSymmetry == PoolSymmetry \cup Permutations(TwoSweeps)
=============================================================================
