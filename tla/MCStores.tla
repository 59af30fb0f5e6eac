------------------------------ MODULE MCStores ------------------------------
(***************************************************************************)
(* What the platform promises to finish, for TLC: the payments of the      *)
(* number pool, the retries of failed deliveries and the erasure of        *)
(* OneBrain's copies.  They share no state here, so a behaviour moves only *)
(* the one its focus names; the pool must not get stuck, the others may    *)
(* come to rest.                                                           *)
(***************************************************************************)
EXTENDS MCNumberPool, MCDeliveryLifecycle, MCRemoteCopies

VARIABLE focus

copiesVars == vars
storesVars == <<focus, poolVars, deliveryVars, copiesVars>>

StoresInit ==
    /\ focus \in {"pool", "delivery", "copies"}
    /\ PoolInit /\ DeliveryInit /\ Init

StoresNext ==
    /\ UNCHANGED focus
    /\ \/ focus = "pool" /\ PoolNext /\ UNCHANGED <<deliveryVars, copiesVars>>
       \/ focus = "delivery" /\ DeliveryNext /\ UNCHANGED <<poolVars, copiesVars>>
       \/ focus = "copies" /\ Next /\ UNCHANGED <<poolVars, deliveryVars>>
       \/ focus # "pool" /\ UNCHANGED <<poolVars, deliveryVars, copiesVars>>

\* No fair step is possible before the first step of what is in focus.
StoresSpec ==
    /\ StoresInit /\ [][StoresNext]_storesVars
    /\ PoolFairness /\ DeliveryFairness /\ Fairness
=============================================================================
