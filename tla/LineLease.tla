------------------------------ MODULE LineLease ------------------------------
(***************************************************************************)
(* What the voice edge promises about its media lines: a line is held by   *)
(* at most one call, is given to a call only while nobody holds it, and is *)
(* given back in the end.  Nothing is said of SIP, timers or audio.        *)
(***************************************************************************)
CONSTANTS Line, Call, Nobody

VARIABLE holder   \* holder[l]: the call that holds line l, or Nobody

LeaseInit == holder = [l \in Line |-> Nobody]

Take(l, c) ==
    /\ holder[l] = Nobody
    /\ \A k \in Line : holder[k] # c
    /\ holder' = [holder EXCEPT ![l] = c]

GiveBack(l) ==
    /\ holder[l] # Nobody
    /\ holder' = [holder EXCEPT ![l] = Nobody]

LeaseNext == \E l \in Line : GiveBack(l) \/ \E c \in Call : Take(l, c)

LeaseSpec ==
    /\ LeaseInit
    /\ [][LeaseNext]_holder
    /\ \A l \in Line : WF_holder(GiveBack(l))
=============================================================================
