--------------------------- MODULE MCWebhookReply ---------------------------
(***************************************************************************)
(* Two overlapping requests, two events that the provider posts once apart *)
(* and once together, so that a batch can hold a finished and a new event. *)
(***************************************************************************)
EXTENDS WebhookReply, TLC

CONSTANTS r1, r2, e1, e2

MCRequests == {r1, r2}
MCSymmetry == Permutations(MCRequests)
MCOneEvent == {e1}
MCOneBatch == {{e1}}
MCOneRequest == {r1}
MCEvents   == {e1, e2}
MCBatches  == {{e1}, {e1, e2}}
=============================================================================
