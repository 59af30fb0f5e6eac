----------------------------- MODULE MCServices -----------------------------
(***************************************************************************)
(* The voice edge and the embedding backfill for TLC: calls, prompts, the  *)
(* registration and the worker job share no state, so a behaviour moves    *)
(* only the one its focus names.  Call-IDs are interchangeable, and the    *)
(* first session is taken on c1; the second is not spoken to, it is there  *)
(* for what the first one leaves behind.                                   *)
(***************************************************************************)
EXTENDS VoiceEdge, VoicePrompt, VoiceRegister, EmbeddingBackfill

CONSTANTS c1, c2, a1, a2, a3

VARIABLE focus

TwoCallIds == {c1, c2}
ThreeAskers == {a1, a2, a3}
TwoTenantsChunks == <<{1, 2}, {3}>>

servicesVars == <<focus, edgeVars, promptVars, registerVars, backfillVars>>

ServicesInit ==
    /\ focus \in {"calls", "prompt", "registration", "backfill"}
    /\ EdgeInit /\ PromptInit /\ RegisterInit /\ BackfillInit

ServicesNext ==
    /\ UNCHANGED focus
    /\ \/ /\ focus = "calls" /\ EdgeNext /\ session'[1].id # c2
          /\ ~talking'[2] /\ greeter'[2] # "playing"
          /\ UNCHANGED <<promptVars, registerVars, backfillVars>>
       \/ /\ focus = "prompt" /\ PromptNext
          /\ UNCHANGED <<edgeVars, registerVars, backfillVars>>
       \/ /\ focus = "registration" /\ RegisterNext
          /\ UNCHANGED <<edgeVars, promptVars, backfillVars>>
       \/ /\ focus = "backfill" /\ BackfillNext
          /\ UNCHANGED <<edgeVars, promptVars, registerVars>>

\* The job starts by itself, so it is fair only in focus; of the calls and
\* prompts no fair step is possible before their first one.
ServicesSpec ==
    /\ ServicesInit /\ [][ServicesNext]_servicesVars
    /\ EdgeFairness /\ PromptFairness
    /\ WF_backfillVars(focus = "backfill" /\ JobStep)
    /\ SF_backfillVars(focus = "backfill" /\ Embed)
=============================================================================
