----------------------------- MODULE VoicePrompt -----------------------------
(***************************************************************************)
(* The spoken prompts the calls of the voice edge share: a cache that the  *)
(* first asker fills while the others wait (promptPCMFor).                 *)
(***************************************************************************)
EXTENDS FiniteSets

CONSTANTS
    Asker,            \* goroutines that need the prompt: warm-ups and calls
    Nobody

ASSUME PromptAssumption == Nobody \notin Asker

VARIABLES
    ready,        \* the prompt is in the cache
    filler,       \* who synthesizes it: cache.done is open while somebody does
    asker         \* where each goroutine is in promptPCMFor

promptVars == <<ready, filler, asker>>

PromptInit ==
    /\ ready = FALSE /\ filler = Nobody
    /\ asker = [a \in Asker |-> "idle"]

-----------------------------------------------------------------------------
Ask(a) ==
    /\ asker[a] = "idle"
    /\ asker' = [asker EXCEPT ![a] = "asking"]
    /\ UNCHANGED <<ready, filler>>

\* Under the cache's lock: take the prompt, wait for who makes it, or make it.
LookUp(a) ==
    /\ asker[a] = "asking"
    /\ asker' = [asker EXCEPT ![a] =
          IF ready THEN "got" ELSE IF filler # Nobody THEN "waiting" ELSE "filling"]
    /\ filler' = IF ~ready /\ filler = Nobody THEN a ELSE filler
    /\ UNCHANGED ready

\* Synthesis ends: with audio, which is kept; with an error or without audio,
\* which are not.  Either way everyone who waited looks again.
FillUntilSuccess(a) ==
    /\ asker[a] = "filling"
    /\ \E result \in {"got", "asking"} :
          /\ ready' = (ready \/ result = "got")
          /\ asker' = [b \in Asker |->
                IF b = a THEN result ELSE IF asker[b] = "waiting" THEN "asking" ELSE asker[b]]
    /\ filler' = Nobody

FillEnds(a) ==
    /\ asker[a] = "filling"
    /\ \E result \in {"got", "failed"} :
          /\ ready' = (ready \/ result = "got")
          /\ asker' = [b \in Asker |->
                IF b = a THEN result ELSE IF asker[b] = "waiting" THEN "asking" ELSE asker[b]]
    /\ filler' = Nobody

\* The context of a waiting call ends.
StopWaiting(a) ==
    /\ asker[a] = "waiting"
    /\ asker' = [asker EXCEPT ![a] = "failed"]
    /\ UNCHANGED <<ready, filler>>

-----------------------------------------------------------------------------
PromptNext ==
    \E a \in Asker : Ask(a) \/ LookUp(a) \/ FillEnds(a) \/ StopWaiting(a)

PromptFairness ==
    \A a \in Asker : WF_promptVars(LookUp(a)) /\ WF_promptVars(FillEnds(a))

PromptSpec == PromptInit /\ [][PromptNext]_promptVars /\ PromptFairness

-----------------------------------------------------------------------------
\* A prompt is synthesized by one goroutine at a time, never once it is in the
\* cache, and nobody waits for a synthesis that is not under way.
OneSynthesis ==
    /\ \A a \in Asker : asker[a] = "filling" <=> filler = a
    /\ ready => filler = Nobody
    /\ (\E a \in Asker : asker[a] = "waiting") => filler # Nobody

\* Whoever asks for the prompt gets it or an error, even when the goroutine it
\* waited for failed or its call ended (no wake-up is lost), and meanwhile no
\* two of them synthesize it.
AskersAreServed ==
    /\ []OneSynthesis
    /\ \A a \in Asker : asker[a] = "asking" ~> asker[a] \in {"got", "failed"}
=============================================================================
