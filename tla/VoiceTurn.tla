------------------------------ MODULE VoiceTurn ------------------------------
(***************************************************************************)
(* One telephone call in turns: what the caller says, how it reaches the   *)
(* voice API (apps/voice), what the API stores and bills, and what the     *)
(* caller hears.  The call comes over the SIP edge, whose turn client      *)
(* posts to /voice/turn and tries twice, or over Twilio, which posts to    *)
(* /twilio/voice and may repeat a webhook; no answer means the request is  *)
(* still running, so an attempt given up lives on beside the next one.     *)
(***************************************************************************)
EXTENDS Naturals, FiniteSets

CONSTANTS
    Turns,          \* turns of the call
    MaxAttempts,    \* maxSendAttempts; for Twilio the bound on repetitions
    Words           \* what the recognizer may hear

ASSUME TurnAssumption == Turns \in Nat \ {0} /\ MaxAttempts \in Nat \ {0} /\ Words # {}

VARIABLES
    source,        \* "edge" or "twilio"
    caller,        \* the client: [turn, at, attempt]; at is where it waits
    words,         \* words[u]: what was recognized in turn u
    turnRequest,   \* turnRequest[<<u, a>>]: the step the handler of attempt a is at
    event,         \* event[w]: the channel_webhook_events row of these words
    stored,        \* stored[u]: messages the conversation holds for turn u
    bills,         \* billable_usage_events rows of this call
    heard,         \* heard[u]: what the caller heard
    audio          \* audio[u]: how many times reply audio was started

turnVars == <<source, caller, words, turnRequest, event, stored, bills, heard, audio>>

Turn == 1..Turns
SendAttempt == 1..MaxAttempts
NoWords == "none"

\* The handlers take the same steps; Twilio's also keeps a dedup event.
Step == {"event", "inbound", "outbound", "usage", "bill", "mark"}
TurnAfter == [event |-> "inbound", inbound |-> "outbound", outbound |-> "usage", usage |-> "bill",
          bill |-> IF source = "twilio" THEN "mark" ELSE "done", mark |-> "done"]
FirstStep == IF source = "twilio" THEN "event" ELSE "inbound"
Ended == {"done", "failed", "repeat"}

TurnInit ==
    /\ source \in {"edge", "twilio"}
    /\ caller = [turn |-> 0, at |-> "idle", attempt |-> 0, saying |-> "repeat"]
    /\ words = [u \in Turn |-> NoWords]
    /\ turnRequest = [r \in Turn \X SendAttempt |-> "none"]
    /\ event = [w \in Words |-> "none"]
    /\ stored = [u \in Turn |-> [inbound |-> 0, outbound |-> 0, usage |-> 0]]
    /\ bills = 0
    /\ heard = [u \in Turn |-> {}]
    /\ audio = [u \in Turn |-> 0]

Now == <<caller.turn, caller.attempt>>
At(place) == caller.at = place
Go(place) == caller' = [caller EXCEPT !.at = place]
Speak(what) == caller' = [caller EXCEPT !.at = "speaking", !.saying = what]
Post(u, a) == turnRequest' = [turnRequest EXCEPT ![<<u, a>>] = FirstStep]

-----------------------------------------------------------------------------
\* The client.  An utterance is transcribed while the thinking prompt plays.
Hear ==
    /\ At("idle") /\ caller.turn < Turns
    /\ \E w \in Words :
          words' = [words EXCEPT ![caller.turn + 1] = w]
    /\ caller' = [caller EXCEPT !.turn = @ + 1, !.at = "transcribing", !.attempt = 0]
    /\ UNCHANGED <<source, turnRequest, event, stored, bills, heard, audio>>

\* Twilio transcribes itself and posts the words.
SendTurn ==
    /\ At("transcribing")
    /\ caller' = [caller EXCEPT !.at = "waiting", !.attempt = 1]
    /\ Post(caller.turn, 1)
    /\ UNCHANGED <<source, words, event, stored, bills, heard, audio>>

\* The provider fails or hears nothing: the caller is asked to repeat.
NotUnderstood ==
    /\ source = "edge" /\ At("transcribing")
    /\ Speak("repeat")
    /\ UNCHANGED <<source, words, turnRequest, event, stored, bills, heard, audio>>

\* A 200 of the attempt waited for.  The reply text is the answer, or the
\* "no answer" prompt for a handoff or an empty reply; both are one here.
TrustAnyStatus ==
    /\ At("waiting") /\ turnRequest[Now] \in Ended
    /\ Speak(IF turnRequest[Now] = "repeat" THEN "repeat" ELSE "answer")
    /\ UNCHANGED <<source, words, turnRequest, event, stored, bills, heard, audio>>

TurnAnswered ==
    /\ At("waiting") /\ turnRequest[Now] \in {"done", "repeat"}
    /\ Speak(IF turnRequest[Now] = "done" THEN "answer" ELSE "repeat")
    /\ UNCHANGED <<source, words, turnRequest, event, stored, bills, heard, audio>>

\* No 200: the handler failed (500) or has not answered in time.  Both are
\* retryable; after the last attempt the caller is told of the error.
GiveUpAttempt ==
    /\ At("waiting") /\ turnRequest[Now] \notin {"done", "repeat"}
    /\ IF caller.attempt < MaxAttempts
       THEN /\ caller' = [caller EXCEPT !.attempt = @ + 1]
            /\ Post(caller.turn, caller.attempt + 1)
       ELSE /\ Speak("error")
            /\ UNCHANGED turnRequest
    /\ UNCHANGED <<source, words, event, stored, bills, heard, audio>>

\* sendText: the stream speaks the text, whole or until it breaks; buffered
\* synthesis is tried only when the stream gave no audio at all, and may fail.
Say ==
    /\ At("speaking")
    /\ \/ /\ heard' = [heard EXCEPT ![caller.turn] = @ \cup {caller.saying}]
          /\ audio' = [audio EXCEPT ![caller.turn] = @ + 1]
       \/ UNCHANGED <<heard, audio>>
    /\ Go("idle")
    /\ UNCHANGED <<source, words, turnRequest, event, stored, bills>>

\* The call's context is cancelled at whatever the goroutine waits for.
HangUp ==
    /\ ~At("over")
    /\ Go("over")
    /\ UNCHANGED <<source, words, turnRequest, event, stored, bills, heard, audio>>

-----------------------------------------------------------------------------
\* The handler of one attempt.
Running(r) == turnRequest[r] \in Step
Proceed(r) == turnRequest' = [turnRequest EXCEPT ![r] = TurnAfter[@]]

\* recordChannelWebhookEvent: a processed turn is not answered again.  When
\* the dedup query itself fails the turn is processed without it.
RecordEvent(r) ==
    LET w == words[r[1]]
    IN  /\ turnRequest[r] = "event"
        /\ \/ /\ event[w] = "processed"
              /\ turnRequest' = [turnRequest EXCEPT ![r] = "repeat"]
              /\ UNCHANGED event
           \/ /\ event[w] # "processed"
              /\ event' = [event EXCEPT ![w] = "received"]
              /\ Proceed(r)
        /\ UNCHANGED <<source, caller, words, stored, bills, heard, audio>>

\* The conversation is found or created and the caller's words appended:
\* addMessage without a provider event id always appends.
StoreInbound(r) ==
    /\ turnRequest[r] = "inbound"
    /\ stored' = [stored EXCEPT ![r[1]].inbound = @ + 1]
    /\ Proceed(r)
    /\ UNCHANGED <<source, caller, words, event, bills, heard, audio>>

\* The answer is found, in whatever time it takes, and appended.
StoreOutbound(r) ==
    /\ turnRequest[r] = "outbound"
    /\ stored' = [stored EXCEPT ![r[1]].outbound = @ + 1]
    /\ Proceed(r)
    /\ UNCHANGED <<source, caller, words, event, bills, heard, audio>>

LogTurnUsage(r) ==
    /\ turnRequest[r] = "usage"
    /\ stored' = [stored EXCEPT ![r[1]].usage = @ + 1]
    /\ Proceed(r)
    /\ UNCHANGED <<source, caller, words, event, bills, heard, audio>>

\* recordBillableAcceptedCall: one row per call, a conflict is left alone.
BillCall(r) ==
    /\ turnRequest[r] = "bill"
    /\ bills' = IF bills = 0 THEN 1 ELSE bills
    /\ Proceed(r)
    /\ UNCHANGED <<source, caller, words, event, stored, heard, audio>>

\* A failure to mark is swallowed: the answer is sent all the same.
MarkProcessed(r) ==
    /\ turnRequest[r] = "mark"
    /\ \/ event' = [event EXCEPT ![words[r[1]]] = "processed"]
       \/ UNCHANGED event
    /\ Proceed(r)
    /\ UNCHANGED <<source, caller, words, stored, bills, heard, audio>>

\* Any query, or the answer, may throw: the error handler sends a 500.
TurnFails(r) ==
    /\ Running(r) /\ turnRequest[r] \notin {"event", "mark"}
    /\ turnRequest' = [turnRequest EXCEPT ![r] = "failed"]
    /\ UNCHANGED <<source, caller, words, event, stored, bills, heard, audio>>

Handle(r) ==
    \/ RecordEvent(r) \/ StoreInbound(r) \/ StoreOutbound(r)
    \/ LogTurnUsage(r) \/ BillCall(r) \/ MarkProcessed(r) \/ TurnFails(r)

Client == SendTurn \/ NotUnderstood \/ TurnAnswered \/ GiveUpAttempt \/ Say

TurnNext == Hear \/ HangUp \/ Client \/ \E r \in Turn \X SendAttempt : Handle(r)

TurnSpec == TurnInit /\ [][TurnNext]_turnVars

-----------------------------------------------------------------------------
\* The type invariant of a call in turns.
TurnTypeOK ==
    /\ source \in {"edge", "twilio"}
    /\ caller \in [turn : 0..Turns, attempt : 0..MaxAttempts,
                   at : {"idle", "transcribing", "waiting", "speaking", "over"},
                   saying : {"repeat", "answer", "error"}]
    /\ words \in [Turn -> Words \cup {NoWords}]
    /\ turnRequest \in [Turn \X SendAttempt -> Step \cup Ended \cup {"none"}]
    /\ event \in [Words -> {"none", "received", "processed"}]
    /\ stored \in [Turn -> [inbound : 0..MaxAttempts, outbound : 0..MaxAttempts, usage : 0..MaxAttempts]]
    /\ bills \in Nat
    /\ heard \in [Turn -> SUBSET {"repeat", "answer", "error"}]
    /\ audio \in [Turn -> Nat]

\* What the caller hears as an answer is in the transcript, the usage log and
\* the bill: the handlers answer only after the last write.
HeardIsOnRecord ==
    \A u \in Turn : "answer" \in heard[u] =>
        stored[u].inbound > 0 /\ stored[u].outbound > 0 /\ stored[u].usage > 0 /\ bills = 1

\* However often a turn is retried, repeated or run twice at once, the call is
\* billed once, and only when some turn of it was answered.
BilledOnceForAnAnswer ==
    /\ bills <= 1
    /\ bills = 1 => \E u \in Turn : stored[u].outbound > 0 /\ stored[u].usage > 0

\* The transcript never holds an answer without its question, and a turn is
\* in it at most once per attempt the client gave up plus one.
AnswersFollowQuestions ==
    \A u \in Turn :
        /\ stored[u].usage <= stored[u].outbound /\ stored[u].outbound <= stored[u].inbound
        /\ stored[u].inbound <= Cardinality({a \in SendAttempt : turnRequest[<<u, a>>] # "none"})

\* The caller hears one reply per turn: never an answer after an apology, and
\* never the same reply again from the buffered synthesis.
OneReplyPerTurn == \A u \in Turn : audio[u] <= 1 /\ Cardinality(heard[u]) <= 1

\* A call adds up, however its turns are retried, repeated and run twice: what
\* is heard, transcribed, logged and billed belong together.
TurnsAddUp ==
    TurnTypeOK /\ HeardIsOnRecord /\ BilledOnceForAnAnswer /\ AnswersFollowQuestions /\ OneReplyPerTurn
=============================================================================
