--------------------------- MODULE OperatorReplies ---------------------------
(***************************************************************************)
(* Operators answer one conversation by hand, and take it over or release  *)
(* it, while the customer writes on, the assistant answers, the retry      *)
(* worker sends again and the conversation may be erased.  The route takes *)
(* over before it sends, and files the turn after it; every await between  *)
(* lets the others move, and a crash may end the request there.            *)
(***************************************************************************)
EXTENDS Integers

CONSTANTS
    Letters,        \* POST .../conversations/:conversationId/messages requests
    Notes,          \* customers' messages the assistant handles
    Sources,        \* channels a conversation can be of
    Window,         \* 24 hours, in ticks
    MaxHours        \* bound on the clock

Never == -1
NoOne == "nobody"

\* Instagram goes the way of Messenger.
ASSUME OperatorAssumption ==
    /\ Window \in Nat /\ MaxHours \in Nat /\ NoOne \notin Letters
    /\ Sources \subseteq {"whatsapp", "messenger", "website", "telephone"}

VARIABLES
    hour,           \* the clock
    dialog,         \* conversations: its takeover fields, and the last inbound's created_at
    letter,         \* the requests, and the delivery row each one leaves
    note,           \* the automated handling of customers' messages
    holding         \* observed: requests that took over, not released since

operatorVars == <<hour, dialog, letter, note, holding>>

NoLetter == [at |-> "idle", read |-> Never, status |-> "none", reached |-> Never,
             again |-> FALSE, filed |-> FALSE]
NoNote   == [at |-> "idle", paused |-> FALSE, late |-> FALSE]

OperatorInit ==
    /\ hour = 0
    /\ dialog \in [exists : {TRUE}, source : Sources, paused : {FALSE}, owner : {NoOne},
                 first : {Never}, inbound : {Never}]
    /\ letter = [l \in Letters |-> NoLetter]
    /\ note = [n \in Notes |-> NoNote]
    /\ holding = {}

PassHour ==
    /\ hour < MaxHours
    /\ hour' = hour + 1
    /\ UNCHANGED <<dialog, letter, note, holding>>

-----------------------------------------------------------------------------
(* The operator's reply, an await at a time. *)

\* getConversationReplyContext: 404 without the row, 400 on a channel without an
\* adapter for it, and when the customer last wrote.
ReadContext(l) ==
    /\ letter[l].at = "idle"
    /\ letter' = [letter EXCEPT ![l].at = IF dialog.exists /\ dialog.source # "telephone"
                                          THEN "read" ELSE "refused",
                                ![l].read = dialog.inbound]
    /\ UNCHANGED <<hour, dialog, note, holding>>

\* setConversationHandling: whoever replies first is the first human response.
ForgetsToPause(l) == [dialog EXCEPT !.owner = l, !.first = IF @ = Never THEN hour ELSE @]
TakenOver(l) == [dialog EXCEPT !.paused = TRUE, !.owner = l,
                               !.first = IF @ = Never THEN hour ELSE @]

\* The handler does not look at the result: the row may be gone.
TakeOverFirst(l) ==
    /\ letter[l].at = "read"
    /\ dialog' = IF dialog.exists THEN TakenOver(l) ELSE dialog
    /\ holding' = IF dialog.exists THEN holding \cup {l} ELSE holding
    /\ letter' = [letter EXCEPT ![l].at = "held"]
    /\ UNCHANGED <<hour, note>>

\* evaluateAutomatedReplyPolicy, with now for a conversation without an inbound.
AlwaysAllowed(read) == TRUE
FreeformAllowed(read) == dialog.source = "website" \/ read = Never \/ hour - read <= Window

\* What a send comes to: its status, and whether the customer has it.  WhatsApp
\* takes the sender from the last inbound; a timeout may be after the acceptance.
\* The website's adapter only says "sent": the widget polls for the stored turn.
Sent(read) ==
    IF ~FreeformAllowed(read) THEN {<<"skipped", FALSE>>}
    ELSE IF dialog.source = "website" THEN {<<"sent", FALSE>>}
    ELSE {<<"skipped", FALSE>>} \cup
         (IF dialog.source = "whatsapp" /\ read = Never THEN {}
          ELSE {<<"sent", TRUE>>, <<"failed", FALSE>>,
                <<"retryable", FALSE>>, <<"retryable", TRUE>>})

SendLetter(l) ==
    /\ letter[l].at = "held"
    /\ \E outcome \in Sent(letter[l].read) :
          letter' = [letter EXCEPT ![l].at = "sent", ![l].status = outcome[1],
                                   ![l].reached = IF outcome[2] THEN hour ELSE Never]
    /\ UNCHANGED <<hour, dialog, note, holding>>

\* addMessage: the turn needs its conversation, or the request ends in a 500.
FileLetter(l) ==
    /\ letter[l].at = "sent"
    /\ letter' = [letter EXCEPT ![l].at = IF dialog.exists THEN "filed" ELSE "cut",
                                ![l].reached = IF dialog.exists /\ dialog.source = "website"
                                               THEN hour ELSE @]
    /\ UNCHANGED <<hour, dialog, note, holding>>

\* recordMessageDelivery refers to the turn; the audit's failure is only logged.
AnswerOperator(l) ==
    /\ letter[l].at = "filed"
    /\ letter' = [letter EXCEPT ![l].at = IF dialog.exists THEN "answered" ELSE "cut",
                                ![l].filed = dialog.exists]
    /\ UNCHANGED <<hour, dialog, note, holding>>

CutLetter(l) ==
    /\ letter[l].at \in {"read", "held", "sent", "filed"}
    /\ letter' = [letter EXCEPT ![l].at = "cut"]
    /\ UNCHANGED <<hour, dialog, note, holding>>

\* The retry worker sends a recorded transient failure again, whatever the hour.
ResendLetter(l) ==
    /\ letter[l].filed /\ letter[l].status = "retryable" /\ dialog.exists
    /\ letter' = [letter EXCEPT ![l].status = "sent", ![l].reached = hour, ![l].again = TRUE]
    /\ UNCHANGED <<hour, dialog, note, holding>>

-----------------------------------------------------------------------------
(* The handling route, the customer and the assistant, the erasure. *)

SetHandling(who, pauses) ==
    /\ dialog.exists
    /\ dialog' = [dialog EXCEPT !.paused = pauses, !.owner = IF pauses THEN who ELSE NoOne]
    /\ holding' = IF pauses THEN holding ELSE {}
    /\ UNCHANGED <<hour, letter, note>>

\* findOrCreateConversation, whose ai_paused decides later.
AssistantLooks(n) ==
    /\ note[n].at = "idle" /\ dialog.exists /\ dialog.source # "telephone"
    /\ note' = [note EXCEPT ![n] = [at |-> "looked", paused |-> dialog.paused,
                   late |-> \E l \in holding : letter[l].reached # Never]]
    /\ UNCHANGED <<hour, dialog, letter, holding>>

StoreNote(n) ==
    /\ note[n].at = "looked"
    /\ note' = [note EXCEPT ![n].at = IF ~dialog.exists THEN "lost"
                                      ELSE IF note[n].paused THEN "kept" ELSE "asked"]
    /\ dialog' = IF dialog.exists THEN [dialog EXCEPT !.inbound = hour] ELSE dialog
    /\ UNCHANGED <<hour, letter, holding>>

AssistantAnswers(n) ==
    /\ note[n].at = "asked"
    /\ note' = [note EXCEPT ![n].at = "answered"]
    /\ UNCHANGED <<hour, dialog, letter, holding>>

\* Retention, or the erasure of the contact.
EraseDialog ==
    /\ dialog.exists
    /\ dialog' = [dialog EXCEPT !.exists = FALSE]
    /\ UNCHANGED <<hour, letter, note, holding>>

OperatorNext ==
    \/ PassHour \/ EraseDialog
    \/ \E l \in Letters :
          \/ ReadContext(l) \/ TakeOverFirst(l) \/ SendLetter(l) \/ FileLetter(l)
          \/ AnswerOperator(l) \/ CutLetter(l) \/ ResendLetter(l)
          \/ \E pauses \in BOOLEAN : SetHandling(l, pauses)
    \/ \E n \in Notes : AssistantLooks(n) \/ StoreNote(n) \/ AssistantAnswers(n)

OperatorSpec == OperatorInit /\ [][OperatorNext]_operatorVars

-----------------------------------------------------------------------------
\* A customer who writes after a human's reply came is not answered by the
\* assistant, until the conversation is released (the takeover is stored
\* before the reply is sent, server.ts:3789-3796).
HumanSpeaksAlone == \A n \in Notes : note[n].at = "answered" => ~note[n].late

\* getWhatsappCompliance: canUseFreeformReply.
FreeformOpen(time) == dialog.inbound # Never /\ dialog.inbound + Window > time

\* A reply comes within the window of what the customer wrote, and when the
\* compliance panel allows it or its window is just closing; the worker's second
\* try may come later, and Messenger has no window before the first inbound.
RepliesAreInTime ==
    \A l \in Letters :
      letter[l].reached # Never /\ ~letter[l].again /\ dialog.source # "website" =>
        \/ letter[l].read = Never /\ dialog.source = "messenger"
        \/ /\ letter[l].read # Never /\ letter[l].reached - letter[l].read <= Window
           /\ FreeformOpen(letter[l].reached) \/ dialog.inbound + Window = letter[l].reached

\* A reply that came has its turn and its delivery in the conversation, unless
\* the request is on its way or was cut off; then the conversation has a human
\* response no later than the reply, and belongs to someone while it is held.
RepliesAreFiled ==
    /\ \A l \in Letters : letter[l].reached # Never =>
          /\ letter[l].filed \/ letter[l].at \in {"sent", "filed", "cut"}
          /\ l \in holding => dialog.first \in 0 .. letter[l].reached
    /\ dialog.exists /\ holding # {} => dialog.paused /\ dialog.owner # NoOne

\* What an operator may rely on when replying by hand.
RepliesHold == HumanSpeaksAlone /\ RepliesAreInTime /\ RepliesAreFiled
=============================================================================
