----------------------------- MODULE WidgetChat -----------------------------
(***************************************************************************)
(* A visitor's messages and contact forms.  The widget sends each as a     *)
(* request, retries it when the network or the server fails, and keeps the *)
(* conversation of the answer; the server finds or creates the conversation*)
(* and handles every attempt that reaches it, also one whose answer is no  *)
(* longer awaited.  The page can be reloaded, and the history cleared.  Its*)
(* rate limit, which refuses a message before any of this, is left out.    *)
(***************************************************************************)
EXTENDS Naturals, FiniteSets

CONSTANTS
    Sends,          \* requests of the visit, numbered in the order they start
    Attempts,       \* MAX_FETCH_RETRIES + 1
    MaxFailures     \* bound on failures

ASSUME ChatAssumption == /\ Sends \in Nat /\ MaxFailures \in Nat
                         /\ Attempts \in Nat \ {0}

VARIABLES
    tab,            \* WidgetState: conversationId and leadCaptured
    storage,        \* the copy in localStorage
    sending,        \* the requests of the page
    served,         \* served[s, k]: the server's handling of attempt k
    conversations,  \* conversations created
    paused,         \* conversations.aiPaused
    handoff,        \* handoff_requests: the attempt, its conversation and its key
    stray,          \* what happened that may part the turns of a visit
    failures        \* bound

chatVars == <<tab, storage, sending, served, conversations, paused, handoff, stray, failures>>

Send == 1..Sends
Attempt == Send \X (1..Attempts)
Fresh == [chat |-> 0, captured |-> FALSE]

ChatInit ==
    /\ tab = Fresh /\ storage = Fresh
    /\ sending = [s \in Send |-> [at |-> "unsent", kind |-> "chat", chat |-> 0, keyed |-> FALSE, try |-> 1]]
    /\ served = [a \in Attempt |-> [at |-> "none", chat |-> 0, pausedAt |-> FALSE]]
    /\ conversations = 0
    /\ paused = {}
    /\ handoff = {}
    /\ stray = {}
    /\ failures = 0

Awaiting(s) == sending[s].at = "awaiting"
Pending == {s \in Send : Awaiting(s)}

-----------------------------------------------------------------------------
\* sendChatMessage, or the submit of a form.  The composer is disabled while a
\* message is pending, a quick reply and the other form are not.  The widget
\* sends no key; other callers of the form routes may.
Start(s, kind, keyed) ==
    /\ sending[s].at = "unsent" /\ \A o \in 1..(s - 1) : sending[o].at # "unsent"
    /\ kind = "chat" => ~keyed
    /\ kind = "form" => ~tab.captured /\ \A o \in Pending : sending[o].kind = "chat"
    /\ sending' = [sending EXCEPT ![s] = [at |-> "awaiting", kind |-> kind, chat |-> tab.chat,
                                          keyed |-> keyed, try |-> 1]]
    /\ served' = [served EXCEPT ![<<s, 1>>].at = "sent"]
    /\ stray' = IF tab.chat = 0 /\ Pending # {} THEN stray \cup {"overlap"} ELSE stray
    /\ UNCHANGED <<tab, storage, conversations, paused, handoff, failures>>

-----------------------------------------------------------------------------
\* findOrCreateConversation
Create(a) ==
    /\ conversations' = conversations + 1
    /\ served' = [served EXCEPT ![a] = [at |-> "found", chat |-> conversations + 1, pausedAt |-> FALSE]]
FindOrCreate(a) ==
    IF sending[a[1]].chat = 0 THEN Create(a)
    ELSE /\ served' = [served EXCEPT ![a] = [at |-> "found", chat |-> sending[a[1]].chat,
                                             pausedAt |-> sending[a[1]].chat \in paused]]
         /\ UNCHANGED conversations

FindConversation(a) ==
    /\ served[a].at = "sent"
    /\ sending[a[1]].kind = "chat"
    /\ FindOrCreate(a)
    /\ UNCHANGED <<tab, storage, sending, paused, handoff, stray, failures>>

\* The message is stored; a paused conversation is answered by nobody here.
RecordTurn(a) ==
    /\ served[a].at = "found"
    /\ served' = [served EXCEPT ![a].at = IF served[a].pausedAt THEN "human" ELSE "answering"]
    /\ UNCHANGED <<tab, storage, sending, conversations, paused, handoff, stray, failures>>

AnswerTurn(a) ==
    /\ served[a].at = "answering"
    /\ served' = [served EXCEPT ![a].at = "ai"]
    /\ UNCHANGED <<tab, storage, sending, conversations, paused, handoff, stray, failures>>

\* createHandoffIdempotent: a key is unique in a conversation.
NewHandoff(s, c) == sending[s].keyed => \A h \in handoff : ~(h.send = s /\ h.chat = c)

\* captureWebsiteLead: conversation, message and handoff in one transaction.
CaptureLead(a) ==
    /\ served[a].at = "sent"
    /\ sending[a[1]].kind = "form"
    /\ LET c == IF sending[a[1]].chat = 0 THEN conversations + 1 ELSE sending[a[1]].chat IN
       /\ conversations' = IF sending[a[1]].chat = 0 THEN c ELSE conversations
       /\ handoff' = IF NewHandoff(a[1], c) THEN handoff \cup {[send |-> a[1], try |-> a[2], chat |-> c]}
                     ELSE handoff
       /\ served' = [served EXCEPT ![a] = [at |-> "captured", chat |-> c, pausedAt |-> FALSE]]
    /\ UNCHANGED <<tab, storage, sending, paused, stray, failures>>

\* The route then sends the e-mails, logs the usage and answers.
FinishLead(a) ==
    /\ served[a].at = "captured"
    /\ served' = [served EXCEPT ![a].at = "thanked"]
    /\ UNCHANGED <<tab, storage, sending, conversations, paused, handoff, stray, failures>>

\* An operator takes over, or hands back.
SetTakeover(c) ==
    /\ c \in 1..conversations
    /\ paused' \in {paused \cup {c}, paused \ {c}}
    /\ UNCHANGED <<tab, storage, sending, served, conversations, handoff, stray, failures>>

-----------------------------------------------------------------------------
\* The answer arrives.  The page, or the one after a reset, takes its conversation.
Forget(c) == 0
Adopted(c) == c
Done(a) == served[a].at \in {"human", "ai", "thanked"}

Receive(s) ==
    LET a == <<s, sending[s].try>> IN
    /\ Awaiting(s) /\ Done(a)
    /\ tab' = [tab EXCEPT !.chat = Adopted(served[a].chat),
                          !.captured = @ \/ served[a].at = "thanked"]
    /\ storage' = tab'
    /\ sending' = [sending EXCEPT ![s].at = "done"]
    /\ UNCHANGED <<served, conversations, paused, handoff, stray, failures>>

\* fetchWithRetry: a timeout, a network error or a 5xx; the attempt may have
\* been, or yet be, served.
Unserved(a) == served[a].at \in {"sent", "found"}
Fail(s) ==
    LET try == sending[s].try IN
    /\ Awaiting(s) /\ failures < MaxFailures
    /\ failures' = failures + 1
    /\ IF try < Attempts
       THEN /\ sending' = [sending EXCEPT ![s].try = try + 1]
            /\ \E lost \in IF Unserved(<<s, try>>) THEN BOOLEAN ELSE {FALSE} :
                 served' = [served EXCEPT ![<<s, try>>].at = IF lost THEN "lost" ELSE @,
                                          ![<<s, try + 1>>].at = "sent"]
       ELSE /\ sending' = [sending EXCEPT ![s].at = "failed"]
            /\ UNCHANGED served
    /\ stray' = IF sending[s].chat = 0 THEN stray \cup {"retry"} ELSE stray
    /\ UNCHANGED <<tab, storage, conversations, paused, handoff>>

Unnamed == \E s \in Pending : sending[s].chat = 0

\* readState: a stored visit that is too old is dropped.
Reload ==
    /\ failures < MaxFailures
    /\ failures' = failures + 1
    /\ tab' \in {storage, Fresh}
    /\ storage' = tab'
    /\ sending' = [s \in Send |-> IF Awaiting(s) THEN [sending[s] EXCEPT !.at = "left"] ELSE sending[s]]
    /\ stray' = stray \cup (IF Unnamed \/ tab' # storage THEN {"reload"} ELSE {})
    /\ UNCHANGED <<served, conversations, paused, handoff>>

ClearHistory ==
    /\ failures < MaxFailures
    /\ failures' = failures + 1
    /\ tab' = Fresh /\ storage' = Fresh
    /\ stray' = stray \cup {"reset"}
    /\ UNCHANGED <<sending, served, conversations, paused, handoff>>

ChatNext ==
    \/ Reload \/ ClearHistory
    \/ \E c \in 1..Sends : SetTakeover(c)
    \/ \E s \in Send : Receive(s) \/ Fail(s) \/
         \E kind \in {"chat", "form"}, keyed \in BOOLEAN : Start(s, kind, keyed)
    \/ \E a \in Attempt : FindConversation(a) \/ RecordTurn(a) \/ AnswerTurn(a)
                          \/ CaptureLead(a) \/ FinishLead(a)

ChatSpec == ChatInit /\ [][ChatNext]_chatVars

-----------------------------------------------------------------------------
\* Everything a visitor sends in one visit is in one conversation, the one the
\* widget polls, unless a request that had no conversation yet was retried,
\* overlapped another or was left by a reload, or the visit was cleared.
Kept == {a \in Attempt : served[a].chat # 0}
TurnsStayTogether ==
    stray = {} => \A a \in Kept : /\ \A b \in Kept : served[a].chat = served[b].chat
                                  /\ tab.chat # 0 => served[a].chat = tab.chat

\* createHandoffIdempotent: a form that is sent with a key, from a visitor whose
\* conversation is known, makes one handoff however often it is retried.
KeyedLeadOnce ==
    \A s \in Send : sending[s].keyed /\ sending[s].chat # 0 =>
        Cardinality({h \in handoff : h.send = s}) <= 1

\* One visit is one conversation, one form in it one handoff.
VisitsAreOne == TurnsStayTogether /\ KeyedLeadOnce
=============================================================================
