---------------------------- MODULE WidgetReplies ----------------------------
(***************************************************************************)
(* The widget polls for what operators wrote: it asks for the replies after*)
(* its cursor, shows what comes back and moves the cursor to the last one. *)
(* PostgreSQL stamps a row when its transaction begins, in microseconds; a *)
(* Date, and so the cursor, has milliseconds.  Polls are not serialised,   *)
(* and a reset redraws the widget without stopping the old poll timer.     *)
(***************************************************************************)
EXTENDS Naturals, FiniteSets, Sequences, SequencesExt

CONSTANTS
    Replies,        \* what operators write
    Chats,          \* conversations, numbered from 1; 0 is none
    Polls,          \* polls that can be in flight together
    PageSize,       \* replies of one answer (50)
    Milli,          \* microseconds to a millisecond
    MaxTime,        \* bound on the clock
    MaxPolls        \* bound on polls sent

ASSUME RepliesAssumption == /\ IsFiniteSet(Replies)
                            /\ Chats \in Nat /\ MaxTime \in Nat /\ MaxPolls \in Nat
                            /\ PageSize \in Nat \ {0} /\ Milli \in Nat \ {0}

VARIABLES
    clock,          \* microseconds
    reply,          \* messages with the role operator
    visitor,        \* WidgetState: conversationId, operatorCursor, messages
    timers,         \* poll timers of this and of earlier drawings
    poll,           \* the polls in flight
    sentPolls,      \* bound
    mixed           \* what happened that may mix replies up

repliesVars == <<clock, reply, visitor, timers, poll, sentPolls, mixed>>

IdlePoll == [at |-> "idle", chat |-> 0, since |-> 0, page |-> <<>>]
Blank == [chat |-> 0, cursor |-> 0, shown |-> <<>>]

RepliesInit ==
    /\ clock = 1
    /\ reply = [r \in Replies |-> [status |-> "none", chat |-> 0, created |-> 0]]
    /\ visitor = Blank
    /\ timers = [current |-> FALSE, earlier |-> FALSE]
    /\ poll = [p \in Polls |-> IdlePoll]
    /\ sentPolls = 0
    /\ mixed = {}

-----------------------------------------------------------------------------
PassTime ==
    /\ clock < MaxTime
    /\ clock' = clock + 1
    /\ UNCHANGED <<reply, visitor, timers, poll, sentPolls, mixed>>

\* addMessage: the row has the time its transaction began.
BeginReply(r, c) ==
    /\ reply[r].status = "none"
    /\ reply' = [reply EXCEPT ![r] = [status |-> "writing", chat |-> c, created |-> clock]]
    /\ UNCHANGED <<clock, visitor, timers, poll, sentPolls, mixed>>

Stored(c) == {r \in Replies : reply[r].status = "stored" /\ reply[r].chat = c}

CommitReply(r) ==
    /\ reply[r].status = "writing"
    /\ reply' = [reply EXCEPT ![r].status = "stored"]
    /\ mixed' = IF \E o \in Stored(reply[r].chat) : reply[o].created >= reply[r].created
                THEN mixed \cup {"late"} ELSE mixed
    /\ UNCHANGED <<clock, visitor, timers, poll, sentPolls>>

-----------------------------------------------------------------------------
\* A chat answer or a captured form names the conversation; a chat answer also
\* starts the timer.
Adopt(c) ==
    /\ visitor.chat = 0
    /\ visitor' = [visitor EXCEPT !.chat = c]
    /\ timers' \in {timers, [timers EXCEPT !.current = TRUE]}
    /\ UNCHANGED <<clock, reply, poll, sentPolls, mixed>>

OpenPanel ==
    /\ ~timers.current /\ visitor.chat # 0
    /\ timers' = [timers EXCEPT !.current = TRUE]
    /\ UNCHANGED <<clock, reply, visitor, poll, sentPolls, mixed>>

ClosePanel ==
    /\ timers.current
    /\ timers' = [timers EXCEPT !.current = FALSE]
    /\ UNCHANGED <<clock, reply, visitor, poll, sentPolls, mixed>>

InFlight == \E p \in Polls : poll[p].at # "idle"

\* The state is emptied in place: polls of the old conversation still write it.
Reset ==
    /\ visitor.chat # 0
    /\ visitor' = Blank
    /\ timers' = [current |-> FALSE, earlier |-> timers.current \/ timers.earlier]
    /\ mixed' = IF InFlight THEN mixed \cup {"reset"} ELSE mixed
    /\ UNCHANGED <<clock, reply, poll, sentPolls>>

-----------------------------------------------------------------------------
SendPoll(p) ==
    /\ poll[p].at = "idle" /\ sentPolls < MaxPolls
    /\ timers.current \/ timers.earlier
    /\ visitor.chat # 0
    /\ poll' = [poll EXCEPT ![p] = [at |-> "sent", chat |-> visitor.chat,
                                    since |-> visitor.cursor, page |-> <<>>]]
    /\ sentPolls' = sentPolls + 1
    /\ mixed' = IF InFlight THEN mixed \cup {"overlap"} ELSE mixed
    /\ UNCHANGED <<clock, reply, visitor, timers>>

After(c, since) == {r \in Stored(c) : reply[r].created > since}

\* listOperatorRepliesForWidget: the first page of the replies after the cursor,
\* oldest first.  Nothing decides between rows with the same time.
OldestAfter(c, since) ==
    LET found == After(c, since)
        many  == IF Cardinality(found) < PageSize THEN Cardinality(found) ELSE PageSize
    IN  {page \in [1..many -> found] :
            /\ \A i, j \in 1..many :
                  i < j => page[i] # page[j] /\ reply[page[i]].created <= reply[page[j]].created
            /\ \A r \in found \ ToSet(page) : \A i \in 1..many :
                  reply[page[i]].created <= reply[r].created}

AnswerPoll(p) ==
    /\ poll[p].at = "sent"
    /\ \E page \in OldestAfter(poll[p].chat, poll[p].since) :
          poll' = [poll EXCEPT ![p].at = "answered", ![p].page = page]
    /\ UNCHANGED <<clock, reply, visitor, timers, sentPolls, mixed>>

\* createdAt.toISOString() drops the microseconds.
RoundUp(time) == ((time + Milli - 1) \div Milli) * Milli
ToIso(time) == (time \div Milli) * Milli

ShowReplies(p) ==
    /\ poll[p].at = "answered"
    /\ visitor' = IF poll[p].page = <<>> THEN visitor
                  ELSE [visitor EXCEPT !.shown = @ \o poll[p].page,
                                       !.cursor = ToIso(reply[Last(poll[p].page)].created)]
    /\ poll' = [poll EXCEPT ![p] = IdlePoll]
    /\ UNCHANGED <<clock, reply, timers, sentPolls, mixed>>

LosePoll(p) ==
    /\ poll[p].at # "idle"
    /\ poll' = [poll EXCEPT ![p] = IdlePoll]
    /\ UNCHANGED <<clock, reply, visitor, timers, sentPolls, mixed>>

RepliesNext ==
    \/ PassTime \/ OpenPanel \/ ClosePanel \/ Reset
    \/ \E c \in 1..Chats : Adopt(c) \/ \E r \in Replies : BeginReply(r, c)
    \/ \E r \in Replies : CommitReply(r)
    \/ \E p \in Polls : SendPoll(p) \/ AnswerPoll(p) \/ ShowReplies(p) \/ LosePoll(p)

RepliesSpec == RepliesInit /\ [][RepliesNext]_repliesVars

-----------------------------------------------------------------------------
\* A reply the cursor has passed, which no later poll returns, has been shown:
\* paging loses nothing.  Excepted are rows that commit after a row with a later
\* stamp, and a reset while a poll is in flight.
NoReplySkipped ==
    mixed \cap {"late", "reset"} = {} =>
        \A r \in Stored(visitor.chat) : reply[r].created <= visitor.cursor => r \in ToSet(visitor.shown)

\* A visitor is shown replies of the own conversation only, unless a poll of
\* the old one was in flight at a reset (the doc of
\* listOperatorRepliesForWidget: only their own conversation).
OwnRepliesOnly ==
    "reset" \notin mixed => \A i \in DOMAIN visitor.shown : reply[visitor.shown[i]].chat = visitor.chat

\* What server.ts:4489-4493 says of the poll: it returns the turns after the
\* cursor.  A visitor sees a reply again only if polls overlapped or raced a reset.
RepeatNeedsOverlap ==
    mixed \cap {"overlap", "reset"} = {} => IsInjective(visitor.shown)

\* An operator's reply reaches its visitor and nobody else.
RepliesArrive == NoReplySkipped /\ OwnRepliesOnly
=============================================================================
