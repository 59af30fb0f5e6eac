------------------------------ MODULE VoiceEdge ------------------------------
(***************************************************************************)
(* The calls of the voice edge (apps/voice-edge/internal/edge/server.go):  *)
(* the table of sessions by Call-ID, the goroutines each session starts,   *)
(* the three timers that may end it, and the RTP ports it leases.          *)
(*                                                                         *)
(* SIP messages are handled one at a time by readLoop, so a handler is one *)
(* step; the goroutines run between any two of them.  Every goroutine      *)
(* names its session by Call-ID when it writes the phase or ends the call, *)
(* so it reaches whatever session the table holds THEN: a caller that      *)
(* reuses a Call-ID (a delayed INVITE after a BYE) gets a new session      *)
(* under the same key.                                                     *)
(***************************************************************************)
EXTENDS Integers, FiniteSets

CONSTANTS
    CallId,        \* Call-IDs the peers use
    Sessions,      \* sessions are numbered 1..Sessions in the order created
    Ports,         \* the RTP range holds ports 1..Ports
    MaxSessions,   \* VOICE_EDGE_MAX_SESSIONS, 0 when there is no limit
    EarlyMedia,    \* VOICE_EDGE_ANSWER_DELAY_MS > 0: ring back before answering
    Timer,         \* the timers the configuration turns on
    NoSession

ASSUME EdgeAssumption ==
    /\ Timer \subseteq {"overdue", "idle", "unacked"}
    /\ Sessions \in Nat /\ Ports \in Nat \ {0} /\ MaxSessions \in Nat
    /\ EarlyMedia \in BOOLEAN
    /\ NoSession \notin 1..Sessions

VARIABLES
    calls,       \* calls[c]: the session stored under Call-ID c
    nextPort,    \* where the pool's round robin goes on
    leased,      \* ports the pool has given out
    session,     \* session[s]: the CallSession object and its RTP socket
    answerer,    \* goroutine answerAfterDelay of s
    greeter,     \* goroutine playGreeting of s
    talking,     \* a goroutine processUtterance of s runs
    timers       \* timers[s][t]: off, armed, or fired and not yet acted on

edgeVars == <<calls, nextPort, leased, session, answerer, greeter, talking, timers>>

Session == 1..Sessions
Port == 1..Ports

\* Before the ACK a call may be cancelled and the ACK timer may end it.
Unacknowledged == {"ringing", "early-media", "answered"}

Unborn == [id |-> NoSession, phase |-> "none", life |-> "unborn", port |-> 0,
           processing |-> FALSE, greeted |-> FALSE, acked |-> FALSE]

\* The socket of s is bound while s lives and until endSession closes it.
Bound(s) == session[s].life \in {"live", "removed", "released"}

\* endSession cancels the session's context before it releases the port.
Cancelled(s) == session[s].life \in {"released", "closed"}

EdgeInit ==
    /\ calls = [c \in CallId |-> NoSession]
    /\ nextPort = 1
    /\ leased = {}
    /\ session = [s \in Session |-> Unborn]
    /\ answerer = [s \in Session |-> "none"]
    /\ greeter = [s \in Session |-> "none"]
    /\ talking = [s \in Session |-> FALSE]
    /\ timers = [s \in Session |-> [t \in Timer |-> "off"]]

-----------------------------------------------------------------------------
\* Helpers on the table.  Marked and Removed act on the session the table
\* holds under c, whichever session's goroutine asks for it.
Marked(sessions, c, phase) ==
    IF calls[c] = NoSession THEN sessions
    ELSE [sessions EXCEPT ![calls[c]].phase = phase]

Removed(sessions, c) ==
    IF calls[c] = NoSession THEN sessions
    ELSE [sessions EXCEPT ![calls[c]].life = "removed"]

\* PortPool.Lease: the first free port from nextPort on, round the range.
FreeDistance == {d \in 0..Ports - 1 : ((nextPort - 1 + d) % Ports) + 1 \notin leased}
LeaseStep == CHOOSE d \in FreeDistance : \A e \in FreeDistance : d <= e
LeasedPort == ((nextPort - 1 + LeaseStep) % Ports) + 1
NextPort == (LeasedPort % Ports) + 1

\* handleInvite refuses a new call at the limit.
BusyTooLate == MaxSessions > 0 /\ Cardinality({c \in CallId : calls[c] # NoSession}) > MaxSessions
Busy == MaxSessions > 0 /\ Cardinality({c \in CallId : calls[c] # NoSession}) >= MaxSessions

\* dialogMatches: the tag of this session is the one the peer saw, in the 183
\* or the 200; a tag is random, so a message of an earlier dialog does not match.
InDialog(s) == session[s].life = "live" /\ answerer[s] \notin {"none", "warming"}

-----------------------------------------------------------------------------
\* SIP handlers.

\* A first INVITE: a port is leased, its socket bound, the session stored and
\* its goroutines started.  An INVITE of a stored call only repeats answers.
HandleInvite(c) ==
    LET s == CHOOSE n \in Session \cup {Sessions + 1} :
                /\ \A k \in 1..n - 1 : session[k].life # "unborn"
                /\ n \in Session => session[n].life = "unborn"
    IN  /\ calls[c] = NoSession /\ ~Busy
        /\ s \in Session /\ FreeDistance # {}
        /\ nextPort' = NextPort
        /\ \/ /\ \A k \in Session : Bound(k) => session[k].port # LeasedPort
              /\ leased' = leased \cup {LeasedPort}
              /\ session' = [session EXCEPT ![s] =
                    [Unborn EXCEPT !.id = c, !.phase = "ringing", !.life = "live",
                                   !.port = LeasedPort]]
              /\ calls' = [calls EXCEPT ![c] = s]
              /\ answerer' = [answerer EXCEPT ![s] = "warming"]
              /\ timers' = [timers EXCEPT ![s] =
                    [t \in Timer |-> IF t = "unacked" THEN "off" ELSE "armed"]]
           \* ListenUDP fails: an ended call still holds the socket of a
           \* released port.  The port goes back to the pool, the caller gets 503.
           \/ /\ \E k \in Session : Bound(k) /\ session[k].port = LeasedPort
              /\ UNCHANGED <<calls, leased, session, answerer, timers>>
        /\ UNCHANGED <<greeter, talking>>

\* The ACK of the 200, or a repetition of it.
HandleACK(s) ==
    /\ InDialog(s) /\ answerer[s] = "answered"
    /\ session' = [session EXCEPT ![s].phase = "active", ![s].acked = TRUE]
    /\ greeter' = [greeter EXCEPT ![s] = IF @ = "none" THEN "spawned" ELSE @]
    /\ UNCHANGED <<calls, nextPort, leased, answerer, talking, timers>>

\* BYE of this dialog, or CANCEL of a call that is not acknowledged yet.
HandleDialogEnd(s) ==
    /\ session[s].life = "live"
    /\ InDialog(s) \/ session[s].phase \in Unacknowledged
    /\ session' = Removed(session, session[s].id)
    /\ calls' = [calls EXCEPT ![session[s].id] = NoSession]
    /\ UNCHANGED <<nextPort, leased, answerer, greeter, talking, timers>>

-----------------------------------------------------------------------------
\* The rest of endSession, after the table's lock: cancel the context and
\* release the port, then close the socket.
ReleasePort(s) ==
    /\ session[s].life = "removed"
    /\ session' = [session EXCEPT ![s].life = "released"]
    /\ leased' = leased \ {session[s].port}
    /\ UNCHANGED <<calls, nextPort, answerer, greeter, talking, timers>>

CloseSocket(s) ==
    /\ session[s].life = "released"
    /\ session' = [session EXCEPT ![s].life = "closed"]
    /\ UNCHANGED <<calls, nextPort, leased, answerer, greeter, talking, timers>>

-----------------------------------------------------------------------------
\* answerAfterDelay: ring back (or only wait for the greeting), check that the
\* call was not cancelled, answer it and arm the ACK timer.
StartRingback(s) ==
    /\ answerer[s] = "warming"
    /\ IF EarlyMedia
       THEN /\ answerer' = [answerer EXCEPT ![s] = IF session[s].processing THEN "waiting" ELSE "ringback"]
            /\ session' = [Marked(session, session[s].id, "early-media") EXCEPT ![s].processing = TRUE]
       ELSE /\ answerer' = [answerer EXCEPT ![s] = "waiting"]
            /\ UNCHANGED session
    /\ UNCHANGED <<calls, nextPort, leased, greeter, talking, timers>>

EndRingback(s) ==
    /\ answerer[s] \in {"ringback", "waiting"}
    /\ answerer' = [answerer EXCEPT ![s] = IF Cancelled(s) THEN "quit" ELSE "checked"]
    /\ session' = [session EXCEPT ![s].processing = @ /\ answerer[s] # "ringback"]
    /\ UNCHANGED <<calls, nextPort, leased, greeter, talking, timers>>

Answer(s) ==
    /\ answerer[s] = "checked"
    /\ answerer' = [answerer EXCEPT ![s] = "answered"]
    /\ session' = Marked(session, session[s].id, "answered")
    /\ timers' = [timers EXCEPT ![s] = [t \in Timer |-> IF t = "unacked" THEN "armed" ELSE @[t]]]
    /\ UNCHANGED <<calls, nextPort, leased, greeter, talking>>

\* playGreeting: once per session, and not while something else is speaking.
StartGreeting(s) ==
    /\ greeter[s] = "spawned"
    /\ IF session[s].processing
       THEN /\ greeter' = [greeter EXCEPT ![s] = "quit"]
            /\ session' = [session EXCEPT ![s].greeted = TRUE]
       ELSE /\ greeter' = [greeter EXCEPT ![s] = "playing"]
            /\ session' = [Marked(session, session[s].id, "greeting")
                             EXCEPT ![s].greeted = TRUE, ![s].processing = TRUE]
    /\ UNCHANGED <<calls, nextPort, leased, answerer, talking, timers>>

EndGreeting(s) ==
    /\ greeter[s] = "playing"
    /\ greeter' = [greeter EXCEPT ![s] = "quit"]
    /\ session' = [Marked(session, session[s].id, "active") EXCEPT ![s].processing = FALSE]
    /\ UNCHANGED <<calls, nextPort, leased, answerer, talking, timers>>

\* handleRTPPacket: the voice activity detector has an utterance and nothing
\* else speaks; it is answered by a goroutine of its own.
HearUtterance(s) ==
    /\ Bound(s) /\ ~session[s].processing
    /\ session' = [session EXCEPT ![s].processing = TRUE]
    /\ talking' = [talking EXCEPT ![s] = TRUE]
    /\ UNCHANGED <<calls, nextPort, leased, answerer, greeter, timers>>

EndUtterance(s) ==
    /\ talking[s]
    /\ session' = [session EXCEPT ![s].processing = FALSE]
    /\ talking' = [talking EXCEPT ![s] = FALSE]
    /\ UNCHANGED <<calls, nextPort, leased, answerer, greeter, timers>>

-----------------------------------------------------------------------------
\* A timer fires.  A timer the call's context stops is one that never fires;
\* when the context ends as it fires, the select may take either.
TimerFires(s, t) ==
    /\ timers[s][t] = "armed"
    /\ timers' = [timers EXCEPT ![s][t] = "fired"]
    /\ UNCHANGED <<calls, nextPort, leased, session, answerer, greeter, talking>>

\* expireUnackedSession looks at the phase it finds under the Call-ID; the
\* other two end what they find there.
ExpiresOnceActive(t, c) ==
    calls[c] # NoSession /\ session[calls[c]].phase = "active"

Expires(t, c) ==
    /\ calls[c] # NoSession
    /\ t = "unacked" => session[calls[c]].phase \in Unacknowledged

ExpireSession(s, t) ==
    LET c == session[s].id
    IN  /\ timers[s][t] = "fired"
        /\ timers' = [timers EXCEPT ![s][t] = "off"]
        /\ IF Expires(t, c)
           THEN /\ session' = Removed(session, c)
                /\ calls' = [calls EXCEPT ![c] = NoSession]
           ELSE UNCHANGED <<session, calls>>
        /\ UNCHANGED <<nextPort, leased, answerer, greeter, talking>>

-----------------------------------------------------------------------------
Goroutine(s) ==
    \/ ReleasePort(s) \/ CloseSocket(s)
    \/ StartRingback(s) \/ EndRingback(s) \/ Answer(s)
    \/ StartGreeting(s) \/ EndGreeting(s) \/ EndUtterance(s)
    \/ \E t \in Timer : ExpireSession(s, t)

EdgeNext ==
    \/ \E c \in CallId : HandleInvite(c)
    \/ \E s \in Session :
          \/ HandleACK(s) \/ HandleDialogEnd(s) \/ HearUtterance(s)
          \/ Goroutine(s) \/ \E t \in Timer : TimerFires(s, t)

\* Runnable goroutines run and the two timers of a stored session fire; peers
\* owe nothing, not even a BYE.
EdgeFairness ==
    \A s \in Session :
        /\ WF_edgeVars(ReleasePort(s)) /\ WF_edgeVars(CloseSocket(s))
        /\ WF_edgeVars(TimerFires(s, "overdue") /\ ~Cancelled(s))
        /\ WF_edgeVars(ExpireSession(s, "overdue"))

EdgeSpec == EdgeInit /\ [][EdgeNext]_edgeVars /\ EdgeFairness

-----------------------------------------------------------------------------
\* The type invariant of the edge's state.
EdgeTypeOK ==
    /\ calls \in [CallId -> Session \cup {NoSession}]
    /\ nextPort \in Port /\ leased \subseteq Port
    /\ session \in [Session ->
          [id : CallId \cup {NoSession},
           phase : Unacknowledged \cup {"none", "active", "greeting"},
           life : {"unborn", "live", "removed", "released", "closed"},
           port : Port \cup {0}, processing : BOOLEAN, greeted : BOOLEAN, acked : BOOLEAN]]
    /\ answerer \in [Session -> {"none", "warming", "ringback", "waiting", "checked", "answered", "quit"}]
    /\ greeter \in [Session -> {"none", "spawned", "playing", "quit"}]
    /\ talking \in [Session -> BOOLEAN]
    /\ timers \in [Session -> [Timer -> {"off", "armed", "fired"}]]

\* Whatever ends a call, and however many timers and messages end it at once,
\* the pool counts as leased exactly the ports of calls that did not release
\* theirs (none leaks, none is released twice under a later call), no two
\* bound sockets share a port, and a stored session is a live one.
PortsAccounted ==
    /\ leased = {session[s].port : s \in {k \in Session : session[k].life \in {"live", "removed"}}}
    /\ \A s, k \in Session : Bound(s) /\ Bound(k) /\ s # k => session[s].port # session[k].port
    /\ \A s \in Session : session[s].life = "live" <=> \E c \in CallId : calls[c] = s

\* VOICE_EDGE_MAX_SESSIONS bounds the calls in the table at every moment.
SessionLimit ==
    MaxSessions > 0 => Cardinality({c \in CallId : calls[c] # NoSession}) <= MaxSessions

\* Ringback, greeting and the answer to an utterance never speak over each
\* other on one call, and whoever speaks holds the session's flag.
OneVoice ==
    \A s \in Session :
        LET voices == {v \in {"ringback", "greeting", "utterance"} :
                          \/ v = "ringback" /\ answerer[s] = "ringback"
                          \/ v = "greeting" /\ greeter[s] = "playing"
                          \/ v = "utterance" /\ talking[s]}
        IN  /\ Cardinality(voices) <= 1
            /\ session[s].processing <=> voices # {}

\* A call whose Call-ID no other call used is active or greeting only after an
\* ACK of its own dialog, and once acknowledged it never falls back to a phase
\* in which CANCEL or the ACK timer could end it.
OnlyUser(s) == \A k \in Session \ {s} : session[k].id # session[s].id
AcknowledgedOnce ==
    \A s \in Session :
        session[s].id # NoSession /\ OnlyUser(s) =>
            (session[s].acked <=> session[s].phase \in {"active", "greeting"})

\* Calls that begin, end and speak at once keep the table, the ports, the limit
\* and the dialogs straight.
CallsAreKept == EdgeTypeOK /\ PortsAccounted /\ SessionLimit /\ OneVoice /\ AcknowledgedOnce

\* The call that holds a line: the one that leased its port and did not
\* release it yet.
Holder == [p \in Port |->
    IF p \in leased
    THEN CHOOSE s \in Session : session[s].life \in {"live", "removed"} /\ session[s].port = p
    ELSE NoSession]

\* The line a call took is given back in the end, whatever the caller does.
Lines == INSTANCE LineLease
            WITH Line <- Port, Call <- Session, Nobody <- NoSession, holder <- Holder
LinesAreLeased == Lines!LeaseSpec
=============================================================================
