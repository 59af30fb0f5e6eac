---------------------------- MODULE VoiceProofs -----------------------------
(***************************************************************************)
(* Proofs about the telephone side, for any number of calls, ports, turns, *)
(* attempts and registrations: the table of calls and the port pool of the *)
(* voice edge, which takes and gives back its lines as LineLease promises, its *)
(* registration with the provider, and the turns the API keeps of a call.  *)
(***************************************************************************)
EXTENDS VoiceEdge, VoiceRegister, VoiceTurn, TLAPS, SequenceTheorems, FiniteSetTheorems,
        WellFoundedInduction

-----------------------------------------------------------------------------
(* The table of calls and the port pool of the voice edge (VoiceEdge) *)

SessionRows ==
    [id : CallId \cup {NoSession},
     phase : Unacknowledged \cup {"none", "active", "greeting"},
     life : {"unborn", "live", "removed", "released", "closed"},
     port : Port \cup {0}, processing : BOOLEAN, greeted : BOOLEAN, acked : BOOLEAN]

(* The table holds a session under its own Call-ID, and every live one. *)
TableHolds ==
    /\ \A c \in CallId : calls[c] # NoSession =>
          session[calls[c]].life = "live" /\ session[calls[c]].id = c
    /\ \A s \in Session : session[s].life = "live" =>
          session[s].id \in CallId /\ calls[session[s].id] = s

PortsHold ==
    /\ \A p \in Port : p \in leased <=>
          \E s \in Session : session[s].life \in {"live", "removed"} /\ session[s].port = p
    /\ \A s \in Session : Bound(s) => session[s].port \in Port
    /\ \A s, k \in Session : (Bound(s) /\ Bound(k) /\ session[s].port = session[k].port) => s = k

(* The flag of a session is held by the one voice that speaks. *)
VoiceHolds(s) ==
    /\ session[s].processing <=>
          (answerer[s] = "ringback" \/ greeter[s] = "playing" \/ talking[s])
    /\ ~(answerer[s] = "ringback" /\ greeter[s] = "playing")
    /\ ~(answerer[s] = "ringback" /\ talking[s])
    /\ ~(greeter[s] = "playing" /\ talking[s])

(* A session is acknowledged once it was answered, and greeted once it was
   acknowledged; goroutines run for sessions that were created. *)
DialogHolds(s) ==
    /\ session[s].acked => answerer[s] = "answered"
    /\ greeter[s] # "none" => session[s].acked

(* A number that was not used yet names nothing. *)
BirthHolds(s) ==
    /\ session[s].life = "unborn" =>
          /\ session[s].id = NoSession /\ ~session[s].processing /\ ~session[s].acked
          /\ answerer[s] = "none"
    /\ session[s].life # "unborn" => session[s].id \in CallId

(* No timer runs for it. *)
TimersHold ==
    /\ timers \in [Session -> [Timer -> {"off", "armed", "fired"}]]
    /\ \A s \in Session, t \in Timer : timers[s][t] # "off" => session[s].life # "unborn"

(* The invariant: the table and the ports name the same sessions, and each
   session's goroutines agree on its one voice. *)
EdgeInv ==
    /\ EdgeTypeOK /\ TimersHold
    /\ TableHolds
    /\ PortsHold
    /\ SessionLimit
    /\ \A s \in Session : VoiceHolds(s) /\ DialogHolds(s) /\ BirthHolds(s)
    /\ AcknowledgedOnce

AnswererStates == {"none", "warming", "ringback", "waiting", "checked", "answered", "quit"}

GreeterStates == {"none", "spawned", "playing", "quit"}

(* A set of numbers that has an element has a smallest one. *)
LEMMA SmallestNat ==
  ASSUME NEW S \in SUBSET Nat, S # {} PROVE \E n \in S : \A m \in S : n <= m
  <1> DEFINE R == OpToRel(<, Nat)
  <1>1. IsWellFoundedOn(R, Nat)
    BY NatLessThanWellFounded
  <1>2. \A a, b \in Nat : a < b => <<a, b>> \in R
    BY DEF OpToRel
  <1> HIDE DEF R
  <1>3. PICK n \in S : \A m \in S : ~(<<m, n>> \in R)
    BY <1>1, WFMin
  <1>4. \A m \in S : ~(m < n)
    BY <1>2, <1>3
  <1> QED BY <1>4

(* A fresh edge has no sessions and no leased ports. *)
LEMMA EdgeStarts == EdgeInit => EdgeInv
  <1> SUFFICES ASSUME EdgeInit PROVE EdgeInv
    OBVIOUS
  <1>1. /\ session \in [Session -> SessionRows]
        /\ \A s \in Session : session[s] = Unborn
    BY DEF EdgeInit, Unborn, SessionRows
  <1>2. calls \in [CallId -> Session \cup {NoSession}] /\ \A c \in CallId : calls[c] = NoSession
    BY DEF EdgeInit
  <1>3. EdgeTypeOK
    BY <1>1, <1>2, EdgeAssumption DEF EdgeInit, EdgeTypeOK, SessionRows, Port
  <1>4. TableHolds /\ PortsHold
    BY <1>1, <1>2 DEF EdgeInit, TableHolds, PortsHold, Unborn, Bound
  <1>5. SessionLimit
    <2>1. {c \in CallId : calls[c] # NoSession} = {}
      BY <1>2
    <2> QED BY <2>1, FS_EmptySet, EdgeAssumption DEF SessionLimit
  <1>6. \A s \in Session : VoiceHolds(s) /\ DialogHolds(s) /\ BirthHolds(s)
    BY <1>1 DEF EdgeInit, VoiceHolds, DialogHolds, BirthHolds, Unborn
  <1>7. AcknowledgedOnce
    BY <1>1 DEF AcknowledgedOnce, Unborn
  <1>8. TimersHold
    BY DEF EdgeInit, TimersHold
  <1> QED BY <1>3, <1>4, <1>5, <1>6, <1>7, <1>8 DEF EdgeInv

(* A step that neither stores nor ends a session. *)
LEMMA SameTable ==
  ASSUME EdgeInv, calls' = calls, leased' = leased,
         \A k \in Session : /\ session'[k].id = session[k].id
                            /\ session'[k].life = session[k].life
                            /\ session'[k].port = session[k].port
  PROVE  TableHolds' /\ PortsHold' /\ SessionLimit'
  <1>1. calls \in [CallId -> Session \cup {NoSession}]
    BY DEF EdgeInv, EdgeTypeOK
  <1>2. TableHolds'
    BY <1>1 DEF EdgeInv, TableHolds
  <1>3. \A k \in Session : Bound(k)' <=> Bound(k)
    BY DEF Bound
  <1>4. PortsHold'
    BY <1>3 DEF EdgeInv, PortsHold
  <1>5. SessionLimit'
    BY DEF EdgeInv, SessionLimit
  <1> QED BY <1>2, <1>4, <1>5

(* A step of one session's goroutines: of the other sessions it changes at most
   the phase of the one stored under its Call-ID. *)
LEMMA VoiceStep ==
  ASSUME EdgeInv, NEW s \in Session,
         calls' = calls, leased' = leased, nextPort' = nextPort,
         session' \in [Session -> SessionRows],
         answerer' \in [Session -> AnswererStates], greeter' \in [Session -> GreeterStates],
         talking' \in [Session -> BOOLEAN],
         TimersHold',
         \A k \in Session : /\ session'[k].id = session[k].id
                            /\ session'[k].life = session[k].life
                            /\ session'[k].port = session[k].port,
         \A k \in Session : k # s =>
            /\ session'[k].processing = session[k].processing
            /\ session'[k].acked = session[k].acked
            /\ answerer'[k] = answerer[k] /\ greeter'[k] = greeter[k] /\ talking'[k] = talking[k]
            /\ session'[k].phase # session[k].phase => session[k].id = session[s].id,
         VoiceHolds(s)', DialogHolds(s)', BirthHolds(s)',
         (OnlyUser(s) /\ session[s].id # NoSession) =>
            (session'[s].acked <=> session'[s].phase \in {"active", "greeting"})
  PROVE  EdgeInv'
  <1>1. EdgeTypeOK'
    BY DEF EdgeInv, EdgeTypeOK, SessionRows, AnswererStates, GreeterStates, TimersHold
  <1>2. TableHolds' /\ PortsHold' /\ SessionLimit'
    BY SameTable
  <1>3. ASSUME NEW k \in Session, k # s PROVE VoiceHolds(k)' /\ DialogHolds(k)' /\ BirthHolds(k)'
    BY <1>3 DEF EdgeInv, VoiceHolds, DialogHolds, BirthHolds
  <1>4. ASSUME NEW k \in Session, session'[k].id # NoSession, OnlyUser(k)'
        PROVE  session'[k].acked <=> session'[k].phase \in {"active", "greeting"}
    <2>1. OnlyUser(k) /\ session[k].id # NoSession
      BY <1>4 DEF OnlyUser
    <2>2. CASE k = s
      BY <2>1, <2>2
    <2>3. CASE k # s
      <3>1. session[k].id # session[s].id
        BY <2>1, <2>3 DEF OnlyUser
      <3> QED BY <2>1, <2>3, <3>1 DEF EdgeInv, AcknowledgedOnce
    <2> QED BY <2>2, <2>3
  <1> QED BY <1>1, <1>2, <1>3, <1>4 DEF EdgeInv, AcknowledgedOnce

(* What marking the session stored under a Call-ID changes: its phase, of
   every session of that Call-ID. *)
LEMMA MarkedIs ==
  ASSUME EdgeInv, NEW c \in CallId, NEW ph \in Unacknowledged \cup {"active", "greeting"}
  PROVE  /\ Marked(session, c, ph) \in [Session -> SessionRows]
         /\ \A k \in Session :
               /\ Marked(session, c, ph)[k].id = session[k].id
               /\ Marked(session, c, ph)[k].life = session[k].life
               /\ Marked(session, c, ph)[k].port = session[k].port
               /\ Marked(session, c, ph)[k].processing = session[k].processing
               /\ Marked(session, c, ph)[k].acked = session[k].acked
               /\ Marked(session, c, ph)[k].phase \in {session[k].phase, ph}
               /\ Marked(session, c, ph)[k].phase # session[k].phase => session[k].id = c
  <1>1. session \in [Session -> SessionRows] /\ calls \in [CallId -> Session \cup {NoSession}]
    BY DEF EdgeInv, EdgeTypeOK, SessionRows
  <1>2. CASE calls[c] = NoSession
    BY <1>1, <1>2 DEF Marked
  <1>3. CASE calls[c] # NoSession
    <2>1. calls[c] \in Session /\ session[calls[c]].id = c
      BY <1>1, <1>3 DEF EdgeInv, TableHolds
    <2>2. Marked(session, c, ph) = [session EXCEPT ![calls[c]].phase = ph]
      BY <1>3 DEF Marked
    <2> QED BY <1>1, <2>1, <2>2 DEF SessionRows
  <1> QED BY <1>2, <1>3

(* The types in the form the steps use. *)
EdgeTypes ==
    /\ session \in [Session -> SessionRows] /\ answerer \in [Session -> AnswererStates]
    /\ greeter \in [Session -> GreeterStates] /\ talking \in [Session -> BOOLEAN]
    /\ TimersHold

(* The invariant gives the types. *)
LEMMA TypesOf == EdgeInv => EdgeTypes
  BY DEF EdgeInv, EdgeTypeOK, EdgeTypes, SessionRows, AnswererStates, GreeterStates

(* A session whose flag is set or reset. *)
LEMMA FlagIs ==
  ASSUME NEW m \in [Session -> SessionRows], NEW s \in Session, NEW p \in BOOLEAN
  PROVE  /\ [m EXCEPT ![s].processing = p] \in [Session -> SessionRows]
         /\ \A k \in Session :
               /\ [m EXCEPT ![s].processing = p][k].id = m[k].id
               /\ [m EXCEPT ![s].processing = p][k].life = m[k].life
               /\ [m EXCEPT ![s].processing = p][k].port = m[k].port
               /\ k # s => [m EXCEPT ![s].processing = p][k].processing = m[k].processing
               /\ [m EXCEPT ![s].processing = p][k].acked = m[k].acked
               /\ [m EXCEPT ![s].processing = p][k].phase = m[k].phase
         /\ [m EXCEPT ![s].processing = p][s].processing = p
  <1> DEFINE row == [m[s] EXCEPT !.processing = p]
  <1>1. m[s] \in SessionRows
    OBVIOUS
  <1>2. row \in SessionRows
    BY <1>1 DEF SessionRows
  <1>3. /\ row.id = m[s].id /\ row.life = m[s].life /\ row.port = m[s].port
        /\ row.acked = m[s].acked /\ row.phase = m[s].phase
    BY <1>1 DEF SessionRows
  <1>4. row.processing = p
    BY <1>1 DEF SessionRows
  <1>5. [m EXCEPT ![s].processing = p] = [m EXCEPT ![s] = row]
    OBVIOUS
  <1> HIDE DEF row
  <1>6. /\ [m EXCEPT ![s] = row] \in [Session -> SessionRows]
        /\ \A k \in Session : [m EXCEPT ![s] = row][k] = IF k = s THEN row ELSE m[k]
    BY <1>2
  <1> QED BY <1>3, <1>4, <1>5, <1>6

(* The acknowledgement of a phase, as AcknowledgedOnce has it. *)
LEMMA AcknowledgedIs ==
  ASSUME EdgeInv, NEW s \in Session, OnlyUser(s), session[s].id # NoSession
  PROVE  session[s].acked <=> session[s].phase \in {"active", "greeting"}
  BY DEF EdgeInv, AcknowledgedOnce

(* An ACK marks its session acknowledged, and spawns its greeting. *)
LEMMA AckStep == ASSUME EdgeInv, NEW s \in Session, HandleACK(s) PROVE EdgeInv'
  <1>1. /\ EdgeTypes /\ VoiceHolds(s) /\ DialogHolds(s) /\ BirthHolds(s)
    BY TypesOf DEF EdgeInv
  <1>2. /\ answerer[s] = "answered" /\ session[s].life = "live"
        /\ UNCHANGED <<calls, nextPort, leased, answerer, talking, timers>>
        /\ session' = [session EXCEPT ![s].phase = "active", ![s].acked = TRUE]
        /\ greeter' = [greeter EXCEPT ![s] = IF greeter[s] = "none" THEN "spawned" ELSE greeter[s]]
    BY DEF HandleACK, InDialog
  <1> DEFINE row == [session[s] EXCEPT !.phase = "active", !.acked = TRUE]
  <1>3. row \in SessionRows /\ row.id = session[s].id /\ row.life = session[s].life
        /\ row.port = session[s].port /\ row.processing = session[s].processing
        /\ row.phase = "active" /\ row.acked = TRUE
    <2>1. session[s] \in SessionRows
      BY <1>1 DEF EdgeTypes
    <2>2. row \in SessionRows
      BY <2>1 DEF SessionRows
    <2>3. row.id = session[s].id /\ row.life = session[s].life
          /\ row.port = session[s].port /\ row.phase = "active"
      BY <2>1 DEF SessionRows
    <2>4. row.processing = session[s].processing
      BY <2>1 DEF SessionRows
    <2>5. row.acked = TRUE
      BY <2>1 DEF SessionRows
    <2> QED BY <2>2, <2>3, <2>4, <2>5
  <1>4. session' = [session EXCEPT ![s] = row]
    BY <1>1, <1>2 DEF EdgeTypes, SessionRows
  <1> HIDE DEF row
  <1>5. /\ session' \in [Session -> SessionRows]
        /\ \A k \in Session : session'[k] = IF k = s THEN row ELSE session[k]
    BY <1>1, <1>3, <1>4 DEF EdgeTypes
  <1>6. /\ greeter' \in [Session -> GreeterStates]
        /\ \A k \in Session : k # s => greeter'[k] = greeter[k]
        /\ greeter'[s] \in {greeter[s], "spawned"}
        /\ greeter'[s] = "playing" <=> greeter[s] = "playing"
    BY <1>1, <1>2 DEF EdgeTypes, GreeterStates
  <1>7. VoiceHolds(s)' /\ DialogHolds(s)' /\ BirthHolds(s)'
    BY <1>1, <1>2, <1>3, <1>5, <1>6 DEF VoiceHolds, DialogHolds, BirthHolds
  <1>8. \A k \in Session : /\ session'[k].id = session[k].id
                           /\ session'[k].life = session[k].life
                           /\ session'[k].port = session[k].port
    BY <1>3, <1>5
  <1>9. TimersHold'
    BY <1>1, <1>2, <1>8 DEF EdgeTypes, TimersHold
  <1> QED BY <1>1, <1>2, <1>3, <1>5, <1>6, <1>7, <1>8, <1>9, VoiceStep DEF EdgeTypes

(* The goroutine that rings and answers holds the voice while it rings. *)
LEMMA AnswererSteps ==
  ASSUME EdgeInv, NEW s \in Session, StartRingback(s) \/ EndRingback(s) \/ Answer(s)
  PROVE EdgeInv'
  <1>1. /\ EdgeTypes /\ VoiceHolds(s) /\ DialogHolds(s) /\ BirthHolds(s)
    BY TypesOf DEF EdgeInv
  <1>2. /\ answerer[s] \in {"warming", "ringback", "waiting", "checked"}
        /\ UNCHANGED <<calls, nextPort, leased, greeter, talking>>
    BY DEF StartRingback, EndRingback, Answer
  <1>3. ~session[s].acked /\ session[s].life # "unborn" /\ session[s].id \in CallId
        /\ greeter[s] = "none"
    BY <1>1, <1>2 DEF DialogHolds, BirthHolds
  <1>4. \A k \in Session : session[k].processing \in BOOLEAN /\ session[k] \in SessionRows
    BY <1>1 DEF EdgeTypes, SessionRows
  <1> DEFINE Outcome(at, p) ==
          /\ answerer' = [answerer EXCEPT ![s] = at]
          /\ session' \in [Session -> SessionRows]
          /\ \A k \in Session :
               /\ session'[k].id = session[k].id
               /\ session'[k].life = session[k].life
               /\ session'[k].port = session[k].port
               /\ k # s => session'[k].processing = session[k].processing
               /\ session'[k].acked = session[k].acked
               /\ session'[k].phase \in {session[k].phase, "early-media", "answered"}
               /\ session'[k].phase # session[k].phase => session[k].id = session[s].id
          /\ session'[s].processing = p
          /\ at # "none"
          /\ (at = "ringback") => (p /\ ~session[s].processing)
          /\ (at # "ringback" /\ answerer[s] # "ringback") => p = session[s].processing
          /\ (at # "ringback" /\ answerer[s] = "ringback") => ~p
  <1>6. PICK at \in AnswererStates, p \in BOOLEAN : Outcome(at, p)
    <2>1. CASE StartRingback(s) /\ EarlyMedia
      <3> DEFINE m == Marked(session, session[s].id, "early-media")
                 at == IF session[s].processing THEN "waiting" ELSE "ringback"
      <3>1. /\ m \in [Session -> SessionRows]
            /\ \A k \in Session :
               /\ m[k].id = session[k].id
               /\ m[k].life = session[k].life
               /\ m[k].port = session[k].port
               /\ m[k].processing = session[k].processing
               /\ m[k].acked = session[k].acked
               /\ m[k].phase \in {session[k].phase, "early-media"}
               /\ m[k].phase # session[k].phase => session[k].id = session[s].id
        BY <1>3, MarkedIs DEF Unacknowledged
      <3>2. /\ answerer' = [answerer EXCEPT ![s] = at] /\ answerer[s] = "warming"
            /\ session' = [m EXCEPT ![s].processing = TRUE]
        BY <2>1 DEF StartRingback
      <3> HIDE DEF m
      <3>3. /\ session' \in [Session -> SessionRows]
            /\ \A k \in Session :
               /\ session'[k].id = m[k].id
               /\ session'[k].life = m[k].life
               /\ session'[k].port = m[k].port
               /\ k # s => session'[k].processing = m[k].processing
               /\ session'[k].acked = m[k].acked
               /\ session'[k].phase = m[k].phase
            /\ session'[s].processing = TRUE
        <4> DEFINE yes == TRUE
        <4>1. yes \in BOOLEAN /\ session' = [m EXCEPT ![s].processing = yes]
          BY <3>2
        <4> HIDE DEF yes
        <4>2. /\ session' \in [Session -> SessionRows]
              /\ \A k \in Session :
                 /\ session'[k].id = m[k].id
                 /\ session'[k].life = m[k].life
                 /\ session'[k].port = m[k].port
                 /\ k # s => session'[k].processing = m[k].processing
                 /\ session'[k].acked = m[k].acked
                 /\ session'[k].phase = m[k].phase
              /\ session'[s].processing = yes
          BY <3>1, <4>1, FlagIs
        <4> QED BY <4>2 DEF yes
      <3>4. at \in AnswererStates /\ (at = "ringback" <=> ~session[s].processing) /\ at # "none"
        BY DEF AnswererStates
      <3> HIDE DEF at
      <3>5. Outcome(at, TRUE)
        <4>1. (at # "ringback" /\ answerer[s] # "ringback") => TRUE = session[s].processing
          BY <1>4, <3>4
        <4>2. \A k \in Session :
               /\ session'[k].id = session[k].id
               /\ session'[k].life = session[k].life
               /\ session'[k].port = session[k].port
               /\ k # s => session'[k].processing = session[k].processing
               /\ session'[k].acked = session[k].acked
               /\ session'[k].phase \in {session[k].phase, "early-media", "answered"}
               /\ session'[k].phase # session[k].phase => session[k].id = session[s].id
          BY <3>1, <3>3
        <4> QED BY <3>2, <3>3, <3>4, <4>1, <4>2
      <3> QED BY <3>4, <3>5
    <2>2. CASE (StartRingback(s) /\ ~EarlyMedia)
      BY <1>1, <1>2, <1>4, <2>2 DEF StartRingback, EdgeTypes, AnswererStates
    <2>3. CASE EndRingback(s)
      <3> DEFINE at == IF Cancelled(s) THEN "quit" ELSE "checked"
                 p == session[s].processing /\ answerer[s] # "ringback"
      <3>1. /\ answerer' = [answerer EXCEPT ![s] = at]
            /\ session' = [session EXCEPT ![s].processing = p]
        BY <2>3 DEF EndRingback
      <3>2. at \in {"quit", "checked"} /\ p \in BOOLEAN /\ (answerer[s] = "ringback" => ~p)
            /\ (answerer[s] # "ringback" => p = session[s].processing)
        BY <1>4
      <3> HIDE DEF at, p
      <3>3. /\ session' \in [Session -> SessionRows]
            /\ \A k \in Session :
               /\ session'[k].id = session[k].id
               /\ session'[k].life = session[k].life
               /\ session'[k].port = session[k].port
               /\ k # s => session'[k].processing = session[k].processing
               /\ session'[k].acked = session[k].acked
               /\ session'[k].phase = session[k].phase
            /\ session'[s].processing = p
        BY <1>1, <3>1, <3>2, FlagIs DEF EdgeTypes
      <3> QED BY <3>1, <3>2, <3>3 DEF AnswererStates
    <2>4. CASE Answer(s)
      <3> DEFINE m == Marked(session, session[s].id, "answered")
      <3>1. /\ m \in [Session -> SessionRows]
            /\ \A k \in Session :
               /\ m[k].id = session[k].id
               /\ m[k].life = session[k].life
               /\ m[k].port = session[k].port
               /\ m[k].processing = session[k].processing
               /\ m[k].acked = session[k].acked
               /\ m[k].phase \in {session[k].phase, "answered"}
               /\ m[k].phase # session[k].phase => session[k].id = session[s].id
        BY <1>3, MarkedIs DEF Unacknowledged
      <3>2. /\ answerer' = [answerer EXCEPT ![s] = "answered"] /\ answerer[s] = "checked"
            /\ session' = m
        BY <2>4 DEF Answer
      <3> HIDE DEF m
      <3> QED BY <1>4, <3>1, <3>2 DEF AnswererStates
    <2> QED BY <2>1, <2>2, <2>3, <2>4
  <1>5. TimersHold'
    <2>1. CASE UNCHANGED timers
      BY <1>1, <1>6, <2>1 DEF EdgeTypes, TimersHold
    <2>2. CASE Answer(s)
      <3> DEFINE row == [t \in Timer |-> IF t = "unacked" THEN "armed" ELSE timers[s][t]]
      <3>1. timers' = [timers EXCEPT ![s] = row]
        BY <2>2 DEF Answer
      <3>2. row \in [Timer -> {"off", "armed", "fired"}]
        BY <1>1 DEF EdgeTypes, TimersHold
      <3> HIDE DEF row
      <3> QED BY <1>1, <1>3, <1>6, <3>1, <3>2 DEF EdgeTypes, TimersHold
    <2> QED BY <2>1, <2>2 DEF StartRingback, EndRingback
  <1>7. /\ answerer' \in [Session -> AnswererStates]
        /\ \A k \in Session : answerer'[k] = IF k = s THEN at ELSE answerer[k]
    BY <1>1, <1>6 DEF EdgeTypes
  <1>8. VoiceHolds(s)' /\ DialogHolds(s)' /\ BirthHolds(s)'
    BY <1>1, <1>2, <1>3, <1>6, <1>7 DEF VoiceHolds, DialogHolds, BirthHolds
  <1>9. (OnlyUser(s) /\ session[s].id # NoSession) =>
            (session'[s].acked <=> session'[s].phase \in {"active", "greeting"})
    BY <1>3, <1>6, AcknowledgedIs
  <1>10. greeter' \in [Session -> GreeterStates] /\ talking' \in [Session -> BOOLEAN]
    BY <1>1, <1>2 DEF EdgeTypes
  <1> QED BY <1>2, <1>5, <1>6, <1>7, <1>8, <1>9, <1>10, VoiceStep

(* A session that was greeted is otherwise the session it was. *)
LEMMA GreetedIs ==
  ASSUME NEW m \in [Session -> SessionRows], NEW s \in Session
  PROVE  /\ [m EXCEPT ![s].greeted = TRUE] \in [Session -> SessionRows]
         /\ \A k \in Session :
               /\ [m EXCEPT ![s].greeted = TRUE][k].id = m[k].id
               /\ [m EXCEPT ![s].greeted = TRUE][k].life = m[k].life
               /\ [m EXCEPT ![s].greeted = TRUE][k].port = m[k].port
               /\ [m EXCEPT ![s].greeted = TRUE][k].processing = m[k].processing
               /\ [m EXCEPT ![s].greeted = TRUE][k].acked = m[k].acked
               /\ [m EXCEPT ![s].greeted = TRUE][k].phase = m[k].phase
  <1> DEFINE row == [m[s] EXCEPT !.greeted = TRUE]
  <1>1. m[s] \in SessionRows
    OBVIOUS
  <1>2. row \in SessionRows
    BY <1>1 DEF SessionRows
  <1>3. /\ row.id = m[s].id /\ row.life = m[s].life /\ row.port = m[s].port
        /\ row.phase = m[s].phase
    BY <1>1 DEF SessionRows
  <1>4. row.processing = m[s].processing
    BY <1>1 DEF SessionRows
  <1>5. row.acked = m[s].acked
    BY <1>1 DEF SessionRows
  <1>6. [m EXCEPT ![s].greeted = TRUE] = [m EXCEPT ![s] = row]
    OBVIOUS
  <1> HIDE DEF row
  <1>7. /\ [m EXCEPT ![s] = row] \in [Session -> SessionRows]
        /\ \A k \in Session : [m EXCEPT ![s] = row][k] = IF k = s THEN row ELSE m[k]
    BY <1>2
  <1> QED BY <1>3, <1>4, <1>5, <1>6, <1>7

(* What is known of the sessions after a step that speaks or falls silent. *)
Spoken(s, p) ==
    /\ session' \in [Session -> SessionRows]
    /\ \A k \in Session :
          /\ session'[k].id = session[k].id
          /\ session'[k].life = session[k].life
          /\ session'[k].port = session[k].port
          /\ k # s => session'[k].processing = session[k].processing
          /\ session'[k].acked = session[k].acked
          /\ session'[k].phase # session[k].phase => session[k].id = session[s].id
    /\ session'[s].processing = p
    /\ session'[s].phase \in {session[s].phase, "active", "greeting"}

(* A step by which the greeting or an answer takes or gives up the voice. *)
LEMMA SpeakStep ==
  ASSUME EdgeInv, NEW s \in Session, NEW p \in BOOLEAN, Spoken(s, p),
         NEW g \in GreeterStates, NEW t \in BOOLEAN,
         greeter' = [greeter EXCEPT ![s] = g], talking' = [talking EXCEPT ![s] = t],
         UNCHANGED <<calls, nextPort, leased, answerer, timers>>,
         session'[s].phase # session[s].phase => session[s].acked,
         p <=> (answerer[s] = "ringback" \/ g = "playing" \/ t),
         ~(answerer[s] = "ringback" /\ g = "playing"),
         ~(answerer[s] = "ringback" /\ t), ~(g = "playing" /\ t),
         g # "none" => session[s].acked,
         session[s].life # "unborn"
  PROVE  EdgeInv'
  <1>1. /\ EdgeTypes /\ VoiceHolds(s) /\ DialogHolds(s) /\ BirthHolds(s)
    BY TypesOf DEF EdgeInv
  <1>2. /\ greeter' \in [Session -> GreeterStates] /\ greeter'[s] = g
        /\ \A k \in Session : k # s => greeter'[k] = greeter[k]
    BY <1>1 DEF EdgeTypes
  <1>3. /\ talking' \in [Session -> BOOLEAN] /\ (talking'[s] <=> t)
        /\ \A k \in Session : k # s => talking'[k] = talking[k]
    BY <1>1 DEF EdgeTypes
  <1>4. VoiceHolds(s)'
    BY <1>2, <1>3 DEF VoiceHolds, Spoken
  <1>5. DialogHolds(s)' /\ BirthHolds(s)'
    BY <1>1, <1>2 DEF DialogHolds, BirthHolds, Spoken
  <1>6. (OnlyUser(s) /\ session[s].id # NoSession) =>
            (session'[s].acked <=> session'[s].phase \in {"active", "greeting"})
    <2>1. session'[s].acked = session[s].acked
      BY DEF Spoken
    <2>2. CASE session'[s].phase = session[s].phase
      BY <2>1, <2>2, AcknowledgedIs
    <2>3. CASE session'[s].phase # session[s].phase
      BY <2>1, <2>3 DEF Spoken
    <2> QED BY <2>2, <2>3
  <1>7. \A k \in Session : /\ session'[k].id = session[k].id
                           /\ session'[k].life = session[k].life
                           /\ session'[k].port = session[k].port
    BY DEF Spoken
  <1>8. \A k \in Session : k # s =>
            /\ session'[k].processing = session[k].processing
            /\ session'[k].acked = session[k].acked
            /\ answerer'[k] = answerer[k] /\ greeter'[k] = greeter[k] /\ talking'[k] = talking[k]
            /\ session'[k].phase # session[k].phase => session[k].id = session[s].id
    BY <1>2, <1>3 DEF Spoken
  <1>9. /\ answerer' \in [Session -> AnswererStates] /\ session' \in [Session -> SessionRows]
        /\ TimersHold'
    BY <1>1 DEF EdgeTypes, Spoken, TimersHold
  <1> QED BY <1>2, <1>3, <1>4, <1>5, <1>6, <1>7, <1>8, <1>9, VoiceStep

(* The greeting and the answers to utterances are such steps. *)
LEMMA SpeakingSteps ==
  ASSUME EdgeInv, NEW s \in Session,
         StartGreeting(s) \/ EndGreeting(s) \/ HearUtterance(s) \/ EndUtterance(s)
  PROVE EdgeInv'
  <1>1. /\ EdgeTypes /\ VoiceHolds(s) /\ DialogHolds(s) /\ BirthHolds(s)
    BY TypesOf DEF EdgeInv
  <1>2. UNCHANGED <<calls, nextPort, leased, answerer, timers>>
    BY DEF StartGreeting, EndGreeting, HearUtterance, EndUtterance
  <1>3. session[s].life # "unborn" /\ session[s].id \in CallId
    BY <1>1 DEF StartGreeting, EndGreeting, HearUtterance, EndUtterance, Bound, DialogHolds,
                BirthHolds, VoiceHolds
  <1>4. /\ greeter[s] \in GreeterStates /\ talking[s] \in BOOLEAN
        /\ session \in [Session -> SessionRows] /\ session[s].processing \in BOOLEAN
        /\ greeter = [greeter EXCEPT ![s] = greeter[s]]
        /\ talking = [talking EXCEPT ![s] = talking[s]]
    BY <1>1 DEF EdgeTypes, SessionRows
  <1> DEFINE yes == TRUE
             no == FALSE
  <1>5. yes \in BOOLEAN /\ no \in BOOLEAN /\ yes = TRUE /\ no = FALSE
    OBVIOUS
  <1>0. yes \in BOOLEAN /\ no \in BOOLEAN
    OBVIOUS
  <1> HIDE DEF yes, no
  <1>6. CASE StartGreeting(s) /\ session[s].processing
    <2>1. /\ greeter' = [greeter EXCEPT ![s] = "quit"] /\ greeter[s] = "spawned"
          /\ session' = [session EXCEPT ![s].greeted = TRUE] /\ talking' = talking
      BY <1>6 DEF StartGreeting
    <2>2. Spoken(s, session[s].processing)
      BY <1>4, <2>1, GreetedIs DEF Spoken
    <2>3. session[s].acked /\ session'[s].phase = session[s].phase
      BY <1>1, <1>4, <2>1, GreetedIs DEF DialogHolds
    <2>4. talking' = [talking EXCEPT ![s] = talking[s]]
      BY <1>4, <2>1
    <2>5. session[s].processing <=> (answerer[s] = "ringback" \/ "quit" = "playing" \/ talking[s])
      BY <1>1, <2>1 DEF VoiceHolds
    <2>6. ~(answerer[s] = "ringback" /\ talking[s]) /\ "quit" \in GreeterStates /\ "quit" # "playing"
      BY <1>1 DEF VoiceHolds, GreeterStates
    <2> QED BY <1>2, <1>3, <1>4, <2>1, <2>2, <2>3, <2>4, <2>5, <2>6, SpeakStep
  <1>7. CASE StartGreeting(s) /\ ~session[s].processing
    <2> DEFINE m == Marked(session, session[s].id, "greeting")
    <2>1. /\ m \in [Session -> SessionRows]
          /\ \A k \in Session :
             /\ m[k].id = session[k].id
             /\ m[k].life = session[k].life
             /\ m[k].port = session[k].port
             /\ m[k].processing = session[k].processing
             /\ m[k].acked = session[k].acked
             /\ m[k].phase \in {session[k].phase, "greeting"}
             /\ m[k].phase # session[k].phase => session[k].id = session[s].id
      BY <1>3, MarkedIs
    <2>2. /\ greeter' = [greeter EXCEPT ![s] = "playing"] /\ greeter[s] = "spawned"
          /\ session' = [m EXCEPT ![s].greeted = TRUE, ![s].processing = yes] /\ talking' = talking
      BY <1>5, <1>7 DEF StartGreeting
    <2> DEFINE n == [m EXCEPT ![s].greeted = TRUE]
    <2> HIDE DEF m
    <2>3. n \in [Session -> SessionRows]
      BY <2>1, GreetedIs
    <2>4. session' = [n EXCEPT ![s].processing = yes]
      BY <2>1, <2>2 DEF SessionRows
    <2>5. \A k \in Session :
               /\ n[k].id = m[k].id
               /\ n[k].life = m[k].life
               /\ n[k].port = m[k].port
               /\ n[k].processing = m[k].processing
               /\ n[k].acked = m[k].acked
               /\ n[k].phase = m[k].phase
      BY <2>1, GreetedIs
    <2> HIDE DEF n
    <2>6. Spoken(s, yes)
      <3>1. /\ session' \in [Session -> SessionRows]
            /\ \A k \in Session :
               /\ session'[k].id = n[k].id
               /\ session'[k].life = n[k].life
               /\ session'[k].port = n[k].port
               /\ k # s => session'[k].processing = n[k].processing
               /\ session'[k].acked = n[k].acked
               /\ session'[k].phase = n[k].phase
            /\ session'[s].processing = yes
        BY <1>0, <2>3, <2>4, FlagIs
      <3> QED BY <2>1, <2>5, <3>1 DEF Spoken
    <2>7. session[s].acked
      BY <1>1, <2>2 DEF DialogHolds
    <2>8. talking' = [talking EXCEPT ![s] = talking[s]]
      BY <1>4, <2>2
    <2>9. ~talking[s] /\ answerer[s] # "ringback"
      BY <1>1, <1>7 DEF VoiceHolds
    <2>10. "playing" \in GreeterStates /\ "playing" # "none"
      BY DEF GreeterStates
    <2> QED BY <1>2, <1>3, <1>4, <1>5, <2>2, <2>6, <2>7, <2>8, <2>9, <2>10, SpeakStep
  <1>8. CASE EndGreeting(s)
    <2> DEFINE m == Marked(session, session[s].id, "active")
    <2>1. /\ m \in [Session -> SessionRows]
          /\ \A k \in Session :
             /\ m[k].id = session[k].id
             /\ m[k].life = session[k].life
             /\ m[k].port = session[k].port
             /\ m[k].processing = session[k].processing
             /\ m[k].acked = session[k].acked
             /\ m[k].phase \in {session[k].phase, "active"}
             /\ m[k].phase # session[k].phase => session[k].id = session[s].id
      BY <1>3, MarkedIs
    <2>2. /\ greeter' = [greeter EXCEPT ![s] = "quit"] /\ greeter[s] = "playing"
          /\ session' = [m EXCEPT ![s].processing = no] /\ talking' = talking
      BY <1>5, <1>8 DEF EndGreeting
    <2> HIDE DEF m
    <2>3. Spoken(s, no)
      BY <1>5, <2>1, <2>2, FlagIs DEF Spoken
    <2>4. session[s].acked
      BY <1>1, <2>2 DEF DialogHolds
    <2>5. talking' = [talking EXCEPT ![s] = talking[s]]
      BY <1>4, <2>2
    <2>6. ~talking[s] /\ answerer[s] # "ringback"
      BY <1>1, <2>2 DEF VoiceHolds
    <2>7. "quit" \in GreeterStates /\ "quit" # "playing"
      BY DEF GreeterStates
    <2> QED BY <1>2, <1>3, <1>4, <1>5, <2>2, <2>3, <2>4, <2>5, <2>6, <2>7, SpeakStep
  <1>9. CASE HearUtterance(s)
    <2>1. /\ session' = [session EXCEPT ![s].processing = yes] /\ talking' = [talking EXCEPT ![s] = yes]
          /\ greeter' = greeter /\ ~session[s].processing
      BY <1>5, <1>9 DEF HearUtterance
    <2>2. Spoken(s, yes) /\ session'[s].phase = session[s].phase
      <3>1. /\ session' \in [Session -> SessionRows]
            /\ \A k \in Session :
               /\ session'[k].id = session[k].id
               /\ session'[k].life = session[k].life
               /\ session'[k].port = session[k].port
               /\ k # s => session'[k].processing = session[k].processing
               /\ session'[k].acked = session[k].acked
               /\ session'[k].phase = session[k].phase
            /\ session'[s].processing = yes
        <4>1. session \in [Session -> SessionRows] /\ session' = [session EXCEPT ![s].processing = yes]
          BY <1>4, <2>1
        <4> QED BY <1>0, <4>1, FlagIs
      <3> QED BY <3>1 DEF Spoken
    <2>3. greeter' = [greeter EXCEPT ![s] = greeter[s]]
      BY <1>4, <2>1
    <2>4. /\ answerer[s] # "ringback" /\ greeter[s] # "playing"
          /\ greeter[s] # "none" => session[s].acked
      BY <1>1, <2>1 DEF VoiceHolds, DialogHolds
    <2> QED BY <1>2, <1>3, <1>4, <1>5, <2>1, <2>2, <2>3, <2>4, SpeakStep
  <1>10. CASE EndUtterance(s)
    <2>1. /\ session' = [session EXCEPT ![s].processing = no] /\ talking' = [talking EXCEPT ![s] = no]
          /\ greeter' = greeter /\ talking[s]
      BY <1>5, <1>10 DEF EndUtterance
    <2>2. Spoken(s, no) /\ session'[s].phase = session[s].phase
      <3>1. /\ session' \in [Session -> SessionRows]
            /\ \A k \in Session :
               /\ session'[k].id = session[k].id
               /\ session'[k].life = session[k].life
               /\ session'[k].port = session[k].port
               /\ k # s => session'[k].processing = session[k].processing
               /\ session'[k].acked = session[k].acked
               /\ session'[k].phase = session[k].phase
            /\ session'[s].processing = no
        BY <1>4, <1>5, <2>1, FlagIs
      <3> QED BY <3>1 DEF Spoken
    <2>3. greeter' = [greeter EXCEPT ![s] = greeter[s]]
      BY <1>4, <2>1
    <2>4. /\ answerer[s] # "ringback" /\ greeter[s] # "playing"
          /\ greeter[s] # "none" => session[s].acked
      BY <1>1, <2>1 DEF VoiceHolds, DialogHolds
    <2> QED BY <1>2, <1>3, <1>4, <1>5, <2>1, <2>2, <2>3, <2>4, SpeakStep
  <1> QED BY <1>6, <1>7, <1>8, <1>9, <1>10

(* A timer that fires changes the timers alone. *)
LEMMA TimerStep ==
  ASSUME EdgeInv, NEW s \in Session, NEW t \in Timer, TimerFires(s, t) PROVE EdgeInv'
  <1>1. /\ EdgeTypes /\ VoiceHolds(s) /\ DialogHolds(s) /\ BirthHolds(s)
    BY TypesOf DEF EdgeInv
  <1>2. /\ UNCHANGED <<calls, nextPort, leased, session, answerer, greeter, talking>>
        /\ timers' = [timers EXCEPT ![s][t] = "fired"]
    BY DEF TimerFires
  <1>3. TimersHold'
    BY <1>1, <1>2 DEF EdgeTypes, TimersHold, TimerFires
  <1>4. VoiceHolds(s)' /\ DialogHolds(s)' /\ BirthHolds(s)'
    BY <1>1, <1>2 DEF VoiceHolds, DialogHolds, BirthHolds
  <1> QED BY <1>1, <1>2, <1>3, <1>4, VoiceStep, AcknowledgedIs DEF EdgeTypes

(* A session whose life goes on, everything else of it unchanged. *)
LEMMA LifeIs ==
  ASSUME NEW m \in [Session -> SessionRows], NEW s \in Session,
         NEW life \in {"live", "removed", "released", "closed"}
  PROVE  /\ [m EXCEPT ![s].life = life] \in [Session -> SessionRows]
         /\ \A k \in Session :
               /\ [m EXCEPT ![s].life = life][k].id = m[k].id
               /\ [m EXCEPT ![s].life = life][k].life = IF k = s THEN life ELSE m[k].life
               /\ [m EXCEPT ![s].life = life][k].port = m[k].port
               /\ [m EXCEPT ![s].life = life][k].processing = m[k].processing
               /\ [m EXCEPT ![s].life = life][k].acked = m[k].acked
               /\ [m EXCEPT ![s].life = life][k].phase = m[k].phase
  <1> DEFINE row == [m[s] EXCEPT !.life = life]
  <1>1. m[s] \in SessionRows
    OBVIOUS
  <1>2. row \in SessionRows
    BY <1>1 DEF SessionRows
  <1>3. /\ row.id = m[s].id /\ row.life = life /\ row.port = m[s].port
        /\ row.phase = m[s].phase
    BY <1>1 DEF SessionRows
  <1>4. row.processing = m[s].processing
    BY <1>1 DEF SessionRows
  <1>5. row.acked = m[s].acked
    BY <1>1 DEF SessionRows
  <1>6. [m EXCEPT ![s].life = life] = [m EXCEPT ![s] = row]
    OBVIOUS
  <1> HIDE DEF row
  <1>7. /\ [m EXCEPT ![s] = row] \in [Session -> SessionRows]
        /\ \A k \in Session : [m EXCEPT ![s] = row][k] = IF k = s THEN row ELSE m[k]
    BY <1>2
  <1> QED BY <1>3, <1>4, <1>5, <1>6, <1>7

(* A step by which session s comes nearer its end. *)
LEMMA EndStep ==
  ASSUME EdgeInv, NEW s \in Session, NEW end \in {"removed", "released", "closed"},
         session' = [session EXCEPT ![s].life = end], session[s].life # "unborn",
         UNCHANGED <<nextPort, answerer, greeter, talking>>,
         timers' \in [Session -> [Timer -> {"off", "armed", "fired"}]],
         \A k \in Session, t \in Timer : timers'[k][t] # "off" => session[k].life # "unborn",
         leased' \subseteq Port, calls' \in [CallId -> Session \cup {NoSession}],
         TableHolds', PortsHold', SessionLimit'
  PROVE  EdgeInv'
  <1>1. EdgeTypes /\ \A k \in Session : VoiceHolds(k) /\ DialogHolds(k) /\ BirthHolds(k)
    BY TypesOf DEF EdgeInv
  <1>2. /\ session' \in [Session -> SessionRows]
        /\ \A k \in Session :
               /\ session'[k].id = session[k].id
               /\ session'[k].life = IF k = s THEN end ELSE session[k].life
               /\ session'[k].port = session[k].port
               /\ session'[k].processing = session[k].processing
               /\ session'[k].acked = session[k].acked
               /\ session'[k].phase = session[k].phase
    <2> DEFINE row == [session[s] EXCEPT !.life = end]
    <2>1. session[s] \in SessionRows
      BY <1>1 DEF EdgeTypes
    <2>2. row \in SessionRows
      BY <2>1 DEF SessionRows
    <2>3. /\ row.id = session[s].id /\ row.life = end /\ row.port = session[s].port
          /\ row.phase = session[s].phase
      BY <2>1 DEF SessionRows
    <2>4. row.processing = session[s].processing
      BY <2>1 DEF SessionRows
    <2>5. row.acked = session[s].acked
      BY <2>1 DEF SessionRows
    <2>6. session' = [session EXCEPT ![s] = row]
      OBVIOUS
    <2> HIDE DEF row
    <2>7. /\ session' \in [Session -> SessionRows]
          /\ \A k \in Session : session'[k] = IF k = s THEN row ELSE session[k]
      BY <1>1, <2>2, <2>6 DEF EdgeTypes
    <2> QED BY <2>3, <2>4, <2>5, <2>7
  <1>3. EdgeTypeOK'
    BY <1>1, <1>2 DEF EdgeInv, EdgeTypeOK, EdgeTypes, SessionRows, AnswererStates, GreeterStates,
                      TimersHold
  <1>6. TimersHold'
    BY <1>2 DEF TimersHold
  <1>4. \A k \in Session : VoiceHolds(k)' /\ DialogHolds(k)' /\ BirthHolds(k)'
    BY <1>1, <1>2 DEF VoiceHolds, DialogHolds, BirthHolds
  <1>5. AcknowledgedOnce'
    BY <1>2 DEF EdgeInv, AcknowledgedOnce, OnlyUser
  <1> QED BY <1>3, <1>4, <1>5, <1>6 DEF EdgeInv

(* The set of the calls in the table is finite: each has a session of its own. *)
StoredCalls == {c \in CallId : calls[c] # NoSession}

(* The calls in the table are as many as their sessions. *)
LEMMA StoredIsFinite ==
  ASSUME calls \in [CallId -> Session \cup {NoSession}], TableHolds PROVE IsFiniteSet(StoredCalls)
  <1> DEFINE f == [c \in StoredCalls |-> calls[c]]
  <1>1. IsFiniteSet(Session)
    BY EdgeAssumption, FS_Interval DEF Session
  <1>2. \A c \in StoredCalls : calls[c] \in Session /\ session[calls[c]].id = c
    BY DEF StoredCalls, TableHolds
  <1>3. f \in Injection(StoredCalls, Session)
    BY <1>2 DEF Injection, IsInjective
  <1> HIDE DEF f
  <1> QED BY <1>1, <1>3, FS_Injection

(* endSession takes the session stored under c from the table. *)
LEMMA RemoveStep ==
  ASSUME EdgeInv, NEW c \in CallId, calls[c] # NoSession,
         session' = Removed(session, c), calls' = [calls EXCEPT ![c] = NoSession],
         UNCHANGED <<nextPort, leased, answerer, greeter, talking>>,
         timers' \in [Session -> [Timer -> {"off", "armed", "fired"}]],
         \A k \in Session, t \in Timer : timers'[k][t] # "off" => session[k].life # "unborn"
  PROVE  EdgeInv'
  <1> DEFINE s == calls[c]
  <1>1. /\ EdgeTypes /\ TableHolds /\ PortsHold /\ SessionLimit /\ leased \subseteq Port
        /\ calls \in [CallId -> Session \cup {NoSession}]
    BY TypesOf DEF EdgeInv, EdgeTypeOK
  <1>2. s \in Session /\ session[s].life = "live" /\ session[s].id = c
    BY <1>1 DEF TableHolds
  <1>3. session' = [session EXCEPT ![s].life = "removed"]
    BY DEF Removed
  <1> HIDE DEF s
  <1>4. \A k \in Session :
               /\ session'[k].id = session[k].id
               /\ session'[k].life = IF k = s THEN "removed" ELSE session[k].life
               /\ session'[k].port = session[k].port
    BY <1>1, <1>2, <1>3, LifeIs DEF EdgeTypes
  <1>5. /\ calls' \in [CallId -> Session \cup {NoSession}]
        /\ \A d \in CallId : calls'[d] = IF d = c THEN NoSession ELSE calls[d]
    BY <1>1
  <1>6. TableHolds'
    <2>1. ASSUME NEW d \in CallId, calls'[d] # NoSession
          PROVE  session'[calls'[d]].life = "live" /\ session'[calls'[d]].id = d
      <3>1. d # c /\ calls'[d] = calls[d] /\ calls[d] \in Session
        BY <1>1, <1>5, <2>1
      <3>2. session[calls[d]].life = "live" /\ session[calls[d]].id = d
        BY <1>1, <2>1, <3>1 DEF TableHolds
      <3> QED BY <1>2, <1>4, <3>1, <3>2
    <2>2. ASSUME NEW k \in Session, session'[k].life = "live"
          PROVE  session'[k].id \in CallId /\ calls'[session'[k].id] = k
      <3>1. k # s /\ session[k].life = "live"
        BY <1>4, <2>2
      <3>2. session[k].id \in CallId /\ calls[session[k].id] = k
        BY <1>1, <3>1 DEF TableHolds
      <3> QED BY <1>4, <1>5, <3>1, <3>2 DEF s
    <2> QED BY <2>1, <2>2 DEF TableHolds
  <1>7. \A k \in Session : Bound(k)' <=> Bound(k)
    BY <1>2, <1>4 DEF Bound
  <1>8. \A k \in Session : session'[k].life \in {"live", "removed"} <=>
                           session[k].life \in {"live", "removed"}
    BY <1>2, <1>4
  <1>9. PortsHold'
    BY <1>1, <1>4, <1>7, <1>8 DEF PortsHold
  <1>10. SessionLimit'
    <2>1. StoredCalls' \subseteq StoredCalls
      BY <1>5 DEF StoredCalls
    <2>2. IsFiniteSet(StoredCalls)
      BY <1>1, StoredIsFinite
    <2>3. Cardinality(StoredCalls') <= Cardinality(StoredCalls)
      BY <2>1, <2>2, FS_Subset
    <2>4. Cardinality(StoredCalls) \in Nat /\ Cardinality(StoredCalls') \in Nat
      BY <2>1, <2>2, FS_Subset, FS_CardinalityType
    <2> QED BY <1>1, <2>3, <2>4, EdgeAssumption DEF SessionLimit, StoredCalls
  <1> QED BY <1>1, <1>2, <1>3, <1>5, <1>6, <1>9, <1>10, EndStep

(* The four ways a session comes nearer its end keep the invariant. *)
LEMMA EndingSteps ==
  ASSUME EdgeInv, NEW s \in Session,
         \/ HandleDialogEnd(s) \/ ReleasePort(s) \/ CloseSocket(s)
         \/ \E t \in Timer : ExpireSession(s, t)
  PROVE  EdgeInv'
  <1>1. /\ EdgeTypes /\ TableHolds /\ PortsHold /\ SessionLimit /\ leased \subseteq Port
        /\ calls \in [CallId -> Session \cup {NoSession}] /\ BirthHolds(s)
    BY TypesOf DEF EdgeInv, EdgeTypeOK
  <1>2. CASE HandleDialogEnd(s)
    <2>1. /\ session[s].life = "live" /\ session' = Removed(session, session[s].id)
          /\ calls' = [calls EXCEPT ![session[s].id] = NoSession]
          /\ UNCHANGED <<nextPort, leased, answerer, greeter, talking, timers>>
      BY <1>2 DEF HandleDialogEnd
    <2>2. session[s].id \in CallId /\ calls[session[s].id] # NoSession
      BY <1>1, <2>1, EdgeAssumption DEF TableHolds, Session
    <2> QED BY <1>1, <2>1, <2>2, RemoveStep DEF EdgeTypes, TimersHold
  <1>3. ASSUME NEW t \in Timer, ExpireSession(s, t) PROVE EdgeInv'
    <2>1. /\ timers' = [timers EXCEPT ![s][t] = "off"]
          /\ UNCHANGED <<nextPort, leased, answerer, greeter, talking>>
      BY <1>3 DEF ExpireSession
    <2>2. /\ timers' \in [Session -> [Timer -> {"off", "armed", "fired"}]]
          /\ \A k \in Session, u \in Timer : timers'[k][u] # "off" => session[k].life # "unborn"
      BY <1>1, <2>1 DEF EdgeTypes, TimersHold
    <2>3. CASE Expires(t, session[s].id)
      <3>1. /\ calls[session[s].id] # NoSession /\ session' = Removed(session, session[s].id)
            /\ calls' = [calls EXCEPT ![session[s].id] = NoSession]
        BY <1>3, <2>3 DEF ExpireSession, Expires
      <3>2. session[s].id \in CallId
        BY <1>1, <1>3 DEF ExpireSession, EdgeTypes, TimersHold, BirthHolds
      <3> QED BY <2>1, <2>2, <3>1, <3>2, RemoveStep
    <2>4. CASE ~Expires(t, session[s].id)
      <3>1. session' = session /\ calls' = calls
        BY <1>3, <2>4 DEF ExpireSession
      <3>2. VoiceHolds(s)' /\ DialogHolds(s)' /\ BirthHolds(s)'
        BY <2>1, <3>1 DEF EdgeInv, VoiceHolds, DialogHolds, BirthHolds
      <3>3. TimersHold'
        BY <2>2, <3>1 DEF TimersHold
      <3> QED BY <1>1, <2>1, <3>1, <3>2, <3>3, VoiceStep, AcknowledgedIs DEF EdgeTypes
    <2> QED BY <2>3, <2>4
  <1>4. CASE CloseSocket(s)
    <2>1. /\ session[s].life = "released" /\ session' = [session EXCEPT ![s].life = "closed"]
          /\ UNCHANGED <<calls, nextPort, leased, answerer, greeter, talking, timers>>
      BY <1>4 DEF CloseSocket
    <2>2. \A k \in Session :
               /\ session'[k].id = session[k].id
               /\ session'[k].life = IF k = s THEN "closed" ELSE session[k].life
               /\ session'[k].port = session[k].port
      BY <1>1, <2>1, LifeIs DEF EdgeTypes
    <2>3. TableHolds'
      BY <1>1, <2>1, <2>2 DEF TableHolds
    <2>4. \A k \in Session : /\ Bound(k)' => Bound(k)
                             /\ session'[k].life \in {"live", "removed"} <=>
                                session[k].life \in {"live", "removed"}
      BY <2>1, <2>2 DEF Bound
    <2>5. PortsHold'
      BY <1>1, <2>1, <2>2, <2>4 DEF PortsHold
    <2>6. SessionLimit'
      BY <1>1, <2>1 DEF SessionLimit
    <2>7. \A k \in Session, t \in Timer : timers'[k][t] # "off" => session[k].life # "unborn"
      BY <1>1, <2>1 DEF EdgeTypes, TimersHold
    <2>8. timers' \in [Session -> [Timer -> {"off", "armed", "fired"}]]
      BY <1>1, <2>1 DEF EdgeTypes, TimersHold
    <2> QED BY <1>1, <2>1, <2>3, <2>5, <2>6, <2>7, <2>8, EndStep
  <1>5. CASE ReleasePort(s)
    <2>1. /\ session[s].life = "removed" /\ session' = [session EXCEPT ![s].life = "released"]
          /\ leased' = leased \ {session[s].port}
          /\ UNCHANGED <<calls, nextPort, answerer, greeter, talking, timers>>
      BY <1>5 DEF ReleasePort
    <2>2. \A k \in Session :
               /\ session'[k].id = session[k].id
               /\ session'[k].life = IF k = s THEN "released" ELSE session[k].life
               /\ session'[k].port = session[k].port
      BY <1>1, <2>1, LifeIs DEF EdgeTypes
    <2>3. TableHolds'
      BY <1>1, <2>1, <2>2 DEF TableHolds
    <2>4. \A k \in Session : Bound(k)' <=> Bound(k)
      BY <2>1, <2>2 DEF Bound
    <2>5. PortsHold'
      <3>1. ASSUME NEW p \in Port
            PROVE  p \in leased' <=>
                     \E k \in Session : session'[k].life \in {"live", "removed"} /\ session'[k].port = p
        <4>1. CASE p = session[s].port
          <5>1. \A k \in Session : (session[k].life \in {"live", "removed"} /\ session[k].port = p) => k = s
            BY <1>1, <2>1, <4>1 DEF PortsHold, Bound
          <5> QED BY <2>1, <2>2, <4>1, <5>1
        <4>2. CASE p # session[s].port
          <5>1. p \in leased' <=> p \in leased
            BY <2>1, <4>2
          <5>2. \A k \in Session :
                   (session'[k].life \in {"live", "removed"} /\ session'[k].port = p) <=>
                   (session[k].life \in {"live", "removed"} /\ session[k].port = p)
            BY <2>1, <2>2, <4>2
          <5> QED BY <1>1, <5>1, <5>2 DEF PortsHold
        <4> QED BY <4>1, <4>2
      <3> QED BY <1>1, <2>2, <2>4, <3>1 DEF PortsHold
    <2>6. SessionLimit'
      BY <1>1, <2>1 DEF SessionLimit
    <2>7. \A k \in Session, t \in Timer : timers'[k][t] # "off" => session[k].life # "unborn"
      BY <1>1, <2>1 DEF EdgeTypes, TimersHold
    <2>8. timers' \in [Session -> [Timer -> {"off", "armed", "fired"}]]
      BY <1>1, <2>1 DEF EdgeTypes, TimersHold
    <2>9. leased' \subseteq Port
      BY <1>1, <2>1
    <2> QED BY <1>1, <2>1, <2>3, <2>5, <2>6, <2>7, <2>8, <2>9, EndStep
  <1> QED BY <1>2, <1>3, <1>4, <1>5

(* PortPool.Lease finds a free port of the range when there is one. *)
LEMMA LeasedIs ==
  ASSUME nextPort \in Port, FreeDistance # {}
  PROVE  LeasedPort \in Port \ leased /\ NextPort \in Port
  <1>1. FreeDistance \subseteq Nat
    BY EdgeAssumption DEF FreeDistance
  <1>2. \E d \in FreeDistance : \A e \in FreeDistance : d <= e
    BY <1>1, SmallestNat
  <1>3. LeaseStep \in FreeDistance
    BY <1>2 DEF LeaseStep
  <1>4. ((nextPort - 1 + LeaseStep) % Ports) + 1 \notin leased /\ LeaseStep \in Nat
    BY <1>1, <1>3 DEF FreeDistance
  <1>5. \A d \in Nat : (d % Ports) + 1 \in Port
    BY EdgeAssumption DEF Port
  <1>6. nextPort - 1 + LeaseStep \in Nat
    BY <1>4 DEF Port
  <1>7. LeasedPort \in Port \ leased
    BY <1>4, <1>5, <1>6 DEF LeasedPort
  <1>8. LeasedPort \in Nat
    BY <1>7 DEF Port
  <1> QED BY <1>5, <1>7, <1>8 DEF NextPort

(* The number a new call gets, and that it names nothing yet. *)
NextSession == CHOOSE n \in Session \cup {Sessions + 1} :
                /\ \A k \in 1..n - 1 : session[k].life # "unborn"
                /\ n \in Session => session[n].life = "unborn"

(* The session of a new call was not used before. *)
LEMMA NextIsUnborn == NextSession \in Session => session[NextSession].life = "unborn"
  <1> DEFINE S == {n \in Session \cup {Sessions + 1} : n \in Session => session[n].life = "unborn"}
  <1>1. S \subseteq Nat /\ Sessions + 1 \in S
    BY EdgeAssumption DEF Session
  <1>2. PICK n \in S : \A m \in S : n <= m
    BY <1>1, SmallestNat
  <1>3. ASSUME NEW k \in 1..n - 1 PROVE session[k].life # "unborn"
    <2>1. n \in Nat /\ n <= Sessions + 1
      BY <1>1, <1>2
    <2>2. k \in Session /\ ~(n <= k)
      BY <2>1, EdgeAssumption DEF Session
    <2> QED BY <1>2, <2>2
  <1>4. \E m \in Session \cup {Sessions + 1} :
                /\ \A k \in 1..m - 1 : session[k].life # "unborn"
                /\ m \in Session => session[m].life = "unborn"
    BY <1>2, <1>3
  <1> QED BY <1>4 DEF NextSession

(* What a first INVITE stores. *)
LEMMA StoreStep ==
  ASSUME EdgeInv, NEW c \in CallId, NEW s \in Session, NEW p \in Port \ leased, ~Busy,
         calls[c] = NoSession, session[s].life = "unborn", nextPort' \in Port,
         \A k \in Session : Bound(k) => session[k].port # p,
         leased' = leased \cup {p},
         session' = [session EXCEPT ![s] =
             [Unborn EXCEPT !.id = c, !.phase = "ringing", !.life = "live", !.port = p]],
         calls' = [calls EXCEPT ![c] = s],
         answerer' = [answerer EXCEPT ![s] = "warming"],
         timers' = [timers EXCEPT ![s] = [t \in Timer |-> IF t = "unacked" THEN "off" ELSE "armed"]],
         UNCHANGED <<greeter, talking>>
  PROVE  EdgeInv'
  <1>1. /\ EdgeTypes /\ TableHolds /\ PortsHold /\ SessionLimit /\ leased \subseteq Port
        /\ calls \in [CallId -> Session \cup {NoSession}]
        /\ \A k \in Session : VoiceHolds(k) /\ DialogHolds(k) /\ BirthHolds(k)
    BY TypesOf DEF EdgeInv, EdgeTypeOK
  <1> DEFINE row == [Unborn EXCEPT !.id = c, !.phase = "ringing", !.life = "live", !.port = p]
  <1>2. /\ row \in SessionRows /\ row.id = c /\ row.phase = "ringing" /\ row.life = "live"
        /\ row.port = p /\ ~row.processing /\ ~row.acked
    BY DEF Unborn, SessionRows, Unacknowledged
  <1> HIDE DEF row
  <1>3. /\ session' \in [Session -> SessionRows]
        /\ \A k \in Session : session'[k] = IF k = s THEN row ELSE session[k]
    BY <1>1, <1>2 DEF EdgeTypes, row
  <1>4. /\ calls' \in [CallId -> Session \cup {NoSession}] /\ calls'[c] = s
        /\ \A d \in CallId : d # c => calls'[d] = calls[d]
    BY <1>1
  <1>5. /\ answerer' \in [Session -> AnswererStates] /\ answerer'[s] = "warming"
        /\ \A k \in Session : k # s => answerer'[k] = answerer[k]
    BY <1>1 DEF EdgeTypes, AnswererStates
  <1>6. TimersHold'
    BY <1>1, <1>2, <1>3 DEF EdgeTypes, TimersHold
  <1>7. EdgeTypeOK'
    BY <1>1, <1>3, <1>4, <1>5, <1>6
       DEF EdgeInv, EdgeTypeOK, EdgeTypes, SessionRows, AnswererStates, GreeterStates, TimersHold
  <1>8. TableHolds'
    <2>1. s # NoSession
      BY EdgeAssumption DEF Session
    <2>2. ASSUME NEW d \in CallId, calls'[d] # NoSession
          PROVE  session'[calls'[d]].life = "live" /\ session'[calls'[d]].id = d
      <3>1. CASE d = c
        BY <1>2, <1>3, <1>4, <3>1
      <3>2. CASE d # c
        <4>1. /\ calls'[d] = calls[d] /\ calls[d] \in Session
              /\ session[calls[d]].life = "live" /\ session[calls[d]].id = d
          BY <1>1, <1>4, <2>2, <3>2 DEF TableHolds
        <4> QED BY <1>3, <4>1
      <3> QED BY <3>1, <3>2
    <2>3. ASSUME NEW k \in Session, session'[k].life = "live"
          PROVE  session'[k].id \in CallId /\ calls'[session'[k].id] = k
      <3>1. CASE k = s
        BY <1>2, <1>3, <1>4, <3>1
      <3>2. CASE k # s
        <4>1. session'[k] = session[k] /\ session[k].id \in CallId /\ calls[session[k].id] = k
          BY <1>1, <1>3, <2>3, <3>2 DEF TableHolds
        <4>2. session[k].id # c
          BY <4>1, EdgeAssumption DEF Session
        <4> QED BY <1>4, <4>1, <4>2
      <3> QED BY <3>1, <3>2
    <2> QED BY <2>2, <2>3 DEF TableHolds
  <1>9. Bound(s)' /\ ~Bound(s) /\ \A k \in Session : k # s => (Bound(k)' <=> Bound(k))
    BY <1>2, <1>3 DEF Bound
  <1>10. PortsHold'
    <2>1. ASSUME NEW q \in Port
          PROVE  q \in leased' <=>
                   \E k \in Session : session'[k].life \in {"live", "removed"} /\ session'[k].port = q
      <3>1. CASE q = p
        BY <1>2, <1>3, <3>1
      <3>2. CASE q # p
        <4>1. \A k \in Session :
                 (session'[k].life \in {"live", "removed"} /\ session'[k].port = q) <=>
                 (session[k].life \in {"live", "removed"} /\ session[k].port = q)
          BY <1>2, <1>3, <3>2
        <4>2. q \in leased' <=> q \in leased
          BY <3>2
        <4> QED BY <1>1, <4>1, <4>2 DEF PortsHold
      <3> QED BY <3>1, <3>2
    <2>2. \A k \in Session : Bound(k)' => session'[k].port \in Port
      BY <1>1, <1>2, <1>3, <1>9 DEF PortsHold
    <2>3. \A k, j \in Session : (Bound(k)' /\ Bound(j)' /\ session'[k].port = session'[j].port) => k = j
      BY <1>1, <1>2, <1>3, <1>9 DEF PortsHold
    <2> QED BY <2>1, <2>2, <2>3 DEF PortsHold
  <1>11. SessionLimit'
    <2>1. IsFiniteSet(StoredCalls) /\ c \notin StoredCalls
      BY <1>1, StoredIsFinite DEF StoredCalls
    <2>2. StoredCalls' = StoredCalls \cup {c}
      BY <1>4, EdgeAssumption DEF StoredCalls, Session
    <2>3. Cardinality(StoredCalls') = Cardinality(StoredCalls) + 1
      BY <2>1, <2>2, FS_AddElement
    <2>4. Cardinality(StoredCalls) \in Nat
      BY <2>1, FS_CardinalityType
    <2>5. MaxSessions > 0 => Cardinality(StoredCalls) < MaxSessions
      BY <2>4, EdgeAssumption DEF Busy, StoredCalls
    <2>6. MaxSessions > 0 => Cardinality(StoredCalls') <= MaxSessions
      BY <2>3, <2>4, <2>5, EdgeAssumption
    <2> QED BY <2>6 DEF SessionLimit, StoredCalls
  <1>12. greeter[s] = "none" /\ ~talking[s] /\ session[s].id = NoSession
    BY <1>1 DEF VoiceHolds, DialogHolds, BirthHolds
  <1>13. ASSUME NEW k \in Session PROVE VoiceHolds(k)' /\ DialogHolds(k)' /\ BirthHolds(k)'
    <2>1. CASE k = s
      BY <1>2, <1>3, <1>5, <1>12, <2>1 DEF VoiceHolds, DialogHolds, BirthHolds
    <2>2. CASE k # s
      BY <1>1, <1>3, <1>5, <2>2 DEF VoiceHolds, DialogHolds, BirthHolds
    <2> QED BY <2>1, <2>2
  <1>14. ASSUME NEW k \in Session, session'[k].id # NoSession, OnlyUser(k)'
         PROVE  session'[k].acked <=> session'[k].phase \in {"active", "greeting"}
    <2>1. CASE k = s
      BY <1>2, <1>3, <2>1
    <2>2. CASE k # s
      <3>1. session'[k] = session[k]
        BY <1>3, <2>2
      <3>2. OnlyUser(k)
        BY <1>3, <1>12, <1>14, <3>1 DEF OnlyUser
      <3> QED BY <1>14, <3>1, <3>2 DEF EdgeInv, AcknowledgedOnce
    <2> QED BY <2>1, <2>2
  <1>15. AcknowledgedOnce'
    BY <1>14 DEF AcknowledgedOnce
  <1> QED BY <1>6, <1>7, <1>8, <1>10, <1>11, <1>13, <1>15 DEF EdgeInv

(* A first INVITE, a repeated one and a refused one keep the invariant. *)
LEMMA InviteStep == ASSUME EdgeInv, NEW c \in CallId, HandleInvite(c) PROVE EdgeInv'
  <1>1. nextPort \in Port
    BY DEF EdgeInv, EdgeTypeOK
  <1>2. /\ calls[c] = NoSession /\ ~Busy /\ NextSession \in Session /\ FreeDistance # {}
        /\ nextPort' = NextPort /\ UNCHANGED <<greeter, talking>>
        /\ \/ /\ \A k \in Session : Bound(k) => session[k].port # LeasedPort
              /\ leased' = leased \cup {LeasedPort}
              /\ session' = [session EXCEPT ![NextSession] =
                    [Unborn EXCEPT !.id = c, !.phase = "ringing", !.life = "live",
                                   !.port = LeasedPort]]
              /\ calls' = [calls EXCEPT ![c] = NextSession]
              /\ answerer' = [answerer EXCEPT ![NextSession] = "warming"]
              /\ timers' = [timers EXCEPT ![NextSession] =
                    [t \in Timer |-> IF t = "unacked" THEN "off" ELSE "armed"]]
           \/ UNCHANGED <<calls, leased, session, answerer, timers>>
    BY DEF HandleInvite, NextSession
  <1>3. LeasedPort \in Port \ leased /\ nextPort' \in Port
    BY <1>1, <1>2, LeasedIs
  <1>4. session[NextSession].life = "unborn"
    BY <1>2, NextIsUnborn
  <1>5. CASE UNCHANGED <<calls, leased, session, answerer, timers>>
    <2>1. EdgeTypeOK' /\ TimersHold'
      BY <1>2, <1>3, <1>5 DEF EdgeInv, EdgeTypeOK, TimersHold
    <2>2. TableHolds' /\ PortsHold' /\ SessionLimit'
      BY <1>5, SameTable
    <2>3. \A s \in Session : VoiceHolds(s)' /\ DialogHolds(s)' /\ BirthHolds(s)'
      BY <1>2, <1>5 DEF EdgeInv, VoiceHolds, DialogHolds, BirthHolds
    <2>4. AcknowledgedOnce'
      BY <1>5 DEF EdgeInv, AcknowledgedOnce, OnlyUser
    <2> QED BY <2>1, <2>2, <2>3, <2>4 DEF EdgeInv
  <1>6. CASE ~UNCHANGED <<calls, leased, session, answerer, timers>>
    BY <1>2, <1>3, <1>4, <1>6, StoreStep
  <1> QED BY <1>5, <1>6

(* Every step of the edge keeps the invariant. *)
LEMMA EdgeStep == ASSUME EdgeInv, [EdgeNext]_edgeVars PROVE EdgeInv'
  <1>1. CASE UNCHANGED edgeVars
    <2>1. EdgeTypeOK' /\ TimersHold'
      BY <1>1 DEF EdgeInv, EdgeTypeOK, TimersHold, edgeVars
    <2>2. TableHolds' /\ PortsHold' /\ SessionLimit'
      BY <1>1, SameTable DEF edgeVars
    <2>3. \A s \in Session : VoiceHolds(s)' /\ DialogHolds(s)' /\ BirthHolds(s)'
      BY <1>1 DEF EdgeInv, VoiceHolds, DialogHolds, BirthHolds, edgeVars
    <2>4. AcknowledgedOnce'
      BY <1>1 DEF EdgeInv, AcknowledgedOnce, OnlyUser, edgeVars
    <2> QED BY <2>1, <2>2, <2>3, <2>4 DEF EdgeInv
  <1>2. CASE EdgeNext
    BY <1>2, InviteStep, AckStep, EndingSteps, AnswererSteps, SpeakingSteps, TimerStep
       DEF EdgeNext, Goroutine
  <1> QED BY <1>1, <1>2

(* The invariant is strong enough. *)
LEMMA EdgeInvKeepsCalls == EdgeInv => CallsAreKept
  <1> SUFFICES ASSUME EdgeInv PROVE CallsAreKept
    OBVIOUS
  <1>1. EdgeTypeOK /\ TableHolds /\ PortsHold /\ \A s \in Session : VoiceHolds(s)
    BY DEF EdgeInv
  <1>2. PortsAccounted
    <2>1. leased = {session[s].port : s \in {k \in Session : session[k].life \in {"live", "removed"}}}
      <3>1. \A p \in leased : p \in Port
        BY <1>1 DEF EdgeTypeOK
      <3>2. \A s \in Session : session[s].life \in {"live", "removed"} => session[s].port \in Port
        BY <1>1 DEF PortsHold, Bound
      <3> QED BY <1>1, <3>1, <3>2 DEF PortsHold
    <2>2. \A s, k \in Session : Bound(s) /\ Bound(k) /\ s # k => session[s].port # session[k].port
      BY <1>1 DEF PortsHold
    <2>3. \A s \in Session : session[s].life = "live" <=> \E c \in CallId : calls[c] = s
      BY <1>1, EdgeAssumption DEF TableHolds, Session
    <2> QED BY <2>1, <2>2, <2>3 DEF PortsAccounted
  <1>3. ASSUME NEW s \in Session
        PROVE  LET voices == {v \in {"ringback", "greeting", "utterance"} :
                          \/ v = "ringback" /\ answerer[s] = "ringback"
                          \/ v = "greeting" /\ greeter[s] = "playing"
                          \/ v = "utterance" /\ talking[s]}
               IN  /\ Cardinality(voices) <= 1
                   /\ session[s].processing <=> voices # {}
    <2> DEFINE voices == {v \in {"ringback", "greeting", "utterance"} :
                          \/ v = "ringback" /\ answerer[s] = "ringback"
                          \/ v = "greeting" /\ greeter[s] = "playing"
                          \/ v = "utterance" /\ talking[s]}
    <2>1. VoiceHolds(s)
      BY <1>1
    <2>2. \/ voices = {} \/ voices = {"ringback"} \/ voices = {"greeting"} \/ voices = {"utterance"}
      BY <2>1 DEF VoiceHolds
    <2>3. session[s].processing <=> voices # {}
      BY <2>1 DEF VoiceHolds
    <2> HIDE DEF voices
    <2>4. Cardinality(voices) <= 1
      <3>1. \A v : Cardinality({v}) = 1
        BY FS_Singleton
      <3>2. voices = {} => Cardinality(voices) = 0
        BY FS_EmptySet
      <3>3. voices # {} => Cardinality(voices) = 1
        BY <2>2, <3>1
      <3> QED BY <3>2, <3>3
    <2> QED BY <2>3, <2>4 DEF voices
  <1>4. OneVoice
    BY <1>3 DEF OneVoice
  <1> QED BY <1>1, <1>2, <1>4 DEF EdgeInv, CallsAreKept

(* server.go, rtp_session.go, port_pool.go: whatever the order of INVITEs,
   ACKs, BYEs, CANCELs, timers, greetings and utterances, the pool counts as
   leased exactly the ports of calls that did not release theirs, no two
   bound sockets share a port, a stored session is a live one, no more calls
   are in the table than MaxSessions, one voice at a time speaks on a call,
   and only an acknowledged call is active. *)
THEOREM CallsStayKept == EdgeSpec => []CallsAreKept
  <1>1. EdgeInit => EdgeInv
    BY EdgeStarts
  <1>2. EdgeInv /\ [EdgeNext]_edgeVars => EdgeInv'
    BY EdgeStep
  <1>3. EdgeInv => CallsAreKept
    BY EdgeInvKeepsCalls
  <1> QED BY <1>1, <1>2, <1>3, PTL DEF EdgeSpec

(* Who holds a line, without the choice. *)
HolderFacts ==
    /\ Holder \in [Port -> Session \cup {NoSession}]
    /\ \A p \in Port : p \notin leased => Holder[p] = NoSession
    /\ \A p \in Port : p \in leased =>
          /\ Holder[p] \in Session /\ session[Holder[p]].life \in {"live", "removed"}
          /\ session[Holder[p]].port = p
    /\ \A s \in Session : session[s].life \in {"live", "removed"} =>
          session[s].port \in leased /\ Holder[session[s].port] = s

(* Every leased port has one holder, the session that was given it. *)
LEMMA HolderIs == EdgeInv => HolderFacts
  <1> SUFFICES ASSUME EdgeInv PROVE HolderFacts
    OBVIOUS
  <1>1. PortsHold /\ leased \subseteq Port
    BY DEF EdgeInv, EdgeTypeOK
  <1> DEFINE holds(s, p) == session[s].life \in {"live", "removed"} /\ session[s].port = p
  <1>2. \A p \in Port : p \in leased => \E s \in Session : holds(s, p)
    BY <1>1 DEF PortsHold
  <1>3. \A p \in Port : Holder[p] = IF p \in leased THEN CHOOSE s \in Session : holds(s, p)
                                    ELSE NoSession
    BY DEF Holder
  <1>4. \A p \in Port : p \in leased => Holder[p] \in Session /\ holds(Holder[p], p)
    <2> HIDE DEF holds
    <2> QED BY <1>2, <1>3
  <1>5. \A p \in Port : p \notin leased => Holder[p] = NoSession
    BY <1>3
  <1>6. ASSUME NEW s \in Session, session[s].life \in {"live", "removed"}
        PROVE  session[s].port \in leased /\ Holder[session[s].port] = s
    <2>1. session[s].port \in Port /\ Bound(s)
      BY <1>1, <1>6 DEF PortsHold, Bound
    <2>2. session[s].port \in leased
      BY <1>1, <1>6, <2>1 DEF PortsHold
    <2>3. Holder[session[s].port] \in Session /\ holds(Holder[session[s].port], session[s].port)
      BY <1>4, <2>1, <2>2
    <2>4. Bound(Holder[session[s].port])
      BY <2>3 DEF Bound
    <2> QED BY <1>1, <2>1, <2>2, <2>3, <2>4 DEF PortsHold
  <1>7. Holder \in [Port -> Session \cup {NoSession}]
    <2>1. \A p \in Port : Holder[p] \in Session \cup {NoSession}
      BY <1>4, <1>5
    <2>2. Holder = [p \in Port |-> Holder[p]]
      BY DEF Holder
    <2> QED BY <2>1, <2>2
  <1> QED BY <1>4, <1>5, <1>6, <1>7 DEF HolderFacts

(* A step that leases and releases nothing. *)
LEMMA SameHolders ==
  ASSUME EdgeInv, HolderFacts, HolderFacts', leased' = leased,
         \A k \in Session : /\ session'[k].port = session[k].port
                            /\ session[k].life \in {"live", "removed"} =>
                                  session'[k].life \in {"live", "removed"}
  PROVE  Holder' = Holder
  <1>1. ASSUME NEW p \in Port PROVE Holder'[p] = Holder[p]
    <2>1. CASE p \notin leased
      BY <2>1 DEF HolderFacts
    <2>2. CASE p \in leased
      <3>1. /\ Holder[p] \in Session /\ session[Holder[p]].life \in {"live", "removed"}
            /\ session[Holder[p]].port = p
        BY <2>2 DEF HolderFacts
      <3>2. /\ session'[Holder[p]].life \in {"live", "removed"} /\ session'[Holder[p]].port = p
        BY <3>1
      <3> QED BY <3>1, <3>2 DEF HolderFacts
    <2> QED BY <2>1, <2>2
  <1>2. Holder \in [Port -> Session \cup {NoSession}] /\ Holder' \in [Port -> Session \cup {NoSession}]
    BY DEF HolderFacts
  <1> QED BY <1>1, <1>2

(* A session that is stored with a free port takes its line. *)
LEMMA TakeLine ==
  ASSUME EdgeInv, HolderFacts, HolderFacts', NEW s \in Session, NEW p \in Port \ leased,
         session[s].life = "unborn", leased' = leased \cup {p},
         \A k \in Session : k # s => session'[k] = session[k],
         session'[s].life = "live", session'[s].port = p
  PROVE  Lines!Take(p, s)
  <1>1. \A k \in Port : Holder[k] # s
    BY EdgeAssumption DEF HolderFacts, Session
  <1>2. Holder[p] = NoSession
    BY DEF HolderFacts
  <1>3. ASSUME NEW k \in Port PROVE Holder'[k] = IF k = p THEN s ELSE Holder[k]
    <2>1. CASE k = p
      BY <2>1 DEF HolderFacts
    <2>2. CASE k # p /\ k \notin leased
      BY <2>2 DEF HolderFacts
    <2>3. CASE k # p /\ k \in leased
      <3>1. /\ Holder[k] \in Session /\ session[Holder[k]].life \in {"live", "removed"}
            /\ session[Holder[k]].port = k
        BY <2>3 DEF HolderFacts
      <3>2. session'[Holder[k]] = session[Holder[k]]
        BY <1>1, <3>1
      <3> QED BY <2>3, <3>1, <3>2 DEF HolderFacts
    <2> QED BY <2>1, <2>2, <2>3
  <1>4. Holder \in [Port -> Session \cup {NoSession}] /\ Holder' \in [Port -> Session \cup {NoSession}]
    BY DEF HolderFacts
  <1>5. Holder' = [Holder EXCEPT ![p] = s]
    BY <1>3, <1>4
  <1> QED BY <1>1, <1>2, <1>5 DEF Lines!Take

(* A session whose port is released gives its line back. *)
LEMMA GiveLineBack ==
  ASSUME EdgeInv, HolderFacts, HolderFacts', NEW s \in Session, session[s].life = "removed",
         leased' = leased \ {session[s].port}, session' = [session EXCEPT ![s].life = "released"]
  PROVE  session[s].port \in Port /\ Lines!GiveBack(session[s].port)
  <1> DEFINE p == session[s].port
  <1>1. EdgeTypes /\ leased \subseteq Port
    BY TypesOf DEF EdgeInv, EdgeTypeOK
  <1>2. p \in Port /\ p \in leased /\ Holder[p] = s
    BY <1>1 DEF HolderFacts
  <1>3. \A k \in Session : k # s => session'[k] = session[k]
    BY <1>1 DEF EdgeTypes
  <1>4. p \notin leased' /\ \A k \in Port : k # p => (k \in leased' <=> k \in leased)
    OBVIOUS
  <1> HIDE DEF p
  <1>5. ASSUME NEW k \in Port PROVE Holder'[k] = IF k = p THEN NoSession ELSE Holder[k]
    <2>1. CASE k = p
      BY <1>4, <2>1 DEF HolderFacts
    <2>2. CASE k # p /\ k \notin leased
      BY <1>4, <2>2 DEF HolderFacts
    <2>3. CASE k # p /\ k \in leased
      <3>1. /\ Holder[k] \in Session /\ session[Holder[k]].life \in {"live", "removed"}
            /\ session[Holder[k]].port = k
        BY <2>3 DEF HolderFacts
      <3>2. session'[Holder[k]] = session[Holder[k]]
        BY <1>3, <2>3, <3>1 DEF p
      <3> QED BY <1>4, <2>3, <3>1, <3>2 DEF HolderFacts
    <2> QED BY <2>1, <2>2, <2>3
  <1>6. Holder \in [Port -> Session \cup {NoSession}] /\ Holder' \in [Port -> Session \cup {NoSession}]
    BY DEF HolderFacts
  <1>7. Holder' = [Holder EXCEPT ![p] = NoSession]
    BY <1>5, <1>6
  <1>8. Holder[p] # NoSession
    BY <1>2, EdgeAssumption DEF Session
  <1> QED BY <1>2, <1>7, <1>8 DEF Lines!GiveBack, p

(* A step of a call leases a line, gives one back, or leaves them alone. *)
LEMMA LinesStep ==
  ASSUME EdgeInv, HolderFacts, HolderFacts', [EdgeNext]_edgeVars
  PROVE  [Lines!LeaseNext]_Holder
  <1> DEFINE KeepsLines ==
          /\ leased' = leased
          /\ \A k \in Session : /\ session'[k].port = session[k].port
                                /\ session[k].life \in {"live", "removed"} =>
                                      session'[k].life \in {"live", "removed"}
  <1>1. EdgeTypes /\ TableHolds /\ calls \in [CallId -> Session \cup {NoSession}]
    BY TypesOf DEF EdgeInv, EdgeTypeOK
  <1>2. KeepsLines => Holder' = Holder
    BY SameHolders
  <1>3. CASE UNCHANGED edgeVars
    <2>1. KeepsLines
      BY <1>3 DEF edgeVars
    <2> QED BY <1>2, <2>1
  <1>4. ASSUME NEW c \in CallId, HandleInvite(c) PROVE [Lines!LeaseNext]_Holder
    <2>1. nextPort \in Port
      BY DEF EdgeInv, EdgeTypeOK
    <2>2. /\ NextSession \in Session /\ FreeDistance # {}
          /\ \/ /\ leased' = leased \cup {LeasedPort}
                /\ session' = [session EXCEPT ![NextSession] =
                      [Unborn EXCEPT !.id = c, !.phase = "ringing", !.life = "live",
                                     !.port = LeasedPort]]
             \/ leased' = leased /\ session' = session
      BY <1>4 DEF HandleInvite, NextSession
    <2>3. LeasedPort \in Port \ leased
      BY <2>1, <2>2, LeasedIs
    <2>4. session[NextSession].life = "unborn"
      BY <2>2, NextIsUnborn
    <2>5. CASE leased' = leased /\ session' = session
      <3>1. KeepsLines
        BY <2>5
      <3> QED BY <1>2, <3>1
    <2>6. CASE ~(leased' = leased /\ session' = session)
      <3> DEFINE s == NextSession
                 p == LeasedPort
      <3>1. /\ s \in Session /\ p \in Port \ leased /\ session[s].life = "unborn"
            /\ leased' = leased \cup {p}
            /\ session' = [session EXCEPT ![s] =
                      [Unborn EXCEPT !.id = c, !.phase = "ringing", !.life = "live", !.port = p]]
        BY <2>2, <2>3, <2>4, <2>6
      <3> HIDE DEF s, p
      <3>2. /\ \A k \in Session : k # s => session'[k] = session[k]
            /\ session'[s].life = "live" /\ session'[s].port = p
        BY <1>1, <3>1 DEF EdgeTypes, Unborn
      <3>3. Lines!Take(p, s)
        BY <3>1, <3>2, TakeLine
      <3> QED BY <3>1, <3>3 DEF Lines!LeaseNext
    <2> QED BY <2>5, <2>6
  <1>5. ASSUME NEW s \in Session, ReleasePort(s) PROVE [Lines!LeaseNext]_Holder
    <2>1. /\ session[s].life = "removed" /\ leased' = leased \ {session[s].port}
          /\ session' = [session EXCEPT ![s].life = "released"]
      BY <1>5 DEF ReleasePort
    <2>2. session[s].port \in Port /\ Lines!GiveBack(session[s].port)
      BY <2>1, GiveLineBack
    <2> QED BY <2>2 DEF Lines!LeaseNext
  <1>6. ASSUME NEW s \in Session, HandleACK(s) \/ CloseSocket(s) PROVE KeepsLines
    BY <1>1, <1>6 DEF EdgeTypes, SessionRows, HandleACK, CloseSocket
  <1>7. ASSUME NEW c \in CallId, calls[c] # NoSession, session' = Removed(session, c),
               leased' = leased
        PROVE  KeepsLines
    <2>1. calls[c] \in Session /\ session[calls[c]].life = "live"
      BY <1>1, <1>7 DEF TableHolds
    <2>2. session' = [session EXCEPT ![calls[c]].life = "removed"]
      BY <1>7 DEF Removed
    <2> QED BY <1>1, <1>7, <2>1, <2>2 DEF EdgeTypes, SessionRows
  <1>8. ASSUME NEW s \in Session, HandleDialogEnd(s) PROVE KeepsLines
    <2>1. /\ session[s].life = "live" /\ session' = Removed(session, session[s].id)
          /\ leased' = leased
      BY <1>8 DEF HandleDialogEnd
    <2>2. session[s].id \in CallId /\ calls[session[s].id] # NoSession
      BY <1>1, <2>1, EdgeAssumption DEF TableHolds, Session
    <2> QED BY <1>7, <2>1, <2>2
  <1>9. ASSUME NEW s \in Session, NEW t \in Timer, ExpireSession(s, t) PROVE KeepsLines
    <2>1. leased' = leased
      BY <1>9 DEF ExpireSession
    <2>2. CASE Expires(t, session[s].id)
      <3>1. calls[session[s].id] # NoSession /\ session' = Removed(session, session[s].id)
        BY <1>9, <2>2 DEF ExpireSession, Expires
      <3>2. session[s].id \in CallId
        BY <1>1, <1>9 DEF ExpireSession, EdgeTypes, TimersHold, EdgeInv, BirthHolds
      <3> QED BY <1>7, <2>1, <3>1, <3>2
    <2>3. CASE ~Expires(t, session[s].id)
      <3>1. session' = session
        BY <1>9, <2>3 DEF ExpireSession
      <3> QED BY <2>1, <3>1
    <2> QED BY <2>2, <2>3
  <1>10. ASSUME NEW c, NEW ph
         PROVE  \A k \in Session : /\ Marked(session, c, ph)[k].port = session[k].port
                                   /\ Marked(session, c, ph)[k].life = session[k].life
    BY <1>1 DEF Marked, EdgeTypes, SessionRows
  <1>11. ASSUME NEW s \in Session,
                \/ StartRingback(s) \/ EndRingback(s) \/ Answer(s) \/ StartGreeting(s)
                \/ EndGreeting(s) \/ HearUtterance(s) \/ EndUtterance(s)
         PROVE  KeepsLines
    <2>1. leased' = leased
      BY <1>11 DEF StartRingback, EndRingback, Answer, StartGreeting, EndGreeting,
                   HearUtterance, EndUtterance
    <2>2. CASE EndRingback(s) \/ HearUtterance(s) \/ EndUtterance(s)
      <3>1. PICK p : session' = [session EXCEPT ![s].processing = p]
        BY <2>2 DEF EndRingback, HearUtterance, EndUtterance
      <3> QED BY <1>1, <2>1, <3>1 DEF EdgeTypes, SessionRows
    <2>3. CASE StartRingback(s)
      <3>1. CASE EarlyMedia
        <4> DEFINE m == Marked(session, session[s].id, "early-media")
        <4>1. session' = [m EXCEPT ![s].processing = TRUE]
          BY <2>3, <3>1 DEF StartRingback
        <4>2. session[s].id \in CallId
          BY <1>1, <2>3 DEF StartRingback, EdgeInv, VoiceHolds, DialogHolds, BirthHolds
        <4>3. m \in [Session -> SessionRows]
          BY <4>2, MarkedIs DEF Unacknowledged
        <4>4. \A k \in Session : m[k].port = session[k].port /\ m[k].life = session[k].life
          BY <1>10
        <4> HIDE DEF m
        <4> QED BY <2>1, <4>1, <4>3, <4>4 DEF SessionRows
      <3>2. CASE ~EarlyMedia
        BY <2>1, <2>3, <3>2 DEF StartRingback
      <3> QED BY <3>1, <3>2
    <2>4. CASE Answer(s)
      BY <1>10, <2>1, <2>4 DEF Answer
    <2>5. CASE StartGreeting(s)
      BY <1>1, <2>1, <2>5 DEF StartGreeting, EdgeTypes, SessionRows, Marked
    <2>6. CASE EndGreeting(s)
      BY <1>1, <2>1, <2>6 DEF EndGreeting, EdgeTypes, SessionRows, Marked
    <2> QED BY <1>11, <2>2, <2>3, <2>4, <2>5, <2>6
  <1>12. ASSUME NEW s \in Session, NEW t \in Timer, TimerFires(s, t) PROVE KeepsLines
    BY <1>12 DEF TimerFires
  <1> HIDE DEF KeepsLines
  <1>13. CASE EdgeNext
    <2>1. CASE \E c \in CallId : HandleInvite(c)
      BY <1>4, <2>1
    <2>2. CASE \E s \in Session : ReleasePort(s)
      BY <1>5, <2>2
    <2>3. CASE \E s \in Session :
                 \/ HandleACK(s) \/ HandleDialogEnd(s) \/ HearUtterance(s) \/ CloseSocket(s)
                 \/ StartRingback(s) \/ EndRingback(s) \/ Answer(s)
                 \/ StartGreeting(s) \/ EndGreeting(s) \/ EndUtterance(s)
                 \/ \E t \in Timer : ExpireSession(s, t) \/ TimerFires(s, t)
      <3>1. KeepsLines
        BY <1>6, <1>8, <1>9, <1>11, <1>12, <2>3
      <3> QED BY <1>2, <3>1
    <2> QED BY <1>13, <2>1, <2>2, <2>3 DEF EdgeNext, Goroutine
  <1> QED BY <1>3, <1>13

(* The edge implements the safety part of LineLease: in every behaviour a
   port goes to a call only while no call holds it, and comes back once, from
   the call that holds it (HandleInvite with PortPool.Lease, and the Close of
   the RTP session). *)
THEOREM LinesTakenInTurn == EdgeSpec => Lines!LeaseInit /\ [][Lines!LeaseNext]_Holder
  <1>1. EdgeInit => Lines!LeaseInit
    BY DEF EdgeInit, Lines!LeaseInit, Holder
  <1>2. EdgeInit => EdgeInv
    BY EdgeStarts
  <1>3. EdgeInv /\ [EdgeNext]_edgeVars => EdgeInv'
    BY EdgeStep
  <1>4. EdgeInv => HolderFacts
    BY HolderIs
  <1>5. EdgeInv /\ HolderFacts /\ HolderFacts' /\ [EdgeNext]_edgeVars => [Lines!LeaseNext]_Holder
    BY LinesStep
  <1> QED BY <1>1, <1>2, <1>3, <1>4, <1>5, PTL DEF EdgeSpec

-----------------------------------------------------------------------------
(* The registration of the voice edge with its provider (VoiceRegister) *)

AnswerSet == (1..Registrations) \X {200, 401, 403}

RegistrationStates == [attempt : 0..Registrations,
                       at : {"idle", "sent", "authorized", "registered", "failed"}]

(* An acceptance on its way, in the network or in the channel, was given. *)
Given(m) == m[2] = 200 => m[1] \in bound

RegisterInv ==
    /\ registration \in RegistrationStates
    /\ registration.at # "idle" => registration.attempt \in 1..Registrations
    /\ answers \subseteq AnswerSet /\ \A m \in answers : Given(m)
    /\ inbox \in Seq(AnswerSet) /\ Len(inbox) <= Channel
    /\ \A i \in 1..Len(inbox) : Given(inbox[i])
    /\ bound \subseteq 1..Registrations
    /\ RegisteredIsBound

(* Before the first attempt nothing is on its way. *)
LEMMA RegisterStarts == RegisterInit => RegisterInv
  BY RegisterAssumption
  DEF RegisterInit, RegisterInv, RegistrationStates, AnswerSet, RegisteredIsBound

(* A request, its answer, a late answer and a timeout keep it. *)
LEMMA RegisterStep == RegisterInv /\ [RegisterNext]_registerVars => RegisterInv'
  <1> SUFFICES ASSUME RegisterInv, [RegisterNext]_registerVars PROVE RegisterInv'
    OBVIOUS
  <1> USE RegisterAssumption
  <1>1. ASSUME Register PROVE RegisterInv'
    BY <1>1 DEF Register, RegisterInv, RegistrationStates, RegisteredIsBound, Given
  <1>2. ASSUME RegistrarAnswers PROVE RegisterInv'
    <2>1. PICK code \in {200, 401, 403} :
            /\ answers' = answers \cup {<<registration.attempt, code>>}
            /\ bound' = IF code = 200 THEN bound \cup {registration.attempt} ELSE bound
      BY <1>2 DEF RegistrarAnswers
    <2>2. /\ registration.attempt \in 1..Registrations /\ UNCHANGED <<registration, inbox>>
          /\ registration.at # "registered"
      BY <1>2 DEF RegistrarAnswers, RegisterInv
    <2>3. <<registration.attempt, code>> \in AnswerSet
      BY <2>2 DEF AnswerSet
    <2>4. /\ bound \subseteq bound' /\ bound' \subseteq 1..Registrations
          /\ code = 200 => registration.attempt \in bound'
      <3>1. CASE code = 200
        BY <2>1, <2>2, <3>1, Zenon DEF RegisterInv
      <3>2. CASE code # 200
        BY <2>1, <2>2, <3>2, Zenon DEF RegisterInv
      <3> QED BY <3>1, <3>2
    <2>5. \A m \in answers' : Given(m)'
      BY <2>1, <2>4 DEF RegisterInv, Given
    <2>6. \A i \in 1..Len(inbox) : Given(inbox[i])'
      BY <2>2, <2>4 DEF RegisterInv, Given
    <2> QED BY <2>1, <2>2, <2>3, <2>4, <2>5, <2>6 DEF RegisterInv, RegisteredIsBound
  <1>3. ASSUME ReceiveAnswer PROVE RegisterInv'
    <2>1. PICK m \in answers :
            /\ inbox' = IF Len(inbox) < Channel THEN Append(inbox, m) ELSE inbox
            /\ answers' \in {answers, answers \ {m}}
      BY <1>3 DEF ReceiveAnswer
    <2>2. UNCHANGED <<registration, bound>>
      BY <1>3 DEF ReceiveAnswer
    <2>3. /\ inbox' \in Seq(AnswerSet) /\ Len(inbox') <= Channel
          /\ \A i \in 1..Len(inbox') : Given(inbox'[i])
      <3>1. CASE Len(inbox) < Channel
        <4>1. m \in AnswerSet /\ Given(m) /\ inbox \in Seq(AnswerSet)
          BY <2>1 DEF RegisterInv
        <4>2. /\ inbox' \in Seq(AnswerSet) /\ Len(inbox') = Len(inbox) + 1
              /\ inbox'[Len(inbox) + 1] = m
              /\ \A i \in 1..Len(inbox) : inbox'[i] = inbox[i]
          BY <2>1, <3>1, <4>1, AppendProperties
        <4>3. Len(inbox) \in Nat
          BY <4>1
        <4>4. \A i \in 1..Len(inbox') : i = Len(inbox) + 1 \/ i \in 1..Len(inbox)
          BY <4>2, <4>3
        <4>5. \A i \in 1..Len(inbox') : Given(inbox'[i])
          BY <4>1, <4>2, <4>4 DEF RegisterInv
        <4> QED BY <3>1, <4>2, <4>3, <4>5
      <3>2. CASE ~(Len(inbox) < Channel)
        BY <2>1, <3>2 DEF RegisterInv
      <3> QED BY <3>1, <3>2
    <2> QED BY <2>1, <2>2, <2>3 DEF RegisterInv, RegisteredIsBound, Given
  <1>4. ASSUME TakeAnswer PROVE RegisterInv'
    <2>1. /\ registration.at \in {"sent", "authorized"} /\ inbox # <<>> /\ inbox' = Tail(inbox)
          /\ UNCHANGED <<answers, bound>>
      BY <1>4 DEF TakeAnswer
    <2>2. /\ inbox \in Seq(AnswerSet) /\ Len(inbox) \in Nat /\ Len(inbox) >= 1
          /\ Head(inbox) = inbox[1]
      BY <2>1, EmptySeq DEF RegisterInv
    <2>3. /\ inbox' \in Seq(AnswerSet) /\ Len(inbox') = Len(inbox) - 1
          /\ \A i \in 1..Len(inbox') : inbox'[i] = inbox[i + 1]
      BY <2>1, <2>2, HeadTailProperties
    <2>4. \A i \in 1..Len(inbox') : i + 1 \in 1..Len(inbox)
      BY <2>2, <2>3
    <2>5. /\ \A i \in 1..Len(inbox') : Given(inbox'[i])
          /\ Given(Head(inbox)) /\ Len(inbox') <= Channel
      BY <2>2, <2>3, <2>4 DEF RegisterInv
    <2>6. PICK at \in {"sent", "authorized", "registered", "failed"} :
            /\ registration' = [registration EXCEPT !.at = at]
            /\ at = "registered" => registration.attempt \in bound
      <3>1. CASE Head(inbox)[1] # registration.attempt
        BY <1>4, <2>1, <3>1 DEF TakeAnswer, RegisterInv, RegistrationStates
      <3>2. CASE Head(inbox)[1] = registration.attempt
        <4> DEFINE at == IF Head(inbox)[2] = 200 THEN "registered"
                         ELSE IF Head(inbox)[2] = 401 /\ registration.at = "sent" THEN "authorized"
                         ELSE "failed"
        <4>1. registration' = [registration EXCEPT !.at = at]
          BY <1>4, <3>2 DEF TakeAnswer
        <4>2. at = "registered" => registration.attempt \in bound
          BY <2>5, <3>2 DEF Given
        <4> QED BY <4>1, <4>2
      <3> QED BY <3>1, <3>2
    <2> QED BY <2>1, <2>3, <2>5, <2>6
        DEF RegisterInv, RegistrationStates, RegisteredIsBound, Given
  <1>5. ASSUME RegisterTimesOut PROVE RegisterInv'
    BY <1>5 DEF RegisterTimesOut, RegisterInv, RegistrationStates, RegisteredIsBound, Given
  <1>6. ASSUME UNCHANGED registerVars PROVE RegisterInv'
    BY <1>6 DEF registerVars, RegisterInv, RegisteredIsBound, Given
  <1> QED BY <1>1, <1>2, <1>3, <1>4, <1>5, <1>6 DEF RegisterNext

(* A sequence of at most n elements of S is one of the bounded sequences. *)
LEMMA BoundedSeqIs ==
  ASSUME NEW S, NEW n \in Nat, NEW q \in Seq(S), Len(q) <= n
  PROVE  q \in BoundedSeq(S, n)
  <1>1. Len(q) \in 0..n /\ q \in [1..Len(q) -> S]
    BY LenProperties
  <1> QED BY <1>1 DEF BoundedSeq, SeqOf

(* server.go, registerOnce and waitForRegisterResponse: the edge takes its
   registration for successful only when the registrar accepted that very
   attempt, however late and in whatever order the answers of earlier
   attempts come, and the channel never overfills. *)
THEOREM RegisteredOnlyWhenAccepted == RegisterSpec => []RegistrationHolds
  <1>1. RegisterInv => RegistrationHolds
    BY BoundedSeqIs, RegisterAssumption
    DEF RegisterInv, RegistrationStates, AnswerSet, RegistrationHolds, RegisterTypeOK
  <1> QED BY <1>1, RegisterStarts, RegisterStep, PTL DEF RegisterSpec

-----------------------------------------------------------------------------
(* The turns of a call (VoiceTurn) *)

CallerStates == [turn : 0..Turns, attempt : 0..MaxAttempts,
                 at : {"idle", "transcribing", "waiting", "speaking", "over"},
                 saying : {"repeat", "answer", "error"}]
RequestStates == Step \cup Ended \cup {"none"}
RecordRows == [inbound : Nat, outbound : Nat, usage : Nat]

(* The types, the records without their bound. *)
TurnTypes ==
    /\ source \in {"edge", "twilio"}
    /\ caller \in CallerStates
    /\ words \in [Turn -> Words \cup {NoWords}]
    /\ turnRequest \in [Turn \X SendAttempt -> RequestStates]
    /\ event \in [Words -> {"none", "received", "processed"}]
    /\ stored \in [Turn -> RecordRows]
    /\ bills \in {0, 1}
    /\ heard \in [Turn -> SUBSET {"repeat", "answer", "error"}]
    /\ audio \in [Turn -> Nat]

(* The attempts of a turn that are at one of the steps. *)
Attempts(u, S) == {a \in SendAttempt : turnRequest[<<u, a>>] \in S}
Count(u, S) == Cardinality(Attempts(u, S))
AfterInbound == {"outbound", "usage", "bill", "mark", "done", "failed"}

(* A turn holds no more questions than attempts went past them, and the answers
   and usage rows that are missing are those of attempts that stand before them. *)
RecordsHold(u) ==
    /\ stored[u].inbound <= Count(u, AfterInbound)
    /\ stored[u].outbound + Count(u, {"outbound"}) <= stored[u].inbound
    /\ stored[u].usage + Count(u, {"usage"}) <= stored[u].outbound

(* Only turns that were reached have attempts, as many as the client started. *)
StartedInOrder == \A u \in Turn, a \in SendAttempt :
              turnRequest[<<u, a>>] # "none" => u < caller.turn \/ (u = caller.turn /\ a <= caller.attempt)

(* An attempt that went past the usage row has it, past the bill has it. *)
Written ==
    /\ \A u \in Turn, a \in SendAttempt :
          /\ turnRequest[<<u, a>>] \in {"bill", "mark", "done"} => stored[u].usage > 0
          /\ turnRequest[<<u, a>>] \in {"mark", "done"} => bills = 1
    /\ bills = 1 => \E u \in Turn : stored[u].usage > 0

(* What was heard, or is about to be, is on record, and nothing was heard yet
   of a turn that is not over. *)
HeardHolds ==
    /\ \A u \in Turn : "answer" \in heard[u] => stored[u].usage > 0 /\ bills = 1
    /\ (caller.at = "speaking" /\ caller.saying = "answer") =>
          \A u \in Turn : u = caller.turn => stored[u].usage > 0 /\ bills = 1
    /\ \A u \in Turn : (u > caller.turn \/ (u = caller.turn /\ caller.at \notin {"idle", "over"})) =>
          heard[u] = {} /\ audio[u] = 0
    /\ \A u \in Turn : audio[u] <= 1 /\ \E x \in {"repeat", "answer", "error"} : heard[u] \subseteq {x}

(* An attempt is under way only in a turn, with an attempt. *)
CallerHolds ==
    /\ caller.at \in {"transcribing", "waiting", "speaking"} => caller.turn > 0
    /\ caller.at = "waiting" => caller.attempt > 0
    /\ caller.at = "transcribing" => caller.attempt = 0

TurnInv == TurnTypes /\ (\A u \in Turn : RecordsHold(u)) /\ StartedInOrder /\ Written /\ HeardHolds /\ CallerHolds

(* A count of attempts is a number. *)
LEMMA CountType == ASSUME NEW u, NEW S PROVE Count(u, S) \in Nat /\ IsFiniteSet(Attempts(u, S))
                                             /\ Count(u, S) <= MaxAttempts
  <1>1. IsFiniteSet(SendAttempt) /\ Cardinality(SendAttempt) = MaxAttempts
    BY TurnAssumption, FS_Interval DEF SendAttempt
  <1>2. Attempts(u, S) \subseteq SendAttempt
    BY DEF Attempts
  <1>3. IsFiniteSet(Attempts(u, S)) /\ Cardinality(Attempts(u, S)) <= Cardinality(SendAttempt)
    BY <1>1, <1>2, FS_Subset
  <1> QED BY <1>1, <1>3, FS_CardinalityType DEF Count

Hit(step, S) == IF step \in S THEN 1 ELSE 0

(* What a step of one attempt does to the counts. *)
LEMMA CountMoves ==
  ASSUME NEW u \in Turn, NEW a \in SendAttempt, NEW S, NEW y,
         turnRequest'[<<u, a>>] = y,
         \A v \in Turn, b \in SendAttempt :
            v # u \/ b # a => turnRequest'[<<v, b>>] = turnRequest[<<v, b>>]
  PROVE  /\ Count(u, S)' + Hit(turnRequest[<<u, a>>], S) = Count(u, S) + Hit(y, S)
         /\ \A v \in Turn : v # u => Count(v, S)' = Count(v, S)
  <1>2. ASSUME NEW v \in Turn, v # u PROVE Count(v, S)' = Count(v, S)
    <2>1. Attempts(v, S)' = Attempts(v, S)
      BY <1>2 DEF Attempts
    <2> QED BY <2>1 DEF Count
  <1>3. Attempts(u, S)' = IF y \in S THEN Attempts(u, S) \cup {a} ELSE Attempts(u, S) \ {a}
    BY DEF Attempts
  <1>4. a \in Attempts(u, S) <=> turnRequest[<<u, a>>] \in S
    BY DEF Attempts
  <1>5. IsFiniteSet(Attempts(u, S)) /\ Cardinality(Attempts(u, S)) \in Nat
    BY CountType DEF Count
  <1>6. CASE y \in S /\ turnRequest[<<u, a>>] \in S
    <2>1. Attempts(u, S)' = Attempts(u, S)
      BY <1>3, <1>4, <1>6
    <2> QED BY <1>2, <1>6, <2>1, <1>5 DEF Count, Hit
  <1>7. CASE y \in S /\ turnRequest[<<u, a>>] \notin S
    <2>1. Attempts(u, S)' = Attempts(u, S) \cup {a}
      BY <1>3, <1>7
    <2>2. Cardinality(Attempts(u, S)') = Cardinality(Attempts(u, S)) + 1
      BY <1>4, <1>5, <1>7, <2>1, FS_AddElement
    <2> QED BY <1>2, <1>7, <2>2, <1>5 DEF Count, Hit
  <1>8. CASE y \notin S /\ turnRequest[<<u, a>>] \in S
    <2>1. Attempts(u, S)' = Attempts(u, S) \ {a}
      BY <1>3, <1>8
    <2>2. Cardinality(Attempts(u, S)') = Cardinality(Attempts(u, S)) - 1
      BY <1>4, <1>5, <1>8, <2>1, FS_RemoveElement
    <2> QED BY <1>2, <1>8, <2>2, <1>5 DEF Count, Hit
  <1>9. CASE y \notin S /\ turnRequest[<<u, a>>] \notin S
    <2>1. Attempts(u, S)' = Attempts(u, S)
      BY <1>3, <1>4, <1>9
    <2> QED BY <1>2, <1>9, <2>1, <1>5 DEF Count, Hit
  <1> QED BY <1>6, <1>7, <1>8, <1>9

(* Attempts that do not move are counted the same. *)
LEMMA SameCounts ==
  ASSUME turnRequest' = turnRequest, NEW u, NEW S PROVE Count(u, S)' = Count(u, S)
  BY DEF Count, Attempts

(* Before the first turn there is nothing on record. *)
LEMMA TurnStarts == TurnInit => TurnInv
  <1> SUFFICES ASSUME TurnInit PROVE TurnInv
    OBVIOUS
  <1>1. TurnTypes
    BY TurnAssumption DEF TurnInit, TurnTypes, CallerStates, RequestStates, RecordRows
  <1>2. ASSUME NEW u \in Turn, NEW S, "none" \notin S PROVE Count(u, S) = 0
    <2>1. Attempts(u, S) = {}
      BY <1>2 DEF TurnInit, Attempts
    <2> QED BY <2>1, FS_EmptySet DEF Count
  <1>3. \A u \in Turn : RecordsHold(u)
    <2>1. \A u \in Turn : /\ Count(u, AfterInbound) = 0 /\ Count(u, {"outbound"}) = 0
                          /\ Count(u, {"usage"}) = 0
      BY <1>2 DEF AfterInbound
    <2>2. \A u \in Turn : stored[u].inbound = 0 /\ stored[u].outbound = 0 /\ stored[u].usage = 0
      BY DEF TurnInit
    <2> QED BY <2>1, <2>2 DEF RecordsHold
  <1>4. StartedInOrder /\ Written
    BY DEF TurnInit, StartedInOrder, Written
  <1>5. HeardHolds /\ CallerHolds
    BY DEF TurnInit, HeardHolds, CallerHolds
  <1> QED BY <1>1, <1>3, <1>4, <1>5 DEF TurnInv

(* A step of a handler: it moves its attempt on and writes to its own turn. *)
LEMMA HandlerMoves ==
  ASSUME TurnInv, NEW u \in Turn, NEW a \in SendAttempt, NEW y \in RequestStates,
         turnRequest[<<u, a>>] # "none", turnRequest' = [turnRequest EXCEPT ![<<u, a>>] = y],
         UNCHANGED <<source, caller, words, heard, audio>>,
         event' \in [Words -> {"none", "received", "processed"}],
         stored' \in [Turn -> RecordRows], \A v \in Turn : v # u => stored'[v] = stored[v],
         stored'[u].usage >= stored[u].usage,
         bills' \in {bills, 1},
         RecordsHold(u)',
         y \in {"bill", "mark", "done"} => stored'[u].usage > 0,
         y \in {"mark", "done"} => bills' = 1,
         bills' = 1 => (bills = 1 \/ stored'[u].usage > 0)
  PROVE  TurnInv'
  <1>1. TurnTypes /\ StartedInOrder /\ Written /\ HeardHolds /\ CallerHolds
        /\ \A v \in Turn : RecordsHold(v)
    BY DEF TurnInv
  <1>2. /\ turnRequest' \in [Turn \X SendAttempt -> RequestStates]
        /\ turnRequest'[<<u, a>>] = y
        /\ \A v \in Turn, b \in SendAttempt :
              v # u \/ b # a => turnRequest'[<<v, b>>] = turnRequest[<<v, b>>]
    BY <1>1 DEF TurnTypes
  <1>3. TurnTypes'
    BY <1>1, <1>2 DEF TurnTypes
  <1>4. ASSUME NEW v \in Turn PROVE RecordsHold(v)'
    <2>1. CASE v # u
      <3>1. stored'[v] = stored[v]
        BY <2>1
      <3>2. ASSUME NEW S PROVE Count(v, S)' = Count(v, S)
        <4>1. /\ turnRequest'[<<u, a>>] = y
              /\ \A w \in Turn, b \in SendAttempt :
                    w # u \/ b # a => turnRequest'[<<w, b>>] = turnRequest[<<w, b>>]
          BY <1>2
        <4> QED BY <2>1, <4>1, CountMoves
      <3>3. /\ Count(v, AfterInbound)' = Count(v, AfterInbound)
            /\ Count(v, {"outbound"})' = Count(v, {"outbound"})
            /\ Count(v, {"usage"})' = Count(v, {"usage"})
        BY <3>2
      <3> QED BY <1>1, <3>1, <3>3 DEF RecordsHold
    <2> QED BY <2>1
  <1>5. StartedInOrder'
    BY <1>1, <1>2 DEF StartedInOrder
  <1>6. \A v \in Turn : stored[v].usage \in Nat /\ stored'[v].usage \in Nat
    BY <1>1, <1>3 DEF TurnTypes, RecordRows
  <1>7. \A v \in Turn : stored[v].usage > 0 => stored'[v].usage > 0
    BY <1>6
  <1>8. bills = 1 => bills' = 1
    OBVIOUS
  <1>9. Written'
    BY <1>1, <1>2, <1>7, <1>8 DEF Written
  <1>10. HeardHolds' /\ CallerHolds'
    BY <1>1, <1>7, <1>8 DEF HeardHolds, CallerHolds
  <1> QED BY <1>3, <1>4, <1>5, <1>9, <1>10 DEF TurnInv

(* Each step of a request on the server is one of those. *)
LEMMA HandleStep ==
  ASSUME TurnInv, NEW r \in Turn \X SendAttempt, Handle(r) PROVE TurnInv'
  <1>1. PICK u \in Turn, a \in SendAttempt : r = <<u, a>>
    OBVIOUS
  <1>2. TurnTypes /\ Written /\ RecordsHold(u) /\ r[1] = u
    BY <1>1 DEF TurnInv
  <1>3. /\ stored[u].inbound \in Nat /\ stored[u].outbound \in Nat /\ stored[u].usage \in Nat
        /\ turnRequest[<<u, a>>] \in RequestStates
    BY <1>2 DEF TurnTypes, RecordRows
  <1>4. /\ UNCHANGED <<source, caller, words, heard, audio>>
        /\ turnRequest[<<u, a>>] \in Step
    BY <1>1 DEF Handle, RecordEvent, StoreInbound, StoreOutbound, LogTurnUsage, BillCall,
                MarkProcessed, TurnFails, Running, Step
  <1>5. \A S : Count(u, S) \in Nat /\ Count(u, S)' \in Nat
    <2>1. \A S : Count(u, S) \in Nat
      BY CountType
    <2>2. ASSUME NEW S PROVE Cardinality(Attempts(u, S)') \in Nat
      <3>1. IsFiniteSet(SendAttempt)
        BY TurnAssumption, FS_Interval DEF SendAttempt
      <3>2. Attempts(u, S)' \subseteq SendAttempt
        BY DEF Attempts
      <3>3. IsFiniteSet(Attempts(u, S)')
        BY <3>1, <3>2, FS_Subset
      <3> QED BY <3>3, FS_CardinalityType
    <2> QED BY <2>1, <2>2 DEF Count
  <1>6. ASSUME NEW y \in RequestStates, turnRequest' = [turnRequest EXCEPT ![<<u, a>>] = y]
        PROVE  \A S : Count(u, S)' + Hit(turnRequest[<<u, a>>], S) = Count(u, S) + Hit(y, S)
    <2>1. /\ turnRequest'[<<u, a>>] = y
          /\ \A v \in Turn, b \in SendAttempt :
                v # u \/ b # a => turnRequest'[<<v, b>>] = turnRequest[<<v, b>>]
      BY <1>2, <1>6 DEF TurnTypes
    <2>2. ASSUME NEW S
          PROVE  Count(u, S)' + Hit(turnRequest[<<u, a>>], S) = Count(u, S) + Hit(y, S)
      BY <2>1, CountMoves
    <2> QED BY <2>2
  <1>7. CASE RecordEvent(r) \/ MarkProcessed(r)
    <2>1. /\ stored' = stored /\ bills' = bills
          /\ event' \in [Words -> {"none", "received", "processed"}]
      BY <1>2, <1>7 DEF RecordEvent, MarkProcessed, TurnTypes
    <2>2. PICK y \in {"inbound", "repeat", "done"} :
             /\ turnRequest' = [turnRequest EXCEPT ![<<u, a>>] = y]
             /\ turnRequest[<<u, a>>] \in {"event", "mark"}
             /\ y = "done" <=> turnRequest[<<u, a>>] = "mark"
      BY <1>1, <1>7 DEF RecordEvent, MarkProcessed, Proceed, TurnAfter
    <2>3. y \in RequestStates
      BY DEF RequestStates, Step, Ended
    <2>4. /\ Count(u, AfterInbound)' + Hit(turnRequest[<<u, a>>], AfterInbound)
                = Count(u, AfterInbound) + Hit(y, AfterInbound)
          /\ Count(u, {"outbound"})' + Hit(turnRequest[<<u, a>>], {"outbound"})
                = Count(u, {"outbound"}) + Hit(y, {"outbound"})
          /\ Count(u, {"usage"})' + Hit(turnRequest[<<u, a>>], {"usage"})
                = Count(u, {"usage"}) + Hit(y, {"usage"})
      BY <1>6, <2>2, <2>3
    <2>5. RecordsHold(u)'
      BY <1>2, <1>3, <1>5, <2>1, <2>2, <2>4 DEF RecordsHold, Hit, AfterInbound
    <2>6. (y = "done") => (stored[u].usage > 0 /\ bills = 1)
      BY <1>2, <2>2 DEF Written
    <2>7. stored' \in [Turn -> RecordRows] /\ bills' \in {bills, 1} /\ stored'[u].usage >= stored[u].usage
      BY <1>2, <1>3, <2>1 DEF TurnTypes
    <2> QED BY <1>4, <2>1, <2>2, <2>3, <2>5, <2>6, <2>7, HandlerMoves
  <1>8. CASE StoreInbound(r)
    <2>1. /\ turnRequest[<<u, a>>] = "inbound" /\ bills' = bills /\ event' = event
          /\ turnRequest' = [turnRequest EXCEPT ![<<u, a>>] = "outbound"]
          /\ stored' = [stored EXCEPT ![u].inbound = @ + 1]
      BY <1>1, <1>8 DEF StoreInbound, Proceed, TurnAfter
    <2>2. /\ stored' \in [Turn -> RecordRows] /\ \A v \in Turn : v # u => stored'[v] = stored[v]
          /\ stored'[u].inbound = stored[u].inbound + 1
          /\ stored'[u].outbound = stored[u].outbound /\ stored'[u].usage = stored[u].usage
      <3> DEFINE row == [stored[u] EXCEPT !.inbound = stored[u].inbound + 1]
      <3>1. stored[u] \in RecordRows
        BY <1>2 DEF TurnTypes
      <3>2. /\ row \in RecordRows /\ row.inbound = stored[u].inbound + 1
            /\ row.outbound = stored[u].outbound /\ row.usage = stored[u].usage
        BY <3>1 DEF RecordRows
      <3>3. stored' = [stored EXCEPT ![u] = row]
        BY <2>1
      <3> HIDE DEF row
      <3> QED BY <1>2, <3>2, <3>3 DEF TurnTypes
    <2>3. "outbound" \in RequestStates
      BY DEF RequestStates, Step
    <2>4. /\ Count(u, AfterInbound)' + Hit("inbound", AfterInbound)
                = Count(u, AfterInbound) + Hit("outbound", AfterInbound)
          /\ Count(u, {"outbound"})' + Hit("inbound", {"outbound"})
                = Count(u, {"outbound"}) + Hit("outbound", {"outbound"})
          /\ Count(u, {"usage"})' + Hit("inbound", {"usage"})
                = Count(u, {"usage"}) + Hit("outbound", {"usage"})
      BY <1>6, <2>1, <2>3
    <2>5. RecordsHold(u)'
      BY <1>2, <1>3, <1>5, <2>2, <2>4 DEF RecordsHold, Hit, AfterInbound
    <2>6. event' \in [Words -> {"none", "received", "processed"}] /\ bills' \in {bills, 1}
          /\ stored'[u].usage >= stored[u].usage
      BY <1>2, <1>3, <2>1, <2>2 DEF TurnTypes
    <2> QED BY <1>4, <2>1, <2>2, <2>3, <2>5, <2>6, HandlerMoves
  <1>9. CASE StoreOutbound(r)
    <2>1. /\ turnRequest[<<u, a>>] = "outbound" /\ bills' = bills /\ event' = event
          /\ turnRequest' = [turnRequest EXCEPT ![<<u, a>>] = "usage"]
          /\ stored' = [stored EXCEPT ![u].outbound = @ + 1]
      BY <1>1, <1>9 DEF StoreOutbound, Proceed, TurnAfter
    <2>2. /\ stored' \in [Turn -> RecordRows] /\ \A v \in Turn : v # u => stored'[v] = stored[v]
          /\ stored'[u].inbound = stored[u].inbound
          /\ stored'[u].outbound = stored[u].outbound + 1 /\ stored'[u].usage = stored[u].usage
      <3> DEFINE row == [stored[u] EXCEPT !.outbound = stored[u].outbound + 1]
      <3>1. stored[u] \in RecordRows
        BY <1>2 DEF TurnTypes
      <3>2. /\ row \in RecordRows /\ row.outbound = stored[u].outbound + 1
            /\ row.inbound = stored[u].inbound /\ row.usage = stored[u].usage
        BY <3>1 DEF RecordRows
      <3>3. stored' = [stored EXCEPT ![u] = row]
        BY <2>1
      <3> HIDE DEF row
      <3> QED BY <1>2, <3>2, <3>3 DEF TurnTypes
    <2>3. "usage" \in RequestStates
      BY DEF RequestStates, Step
    <2>4. /\ Count(u, AfterInbound)' + Hit("outbound", AfterInbound)
                = Count(u, AfterInbound) + Hit("usage", AfterInbound)
          /\ Count(u, {"outbound"})' + Hit("outbound", {"outbound"})
                = Count(u, {"outbound"}) + Hit("usage", {"outbound"})
          /\ Count(u, {"usage"})' + Hit("outbound", {"usage"})
                = Count(u, {"usage"}) + Hit("usage", {"usage"})
      BY <1>6, <2>1, <2>3
    <2>5. RecordsHold(u)'
      BY <1>2, <1>3, <1>5, <2>2, <2>4 DEF RecordsHold, Hit, AfterInbound
    <2>6. event' \in [Words -> {"none", "received", "processed"}] /\ bills' \in {bills, 1}
          /\ stored'[u].usage >= stored[u].usage
      BY <1>2, <1>3, <2>1, <2>2 DEF TurnTypes
    <2> QED BY <1>4, <2>1, <2>2, <2>3, <2>5, <2>6, HandlerMoves
  <1>10. CASE LogTurnUsage(r)
    <2>1. /\ turnRequest[<<u, a>>] = "usage" /\ bills' = bills /\ event' = event
          /\ turnRequest' = [turnRequest EXCEPT ![<<u, a>>] = "bill"]
          /\ stored' = [stored EXCEPT ![u].usage = @ + 1]
      BY <1>1, <1>10 DEF LogTurnUsage, Proceed, TurnAfter
    <2>2. /\ stored' \in [Turn -> RecordRows] /\ \A v \in Turn : v # u => stored'[v] = stored[v]
          /\ stored'[u].inbound = stored[u].inbound
          /\ stored'[u].outbound = stored[u].outbound /\ stored'[u].usage = stored[u].usage + 1
      <3> DEFINE row == [stored[u] EXCEPT !.usage = stored[u].usage + 1]
      <3>1. stored[u] \in RecordRows
        BY <1>2 DEF TurnTypes
      <3>2. /\ row \in RecordRows /\ row.usage = stored[u].usage + 1
            /\ row.inbound = stored[u].inbound /\ row.outbound = stored[u].outbound
        BY <3>1 DEF RecordRows
      <3>3. stored' = [stored EXCEPT ![u] = row]
        BY <2>1
      <3> HIDE DEF row
      <3> QED BY <1>2, <3>2, <3>3 DEF TurnTypes
    <2>3. "bill" \in RequestStates
      BY DEF RequestStates, Step
    <2>4. /\ Count(u, AfterInbound)' + Hit("usage", AfterInbound)
                = Count(u, AfterInbound) + Hit("bill", AfterInbound)
          /\ Count(u, {"outbound"})' + Hit("usage", {"outbound"})
                = Count(u, {"outbound"}) + Hit("bill", {"outbound"})
          /\ Count(u, {"usage"})' + Hit("usage", {"usage"})
                = Count(u, {"usage"}) + Hit("bill", {"usage"})
      BY <1>6, <2>1, <2>3
    <2>5. RecordsHold(u)'
      BY <1>2, <1>3, <1>5, <2>2, <2>4 DEF RecordsHold, Hit, AfterInbound
    <2>6. event' \in [Words -> {"none", "received", "processed"}] /\ bills' \in {bills, 1}
          /\ stored'[u].usage >= stored[u].usage /\ stored'[u].usage > 0
      BY <1>2, <1>3, <2>1, <2>2 DEF TurnTypes
    <2> QED BY <1>4, <2>1, <2>2, <2>3, <2>5, <2>6, HandlerMoves
  <1>11. CASE BillCall(r)
    <2>1. /\ turnRequest[<<u, a>>] = "bill" /\ event' = event /\ stored' = stored
          /\ bills' = IF bills = 0 THEN 1 ELSE bills
      BY <1>1, <1>11 DEF BillCall
    <2>2. PICK y \in {"mark", "done"} : turnRequest' = [turnRequest EXCEPT ![<<u, a>>] = y]
      <3>1. turnRequest' = [turnRequest EXCEPT ![<<u, a>>] = TurnAfter["bill"]]
        BY <1>1, <1>11 DEF BillCall, Proceed
      <3>2. TurnAfter["bill"] \in {"mark", "done"}
        BY DEF TurnAfter
      <3> QED BY <3>1, <3>2
    <2>3. y \in RequestStates
      BY DEF RequestStates, Step, Ended
    <2>4. /\ Count(u, AfterInbound)' + Hit("bill", AfterInbound)
                = Count(u, AfterInbound) + Hit(y, AfterInbound)
          /\ Count(u, {"outbound"})' + Hit("bill", {"outbound"})
                = Count(u, {"outbound"}) + Hit(y, {"outbound"})
          /\ Count(u, {"usage"})' + Hit("bill", {"usage"})
                = Count(u, {"usage"}) + Hit(y, {"usage"})
      BY <1>6, <2>1, <2>2, <2>3
    <2>5. RecordsHold(u)'
      BY <1>2, <1>3, <1>5, <2>1, <2>4 DEF RecordsHold, Hit, AfterInbound
    <2>6. /\ event' \in [Words -> {"none", "received", "processed"}]
          /\ stored' \in [Turn -> RecordRows] /\ stored'[u].usage >= stored[u].usage
      BY <1>2, <1>3, <2>1 DEF TurnTypes
    <2>7. stored'[u].usage > 0 /\ bills' = 1 /\ bills' \in {bills, 1}
      BY <1>2, <2>1 DEF Written, TurnTypes
    <2> QED BY <1>4, <2>1, <2>2, <2>3, <2>5, <2>6, <2>7, HandlerMoves
  <1>12. CASE TurnFails(r)
    <2>1. /\ turnRequest[<<u, a>>] \in {"inbound", "outbound", "usage", "bill"} /\ event' = event
          /\ stored' = stored /\ bills' = bills
          /\ turnRequest' = [turnRequest EXCEPT ![<<u, a>>] = "failed"]
      BY <1>1, <1>12 DEF TurnFails, Running, Step
    <2>2. "failed" \in RequestStates
      BY DEF RequestStates, Ended
    <2>3. /\ Count(u, AfterInbound)' + Hit(turnRequest[<<u, a>>], AfterInbound)
                = Count(u, AfterInbound) + Hit("failed", AfterInbound)
          /\ Count(u, {"outbound"})' + Hit(turnRequest[<<u, a>>], {"outbound"})
                = Count(u, {"outbound"}) + Hit("failed", {"outbound"})
          /\ Count(u, {"usage"})' + Hit(turnRequest[<<u, a>>], {"usage"})
                = Count(u, {"usage"}) + Hit("failed", {"usage"})
      BY <1>6, <2>1, <2>2
    <2>4. RecordsHold(u)'
      BY <1>2, <1>3, <1>5, <2>1, <2>3 DEF RecordsHold, Hit, AfterInbound
    <2>5. /\ event' \in [Words -> {"none", "received", "processed"}] /\ bills' \in {bills, 1}
          /\ stored' \in [Turn -> RecordRows] /\ stored'[u].usage >= stored[u].usage
      BY <1>2, <1>3, <2>1 DEF TurnTypes
    <2> QED BY <1>4, <2>1, <2>2, <2>4, <2>5, HandlerMoves
  <1> QED BY <1>7, <1>8, <1>9, <1>10, <1>11, <1>12 DEF Handle

(* A step of the client that starts no attempt. *)
LEMMA ClientStep ==
  ASSUME TurnInv, UNCHANGED <<source, turnRequest, event, stored, bills>>,
         words' \in [Turn -> Words \cup {NoWords}],
         caller' \in CallerStates, heard' \in [Turn -> SUBSET {"repeat", "answer", "error"}],
         audio' \in [Turn -> Nat],
         caller'.turn >= caller.turn, caller'.turn = caller.turn => caller'.attempt >= caller.attempt,
         HeardHolds', CallerHolds'
  PROVE  TurnInv'
  <1>1. TurnTypes'
    BY DEF TurnInv, TurnTypes
  <1>2. ASSUME NEW u \in Turn PROVE RecordsHold(u)'
    <2>1. /\ Count(u, AfterInbound)' = Count(u, AfterInbound)
          /\ Count(u, {"outbound"})' = Count(u, {"outbound"})
          /\ Count(u, {"usage"})' = Count(u, {"usage"})
      BY SameCounts
    <2> QED BY <2>1 DEF TurnInv, RecordsHold
  <1>3. Written'
    BY DEF TurnInv, Written
  <1>4. StartedInOrder'
    <2>1. caller \in CallerStates /\ StartedInOrder
      BY DEF TurnInv, TurnTypes
    <2> QED BY <2>1, TurnAssumption DEF StartedInOrder, CallerStates, Turn, SendAttempt
  <1> QED BY <1>1, <1>2, <1>3, <1>4 DEF TurnInv

(* What the caller hears, says and ends, and the client's attempts, keep it.
   *)
LEMMA CallStep ==
  ASSUME TurnInv, Hear \/ HangUp \/ Client PROVE TurnInv'
  <1>1. TurnTypes /\ StartedInOrder /\ Written /\ HeardHolds /\ CallerHolds
        /\ \A v \in Turn : RecordsHold(v)
    BY DEF TurnInv
  <1>2. caller \in CallerStates /\ Turns \in Nat /\ MaxAttempts \in Nat \ {0}
    BY <1>1, TurnAssumption DEF TurnTypes
  <1>3. CASE Hear
    <2>1. caller.at = "idle" /\ caller.turn < Turns
      BY <1>3 DEF Hear, At
    <2>2. /\ caller' = [caller EXCEPT !.turn = caller.turn + 1, !.at = "transcribing", !.attempt = 0]
          /\ UNCHANGED <<source, turnRequest, event, stored, bills, heard, audio>>
          /\ words' \in [Turn -> Words \cup {NoWords}]
      BY <1>1, <1>3 DEF Hear, TurnTypes
    <2>3. /\ caller' \in CallerStates /\ caller'.turn = caller.turn + 1 /\ caller'.at = "transcribing"
          /\ caller'.attempt = 0
      <3>1. caller.turn + 1 \in 0..Turns /\ 0 \in 0..MaxAttempts
        BY <1>2, <2>1 DEF CallerStates
      <3> QED BY <1>2, <2>2, <3>1 DEF CallerStates
    <2>4. HeardHolds' /\ CallerHolds'
      BY <1>1, <1>2, <2>1, <2>2, <2>3 DEF HeardHolds, CallerHolds, CallerStates, Turn
    <2>5. caller'.turn >= caller.turn /\ (caller'.turn = caller.turn => caller'.attempt >= caller.attempt)
      BY <1>2, <2>3 DEF CallerStates
    <2> QED BY <1>1, <2>2, <2>3, <2>4, <2>5, ClientStep DEF TurnTypes
  <1>4. CASE HangUp
    <2>1. /\ caller' = [caller EXCEPT !.at = "over"]
          /\ UNCHANGED <<source, words, turnRequest, event, stored, bills, heard, audio>>
      BY <1>4 DEF HangUp, Go
    <2>2. /\ caller' \in CallerStates /\ caller'.turn = caller.turn /\ caller'.at = "over"
          /\ caller'.attempt = caller.attempt
      BY <1>2, <2>1 DEF CallerStates
    <2>3. HeardHolds' /\ CallerHolds'
      BY <1>1, <2>1, <2>2 DEF HeardHolds, CallerHolds
    <2>4. caller'.turn >= caller.turn /\ caller'.attempt >= caller.attempt
      BY <1>2, <2>2 DEF CallerStates
    <2> QED BY <1>1, <2>1, <2>2, <2>3, <2>4, ClientStep DEF TurnTypes
  <1>5. ASSUME NEW what \in {"repeat", "answer", "error"}, Speak(what),
               caller.at \in {"transcribing", "waiting"},
               UNCHANGED <<source, words, turnRequest, event, stored, bills, heard, audio>>,
               what = "answer" => \A u \in Turn : u = caller.turn => stored[u].usage > 0 /\ bills = 1
        PROVE  TurnInv'
    <2>1. /\ caller' \in CallerStates /\ caller'.turn = caller.turn /\ caller'.at = "speaking"
          /\ caller'.attempt = caller.attempt /\ caller'.saying = what
      BY <1>2, <1>5 DEF Speak, CallerStates
    <2>2. HeardHolds' /\ CallerHolds'
      BY <1>1, <1>5, <2>1 DEF HeardHolds, CallerHolds
    <2>3. caller'.turn >= caller.turn /\ caller'.attempt >= caller.attempt
      BY <1>2, <2>1 DEF CallerStates
    <2> QED BY <1>1, <1>5, <2>1, <2>2, <2>3, ClientStep DEF TurnTypes
  <1>6. CASE NotUnderstood
    BY <1>5, <1>6 DEF NotUnderstood, At
  <1>7. CASE TurnAnswered
    <2>1. /\ caller.at = "waiting" /\ turnRequest[<<caller.turn, caller.attempt>>] \in {"done", "repeat"}
          /\ Speak(IF turnRequest[<<caller.turn, caller.attempt>>] = "done" THEN "answer" ELSE "repeat")
          /\ UNCHANGED <<source, words, turnRequest, event, stored, bills, heard, audio>>
      BY <1>7 DEF TurnAnswered, At, Now
    <2>2. caller.turn \in Turn /\ caller.attempt \in SendAttempt
      BY <1>1, <1>2, <2>1 DEF CallerHolds, CallerStates, Turn, SendAttempt
    <2>3. CASE turnRequest[<<caller.turn, caller.attempt>>] = "done"
      <3>1. stored[caller.turn].usage > 0 /\ bills = 1 /\ Speak("answer")
        BY <1>1, <2>1, <2>2, <2>3 DEF Written
      <3> QED BY <1>5, <2>1, <3>1
    <2>4. CASE turnRequest[<<caller.turn, caller.attempt>>] # "done"
      <3>1. Speak("repeat")
        BY <2>1, <2>4
      <3> QED BY <1>5, <2>1, <3>1
    <2> QED BY <2>3, <2>4
  <1>8. ASSUME caller.at \in {"transcribing", "waiting"}, caller.attempt < MaxAttempts,
               caller.at = "transcribing" => caller.attempt = 0,
               caller'.turn = caller.turn, caller'.at = "waiting",
               caller'.attempt = caller.attempt + 1, caller' \in CallerStates,
               Post(caller.turn, caller.attempt + 1),
               UNCHANGED <<source, words, event, stored, bills, heard, audio>>
        PROVE  TurnInv'
    <2>1. PICK u \in Turn, a \in SendAttempt :
             u = caller.turn /\ a = caller.attempt + 1 /\ caller.attempt \in Nat
      BY <1>1, <1>2, <1>8 DEF CallerHolds, CallerStates, Turn, SendAttempt
    <2>2. turnRequest[<<u, a>>] = "none"
      BY <1>1, <1>2, <2>1 DEF StartedInOrder, CallerStates, Turn, SendAttempt
    <2>3. PICK y \in {"event", "inbound"} : turnRequest' = [turnRequest EXCEPT ![<<u, a>>] = y]
      BY <1>8, <2>1 DEF Post, FirstStep
    <2>4. caller'.turn = u /\ caller'.attempt = a
      BY <1>8, <2>1
    <2>5. /\ turnRequest' \in [Turn \X SendAttempt -> RequestStates]
          /\ turnRequest'[<<u, a>>] = y
          /\ \A v \in Turn, b \in SendAttempt :
                v # u \/ b # a => turnRequest'[<<v, b>>] = turnRequest[<<v, b>>]
      BY <1>1, <2>1, <2>3 DEF TurnTypes, RequestStates, Step
    <2>6. TurnTypes'
      BY <1>1, <1>8, <2>5 DEF TurnTypes
    <2>7. ASSUME NEW S PROVE Count(u, S)' + Hit("none", S) = Count(u, S) + Hit(y, S)
      <3>1. /\ turnRequest'[<<u, a>>] = y
            /\ \A v \in Turn, b \in SendAttempt :
                  v # u \/ b # a => turnRequest'[<<v, b>>] = turnRequest[<<v, b>>]
        BY <2>5
      <3>2. Count(u, S)' + Hit(turnRequest[<<u, a>>], S) = Count(u, S) + Hit(y, S)
        BY <2>1, <3>1, CountMoves
      <3> QED BY <2>2, <3>2
    <2>8. ASSUME NEW v \in Turn, v # u, NEW S PROVE Count(v, S)' = Count(v, S)
      BY <2>1, <2>5, <2>8, CountMoves
    <2>9. \A v \in Turn : \A S : Count(v, S) \in Nat
      BY CountType
    <2>10. ASSUME NEW v \in Turn PROVE RecordsHold(v)'
      <3>1. CASE v = u
        <4>1. /\ Count(u, AfterInbound)' + Hit("none", AfterInbound)
                    = Count(u, AfterInbound) + Hit(y, AfterInbound)
              /\ Count(u, {"outbound"})' + Hit("none", {"outbound"})
                    = Count(u, {"outbound"}) + Hit(y, {"outbound"})
              /\ Count(u, {"usage"})' + Hit("none", {"usage"}) = Count(u, {"usage"}) + Hit(y, {"usage"})
          BY <2>7
        <4>2. /\ Hit("none", AfterInbound) = 0 /\ Hit(y, AfterInbound) = 0
              /\ Hit("none", {"outbound"}) = 0 /\ Hit(y, {"outbound"}) = 0
              /\ Hit("none", {"usage"}) = 0 /\ Hit(y, {"usage"}) = 0
          BY DEF Hit, AfterInbound
        <4>3. \A S : Count(u, S)' \in Nat
          <5>1. ASSUME NEW S PROVE Cardinality(Attempts(u, S)') \in Nat
            <6>1. IsFiniteSet(SendAttempt)
              BY TurnAssumption, FS_Interval DEF SendAttempt
            <6>2. Attempts(u, S)' \subseteq SendAttempt
              BY DEF Attempts
            <6>3. IsFiniteSet(Attempts(u, S)')
              BY <6>1, <6>2, FS_Subset
            <6> QED BY <6>3, FS_CardinalityType
          <5> QED BY <5>1 DEF Count
        <4>4. /\ Count(u, AfterInbound)' = Count(u, AfterInbound)
              /\ Count(u, {"outbound"})' = Count(u, {"outbound"})
              /\ Count(u, {"usage"})' = Count(u, {"usage"})
          BY <2>1, <2>9, <4>1, <4>2, <4>3
        <4>5. RecordsHold(u) /\ stored' = stored
          BY <1>1, <1>8, <2>1
        <4>6. RecordsHold(u)'
          BY <4>4, <4>5 DEF RecordsHold
        <4> QED BY <3>1, <4>6
      <3>2. CASE v # u
        <4>1. /\ Count(v, AfterInbound)' = Count(v, AfterInbound)
              /\ Count(v, {"outbound"})' = Count(v, {"outbound"})
              /\ Count(v, {"usage"})' = Count(v, {"usage"})
          BY <2>8, <3>2
        <4> QED BY <1>1, <1>8, <4>1 DEF RecordsHold
      <3> QED BY <3>1, <3>2
    <2>11. StartedInOrder'
      BY <1>1, <1>2, <2>1, <2>4, <2>5 DEF StartedInOrder, CallerStates, Turn, SendAttempt
    <2>12. Written'
      BY <1>1, <1>8, <2>5 DEF Written
    <2>13. HeardHolds' /\ CallerHolds'
      BY <1>1, <1>2, <1>8, <2>1 DEF HeardHolds, CallerHolds, CallerStates
    <2> QED BY <2>6, <2>10, <2>11, <2>12, <2>13 DEF TurnInv
  <1>9. CASE SendTurn
    <2>1. /\ caller.at = "transcribing" /\ caller.attempt = 0
          /\ caller' = [caller EXCEPT !.at = "waiting", !.attempt = 1]
          /\ Post(caller.turn, 1)
          /\ UNCHANGED <<source, words, event, stored, bills, heard, audio>>
      BY <1>1, <1>9 DEF SendTurn, At, CallerHolds
    <2>2. /\ caller' \in CallerStates /\ caller'.turn = caller.turn /\ caller'.at = "waiting"
          /\ caller'.attempt = 1
      <3>1. 1 \in 0..MaxAttempts
        BY <1>2
      <3> QED BY <1>2, <2>1, <3>1 DEF CallerStates
    <2>3. caller.attempt + 1 = 1 /\ caller.attempt < MaxAttempts
      BY <1>2, <2>1
    <2> QED BY <1>8, <2>1, <2>2, <2>3
  <1>10. CASE GiveUpAttempt
    <2>1. /\ caller.at = "waiting"
          /\ UNCHANGED <<source, words, event, stored, bills, heard, audio>>
      BY <1>10 DEF GiveUpAttempt, At
    <2>2. CASE caller.attempt < MaxAttempts
      <3>1. /\ caller' = [caller EXCEPT !.attempt = caller.attempt + 1]
            /\ Post(caller.turn, caller.attempt + 1)
        BY <1>10, <2>2 DEF GiveUpAttempt
      <3>2. /\ caller' \in CallerStates /\ caller'.turn = caller.turn /\ caller'.at = "waiting"
            /\ caller'.attempt = caller.attempt + 1
        BY <1>2, <2>1, <2>2, <3>1 DEF CallerStates
      <3> QED BY <1>8, <2>1, <2>2, <3>1, <3>2
    <2>3. CASE ~(caller.attempt < MaxAttempts)
      <3>1. Speak("error") /\ turnRequest' = turnRequest
        BY <1>10, <2>3 DEF GiveUpAttempt
      <3> QED BY <1>5, <2>1, <3>1
    <2> QED BY <2>2, <2>3
  <1>11. CASE Say
    <2>1. /\ caller.at = "speaking" /\ caller' = [caller EXCEPT !.at = "idle"]
          /\ UNCHANGED <<source, words, turnRequest, event, stored, bills>>
          /\ \/ /\ heard' = [heard EXCEPT ![caller.turn] = heard[caller.turn] \cup {caller.saying}]
                /\ audio' = [audio EXCEPT ![caller.turn] = audio[caller.turn] + 1]
             \/ heard' = heard /\ audio' = audio
      BY <1>11 DEF Say, At, Go
    <2>2. /\ caller' \in CallerStates /\ caller'.turn = caller.turn /\ caller'.at = "idle"
          /\ caller'.attempt = caller.attempt
      BY <1>2, <2>1 DEF CallerStates
    <2> DEFINE u == caller.turn
    <2>3. u \in Turn /\ heard[u] = {} /\ audio[u] = 0 /\ caller.saying \in {"repeat", "answer", "error"}
      BY <1>1, <1>2, <2>1 DEF HeardHolds, CallerHolds, CallerStates, Turn
    <2>4. /\ heard' \in [Turn -> SUBSET {"repeat", "answer", "error"}] /\ audio' \in [Turn -> Nat]
          /\ \A v \in Turn : v # u => heard'[v] = heard[v] /\ audio'[v] = audio[v]
          /\ heard'[u] \subseteq {caller.saying} /\ audio'[u] <= 1
      BY <1>1, <2>1, <2>3 DEF TurnTypes
    <2>5. "answer" \in heard'[u] => stored[u].usage > 0 /\ bills = 1
      BY <1>1, <2>1, <2>3, <2>4 DEF HeardHolds
    <2>6. \A v \in Turn : v > u => v # u
      BY <1>2 DEF CallerStates, Turn
    <2>7. HeardHolds'
      <3>1. \A v \in Turn : "answer" \in heard'[v] => stored'[v].usage > 0 /\ bills' = 1
        BY <1>1, <2>1, <2>4, <2>5 DEF HeardHolds
      <3>2. \A v \in Turn : audio'[v] <= 1 /\ \E x \in {"repeat", "answer", "error"} : heard'[v] \subseteq {x}
        BY <1>1, <2>3, <2>4 DEF HeardHolds
      <3>3. \A v \in Turn : (v > caller'.turn \/ (v = caller'.turn /\ caller'.at \notin {"idle", "over"}))
                               => heard'[v] = {} /\ audio'[v] = 0
        BY <1>1, <2>2, <2>4, <2>6 DEF HeardHolds
      <3> QED BY <2>2, <3>1, <3>2, <3>3 DEF HeardHolds
    <2>8. CallerHolds'
      BY <2>2 DEF CallerHolds
    <2>9. caller'.turn >= caller.turn /\ caller'.attempt >= caller.attempt
      BY <1>2, <2>2 DEF CallerStates
    <2> QED BY <1>1, <2>1, <2>2, <2>4, <2>7, <2>8, <2>9, ClientStep DEF TurnTypes
  <1> QED BY <1>3, <1>4, <1>6, <1>7, <1>9, <1>10, <1>11 DEF Client

(* The invariant is strong enough. *)
LEMMA TurnInvAddsUp == TurnInv => TurnsAddUp
  <1> SUFFICES ASSUME TurnInv PROVE TurnsAddUp
    OBVIOUS
  <1>1. TurnTypes /\ Written /\ HeardHolds /\ \A u \in Turn : RecordsHold(u)
    BY DEF TurnInv
  <1>2. ASSUME NEW u \in Turn
        PROVE  /\ stored[u].inbound \in 0..MaxAttempts /\ stored[u].outbound \in 0..MaxAttempts
               /\ stored[u].usage \in 0..MaxAttempts
               /\ stored[u].usage <= stored[u].outbound /\ stored[u].outbound <= stored[u].inbound
               /\ stored[u].inbound <= Count(u, AfterInbound)
    <2>1. /\ Count(u, AfterInbound) \in Nat /\ Count(u, {"outbound"}) \in Nat
          /\ Count(u, {"usage"}) \in Nat /\ Count(u, AfterInbound) <= MaxAttempts
      BY CountType
    <2>2. /\ stored[u].inbound \in Nat /\ stored[u].outbound \in Nat /\ stored[u].usage \in Nat
      BY <1>1 DEF TurnTypes, RecordRows
    <2> QED BY <1>1, <2>1, <2>2, TurnAssumption DEF RecordsHold
  <1>3. TurnTypeOK
    <2>1. stored \in [Turn -> [inbound : 0..MaxAttempts, outbound : 0..MaxAttempts,
                               usage : 0..MaxAttempts]]
      BY <1>1, <1>2 DEF TurnTypes, RecordRows
    <2> QED BY <1>1, <2>1 DEF TurnTypeOK, TurnTypes, CallerStates, RequestStates
  <1>4. HeardIsOnRecord
    <2>1. \A u \in Turn : stored[u].inbound \in Nat /\ stored[u].outbound \in Nat /\ stored[u].usage \in Nat
      BY <1>1 DEF TurnTypes, RecordRows
    <2> QED BY <1>1, <1>2, <2>1 DEF HeardIsOnRecord, HeardHolds
  <1>5. BilledOnceForAnAnswer
    <2>1. \A u \in Turn : stored[u].outbound \in Nat /\ stored[u].usage \in Nat
      BY <1>1 DEF TurnTypes, RecordRows
    <2> QED BY <1>1, <1>2, <2>1 DEF BilledOnceForAnAnswer, Written, TurnTypes
  <1>6. AnswersFollowQuestions
    <2>1. ASSUME NEW u \in Turn
          PROVE  stored[u].inbound <= Cardinality({a \in SendAttempt : turnRequest[<<u, a>>] # "none"})
      <3> DEFINE B == {a \in SendAttempt : turnRequest[<<u, a>>] # "none"}
      <3>1. IsFiniteSet(SendAttempt)
        BY TurnAssumption, FS_Interval DEF SendAttempt
      <3>2. B \subseteq SendAttempt /\ Attempts(u, AfterInbound) \subseteq B
        BY DEF Attempts, AfterInbound
      <3> HIDE DEF B
      <3>3. IsFiniteSet(B)
        BY <3>1, <3>2, FS_Subset
      <3>4. Count(u, AfterInbound) <= Cardinality(B) /\ Cardinality(B) \in Nat
        BY <3>2, <3>3, FS_Subset, FS_CardinalityType DEF Count
      <3>5. Count(u, AfterInbound) \in Nat /\ stored[u].inbound \in Nat
        BY <1>1, CountType DEF TurnTypes, RecordRows
      <3>6. stored[u].inbound <= Cardinality(B)
        BY <1>2, <3>4, <3>5
      <3> QED BY <3>6 DEF B
    <2> QED BY <1>2, <2>1 DEF AnswersFollowQuestions
  <1>7. OneReplyPerTurn
    <2>1. ASSUME NEW u \in Turn PROVE audio[u] <= 1 /\ Cardinality(heard[u]) <= 1
      <3>1. audio[u] <= 1 /\ \E x \in {"repeat", "answer", "error"} : heard[u] \subseteq {x}
        BY <1>1 DEF HeardHolds
      <3>2. PICK x : heard[u] = {} \/ heard[u] = {x}
        BY <3>1
      <3>3. heard[u] = {} => Cardinality(heard[u]) = 0
        BY FS_EmptySet
      <3>4. heard[u] = {x} => Cardinality(heard[u]) = 1
        BY FS_Singleton
      <3> QED BY <3>1, <3>2, <3>3, <3>4
    <2> QED BY <2>1 DEF OneReplyPerTurn
  <1> QED BY <1>3, <1>4, <1>5, <1>6, <1>7 DEF TurnsAddUp

(* Every step of a call keeps the invariant. *)
LEMMA TurnStep == TurnInv /\ [TurnNext]_turnVars => TurnInv'
  <1> SUFFICES ASSUME TurnInv, [TurnNext]_turnVars PROVE TurnInv'
    OBVIOUS
  <1>1. CASE TurnNext
    BY <1>1, CallStep, HandleStep DEF TurnNext
  <1>2. CASE UNCHANGED turnVars
    <2>1. HeardHolds' /\ CallerHolds'
      BY <1>2 DEF TurnInv, HeardHolds, CallerHolds, turnVars
    <2>2. caller'.turn >= caller.turn /\ caller'.attempt >= caller.attempt
      BY <1>2 DEF TurnInv, TurnTypes, CallerStates, turnVars
    <2> QED BY <1>2, <2>1, <2>2, ClientStep DEF turnVars, TurnInv, TurnTypes
  <1> QED BY <1>1, <1>2

(* voice/src/index.ts, turn/client.go: with attempts that are retried,
   repeated and overlapping, what the caller hears as an answer is in the
   transcript, the usage log and the bill, a call is billed once and only for
   an answer, no answer is stored without its question, and the caller hears
   one reply per turn. *)
THEOREM TurnsAlwaysAddUp == TurnSpec => []TurnsAddUp
  <1>1. TurnInit => TurnInv
    BY TurnStarts
  <1>2. TurnInv /\ [TurnNext]_turnVars => TurnInv'
    BY TurnStep
  <1>3. TurnInv => TurnsAddUp
    BY TurnInvAddsUp
  <1> QED BY <1>1, <1>2, <1>3, PTL DEF TurnSpec
=============================================================================
