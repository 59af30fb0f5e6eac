---------------------------- MODULE VoiceRegister ----------------------------
(***************************************************************************)
(* The SIP registration of the voice edge, refreshed every four minutes    *)
(* (registerOnce): the answers reach it through a channel that readLoop    *)
(* fills, late, twice or not at all.                                       *)
(***************************************************************************)
EXTENDS Naturals, Sequences, FiniteSets, SequencesExt

CONSTANTS
    Registrations,    \* registration attempts, each with a Call-ID of its own
    Channel           \* capacity of registerResponses

ASSUME RegisterAssumption == Registrations \in Nat /\ Channel \in Nat \ {0}

VARIABLES
    registration, \* the attempt under way and what it waits for
    answers,      \* REGISTER answers on the network, each <<attempt, code>>
    inbox,        \* the channel from readLoop to registerOnce
    bound         \* attempts the registrar accepted

registerVars == <<registration, answers, inbox, bound>>

RegisterInit ==
    /\ registration = [attempt |-> 0, at |-> "idle"]
    /\ answers = {} /\ inbox = <<>> /\ bound = {}

-----------------------------------------------------------------------------
\* registerOnce sends a request and waits five seconds for an answer to its
\* Call-ID; a challenge is answered with credentials under the same Call-ID.
Register ==
    /\ registration.at \in {"idle", "registered", "failed"}
    /\ registration.attempt < Registrations
    /\ registration' = [attempt |-> registration.attempt + 1, at |-> "sent"]
    /\ UNCHANGED <<answers, inbox, bound>>

\* The registrar answers what was sent: a challenge, then a verdict.
RegistrarAnswers ==
    /\ registration.at \in {"sent", "authorized"}
    /\ \E code \in IF registration.at = "sent" THEN {401} ELSE {200, 403} :
          /\ answers' = answers \cup {<<registration.attempt, code>>}
          /\ bound' = IF code = 200 THEN bound \cup {registration.attempt} ELSE bound
    /\ UNCHANGED <<registration, inbox>>

\* handleMessage hands an answer over, or drops it when the channel is full;
\* the network may deliver it again.
ReceiveAnswer ==
    /\ \E m \in answers :
          /\ inbox' = IF Len(inbox) < Channel THEN Append(inbox, m) ELSE inbox
          /\ answers' \in {answers, answers \ {m}}
    /\ UNCHANGED <<registration, bound>>

\* waitForRegisterResponse throws away answers to other Call-IDs.  A challenge
\* that arrives again after the credentials were sent ends the attempt.
TakeAnyAnswer ==
    /\ registration.at \in {"sent", "authorized"} /\ inbox # <<>>
    /\ inbox' = Tail(inbox)
    /\ registration' = [registration EXCEPT !.at =
          IF Head(inbox)[2] = 200 THEN "registered"
          ELSE IF Head(inbox)[2] = 401 /\ @ = "sent" THEN "authorized" ELSE "failed"]
    /\ UNCHANGED <<answers, bound>>

TakeAnswer ==
    /\ registration.at \in {"sent", "authorized"} /\ inbox # <<>>
    /\ inbox' = Tail(inbox)
    /\ registration' = IF Head(inbox)[1] # registration.attempt THEN registration
         ELSE [registration EXCEPT !.at =
                  IF Head(inbox)[2] = 200 THEN "registered"
                  ELSE IF Head(inbox)[2] = 401 /\ @ = "sent" THEN "authorized" ELSE "failed"]
    /\ UNCHANGED <<answers, bound>>

RegisterTimesOut ==
    /\ registration.at \in {"sent", "authorized"}
    /\ registration' = [registration EXCEPT !.at = "failed"]
    /\ UNCHANGED <<answers, inbox, bound>>

RegisterNext ==
    Register \/ RegistrarAnswers \/ ReceiveAnswer \/ TakeAnswer \/ RegisterTimesOut

RegisterSpec == RegisterInit /\ [][RegisterNext]_registerVars

-----------------------------------------------------------------------------
\* The type invariant of the registration.
RegisterTypeOK ==
    /\ registration \in [attempt : 0..Registrations,
                         at : {"idle", "sent", "authorized", "registered", "failed"}]
    /\ answers \subseteq (1..Registrations) \X {200, 401, 403}
    /\ inbox \in BoundedSeq((1..Registrations) \X {200, 401, 403}, Channel)
    /\ bound \subseteq 1..Registrations

\* A registration is taken for successful only when the registrar accepted
\* that very attempt, however old the answers in the channel are.
RegisteredIsBound == registration.at = "registered" => registration.attempt \in bound

\* The registration is what the registrar said of it, and no answer of the
\* network overfills the channel.
RegistrationHolds == RegisterTypeOK /\ RegisteredIsBound
=============================================================================
