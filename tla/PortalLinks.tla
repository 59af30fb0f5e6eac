----------------------------- MODULE PortalLinks -----------------------------
(***************************************************************************)
(* Links that let a customer read a conversation and hand in details.      *)
(*                                                                         *)
(* Creating a link, disabling it and handing in details each write a record*)
(* to OneBrain first and to the database after it; the process may fail at *)
(* any point between, and the caller tries again.  Retention and erasure   *)
(* take the conversation or the contact away meanwhile.                    *)
(***************************************************************************)
EXTENDS Naturals, FiniteSets

CONSTANTS
    Links,          \* rows of portal_link_projections
    Holders,        \* requests: of the admin or of a customer with the token
    MaxTries        \* requests begun, a bound

VARIABLES
    link,           \* status of a link: none, active, disabled; and whether expired
    attached,       \* the link's conversation, the link's contact still exist
    told,           \* records OneBrain has: per link its events
    holder,         \* requests in progress
    handed,         \* messages of handed-in details stored per link
    enriched,       \* links whose contact was filled from details
    tries

portalVars == <<link, attached, told, holder, handed, enriched, tries>>

Asleep == [kind |-> "none", at |-> "idle", link |-> 0]

PortalInit ==
    /\ link = [l \in Links |-> [status |-> "none", expired |-> FALSE]]
    /\ attached = [l \in Links |-> {"conversation", "contact"}]
    /\ told = [l \in Links |-> [kind \in {"create", "disable", "details"} |-> 0]]
    /\ holder = [h \in Holders |-> Asleep]
    /\ handed = [l \in Links |-> 0]
    /\ enriched = {}
    /\ tries = 0

\* resolvePortalAccess: the token's link is active and not expired.
Open(l) == link[l].status = "active" /\ ~link[l].expired

\* What each request checks before its record is written: the conversation of a new
\* link exists, a link to disable is still active, a link to use is open and has
\* its conversation.
Accepted(kind, l) ==
    CASE kind = "create" -> link[l].status = "none" /\ "conversation" \in attached[l]
      [] kind = "disable" -> link[l].status = "active"
      [] kind = "details" -> Open(l) /\ "conversation" \in attached[l]
      [] OTHER -> FALSE

Ask(h, kind, l) ==
    /\ holder[h] = Asleep /\ tries < MaxTries /\ Accepted(kind, l)
    /\ \A g \in Holders : ~(kind = "create" /\ holder[g].kind = "create" /\ holder[g].link = l)
    /\ holder' = [holder EXCEPT ![h] = [kind |-> kind, at |-> "tell", link |-> l]]
    /\ tries' = tries + 1
    /\ UNCHANGED <<link, attached, told, handed, enriched>>

\* writeOneBrainDataRecord; an error is answered 502 and nothing is stored.
StoreAnyway(at) == IF at \in {"tell", "refused"} THEN "store" ELSE "idle"
Order(at) == IF at = "tell" THEN "store" ELSE "idle"

Tell(h) ==
    /\ holder[h].at = "tell"
    /\ told' = [told EXCEPT ![holder[h].link][holder[h].kind] = @ + 1]
    /\ holder' = [holder EXCEPT ![h].at = Order("tell")]
    /\ UNCHANGED <<link, attached, handed, enriched, tries>>

TellFails(h) ==
    /\ holder[h].at = "tell"
    /\ holder' = [holder EXCEPT ![h] = IF Order("refused") = "idle" THEN Asleep
                                       ELSE [@ EXCEPT !.at = Order("refused")]]
    /\ UNCHANGED <<link, attached, told, handed, enriched, tries>>

\* createPortalLinkProjection fails when the conversation or contact is gone by now.
StoreLink(h) ==
    LET l == holder[h].link IN
    /\ holder[h].kind = "create" /\ holder[h].at = "store"
    /\ link' = IF attached[l] = {"conversation", "contact"}
               THEN [link EXCEPT ![l].status = "active"] ELSE link
    /\ holder' = [holder EXCEPT ![h] = Asleep]
    /\ UNCHANGED <<attached, told, handed, enriched, tries>>

DisableLink(h) ==
    /\ holder[h].kind = "disable" /\ holder[h].at = "store"
    /\ link' = [link EXCEPT ![holder[h].link].status = "disabled"]
    /\ holder' = [holder EXCEPT ![h] = Asleep]
    /\ UNCHANGED <<attached, told, handed, enriched, tries>>

\* The details: fields go to the conversation's contact, then the message is added;
\* without the conversation either fails.
Enrich(h) ==
    LET l == holder[h].link IN
    /\ holder[h].kind = "details" /\ holder[h].at = "store"
    /\ IF "conversation" \in attached[l]
       THEN /\ enriched' = enriched \cup {l}
            /\ holder' = [holder EXCEPT ![h].at = "message"]
       ELSE holder' = [holder EXCEPT ![h] = Asleep] /\ UNCHANGED enriched
    /\ UNCHANGED <<link, attached, told, handed, tries>>

AddDetailsMessage(h) ==
    LET l == holder[h].link IN
    /\ holder[h].at = "message"
    /\ handed' = IF "conversation" \in attached[l] THEN [handed EXCEPT ![l] = @ + 1] ELSE handed
    /\ holder' = [holder EXCEPT ![h] = Asleep]
    /\ UNCHANGED <<link, attached, told, enriched, tries>>

\* The process dies, or a statement fails.
Interrupt(h) ==
    /\ holder[h].at \in {"store", "message"}
    /\ holder' = [holder EXCEPT ![h] = Asleep]
    /\ UNCHANGED <<link, attached, told, handed, enriched, tries>>

ExpireLink(l) ==
    /\ link[l].status = "active" /\ ~link[l].expired
    /\ link' = [link EXCEPT ![l].expired = TRUE]
    /\ UNCHANGED <<attached, told, holder, handed, enriched, tries>>

\* Retention or erasure: the link keeps its row and loses the reference.
Detach(l, what) ==
    /\ what \in attached[l]
    /\ attached' = [attached EXCEPT ![l] = @ \ {what}]
    /\ UNCHANGED <<link, told, holder, handed, enriched, tries>>

PortalNext ==
    \/ \E h \in Holders :
        \/ \E kind \in {"create", "disable", "details"}, l \in Links : Ask(h, kind, l)
        \/ Tell(h) \/ TellFails(h) \/ StoreLink(h) \/ DisableLink(h)
        \/ Enrich(h) \/ AddDetailsMessage(h) \/ Interrupt(h)
    \/ \E l \in Links : ExpireLink(l) \/ \E what \in {"conversation", "contact"} : Detach(l, what)

PortalSpec == PortalInit /\ [][PortalNext]_portalVars

-----------------------------------------------------------------------------
\* server.ts:3279-3326, 3367-3401, 4276-4346: with refused writes, failures between
\* the two stores, retries and overlapping requests, whatever the database holds of
\* a link, OneBrain has the record of it: of its creation, of its disabling and of
\* every message handed in over it.
OneBrainKnowsFirst ==
    \A l \in Links :
        /\ link[l].status # "none" => told[l]["create"] > 0
        /\ link[l].status = "disabled" => told[l]["disable"] > 0
        /\ handed[l] <= told[l]["details"]
        /\ l \in enriched => told[l]["details"] > 0
=============================================================================
