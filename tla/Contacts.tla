------------------------------ MODULE Contacts ------------------------------
(***************************************************************************)
(* Who a conversation is with.  A message or a form brings identities: an  *)
(* e-mail address, a phone number, an id of its channel.  The contact that *)
(* matches is updated and linked, or one is created; identities are not    *)
(* unique in the schema.  A form prefers the contact its conversation is   *)
(* linked to, whatever it says.  Finding and writing are two statements,   *)
(* and which of several matches is found is left to the database.          *)
(***************************************************************************)
EXTENDS Naturals, FiniteSets

CONSTANTS
    Emails, Phones, ChannelIds,     \* values of the identities
    Unknown,                        \* no value
    Threads,                        \* conversations
    Visits,                         \* messages and forms, numbered
    MaxContacts                     \* bound on contacts created

ASSUME ContactsAssumption == Visits \in Nat /\ MaxContacts \in Nat

VARIABLES
    contact,        \* contacts, numbered; e-mail, phone and the ids of channels
    linkedTo,       \* conversation_contacts, unique by conversation; 0 is none
    visit,          \* the messages and forms
    mergers         \* what may leave two contacts with one identity

contactsVars == <<contact, linkedTo, visit, mergers>>

Contact == 1..MaxContacts
Visit == 1..Visits
Nobody == [live |-> FALSE, email |-> Unknown, phone |-> Unknown, ids |-> {}]
Live == {n \in Contact : contact[n].live}

ContactsInit ==
    /\ contact = [n \in Contact |-> Nobody]
    /\ linkedTo = [t \in Threads |-> 0]
    /\ visit = [v \in Visit |-> [at |-> "none", talk |-> CHOOSE t \in Threads : TRUE, form |-> FALSE,
                                 email |-> Unknown, phone |-> Unknown, id |-> Unknown, match |-> 0]]
    /\ mergers = {}

Known(x) == x # Unknown
Finding(v) == visit[v].at = "found"

-----------------------------------------------------------------------------
\* A message has the id of its channel, a form what the visitor typed as well.
Arrive(v, t, form, email, phone, id) ==
    /\ visit[v].at = "none" /\ \A u \in 1..(v - 1) : visit[u].at # "none"
    /\ form \/ (~Known(email) /\ ~Known(phone))
    /\ Known(email) \/ Known(phone) \/ Known(id)
    /\ visit' = [visit EXCEPT ![v] = [at |-> "new", talk |-> t, form |-> form, email |-> email,
                                      phone |-> phone, id |-> id, match |-> 0]]
    /\ UNCHANGED <<contact, linkedTo, mergers>>

\* findMatchingContact: the linked one, one with the e-mail or the phone, one
\* with the id of the channel.
Preferred(v) == IF visit[v].form THEN {linkedTo[visit[v].talk]} \cap Live ELSE {}
SameAddress(v) == {n \in Live : \/ Known(visit[v].email) /\ contact[n].email = visit[v].email
                                \/ Known(visit[v].phone) /\ contact[n].phone = visit[v].phone}
SameId(v) == {n \in Live : visit[v].id \in contact[n].ids}
PreferredOrAddressed(v) == IF Preferred(v) # {} THEN Preferred(v) ELSE SameAddress(v)
Matches(v) == IF Preferred(v) # {} THEN Preferred(v)
              ELSE IF SameAddress(v) # {} THEN SameAddress(v)
              ELSE SameId(v)

Find(v) ==
    /\ visit[v].at = "new"
    /\ \E n \in IF Matches(v) = {} THEN {0} ELSE Matches(v) :
         visit' = [visit EXCEPT ![v].at = "found", ![v].match = n]
    /\ mergers' = mergers
         \cup (IF \E u \in Visit : Finding(u) THEN {"overlap"} ELSE {})
         \cup (IF Cardinality(Preferred(v) \cup SameAddress(v) \cup SameId(v)) > 1
               THEN {"ambiguous"} ELSE {})
    /\ UNCHANGED <<contact, linkedTo>>

Merged(new, old) == IF Known(new) THEN new ELSE old
Ids(v) == IF Known(visit[v].id) THEN {visit[v].id} ELSE {}

\* resolveContactForConversation updates the match or inserts a contact, and
\* linkConversationContact links it.
Save(v, n) ==
    /\ contact' = [contact EXCEPT ![n] = [live |-> TRUE, email |-> Merged(visit[v].email, @.email),
                                          phone |-> Merged(visit[v].phone, @.phone),
                                          ids |-> @.ids \cup Ids(v)]]
    /\ linkedTo' = [linkedTo EXCEPT ![visit[v].talk] = n]

WriteMatch(v) ==
    /\ Finding(v) /\ visit[v].match # 0
    /\ contact[visit[v].match].live
    /\ Save(v, visit[v].match)
    /\ visit' = [visit EXCEPT ![v].at = "done"]
    /\ UNCHANGED mergers

\* The match was erased in between: the update finds no row, the contact that
\* was read is returned and the link to it fails.
LoseMatch(v) ==
    /\ Finding(v) /\ visit[v].match # 0
    /\ ~contact[visit[v].match].live
    /\ visit' = [visit EXCEPT ![v].at = "done"]
    /\ UNCHANGED <<contact, linkedTo, mergers>>

Unused == {n \in Contact : contact[n] = Nobody /\ \A o \in 1..(n - 1) : contact[o] # Nobody}
CreateContact(v) ==
    /\ Finding(v) /\ visit[v].match = 0
    /\ \E n \in Unused : Save(v, n)
    /\ visit' = [visit EXCEPT ![v].at = "done"]
    /\ UNCHANGED mergers

\* deleteContact: the links of the contact cascade.
EraseContact(n) ==
    /\ n \in Live
    /\ contact' = [contact EXCEPT ![n].live = FALSE]
    /\ linkedTo' = [t \in Threads |-> IF linkedTo[t] = n THEN 0 ELSE linkedTo[t]]
    /\ UNCHANGED <<visit, mergers>>

ContactsNext ==
    \/ \E v \in Visit : Find(v) \/ WriteMatch(v) \/ LoseMatch(v) \/ CreateContact(v) \/
         \E t \in Threads, form \in BOOLEAN, email \in Emails \cup {Unknown}, phone \in Phones \cup {Unknown},
            id \in ChannelIds \cup {Unknown} : Arrive(v, t, form, email, phone, id)
    \/ \E n \in Contact : EraseContact(n)

ContactsSpec == ContactsInit /\ [][ContactsNext]_contactsVars

-----------------------------------------------------------------------------
\* One customer is one contact: no two contacts have an identity in common,
\* unless visits overlapped, or a visit's identities belonged to several
\* contacts, or to another one than its conversation is linked to.
Share(m, n) == \/ Known(contact[m].email) /\ contact[m].email = contact[n].email
               \/ Known(contact[m].phone) /\ contact[m].phone = contact[n].phone
               \/ contact[m].ids \cap contact[n].ids # {}
OneContactPerCustomer ==
    mergers = {} => \A m, n \in Live : m # n => ~Share(m, n)
=============================================================================
