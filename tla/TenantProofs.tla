---------------------------- MODULE TenantProofs ----------------------------
(***************************************************************************)
(* Proofs about what a tenant's users and visitors do, for any number of them: *)
(* the handoff inbox, links to the customer portal, the rights of accounts, *)
(* subscriptions and usage, contacts and their erasure, the widget's visits *)
(* and replies, the setup of telephone numbers, the admin console, an      *)
(* operator's replies, and what a workspace's reports say of it.           *)
(***************************************************************************)
EXTENDS HandoffDesk, PortalLinks, Accounts, Billing, Contacts, ContactErasure, WidgetChat,
        WidgetReplies, TelephoneSetup, AdminConsole, OperatorReplies, TenantReports,
        TLAPS, FiniteSetTheorems

-----------------------------------------------------------------------------
(* The handoff inbox (HandoffDesk) *)

(* A set whose elements are all the same has at most one. *)
LEMMA AtMostOne ==
  ASSUME NEW S, \A x, y \in S : x = y
  PROVE  IsFiniteSet(S) /\ Cardinality(S) <= 1
  <1>1. CASE S = {}
    BY <1>1, FS_EmptySet
  <1>2. CASE S # {}
    <2>1. PICK x \in S : TRUE
      BY <1>2
    <2>2. S = {x}
      BY <2>1
    <2>3. IsFiniteSet(S) /\ Cardinality(S) = 1
      BY <2>2, FS_Singleton, Zenon
    <2> QED BY <2>3
  <1> QED BY <1>1, <1>2

-----------------------------------------------------------------------------
UpdateStates == {"idle", "read", "locked", "looked", "aborted", "acknowledged"}

HandoffRows == [status : {"open", "resolved"}, notes : SUBSET Updates, version : Nat]

(* The types. *)
HandoffTypeOK ==
    /\ handoffRow \in HandoffRows
    /\ update \in [Updates -> [at : UpdateStates, resolves : BOOLEAN, notes : BOOLEAN,
                               answers : BOOLEAN, read : HandoffRows, new : BOOLEAN]]
    /\ replies \subseteq Updates /\ mishap \subseteq Updates

(* One transaction holds the row. *)
OneHolder == \A u, v \in Updates : Holding(u) /\ Holding(v) => u = v

(* A version names the notes that were read with it, and who holds the row and
   writes notes read the present version, or is counted as a mishap. *)
ReadsAreVersions ==
    \A u \in Updates :
        /\ update[u].read.version <= handoffRow.version
        /\ update[u].read.version = handoffRow.version => update[u].read.notes = handoffRow.notes
        /\ update[u].at \in {"locked", "looked"} /\ update[u].notes /\ u \notin mishap =>
              update[u].read.version = handoffRow.version

(* A transaction that will add a suggestion saw none, and none came since. *)
NewIsNew ==
    /\ \A u \in Updates : update[u].at = "looked" /\ update[u].new => replies = {}
    /\ \A u, v \in replies : u = v

AbortsAreMishaps == \A u \in Updates : update[u].at = "aborted" => u \in mishap

(* The invariant. *)
HandoffInv ==
    HandoffTypeOK /\ OneHolder /\ ReadsAreVersions /\ NewIsNew /\ AbortsAreMishaps /\ UpdatesLast

(* At first nobody updates the handoff. *)
LEMMA HandoffStarts == HandoffInit => HandoffInv
  BY DEF HandoffInit, HandoffInv, HandoffTypeOK, HandoffRows, IdleUpdate, UpdateStates, OneHolder,
         Holding, ReadsAreVersions, NewIsNew, AbortsAreMishaps, UpdatesLast

(* Every step of the inbox keeps the invariant. *)
LEMMA HandoffStep == HandoffInv /\ [HandoffNext]_handoffVars => HandoffInv'
  <1> SUFFICES ASSUME HandoffInv, [HandoffNext]_handoffVars PROVE HandoffInv'
    OBVIOUS
  <1> USE DEF HandoffInv, HandoffTypeOK, HandoffRows, UpdateStates, OneHolder, Holding,
              ReadsAreVersions, NewIsNew, AbortsAreMishaps, UpdatesLast
  <1>1. ASSUME NEW u \in Updates, NEW resolves \in BOOLEAN, NEW notes \in BOOLEAN,
               NEW answers \in BOOLEAN, BeginUpdate(u, resolves, notes, answers)
        PROVE  HandoffInv'
    BY <1>1 DEF BeginUpdate
  <1>2. ASSUME NEW u \in Updates, LockRow(u)
        PROVE  HandoffInv'
    BY <1>2 DEF LockRow
  <1>3. ASSUME NEW u \in Updates, LookForReply(u)
        PROVE  HandoffInv'
    <2> DEFINE new == Learns(u) /\ Unlearned
    <2>1. /\ update[u].at = "locked" /\ UNCHANGED <<handoffRow, replies, mishap>>
          /\ update' = [update EXCEPT ![u].at = "looked", ![u].new = new]
      BY <1>3 DEF LookForReply
    <2>2. new \in BOOLEAN /\ (new => replies = {})
      BY DEF Unlearned
    <2> HIDE DEF new
    <2>3. update' = [update EXCEPT ![u] = [update[u] EXCEPT !.at = "looked", !.new = new]]
      BY <2>1
    <2>4. HandoffTypeOK'
      BY <2>1, <2>2, <2>3
    <2>5. OneHolder' 
      BY <2>1, <2>3
    <2>6. ReadsAreVersions' 
      BY <2>1, <2>3
    <2>7. AbortsAreMishaps' 
      BY <2>1, <2>3
    <2>8. UpdatesLast'
      BY <2>1, <2>3
    <2>9. NewIsNew'
      BY <2>1, <2>2, <2>3
    <2> QED BY <2>4, <2>5, <2>6, <2>7, <2>8, <2>9
  <1>4. ASSUME NEW u \in Updates, FailCapture(u)
        PROVE  HandoffInv'
    BY <1>4 DEF FailCapture
  <1>5. ASSUME NEW u \in Updates, CommitUpdate(u)
        PROVE  HandoffInv'
    BY <1>5 DEF CommitUpdate, Updated, StatusOf, NotesOf
  <1>6. ASSUME NEW u \in Updates, RollBack(u)
        PROVE  HandoffInv'
    BY <1>6 DEF RollBack
  <1>7. ASSUME UNCHANGED handoffVars
        PROVE  HandoffInv'
    BY <1>7 DEF handoffVars
  <1> QED BY <1>1, <1>2, <1>3, <1>4, <1>5, <1>6, <1>7 DEF HandoffNext

(* repository.ts, updateHandoff: an acknowledged update lasts, its note and
   its resolution, unless some update wrote notes from a stale read or its
   capture failed with the transaction; and overlapping resolutions teach the
   assistant one reply. *)
THEOREM UpdatesAreKept == HandoffSpec => []UpdatesHold
  <1>1. HandoffInv => UpdatesHold
    BY AtMostOne DEF HandoffInv, NewIsNew, UpdatesHold, HumanReplyOnce
  <1> QED BY <1>1, HandoffStarts, HandoffStep, PTL DEF HandoffSpec

-----------------------------------------------------------------------------
(* Links to the customer portal (PortalLinks) *)

HolderStates == [kind : {"none", "create", "disable", "details"},
                 at : {"idle", "tell", "store", "message"}, link : Links \cup {0}]

(* The types. *)
PortalTypeOK ==
    /\ link \in [Links -> [status : {"none", "active", "disabled"}, expired : BOOLEAN]]
    /\ attached \in [Links -> SUBSET {"conversation", "contact"}]
    /\ told \in [Links -> [{"create", "disable", "details"} -> Nat]]
    /\ holder \in [Holders -> HolderStates]
    /\ handed \in [Links -> Nat]
    /\ enriched \subseteq Links
    /\ tries \in Nat

(* A request under way is of a link, which it may disable only once it exists;
   what OneBrain was told of stays to be stored. *)
HasTold(h) == holder[h].at \in {"store", "message"}
RequestsAreTold ==
    \A h \in Holders :
        /\ holder[h].at # "idle" => holder[h].kind # "none" /\ holder[h].link \in Links
        /\ holder[h].at = "message" => holder[h].kind = "details"
        /\ holder[h].at # "idle" /\ holder[h].kind = "disable" => link[holder[h].link].status # "none"
        /\ HasTold(h) => told[holder[h].link][holder[h].kind] > 0

(* Every message that is stored or may still be was told of by a request of its own. *)
StillToStore(l) == {h \in Holders : HasTold(h) /\ holder[h].kind = "details" /\ holder[h].link = l}
MessagesAreTold ==
    \A l \in Links : /\ IsFiniteSet(StillToStore(l))
                     /\ handed[l] + Cardinality(StillToStore(l)) <= told[l]["details"]

(* The invariant. *)
PortalInv == PortalTypeOK /\ RequestsAreTold /\ MessagesAreTold /\ OneBrainKnowsFirst

(* What becomes of the messages under way when one request moves: one more when
   it starts to store details, one less when it stops. *)
Stores(s, l) == s.at \in {"store", "message"} /\ s.kind = "details" /\ s.link = l

(* One request that moves keeps the messages told of, when it adds what it
   tells. *)
LEMMA PendingMoves ==
  ASSUME PortalTypeOK, MessagesAreTold, NEW h \in Holders, NEW s \in HolderStates,
         holder' = [holder EXCEPT ![h] = s],
         \A l \in Links :
            \/ /\ handed'[l] = handed[l] /\ told'[l]["details"] = told[l]["details"]
               /\ Stores(s, l) => h \in StillToStore(l)
            \/ handed'[l] = handed[l] /\ told'[l]["details"] = told[l]["details"] + 1
            \/ /\ handed'[l] = handed[l] + 1 /\ told'[l]["details"] = told[l]["details"]
               /\ h \in StillToStore(l) /\ ~Stores(s, l)
  PROVE  MessagesAreTold'
  <1> SUFFICES ASSUME NEW l \in Links
               PROVE  /\ IsFiniteSet(StillToStore(l)')
                      /\ handed'[l] + Cardinality(StillToStore(l)') <= told'[l]["details"]
    BY DEF MessagesAreTold
  <1>1. /\ IsFiniteSet(StillToStore(l)) /\ Cardinality(StillToStore(l)) \in Nat
        /\ handed[l] + Cardinality(StillToStore(l)) <= told[l]["details"]
    BY FS_CardinalityType DEF MessagesAreTold
  <1>2. handed[l] \in Nat /\ told[l]["details"] \in Nat
    BY DEF PortalTypeOK
  <1>3. \A g \in Holders : holder'[g] = IF g = h THEN s ELSE holder[g]
    BY DEF PortalTypeOK
  <1>4. CASE Stores(s, l)
    <2>1. StillToStore(l)' = StillToStore(l) \cup {h}
      BY <1>3, <1>4 DEF StillToStore, HasTold, Stores
    <2>2. /\ IsFiniteSet(StillToStore(l) \cup {h})
          /\ Cardinality(StillToStore(l) \cup {h}) =
               IF h \in StillToStore(l) THEN Cardinality(StillToStore(l)) ELSE Cardinality(StillToStore(l)) + 1
      BY <1>1, FS_AddElement, Zenon
    <2> QED BY <1>1, <1>2, <1>4, <2>1, <2>2
  <1>5. CASE ~Stores(s, l)
    <2>1. StillToStore(l)' = StillToStore(l) \ {h}
      BY <1>3, <1>5 DEF StillToStore, HasTold, Stores
    <2>2. /\ IsFiniteSet(StillToStore(l) \ {h})
          /\ Cardinality(StillToStore(l) \ {h}) =
               IF h \in StillToStore(l) THEN Cardinality(StillToStore(l)) - 1 ELSE Cardinality(StillToStore(l))
      BY <1>1, FS_RemoveElement, Zenon
    <2> QED BY <1>1, <1>2, <1>5, <2>1, <2>2
  <1> QED BY <1>4, <1>5

(* At first there are no links. *)
LEMMA PortalStarts == PortalInit => PortalInv
  <1> SUFFICES ASSUME PortalInit PROVE PortalInv
    OBVIOUS
  <1>1. PortalTypeOK /\ RequestsAreTold /\ OneBrainKnowsFirst
    BY DEF PortalInit, PortalTypeOK, RequestsAreTold, OneBrainKnowsFirst, Asleep, HolderStates, HasTold
  <1>2. \A l \in Links : StillToStore(l) = {}
    BY DEF PortalInit, Asleep, StillToStore, HasTold
  <1>3. \A l \in Links : IsFiniteSet(StillToStore(l)) /\ Cardinality(StillToStore(l)) = 0
    BY <1>2, FS_EmptySet, Zenon
  <1>4. MessagesAreTold
    BY <1>1, <1>3 DEF MessagesAreTold, PortalInit
  <1> QED BY <1>1, <1>4 DEF PortalInv

(* Every step of a link keeps the invariant. *)
LEMMA PortalStep == PortalInv /\ [PortalNext]_portalVars => PortalInv'
  <1> SUFFICES ASSUME PortalInv, [PortalNext]_portalVars PROVE PortalInv'
    OBVIOUS
  <1> USE DEF HolderStates, Asleep, HasTold
  <1>a. PortalTypeOK /\ RequestsAreTold /\ MessagesAreTold /\ OneBrainKnowsFirst
    BY DEF PortalInv
  <1>b. ASSUME UNCHANGED holder, UNCHANGED <<handed, told>> PROVE MessagesAreTold'
    BY <1>a, <1>b DEF MessagesAreTold, StillToStore
  <1>1. ASSUME NEW h \in Holders, NEW kind \in {"create", "disable", "details"}, NEW l \in Links,
               Ask(h, kind, l)
        PROVE  PortalInv'
    <2> DEFINE s == [kind |-> kind, at |-> "tell", link |-> l]
    <2>1. /\ s \in HolderStates /\ holder' = [holder EXCEPT ![h] = s]
          /\ UNCHANGED <<link, attached, told, handed, enriched>>
      BY <1>1 DEF Ask
    <2>2. MessagesAreTold'
      BY <1>a, <2>1, PendingMoves DEF Stores
    <2>3. PortalTypeOK' /\ RequestsAreTold' /\ OneBrainKnowsFirst'
      BY <1>1, <1>a, <2>1 DEF Ask, Accepted, PortalTypeOK, RequestsAreTold, OneBrainKnowsFirst
    <2> QED BY <2>2, <2>3 DEF PortalInv
  <1>2. ASSUME NEW h \in Holders, Tell(h)
        PROVE  PortalInv'
    <2> DEFINE l == holder[h].link  k == holder[h].kind
               s == [kind |-> k, at |-> "store", link |-> l]
    <2>1. /\ l \in Links /\ k \in {"create", "disable", "details"}
          /\ holder[h] = [kind |-> k, at |-> "tell", link |-> l]
      BY <1>2, <1>a DEF Tell, PortalTypeOK, RequestsAreTold
    <2>2. /\ told' = [told EXCEPT ![l][k] = told[l][k] + 1]
          /\ UNCHANGED <<link, attached, handed, enriched, tries>>
      BY <1>2 DEF Tell
    <2>3. /\ s \in HolderStates
          /\ holder' = [holder EXCEPT ![h] = s]
      <3>1. holder' = [holder EXCEPT ![h].at = "store"]
        BY <1>2 DEF Tell, Order
      <3>2. s \in HolderStates
        BY <2>1
      <3>3. s = [holder[h] EXCEPT !.at = "store"]
        BY <2>1
      <3> QED BY <3>1, <3>2, <3>3
    <2>4. /\ \A m \in Links, j \in {"create", "disable", "details"} :
            told'[m][j] = IF m = l /\ j = k THEN told[m][j] + 1 ELSE told[m][j]
          /\ told' \in [Links -> [{"create", "disable", "details"} -> Nat]]
      BY <1>a, <2>1, <2>2 DEF PortalTypeOK
    <2>a. \A m \in Links : \/ (told'[m]["details"] = told[m]["details"] /\ ~Stores(s, m))
                            \/ told'[m]["details"] = told[m]["details"] + 1
      BY <2>1, <2>4 DEF Stores
    <2> HIDE DEF s
    <2>5. MessagesAreTold'
      BY <1>a, <2>2, <2>3, <2>a, PendingMoves
    <2> USE DEF s
    <2>6. PortalTypeOK' /\ RequestsAreTold'
      BY <1>a, <2>1, <2>2, <2>3, <2>4 DEF RequestsAreTold, PortalTypeOK
    <2>7. OneBrainKnowsFirst'
      BY <1>a, <2>2, <2>4 DEF OneBrainKnowsFirst, PortalTypeOK
    <2> QED BY <2>5, <2>6, <2>7 DEF PortalInv
  <1>3. ASSUME NEW h \in Holders,
               holder' = [holder EXCEPT ![h] = Asleep], UNCHANGED <<attached, told, handed, enriched, tries>>,
               \/ UNCHANGED link
               \/ /\ holder[h].kind = "create" /\ holder[h].at = "store"
                  /\ link' = [link EXCEPT ![holder[h].link].status = "active"]
               \/ /\ holder[h].kind = "disable" /\ holder[h].at = "store"
                  /\ link' = [link EXCEPT ![holder[h].link].status = "disabled"]
        PROVE  PortalInv'
    <2>a. Asleep \in HolderStates /\ \A m \in Links : ~Stores(Asleep, m)
      BY DEF Stores
    <2>1. MessagesAreTold'
      <3> HIDE DEF Asleep, HolderStates
      <3> QED BY <1>a, <1>3, <2>a, PendingMoves
    <2>b. \/ UNCHANGED link
          \/ \E l \in Links, status \in {"active", "disabled"} :
                /\ link' = [link EXCEPT ![l].status = status]
                /\ told[l]["create"] > 0
                /\ status = "disabled" => told[l]["disable"] > 0
      <3>1. CASE holder[h].kind = "create" /\ HasTold(h)
        BY <1>a, <1>3, <3>1 DEF RequestsAreTold
      <3>2. CASE holder[h].kind = "disable" /\ HasTold(h)
        BY <1>a, <1>3, <3>2 DEF RequestsAreTold, OneBrainKnowsFirst
      <3> QED BY <1>3, <3>1, <3>2
    <2>c. ASSUME NEW l \in Links, NEW status \in {"active", "disabled"},
                 link' = [link EXCEPT ![l].status = status]
          PROVE  /\ link' \in [Links -> [status : {"none", "active", "disabled"}, expired : BOOLEAN]]
                 /\ \A m \in Links : link'[m].status = IF m = l THEN status ELSE link[m].status
      BY <1>a, <2>c DEF PortalTypeOK
    <2>2. PortalTypeOK'
      BY <1>a, <1>3, <2>a, <2>b, <2>c DEF PortalTypeOK
    <2>3. \A m \in Links : link[m].status # "none" => link'[m].status # "none"
      BY <2>b, <2>c
    <2>4. RequestsAreTold'
      BY <1>a, <1>3, <2>3 DEF RequestsAreTold, PortalTypeOK
    <2>5. OneBrainKnowsFirst'
      <3>1. \A m \in Links : /\ link'[m].status # "none" => told[m]["create"] > 0
                             /\ link'[m].status = "disabled" => told[m]["disable"] > 0
        BY <1>a, <2>b, <2>c DEF OneBrainKnowsFirst
      <3> QED BY <1>a, <1>3, <3>1 DEF OneBrainKnowsFirst
    <2> QED BY <2>1, <2>2, <2>4, <2>5 DEF PortalInv
  <1>4. ASSUME NEW h \in Holders, TellFails(h)
        PROVE  PortalInv'
    BY <1>3, <1>4 DEF TellFails, Order
  <1>5. ASSUME NEW h \in Holders, StoreLink(h)
        PROVE  PortalInv'
    BY <1>3, <1>5 DEF StoreLink
  <1>6. ASSUME NEW h \in Holders, DisableLink(h)
        PROVE  PortalInv'
    BY <1>3, <1>6 DEF DisableLink
  <1>7. ASSUME NEW h \in Holders, Enrich(h)
        PROVE  PortalInv'
    <2> DEFINE l == holder[h].link
               s == [kind |-> "details", at |-> "message", link |-> l]
    <2>1. CASE "conversation" \in attached[l]
      <3>1. /\ l \in Links /\ holder[h] = [kind |-> "details", at |-> "store", link |-> l]
            /\ UNCHANGED <<link, attached, told, handed, tries>> /\ enriched' = enriched \cup {l}
        BY <1>7, <1>a, <2>1 DEF Enrich, RequestsAreTold, PortalTypeOK
      <3>2. /\ s \in HolderStates /\ holder' = [holder EXCEPT ![h] = s]
        BY <1>7, <1>a, <2>1, <3>1 DEF Enrich, PortalTypeOK
      <3>3. \A m \in Links : Stores(s, m) => h \in StillToStore(m)
        BY <3>1 DEF Stores, StillToStore
      <3> HIDE DEF s
      <3>4. MessagesAreTold'
        BY <1>a, <3>1, <3>2, <3>3, PendingMoves
      <3> USE DEF s
      <3>5. PortalTypeOK' /\ RequestsAreTold' /\ OneBrainKnowsFirst'
        BY <1>a, <3>1, <3>2 DEF PortalTypeOK, RequestsAreTold, OneBrainKnowsFirst
      <3> QED BY <3>4, <3>5 DEF PortalInv
    <2>2. CASE "conversation" \notin attached[l]
      BY <1>3, <1>7, <2>2 DEF Enrich
    <2> QED BY <2>1, <2>2
  <1>8. ASSUME NEW h \in Holders, AddDetailsMessage(h)
        PROVE  PortalInv'
    <2> DEFINE l == holder[h].link
    <2>1. CASE "conversation" \in attached[l]
      <3>1. /\ l \in Links /\ h \in StillToStore(l)
            /\ holder' = [holder EXCEPT ![h] = Asleep]
            /\ UNCHANGED <<link, attached, told, enriched, tries>>
            /\ handed' = [handed EXCEPT ![l] = handed[l] + 1]
        BY <1>8, <1>a, <2>1 DEF AddDetailsMessage, RequestsAreTold, StillToStore
      <3>2. MessagesAreTold'
        <4>1. Asleep \in HolderStates /\ \A m \in Links : ~Stores(Asleep, m)
          BY DEF Stores
        <4>2. \A m \in Links : \/ handed'[m] = handed[m]
                               \/ handed'[m] = handed[m] + 1 /\ h \in StillToStore(m)
          <5> HIDE DEF l
          <5>1. \A m \in Links : handed'[m] = IF m = l THEN handed[m] + 1 ELSE handed[m]
            BY <1>a, <3>1 DEF PortalTypeOK
          <5> QED BY <3>1, <5>1
        <4> HIDE DEF Asleep, HolderStates
        <4> QED BY <1>a, <3>1, <4>1, <4>2, PendingMoves
      <3>3. PortalTypeOK' /\ RequestsAreTold'
        BY <1>a, <3>1 DEF RequestsAreTold, PortalTypeOK
      <3>4. \A m \in Links : handed'[m] <= told'[m]["details"]
        <4>1. \A m \in Links : Cardinality(StillToStore(m)') \in Nat
          BY <3>2, FS_CardinalityType DEF MessagesAreTold
        <4>2. \A m \in Links : handed'[m] \in Nat /\ told'[m]["details"] \in Nat
          BY <3>3 DEF PortalTypeOK
        <4> QED BY <3>2, <4>1, <4>2 DEF MessagesAreTold
      <3>5. OneBrainKnowsFirst'
        BY <1>a, <3>1, <3>4 DEF OneBrainKnowsFirst
      <3> QED BY <3>2, <3>3, <3>5 DEF PortalInv
    <2>2. CASE "conversation" \notin attached[l]
      BY <1>3, <1>8, <2>2 DEF AddDetailsMessage
    <2> QED BY <2>1, <2>2
  <1>9. ASSUME NEW h \in Holders, Interrupt(h)
        PROVE  PortalInv'
    BY <1>3, <1>9 DEF Interrupt
  <1>10. ASSUME NEW l \in Links, ExpireLink(l)
         PROVE  PortalInv'
    BY <1>a, <1>b, <1>10 DEF ExpireLink, PortalInv, PortalTypeOK, RequestsAreTold, OneBrainKnowsFirst
  <1>11. ASSUME NEW l \in Links, NEW what \in {"conversation", "contact"}, Detach(l, what)
         PROVE  PortalInv'
    BY <1>a, <1>b, <1>11 DEF Detach, PortalInv, PortalTypeOK, RequestsAreTold, OneBrainKnowsFirst
  <1>12. ASSUME UNCHANGED portalVars
         PROVE  PortalInv'
    BY <1>a, <1>b, <1>12 DEF portalVars, PortalInv, PortalTypeOK, RequestsAreTold, OneBrainKnowsFirst
  <1> QED BY <1>1, <1>2, <1>4, <1>5, <1>6, <1>7, <1>8, <1>9, <1>10, <1>11, <1>12 DEF PortalNext

(* server.ts, the portal routes: with failures between the two stores,
   retries and overlapping requests, whatever the database holds of a link,
   OneBrain has the record of it: of its creation, of its disabling and of
   every message handed in. *)
THEOREM PortalRecordsFirst == PortalSpec => []OneBrainKnowsFirst
  BY PortalStarts, PortalStep, PTL DEF PortalSpec, PortalInv

-----------------------------------------------------------------------------
(* Users, projects and invites (Accounts) *)

UserRows == [email : Addresses \cup {""}, login : Logins \cup {NoLogin}]
OfferRows == [status : {"none", "pending", "accepted", "expired"}, email : Addresses \cup {""},
              rank : Nat, uses : Nat]
CallStates == [at : {"idle", "user", "offer", "claim"}, email : Addresses \cup {""}, rank : Nat,
               login : Logins \cup {NoLogin}, offer : Offers \cup {0}]

(* The types. *)
AccountsTypeOK ==
    /\ user \in [Rows -> UserRows]
    /\ provider \in [Logins -> Addresses \cup {""}]
    /\ session \subseteq Rows
    /\ project \in {"none", "setup_pending", "active"}
    /\ member \in [Rows -> Nat]
    /\ offer \in [Offers -> OfferRows]
    /\ call \in [Calls -> CallStates]
    /\ top \in Nat /\ refused \in BOOLEAN

(* A row without an email is unused and linked to nothing. *)
UnusedUnlinked == \A u \in Rows : user[u].email = "" => user[u].login = NoLogin

(* An invite is used when it is accepted, and names somebody once it is stored. *)
OffersFresh ==
    \A o \in Offers :
        /\ offer[o].status # "accepted" => offer[o].uses = 0
        /\ offer[o].uses <= 1
        /\ offer[o].status # "none" => offer[o].email \in Addresses

(* What a request or an invite will give was held by somebody when it was asked for. *)
Entitled(s) == /\ s.rank <= top
               /\ s.at \in {"user", "offer"} => s.email \in Addresses
               /\ s.at = "claim" => s.offer \in Offers
MembersHeld == \A u \in Rows : member[u] <= top
OffersHeld  == \A o \in Offers : offer[o].rank <= top
CallsHeld   == \A c \in Calls : Entitled(call[c])
NoneBefore  == project = "none" => top = 0
RanksAreHeld == MembersHeld /\ OffersHeld /\ CallsHeld /\ NoneBefore

(* The invariant. *)
AccountsInv == AccountsTypeOK /\ UnusedUnlinked /\ OffersFresh /\ RanksAreHeld

(* A row that is linked to an account of the provider stays linked to it. *)
StaysLinked == \A u \in Rows : user[u].login # NoLogin => user'[u].login = user[u].login

(* At first there are no users. *)
LEMMA AccountsStart == AccountsInit => AccountsInv
  <1> SUFFICES ASSUME AccountsInit PROVE AccountsInv
    OBVIOUS
  <1>1. AccountsTypeOK
    BY DEF AccountsInit, AccountsTypeOK, UserRows, OfferRows, CallStates, Waiting
  <1>2. /\ top = 0 /\ \A u \in Rows : member[u] = 0 /\ user[u].login = NoLogin
        /\ \A o \in Offers : offer[o].rank = 0 /\ offer[o].uses = 0 /\ offer[o].status = "none"
        /\ \A c \in Calls : call[c].rank = 0 /\ call[c].at = "idle"
    BY DEF AccountsInit, Waiting
  <1>a. UnusedUnlinked /\ NoneBefore
    BY <1>2 DEF UnusedUnlinked, NoneBefore
  <1>b. OffersFresh /\ OffersHeld
    BY <1>2 DEF OffersFresh, OffersHeld
  <1>3. UnusedUnlinked /\ OffersFresh /\ MembersHeld /\ OffersHeld /\ NoneBefore
    BY <1>2, <1>a, <1>b DEF MembersHeld
  <1>4. CallsHeld
    BY <1>2 DEF CallsHeld, Entitled
  <1> QED BY <1>1, <1>2, <1>3, <1>4 DEF AccountsInv, RanksAreHeld

(* A row given an email and an account, of the same email or account before or
   unused, keeps the account it is linked to. *)
LEMMA UpsertKeeps ==
  ASSUME AccountsTypeOK, UnusedUnlinked, NEW e \in Addresses, NEW l \in Logins \cup {NoLogin},
         NEW rank \in Nat, Upsert(e, l, rank)
  PROVE  /\ user' \in [Rows -> UserRows] /\ UnusedUnlinked' /\ StaysLinked
         /\ \E u \in Rows : member' = [member EXCEPT ![u] = rank]
  <1> DEFINE known == IF ByEmail(e) # {} THEN ByEmail(e) ELSE ByLogin(l)
             fresh == {u \in UnusedRows : \A v \in UnusedRows : u <= v}
  <1>1. PICK u \in IF known # {} THEN known ELSE fresh :
          /\ user' = [user EXCEPT ![u] =
                        [email |-> IF known # {} THEN user[u].email ELSE e,
                         login |-> IF l # NoLogin THEN l ELSE user[u].login]]
          /\ member' = [member EXCEPT ![u] = rank]
    BY DEF Upsert
  <1>2. u \in Rows
    BY <1>1 DEF ByEmail, ByLogin, UnusedRows
  <1>3. user[u] \in UserRows
    BY <1>2 DEF AccountsTypeOK
  <1>4. known # {} => user[u].email # ""
    <2>1. CASE ByEmail(e) # {}
      BY <1>1, <2>1, AccountsAssumption DEF ByEmail
    <2>2. CASE ByEmail(e) = {} /\ known # {}
      BY <1>1, <2>2, <1>2 DEF ByLogin, UnusedUnlinked
    <2> QED BY <2>1, <2>2
  <1>5. user[u].login # NoLogin /\ l # NoLogin => l = user[u].login
    <2>1. CASE ByEmail(e) # {}
      BY <1>1, <2>1 DEF ByEmail, Upsert, Linkable
    <2>2. CASE ByEmail(e) = {} /\ known # {}
      BY <1>1, <2>2, <1>2 DEF ByLogin
    <2>3. CASE known = {}
      BY <1>1, <2>3 DEF UnusedRows, UnusedUnlinked
    <2> QED BY <2>1, <2>2, <2>3
  <1> DEFINE row == [email |-> IF known # {} THEN user[u].email ELSE e,
                     login |-> IF l # NoLogin THEN l ELSE user[u].login]
  <1>6. /\ row \in UserRows /\ row.email # ""
        /\ user[u].login # NoLogin => row.login = user[u].login
    BY <1>3, <1>4, <1>5, AccountsAssumption DEF UserRows
  <1>7. user' = [user EXCEPT ![u] = row]
    BY <1>1
  <1> HIDE DEF row
  <1> QED BY <1>1, <1>2, <1>6, <1>7 DEF AccountsTypeOK, UnusedUnlinked, StaysLinked

(* Every step of the accounts keeps the invariant, and the links of the rows.
   *)
LEMMA AccountsStep ==
  AccountsInv /\ [AccountsNext]_accountsVars => AccountsInv' /\ StaysLinked
  <1> SUFFICES ASSUME AccountsInv, [AccountsNext]_accountsVars PROVE AccountsInv' /\ StaysLinked
    OBVIOUS
  <1>a. /\ AccountsTypeOK /\ UnusedUnlinked /\ OffersFresh
        /\ MembersHeld /\ OffersHeld /\ CallsHeld /\ NoneBefore
    BY DEF AccountsInv, RanksAreHeld
  <1>b. UNCHANGED user => UnusedUnlinked' /\ StaysLinked
    BY <1>a DEF UnusedUnlinked, StaysLinked
  <1>c. /\ UNCHANGED <<member, top>> => MembersHeld'
        /\ UNCHANGED <<offer, top>> => OffersHeld'
        /\ UNCHANGED <<call, top>> => CallsHeld'
        /\ UNCHANGED top /\ project' # "none" => NoneBefore'
        /\ UNCHANGED <<project, top>> => NoneBefore'
    BY <1>a DEF MembersHeld, OffersHeld, CallsHeld, Entitled, NoneBefore
  <1>d. UNCHANGED offer => OffersFresh'
    BY <1>a DEF OffersFresh
  <1>e. top \in Nat /\ Waiting \in CallStates /\ Waiting.rank = 0 /\ Waiting.at = "idle"
    BY <1>a DEF Waiting, CallStates, AccountsTypeOK
  <1>f. ASSUME AccountsTypeOK', UnusedUnlinked', OffersFresh', StaysLinked,
               MembersHeld', OffersHeld', CallsHeld', NoneBefore'
        PROVE  AccountsInv' /\ StaysLinked
    BY <1>f DEF AccountsInv, RanksAreHeld
  <1>h. ASSUME NEW c \in Calls, NEW s \in CallStates, call' = [call EXCEPT ![c] = s],
               UNCHANGED top, Entitled(s)
        PROVE  call' \in [Calls -> CallStates] /\ CallsHeld'
    <2>1. /\ call' \in [Calls -> CallStates]
          /\ \A d \in Calls : call'[d] = IF d = c THEN s ELSE call[d]
      BY <1>a, <1>h DEF AccountsTypeOK
    <2> QED BY <1>a, <1>h, <2>1 DEF CallsHeld, Entitled
  <1>i. Entitled(Waiting)
    BY <1>e DEF Entitled
  <1>j. ASSUME NEW u \in Rows, NEW rank \in Nat, member' = [member EXCEPT ![u] = rank],
               UNCHANGED top, rank <= top
        PROVE  member' \in [Rows -> Nat] /\ MembersHeld'
    <2>1. /\ member' \in [Rows -> Nat]
          /\ \A v \in Rows : member'[v] = IF v = u THEN rank ELSE member[v]
      BY <1>a, <1>j DEF AccountsTypeOK
    <2> QED BY <1>a, <1>j, <2>1 DEF MembersHeld
  <1>k. ASSUME NEW o \in Offers, NEW row \in OfferRows, offer' = [offer EXCEPT ![o] = row],
               UNCHANGED top, row.rank <= top,
               row.uses = IF row.status = "accepted" THEN 1 ELSE 0,
               row.status # "none" => row.email \in Addresses
        PROVE  offer' \in [Offers -> OfferRows] /\ OffersHeld' /\ OffersFresh'
    <2>1. /\ offer' \in [Offers -> OfferRows]
          /\ \A p \in Offers : offer'[p] = IF p = o THEN row ELSE offer[p]
      BY <1>a, <1>k DEF AccountsTypeOK
    <2>2. OffersHeld'
      BY <1>a, <1>k, <2>1 DEF OffersHeld
    <2>3. OffersFresh'
      BY <1>a, <1>k, <2>1 DEF OffersFresh
    <2> QED BY <2>1, <2>2, <2>3
  <1>g. ASSUME NEW c \in Calls, call' = [call EXCEPT ![c] = Waiting],
               UNCHANGED <<user, provider, session, project, member, offer, top, refused>>
        PROVE  AccountsInv' /\ StaysLinked
    <2>1. call' \in [Calls -> CallStates] /\ CallsHeld'
      BY <1>e, <1>g, <1>h, <1>i
    <2>2. AccountsTypeOK'
      BY <1>a, <1>g, <2>1 DEF AccountsTypeOK
    <2> QED BY <1>b, <1>c, <1>d, <1>f, <1>g, <2>1, <2>2
  <1>1. ASSUME NEW e \in Addresses, Register(e)
        PROVE  AccountsInv' /\ StaysLinked
    <2>1. PICK u \in UnusedRows : user' = [user EXCEPT ![u].email = e]
      BY <1>1 DEF Register
    <2>3. UNCHANGED <<provider, project, member, offer, call, top, refused>> /\ session' \subseteq Rows
      BY <1>1, <1>a DEF Register, UnusedRows, AccountsTypeOK
    <2>4. u \in Rows /\ user' \in [Rows -> UserRows]
      BY <1>a, <2>1 DEF UnusedRows, AccountsTypeOK, UserRows
    <2>5. AccountsTypeOK'
      BY <1>a, <2>3, <2>4 DEF AccountsTypeOK
    <2>6. UnusedUnlinked' /\ StaysLinked
      BY <1>a, <2>1, <2>4, AccountsAssumption DEF UnusedUnlinked, StaysLinked, AccountsTypeOK, UserRows
    <2> QED BY <1>c, <1>d, <1>f, <2>3, <2>5, <2>6
  <1>2. ASSUME NEW e \in Addresses, NEW rank \in Roles, AddByPlatform(e, rank)
        PROVE  AccountsInv' /\ StaysLinked
    <2>0. /\ rank \in Nat /\ project = "active" /\ Upsert(e, NoLogin, rank)
          /\ top' = IF top > rank THEN top ELSE rank
          /\ UNCHANGED <<provider, session, project, offer, call, refused>>
      BY <1>2, AccountsAssumption DEF AddByPlatform, Highest
    <2>1. /\ user' \in [Rows -> UserRows] /\ UnusedUnlinked' /\ StaysLinked
          /\ \E u \in Rows : member' = [member EXCEPT ![u] = rank]
      BY <1>a, <2>0, UpsertKeeps
    <2>2. PICK u \in Rows : member' = [member EXCEPT ![u] = rank]
      BY <2>1
    <2>3. top' \in Nat /\ top <= top' /\ rank <= top'
      <3>1. CASE top > rank
        BY <1>e, <2>0, <3>1
      <3>2. CASE ~(top > rank)
        BY <1>e, <2>0, <3>2
      <3> QED BY <3>1, <3>2
    <2>4. AccountsTypeOK'
      BY <1>a, <2>0, <2>1, <2>2, <2>3 DEF AccountsTypeOK
    <2>5. MembersHeld'
      <3>1. \A v \in Rows : member'[v] = (IF v = u THEN rank ELSE member[v]) /\ member[v] \in Nat
        BY <1>a, <2>2 DEF AccountsTypeOK
      <3> QED BY <1>a, <1>e, <2>3, <3>1 DEF MembersHeld
    <2>6. OffersHeld'
      <3>1. \A o \in Offers : offer[o].rank \in Nat
        BY <1>a DEF AccountsTypeOK, OfferRows
      <3> QED BY <1>a, <1>e, <2>0, <2>3, <3>1 DEF OffersHeld
    <2>7. CallsHeld'
      <3>1. \A c \in Calls : call[c].rank \in Nat
        BY <1>a DEF AccountsTypeOK, CallStates
      <3> QED BY <1>a, <1>e, <2>0, <2>3, <3>1 DEF CallsHeld, Entitled
    <2>8. NoneBefore'
      BY <2>0 DEF NoneBefore
    <2> QED BY <1>d, <1>f, <2>0, <2>1, <2>4, <2>5, <2>6, <2>7, <2>8
  <1>3. ASSUME NEW u \in Rows, Login(u) \/ EndSession(u)
        PROVE  AccountsInv' /\ StaysLinked
    <2>1. AccountsTypeOK'
      BY <1>a, <1>3 DEF Login, EndSession, AccountsTypeOK
    <2> QED BY <1>b, <1>c, <1>d, <1>f, <1>3, <2>1 DEF Login, EndSession
  <1>4. ASSUME NEW u \in Rows, CreateProject(u)
        PROVE  AccountsInv' /\ StaysLinked
    <2>1. AccountsTypeOK'
      BY <1>a, <1>4 DEF CreateProject, AccountsTypeOK
    <2>2. /\ project = "none" /\ project' = "setup_pending" /\ top' = 4 /\ top = 0
          /\ UNCHANGED <<user, provider, session, offer, call, refused>>
          /\ \A v \in Rows : member'[v] = IF v = u THEN 4 ELSE member[v]
      BY <1>a, <1>4 DEF CreateProject, NoneBefore, AccountsTypeOK
    <2>3. MembersHeld'
      <3>1. \A v \in Rows : member[v] \in Nat /\ member[v] <= 0
        BY <1>a, <2>2 DEF MembersHeld, AccountsTypeOK
      <3> QED BY <2>2, <3>1 DEF MembersHeld
    <2>4. OffersHeld'
      <3>1. \A o \in Offers : offer[o].rank \in Nat
        BY <1>a DEF AccountsTypeOK, OfferRows
      <3> QED BY <1>a, <2>2, <3>1 DEF OffersHeld
    <2>5. CallsHeld'
      <3>1. \A c \in Calls : call[c].rank \in Nat
        BY <1>a DEF AccountsTypeOK, CallStates
      <3> QED BY <1>a, <2>2, <3>1 DEF CallsHeld, Entitled
    <2>6. NoneBefore'
      BY <2>2 DEF NoneBefore
    <2> QED BY <1>b, <1>d, <1>f, <2>1, <2>2, <2>3, <2>4, <2>5, <2>6
  <1>5. ASSUME NEW u \in Rows, Onboard(u)
        PROVE  AccountsInv' /\ StaysLinked
    <2>1. AccountsTypeOK'
      BY <1>a, <1>5 DEF Onboard, AccountsTypeOK
    <2> QED BY <1>b, <1>c, <1>d, <1>f, <1>5, <2>1 DEF Onboard
  <1>6. ASSUME NEW l \in Logins, SignIn(l)
        PROVE  AccountsInv' /\ StaysLinked
    <2> DEFINE e == provider[l]
    <2>1. /\ e \in Addresses /\ e # "" /\ l # NoLogin
          /\ UNCHANGED <<provider, session, project, member, offer, call, top, refused>>
      BY <1>6, <1>a, AccountsAssumption DEF SignIn, AccountsTypeOK, NoLogin
    <2>2. user' \in [Rows -> UserRows] /\ UnusedUnlinked' /\ StaysLinked
      <3>1. CASE ByLogin(l) # {}
        <4>1. PICK u \in ByLogin(l) : user' = [user EXCEPT ![u].email = e]
          BY <1>6, <3>1 DEF SignIn
        <4>2. u \in Rows
          BY DEF ByLogin
        <4> QED BY <1>a, <2>1, <4>1, <4>2 DEF AccountsTypeOK, UserRows, UnusedUnlinked, StaysLinked
      <3>2. CASE ByLogin(l) = {}
        <4>1. /\ Linkable(e, l)
              /\ \E u \in IF ByEmail(e) # {} THEN ByEmail(e) ELSE UnusedRows :
                    user' = [user EXCEPT ![u] = [email |-> e, login |-> l]]
          BY <1>6, <3>2 DEF SignIn
        <4>2. PICK u \in IF ByEmail(e) # {} THEN ByEmail(e) ELSE UnusedRows :
                    user' = [user EXCEPT ![u] = [email |-> e, login |-> l]]
          BY <4>1
        <4>3. u \in Rows /\ user[u].login \in {NoLogin, l}
          BY <1>a, <2>1, <4>1, <4>2 DEF ByEmail, UnusedRows, Linkable, UnusedUnlinked
        <4> QED BY <1>a, <2>1, <4>2, <4>3 DEF AccountsTypeOK, UserRows, UnusedUnlinked, StaysLinked
      <3> QED BY <3>1, <3>2
    <2>3. AccountsTypeOK'
      BY <1>a, <2>1, <2>2 DEF AccountsTypeOK
    <2> QED BY <1>c, <1>d, <1>f, <2>1, <2>2, <2>3
  <1>7. ASSUME NEW l \in Logins, NEW e \in Addresses, ChangeProvider(l, e)
        PROVE  AccountsInv' /\ StaysLinked
    <2>1. AccountsTypeOK'
      BY <1>a, <1>7 DEF ChangeProvider, AccountsTypeOK
    <2> QED BY <1>b, <1>c, <1>d, <1>f, <1>7, <2>1 DEF ChangeProvider
  <1>8. ASSUME CreateTenant
        PROVE  AccountsInv' /\ StaysLinked
    <2>1. AccountsTypeOK'
      BY <1>a, <1>8 DEF CreateTenant, AccountsTypeOK
    <2> QED BY <1>b, <1>c, <1>d, <1>f, <1>8, <2>1 DEF CreateTenant
  <1>9. ASSUME NEW c \in Calls, NEW u \in Rows, NEW e \in Addresses, NEW l \in Logins \cup {NoLogin},
               NEW rank \in Roles, NEW kind \in {"user", "offer"}, BeginGrant(c, u, kind, e, l, rank)
        PROVE  AccountsInv' /\ StaysLinked
    <2> DEFINE s == [Waiting EXCEPT !.at = kind, !.email = e, !.login = l, !.rank = rank]
    <2>1. /\ call' = [call EXCEPT ![c] = s] /\ MayGrant(u, rank)
          /\ UNCHANGED <<user, provider, session, project, member, offer, top, refused>>
      BY <1>9 DEF BeginGrant
    <2>2. /\ rank \in Nat /\ s \in CallStates
          /\ s.at = kind /\ s.email = e /\ s.rank = rank
      BY <1>e, AccountsAssumption DEF CallStates
    <2>3. rank <= top
      <3>1. member[u] <= top /\ member[u] \in Nat
        BY <1>a DEF MembersHeld, AccountsTypeOK
      <3>2. RankOf(u) >= rank /\ (RankOf(u) = member[u] \/ RankOf(u) = 0)
        BY <2>1 DEF MayGrant, RankOf
      <3> QED BY <1>e, <2>2, <3>1, <3>2
    <2>4. Entitled(s)
      <3> HIDE DEF s
      <3> QED BY <2>2, <2>3 DEF Entitled
    <2>5. call' \in [Calls -> CallStates] /\ CallsHeld'
      <3> HIDE DEF s
      <3> QED BY <1>h, <2>1, <2>2, <2>4
    <2>6. AccountsTypeOK'
      BY <1>a, <2>1, <2>5 DEF AccountsTypeOK
    <2> QED BY <1>b, <1>c, <1>d, <1>f, <2>1, <2>5, <2>6
  <1>10. ASSUME NEW c \in Calls, GrantUser(c)
         PROVE  AccountsInv' /\ StaysLinked
    <2>1. /\ call[c].email \in Addresses /\ call[c].login \in Logins \cup {NoLogin}
          /\ call[c].rank \in Nat /\ call[c].rank <= top
      BY <1>a, <1>10 DEF GrantUser, CallsHeld, Entitled, AccountsTypeOK, CallStates
    <2>2. /\ Upsert(call[c].email, call[c].login, call[c].rank)
          /\ call' = [call EXCEPT ![c] = Waiting]
          /\ UNCHANGED <<provider, session, project, offer, top, refused>>
      BY <1>10 DEF GrantUser
    <2>3. /\ user' \in [Rows -> UserRows] /\ UnusedUnlinked' /\ StaysLinked
          /\ \E u \in Rows : member' = [member EXCEPT ![u] = call[c].rank]
      BY <1>a, <2>1, <2>2, UpsertKeeps
    <2>4. PICK u \in Rows : member' = [member EXCEPT ![u] = call[c].rank]
      BY <2>3
    <2>5. call' \in [Calls -> CallStates] /\ CallsHeld' /\ member' \in [Rows -> Nat] /\ MembersHeld'
      BY <1>e, <1>h, <1>i, <1>j, <2>1, <2>2, <2>4
    <2>6. AccountsTypeOK'
      BY <1>a, <2>2, <2>3, <2>5 DEF AccountsTypeOK
    <2> QED BY <1>c, <1>d, <1>f, <2>2, <2>3, <2>5, <2>6
  <1>11. ASSUME NEW c \in Calls, RefuseUser(c) \/ LoseOffer(c)
         PROVE  AccountsInv' /\ StaysLinked
    BY <1>g, <1>11 DEF RefuseUser, LoseOffer
  <1>12. ASSUME NEW c \in Calls, StoreOffer(c)
         PROVE  AccountsInv' /\ StaysLinked
    <2>1. PICK o \in Offers :
            /\ call[c].at = "offer" /\ offer[o].status = "none"
            /\ offer' = [offer EXCEPT ![o].status = "pending", ![o].email = call[c].email,
                                      ![o].rank = call[c].rank]
            /\ call' = [call EXCEPT ![c] = IF call[c].login # NoLogin
                                            THEN [call[c] EXCEPT !.at = "user"] ELSE Waiting]
            /\ UNCHANGED <<user, provider, session, project, member, top, refused>>
      BY <1>12 DEF StoreOffer
    <2> DEFINE row == [offer[o] EXCEPT !.status = "pending", !.email = call[c].email,
                                       !.rank = call[c].rank]
    <2>2. /\ call[c] \in CallStates /\ call[c].email \in Addresses /\ call[c].rank <= top
          /\ offer[o] \in OfferRows /\ offer[o].uses = 0
      BY <1>a, <2>1 DEF CallsHeld, Entitled, OffersFresh, AccountsTypeOK
    <2>3. /\ offer' = [offer EXCEPT ![o] = row] /\ row \in OfferRows
          /\ row.status = "pending" /\ row.email = call[c].email /\ row.rank = call[c].rank
          /\ row.uses = 0
      BY <2>1, <2>2 DEF OfferRows, CallStates
    <2>4. offer' \in [Offers -> OfferRows] /\ OffersHeld' /\ OffersFresh'
      <3>1. /\ row.rank <= top /\ row.email \in Addresses /\ row.status = "pending"
            /\ row.uses = 0
        BY <2>2, <2>3
      <3> HIDE DEF row
      <3> QED BY <1>k, <2>1, <2>3, <3>1
    <2>5. call' \in [Calls -> CallStates] /\ CallsHeld'
      <3>1. CASE call[c].login # NoLogin
        <4> DEFINE s == [call[c] EXCEPT !.at = "user"]
        <4>1. s \in CallStates /\ Entitled(s)
          BY <2>2 DEF CallStates, Entitled
        <4>2. call' = [call EXCEPT ![c] = s]
          BY <2>1, <3>1
        <4> HIDE DEF s
        <4> QED BY <1>h, <2>1, <4>1, <4>2
      <3>2. CASE call[c].login = NoLogin
        BY <1>e, <1>h, <1>i, <2>1, <3>2
      <3> QED BY <3>1, <3>2
    <2>6. AccountsTypeOK'
      BY <1>a, <2>1, <2>4, <2>5 DEF AccountsTypeOK
    <2> QED BY <1>b, <1>c, <1>f, <2>1, <2>4, <2>5, <2>6
  <1>13. ASSUME NEW o \in Offers, ExpireOffer(o)
         PROVE  AccountsInv' /\ StaysLinked
    <2> DEFINE row == [offer[o] EXCEPT !.status = "expired"]
    <2>1. /\ row \in OfferRows /\ row.status = "expired" /\ row.rank <= top /\ row.uses = 0
          /\ row.email \in Addresses
      BY <1>a, <1>13 DEF ExpireOffer, AccountsTypeOK, OfferRows, OffersFresh, OffersHeld
    <2>2. /\ offer' = [offer EXCEPT ![o] = row]
          /\ UNCHANGED <<user, provider, session, project, member, call, top, refused>>
      BY <1>13 DEF ExpireOffer
    <2> HIDE DEF row
    <2>3. offer' \in [Offers -> OfferRows] /\ OffersHeld' /\ OffersFresh'
      BY <1>k, <2>1, <2>2
    <2>4. AccountsTypeOK'
      BY <1>a, <2>2, <2>3 DEF AccountsTypeOK
    <2> QED BY <1>b, <1>c, <1>f, <2>2, <2>3, <2>4
  <1>14. ASSUME NEW c \in Calls, NEW o \in Offers, ReadOffer(c, o)
         PROVE  AccountsInv' /\ StaysLinked
    <2> DEFINE s == [Waiting EXCEPT !.at = "claim", !.offer = o]
    <2>1. /\ call' = [call EXCEPT ![c] = s] /\ s \in CallStates
          /\ UNCHANGED <<user, provider, session, project, member, offer, top, refused>>
      <3>1. /\ call[c] = Waiting
            /\ call' = [call EXCEPT ![c] = [call[c] EXCEPT !.at = "claim", !.offer = o]]
            /\ UNCHANGED <<user, provider, session, project, member, offer, top, refused>>
        BY <1>14 DEF ReadOffer
      <3>2. s \in CallStates
        BY <1>e DEF CallStates
      <3> QED BY <3>1, <3>2
    <2>2. Entitled(s)
      <3>1. s.rank = 0 /\ s.at = "claim" /\ s.offer = o
        BY <1>e DEF CallStates
      <3> HIDE DEF s
      <3> QED BY <1>e, <3>1 DEF Entitled
    <2> HIDE DEF s
    <2>3. call' \in [Calls -> CallStates] /\ CallsHeld'
      BY <1>h, <2>1, <2>2
    <2>4. AccountsTypeOK'
      BY <1>a, <2>1, <2>3 DEF AccountsTypeOK
    <2> QED BY <1>b, <1>c, <1>d, <1>f, <2>1, <2>3, <2>4
  <1>15. ASSUME NEW c \in Calls, ClaimOffer(c)
         PROVE  AccountsInv' /\ StaysLinked
    <2> DEFINE o == call[c].offer
    <2>1. /\ call[c].at = "claim" /\ offer[o].status = "pending"
          /\ Upsert(offer[o].email, NoLogin, offer[o].rank)
          /\ offer' = [offer EXCEPT ![o].status = "accepted", ![o].uses = offer[o].uses + 1]
          /\ session' = session \cup {u \in Rows : user'[u].email = offer[o].email}
          /\ call' = [call EXCEPT ![c] = Waiting]
          /\ UNCHANGED <<provider, project, top, refused>>
      BY <1>15 DEF ClaimOffer, Claimable
    <2>2. /\ o \in Offers /\ offer[o] \in OfferRows /\ offer[o].email \in Addresses
          /\ offer[o].rank \in Nat /\ offer[o].rank <= top /\ offer[o].uses = 0
      BY <1>a, <2>1 DEF CallsHeld, Entitled, OffersHeld, OffersFresh, AccountsTypeOK, OfferRows
    <2> DEFINE row == [offer[o] EXCEPT !.status = "accepted", !.uses = offer[o].uses + 1]
    <2>3. /\ offer' = [offer EXCEPT ![o] = row] /\ row \in OfferRows
          /\ row.status = "accepted" /\ row.uses = 1
          /\ row.rank = offer[o].rank /\ row.email = offer[o].email
      <3>1. offer[o].uses + 1 = 1
        BY <2>2
      <3>2. row = [offer[o] EXCEPT !.status = "accepted", !.uses = 1]
        BY <3>1
      <3>3. offer' = [offer EXCEPT ![o] = row]
        BY <2>1
      <3> HIDE DEF row
      <3>4. /\ row \in OfferRows /\ row.status = "accepted" /\ row.uses = 1
            /\ row.rank = offer[o].rank /\ row.email = offer[o].email
        BY <2>2, <3>2 DEF OfferRows
      <3> QED BY <3>3, <3>4
    <2> HIDE DEF o
    <2>4. /\ user' \in [Rows -> UserRows] /\ UnusedUnlinked' /\ StaysLinked
          /\ \E u \in Rows : member' = [member EXCEPT ![u] = offer[o].rank]
      BY <1>a, <2>1, <2>2, UpsertKeeps
    <2>5. PICK u \in Rows : member' = [member EXCEPT ![u] = offer[o].rank]
      BY <2>4
    <2>6. /\ call' \in [Calls -> CallStates] /\ CallsHeld'
          /\ member' \in [Rows -> Nat] /\ MembersHeld'
      BY <1>e, <1>h, <1>i, <1>j, <2>1, <2>2, <2>5
    <2>7. offer' \in [Offers -> OfferRows] /\ OffersHeld' /\ OffersFresh'
      <3>1. row.rank <= top /\ row.email \in Addresses /\ row.status = "accepted" /\ row.uses = 1
        BY <2>2, <2>3
      <3> HIDE DEF row
      <3> QED BY <1>k, <2>1, <2>2, <2>3, <3>1
    <2>8. AccountsTypeOK'
      BY <1>a, <2>1, <2>4, <2>6, <2>7 DEF AccountsTypeOK
    <2> QED BY <1>c, <1>f, <2>1, <2>4, <2>6, <2>7, <2>8
  <1>16. ASSUME UNCHANGED accountsVars
         PROVE  AccountsInv' /\ StaysLinked
    <2>1. AccountsTypeOK'
      BY <1>a, <1>16 DEF AccountsTypeOK, accountsVars
    <2> QED BY <1>b, <1>c, <1>d, <1>f, <1>16, <2>1 DEF accountsVars
  <1> QED BY <1>1, <1>2, <1>3, <1>4, <1>5, <1>6, <1>7, <1>8, <1>9, <1>10, <1>11, <1>12, <1>13, <1>14,
             <1>15, <1>16 DEF AccountsNext

(* server.ts, canGrantTenantRole; repository.ts, the upsert of users and the
   acceptance of invites: an invite is used once, and nobody gets a rank
   above every rank that was held in the project when it was asked for, at
   whatever later time the invite is accepted. *)
THEOREM RightsGranted == AccountsSpec => []RightsAreGranted
  <1>1. AccountsInv => RightsAreGranted
    BY DEF AccountsInv, OffersFresh, RanksAreHeld, MembersHeld, RightsAreGranted, OfferUsedOnce,
           NoRankAboveGranters
  <1> QED BY <1>1, AccountsStart, AccountsStep, PTL DEF AccountsSpec

(* repository.ts, upsertTenantUser and createPasswordUser: a user linked to
   an account of the provider stays with that account, also after emails
   moved from one account to another. *)
THEOREM LinkedStays == AccountsSpec => LinkedForGood
  <1>1. AccountsInv /\ [AccountsNext]_accountsVars => [StaysLinked]_accountsVars
    BY AccountsStep
  <1> QED BY <1>1, AccountsStart, AccountsStep, PTL DEF AccountsSpec, LinkedForGood, StaysLinked

-----------------------------------------------------------------------------
(* Subscriptions and usage (Billing) *)

HandlerStates == {"unsent", "account", "subscription", "insert", "update", "mark", "done", "duplicate"}

HalfWayStates == {"insert", "update", "subscription"}

UsageStatus == {"none", "pending", "reported", "failed"}

PostStates == {"idle", "posted", "reporting", "counted", "failing", "done"}

Posts == [Report -> [at : PostStates, saw : UsageStatus]]

BillingTypes ==
    /\ says \in [Event -> StripeStatus]
    /\ eventRow \in [Event -> {"none", "received", "processed", "failed"}]
    /\ handler \in [Delivery -> HandlerStates]
    /\ subscription \in StripeStatus \cup {"none"}
    /\ applied \in [Event -> Nat]
    /\ torn \in BOOLEAN
    /\ report \in Posts
    /\ usage \in UsageStatus

(* One delivery of an event is processed, the one that inserted its row.  It
   writes the account once, before the subscription. *)
OneHandler ==
    /\ \A d, o \in Delivery :
          /\ d[1] = o[1]
          /\ handler[d] \notin {"unsent", "duplicate"}
          /\ handler[o] \notin {"unsent", "duplicate"}
          => d = o
    /\ \A d \in Delivery :
          /\ eventRow[d[1]] = "none" => handler[d] \in {"unsent", "duplicate"}
          /\ handler[d] = "account" => applied[d[1]] = 0
          /\ handler[d] \in HalfWayStates \cup {"mark"} => applied[d[1]] = 1
          /\ handler[d] \in {"update", "mark"} => subscription # "none"
    /\ \A e \in Event :
          /\ eventRow[e] = "none" => applied[e] = 0
          /\ applied[e] <= 1

(* Until the purchase no event exists. *)
NothingBeforePurchase ==
    payer = 0 => /\ subscription = "none"
                 /\ \A d \in Delivery : handler[d] = "unsent"

(* An account that no second writer touched is that of the one handler between
   its two writes. *)
HalfWayAgrees ==
    ~torn =>
       /\ \A d, o \in Delivery :
             (handler[d] \in HalfWayStates /\ handler[o] \in HalfWayStates) => d = o
       /\ \A d \in Delivery :
             handler[d] \in HalfWayStates => account.status = AccountStatusOf[says[d[1]]]

Metered ==
    /\ meter \subseteq {0}
    /\ usage = "reported" => meter # {}
    /\ \A r \in Report : report[r].at = "counted" => meter # {}

(* The invariant. *)
BillingInv ==
    /\ BillingTypes
    /\ OneHandler
    /\ ProcessedIsApplied
    /\ NothingBeforePurchase
    /\ HalfWayAgrees
    /\ AccountAgrees
    /\ Metered

(* Before the purchase there is nothing to agree on. *)
LEMMA BillingStarts == BillingInit => BillingInv
  <1> SUFFICES ASSUME BillingInit PROVE BillingInv
    OBVIOUS
  <1>1. \A d \in Delivery : d[1] \in Event
    BY DEF Delivery
  <1>2. BillingTypes /\ OneHandler
    <2>1. report \in Posts
      BY DEF BillingInit, Posts, PostStates, UsageStatus
    <2>2. handler \in [Delivery -> HandlerStates] /\ \A d \in Delivery : handler[d] = "unsent"
      BY DEF BillingInit, HandlerStates
    <2>3. eventRow \in [Event -> {"none", "received", "processed", "failed"}]
      BY DEF BillingInit
    <2>4. applied \in [Event -> Nat] /\ \A e \in Event : applied[e] = 0
      BY DEF BillingInit
    <2>5. usage \in UsageStatus /\ subscription \in StripeStatus \cup {"none"} /\ torn \in BOOLEAN
          /\ says \in [Event -> StripeStatus]
      BY DEF BillingInit, UsageStatus
    <2>6. OneHandler
      BY <1>1, <2>2, <2>4 DEF OneHandler, HalfWayStates
    <2> QED BY <2>1, <2>2, <2>3, <2>4, <2>5, <2>6 DEF BillingTypes
  <1> QED BY <1>2 DEF BillingInit, BillingInv, ProcessedIsApplied, NothingBeforePurchase,
                      HalfWayAgrees, HalfWayStates, AccountAgrees, Metered

(* The steps of a checkout and of a report leave the events alone, but for the
   account that a late checkout overwrites. *)
LEMMA EventsUntouched ==
  ASSUME BillingInv, UNCHANGED <<says, eventRow, handler, subscription, applied>>,
         torn' \in BOOLEAN, torn => torn',
         ~torn' => payer = 0 \/ account' = account,
         payer # 0 => payer' = payer,
         report' \in Posts, usage' \in UsageStatus, Metered'
  PROVE  BillingInv'
  <1>1. BillingTypes' /\ OneHandler' /\ ProcessedIsApplied'
    BY DEF BillingInv, BillingTypes, OneHandler, ProcessedIsApplied
  <1>2. NothingBeforePurchase'
    BY DEF BillingInv, NothingBeforePurchase
  <1>3. HalfWayAgrees'
    BY DEF BillingInv, HalfWayAgrees, NothingBeforePurchase, HalfWayStates
  <1>4. AccountAgrees'
    BY DEF BillingInv, AccountAgrees, NothingBeforePurchase, HalfWay
  <1> QED BY <1>1, <1>2, <1>3, <1>4 DEF BillingInv

(* A checkout writes the customer, and overwrites one only as a mishap. *)
LEMMA CheckoutSteps ==
  ASSUME BillingInv, NEW h \in Checkout,
         LookUpCustomer(h) \/ CreateCustomer(h) \/ SaveCustomer(h) \/ Subscribe(h)
  PROVE  BillingInv'
  <1>1. UNCHANGED usageVars /\ UNCHANGED <<says, eventRow, handler, subscription, applied>>
    BY DEF LookUpCustomer, CreateCustomer, SaveCustomer, Subscribe, eventVars
  <1>2. /\ torn' \in BOOLEAN /\ (torn => torn')
        /\ ~torn' => payer = 0 \/ account' = account
        /\ payer # 0 => payer' = payer
    BY DEF LookUpCustomer, CreateCustomer, SaveCustomer, Subscribe, eventVars, BillingInv,
           BillingTypes
  <1>3. report' \in Posts /\ Metered'
    BY <1>1 DEF usageVars, BillingInv, BillingTypes, Metered
  <1>4. usage' \in UsageStatus
    BY <1>1 DEF usageVars, BillingInv, BillingTypes
  <1> QED BY <1>1, <1>2, <1>3, <1>4, EventsUntouched

(* A report that moves on keeps the meter. *)
LEMMA ReportStep ==
  ASSUME report \in Posts, Metered, NEW r \in Report,
         NEW at \in PostStates, report' = [report EXCEPT ![r].at = at],
         meter' \subseteq {0}, meter \subseteq meter',
         usage' = "reported" => meter' # {}, at = "counted" => meter' # {}
  PROVE  report' \in Posts /\ Metered'
  <1>1. /\ report' \in Posts
        /\ \A o \in Report : report'[o].at = IF o = r THEN at ELSE report[o].at
    BY DEF Posts
  <1>2. \A o \in Report : report'[o].at = "counted" => meter' # {}
    BY <1>1 DEF Metered
  <1> QED BY <1>1, <1>2 DEF Metered

(* The steps that record and report usage are such steps. *)
LEMMA UsageSteps ==
  ASSUME BillingInv,
         \/ RecordCall
         \/ \E r \in Report : \/ PostCall(r) \/ CheckReport(r) \/ ReportMeterEvent(r)
                              \/ MarkReported(r) \/ MarkReportFailed(r)
  PROVE  BillingInv'
  <1>1. UNCHANGED <<says, eventRow, handler, subscription, applied, torn, account, payer>>
    BY DEF RecordCall, PostCall, CheckReport, ReportMeterEvent, MarkReported, MarkReportFailed,
           checkoutVars, eventVars
  <1>2. /\ report \in Posts /\ Metered /\ torn \in BOOLEAN
        /\ usage \in UsageStatus
    BY DEF BillingInv, BillingTypes
  <1>0. usage' \in UsageStatus
    BY <1>2 DEF RecordCall, PostCall, CheckReport, ReportMeterEvent, MarkReported, MarkReportFailed,
                UsageStatus
  <1>3. CASE RecordCall
    <2>1. report' = report /\ Metered'
      BY <1>2, <1>3 DEF RecordCall, Metered
    <2> QED BY <1>0, <1>1, <1>2, <2>1, EventsUntouched
  <1>4. ASSUME NEW r \in Report,
               \/ PostCall(r) \/ CheckReport(r) \/ ReportMeterEvent(r)
               \/ MarkReported(r) \/ MarkReportFailed(r)
        PROVE  report' \in Posts /\ Metered'
    <2>1. ASSUME PostCall(r) PROVE report' \in Posts /\ Metered'
      <3> DEFINE row == [at |-> "posted", saw |-> usage']
      <3>1. /\ usage' \in UsageStatus /\ meter' = meter /\ report' = [report EXCEPT ![r] = row]
            /\ usage' = "reported" => usage = "reported"
        BY <1>0, <2>1, <1>2 DEF PostCall
      <3>2. row \in [at : PostStates, saw : UsageStatus] /\ row.at # "counted"
        BY <1>0 DEF PostStates
      <3> HIDE DEF row
      <3>3. /\ report' \in Posts
            /\ \A o \in Report : report'[o] = IF o = r THEN row ELSE report[o]
        BY <1>2, <3>1, <3>2 DEF Posts
      <3> QED BY <1>2, <3>1, <3>2, <3>3 DEF Metered
    <2>2. ASSUME CheckReport(r) PROVE report' \in Posts /\ Metered'
      <3>1. /\ meter' = meter /\ usage' = usage
            /\ \/ report' = [report EXCEPT ![r].at = "done"]
               \/ report' = [report EXCEPT ![r].at = "reporting"]
        BY <2>2 DEF CheckReport
      <3> QED BY <1>2, <3>1, ReportStep DEF Metered, PostStates
    <2>3. ASSUME ReportMeterEvent(r)
          PROVE report' \in Posts /\ Metered'
      <3>1. /\ usage' = usage /\ meter' \in {meter, meter \cup {0}}
            /\ \/ report' = [report EXCEPT ![r].at = "counted"] /\ meter' = meter \cup {0}
               \/ report' = [report EXCEPT ![r].at = "failing"]
        BY <2>3 DEF ReportMeterEvent, Identifier
      <3>2. meter' \subseteq {0} /\ meter \subseteq meter' /\ (usage' = "reported" => meter' # {})
        BY <1>2, <3>1 DEF Metered
      <3> QED BY <1>2, <3>1, <3>2, ReportStep DEF PostStates
    <2>4. ASSUME MarkReported(r) PROVE report' \in Posts /\ Metered'
      <3>1. /\ meter' = meter /\ usage' \in {usage, "reported"} /\ meter # {}
            /\ \/ report' = [report EXCEPT ![r].at = "done"]
               \/ report' = [report EXCEPT ![r].at = "failing"]
        BY <1>2, <2>4 DEF MarkReported, Metered
      <3> QED BY <1>2, <3>1, ReportStep DEF Metered, PostStates
    <2>5. ASSUME MarkReportFailed(r)
          PROVE report' \in Posts /\ Metered'
      <3>1. meter' = meter /\ usage' = "failed" /\ report' = [report EXCEPT ![r].at = "done"]
        BY <2>5 DEF MarkReportFailed
      <3> QED BY <1>2, <3>1, ReportStep DEF Metered, PostStates
    <2> QED BY <1>4, <2>1, <2>2, <2>3, <2>4, <2>5
  <1> QED BY <1>0, <1>1, <1>2, <1>3, <1>4, EventsUntouched

(* What a step of a handler leaves alone. *)
LEMMA HandlerStep ==
  ASSUME BillingInv, handler' \in [Delivery -> HandlerStates],
         says' = says, payer' = payer, usage' = usage, meter' = meter, report' = report,
         payer # 0, eventRow' \in [Event -> {"none", "received", "processed", "failed"}],
         applied' \in [Event -> Nat], subscription' \in StripeStatus \cup {"none"},
         torn' \in BOOLEAN
  PROVE  BillingTypes' /\ NothingBeforePurchase' /\ Metered'
  <1>1. BillingTypes'
    BY DEF BillingInv, BillingTypes
  <1> QED BY <1>1 DEF BillingInv, NothingBeforePurchase, Metered

(* An event is inserted once, by the delivery that handles it. *)
LEMMA ReceiveEventStep ==
  ASSUME BillingInv, NEW d \in Delivery, ReceiveEvent(d) PROVE BillingInv'
  <1> DEFINE e == d[1]
             s == IF eventRow[e] = "none" THEN "account" ELSE "duplicate"
  <1>1. /\ handler[d] = "unsent" /\ handler' = [handler EXCEPT ![d] = s] /\ payer # 0
        /\ says' = says /\ payer' = payer /\ usage' = usage /\ meter' = meter /\ report' = report
        /\ UNCHANGED <<account, subscription, applied, torn>>
        /\ eventRow' = [eventRow EXCEPT ![e] = IF eventRow[e] = "none" THEN "received" ELSE eventRow[e]]
    BY DEF ReceiveEvent, IsFirst, checkoutVars, usageVars
  <1>2. s \in HandlerStates /\ e \in Event
    BY DEF HandlerStates, Delivery
  <1>3. /\ eventRow \in [Event -> {"none", "received", "processed", "failed"}]
        /\ applied \in [Event -> Nat] /\ subscription \in StripeStatus \cup {"none"}
        /\ torn \in BOOLEAN /\ OneHandler /\ ProcessedIsApplied /\ HalfWayAgrees
        /\ handler \in [Delivery -> HandlerStates] /\ AccountAgrees
    BY DEF BillingInv, BillingTypes
  <1>4. /\ eventRow' \in [Event -> {"none", "received", "processed", "failed"}]
        /\ \A f \in Event : eventRow'[f] = IF f = e /\ eventRow[e] = "none" THEN "received" ELSE eventRow[f]
    BY <1>1, <1>2, <1>3
  <1> HIDE DEF s
  <1>5. /\ BillingTypes' /\ NothingBeforePurchase' /\ Metered'
        /\ \A o \in Delivery : handler'[o] = IF o = d THEN s ELSE handler[o]
    <2>1. /\ applied' \in [Event -> Nat] /\ subscription' \in StripeStatus \cup {"none"}
          /\ torn' \in BOOLEAN
      BY <1>1, <1>3
    <2>2. /\ handler' \in [Delivery -> HandlerStates]
          /\ \A o \in Delivery : handler'[o] = IF o = d THEN s ELSE handler[o]
      BY <1>1, <1>2, <1>3
    <2> QED BY <1>1, <1>4, <2>1, <2>2, HandlerStep
  <1>6. OneHandler'
    <2>1. ASSUME NEW a \in Delivery, NEW b \in Delivery, a[1] = b[1],
                 handler'[a] \notin {"unsent", "duplicate"}, handler'[b] \notin {"unsent", "duplicate"}
          PROVE  a = b
      BY <1>1, <1>3, <1>5, <2>1 DEF OneHandler, s
    <2>2. ASSUME NEW a \in Delivery
          PROVE  /\ eventRow'[a[1]] = "none" => handler'[a] \in {"unsent", "duplicate"}
                 /\ handler'[a] = "account" => applied'[a[1]] = 0
                 /\ handler'[a] \in HalfWayStates \cup {"mark"} => applied'[a[1]] = 1
                 /\ handler'[a] \in {"update", "mark"} => subscription' # "none"
      <3>1. a[1] \in Event
        BY DEF Delivery
      <3> QED BY <1>1, <1>2, <1>3, <1>4, <1>5, <3>1 DEF OneHandler, s, HalfWayStates
    <2>3. \A f \in Event : (eventRow'[f] = "none" => applied'[f] = 0) /\ applied'[f] <= 1
      BY <1>1, <1>3, <1>4 DEF OneHandler
    <2> QED BY <2>1, <2>2, <2>3 DEF OneHandler
  <1>7. ProcessedIsApplied'
    BY <1>1, <1>3, <1>4 DEF ProcessedIsApplied
  <1>8. \A o \in Delivery : handler'[o] \in HalfWayStates => o # d /\ handler[o] \in HalfWayStates
    BY <1>5 DEF s, HalfWayStates
  <1>9. HalfWayAgrees'
    BY <1>1, <1>3, <1>8 DEF HalfWayAgrees
  <1>10. AccountAgrees'
    BY <1>1, <1>3, <1>5 DEF AccountAgrees, HalfWay, s
  <1> QED BY <1>5, <1>6, <1>7, <1>9, <1>10 DEF BillingInv

(* A handler at work stays the one handler of its event. *)
LEMMA OneHandlerKept ==
  ASSUME OneHandler, NEW d \in Delivery, NEW s \in HandlerStates, NEW n \in {0, 1},
         handler[d] \notin {"unsent", "duplicate"},
         eventRow \in [Event -> {"none", "received", "processed", "failed"}],
         \A o \in Delivery : handler'[o] = IF o = d THEN s ELSE handler[o],
         \A e \in Event : (eventRow'[e] = "none") <=> (eventRow[e] = "none"),
         \A e \in Event : applied'[e] = IF e = d[1] THEN n ELSE applied[e],
         s # "account", s \in HalfWayStates \cup {"mark"} => n = 1,
         s \in {"update", "mark"} => subscription' # "none",
         subscription # "none" => subscription' # "none"
  PROVE  OneHandler'
  <1>1. d[1] \in Event /\ \A o \in Delivery : o[1] \in Event
    BY DEF Delivery
  <1>2. ASSUME NEW a \in Delivery, NEW b \in Delivery, a[1] = b[1],
               handler'[a] \notin {"unsent", "duplicate"}, handler'[b] \notin {"unsent", "duplicate"}
        PROVE  a = b
    BY <1>2 DEF OneHandler
  <1>3. eventRow[d[1]] # "none"
    BY DEF OneHandler
  <1>4. ASSUME NEW o \in Delivery
        PROVE  /\ eventRow'[o[1]] = "none" => handler'[o] \in {"unsent", "duplicate"}
               /\ handler'[o] = "account" => applied'[o[1]] = 0
               /\ handler'[o] \in HalfWayStates \cup {"mark"} => applied'[o[1]] = 1
               /\ handler'[o] \in {"update", "mark"} => subscription' # "none"
    <2>1. CASE o = d
      BY <1>1, <1>3, <2>1
    <2>2. CASE o # d
      <3>1. handler'[o] = handler[o]
        BY <2>2
      <3>2. handler[o] \notin {"unsent", "duplicate"} => applied'[o[1]] = applied[o[1]]
        BY <1>1, <2>2 DEF OneHandler
      <3>3. /\ eventRow[o[1]] = "none" => handler[o] \in {"unsent", "duplicate"}
            /\ handler[o] = "account" => applied[o[1]] = 0
            /\ handler[o] \in HalfWayStates \cup {"mark"} => applied[o[1]] = 1
            /\ handler[o] \in {"update", "mark"} => subscription # "none"
        BY DEF OneHandler
      <3> QED BY <1>1, <3>1, <3>2, <3>3 DEF HalfWayStates
    <2> QED BY <2>1, <2>2
  <1>5. \A e \in Event : (eventRow'[e] = "none" => applied'[e] = 0) /\ applied'[e] <= 1
    BY <1>3 DEF OneHandler
  <1> QED BY <1>2, <1>4, <1>5 DEF OneHandler

(* The one handler writes the account. *)
LEMMA ApplyToAccountStep ==
  ASSUME BillingInv, NEW d \in Delivery, ApplyToAccount(d) PROVE BillingInv'
  <1>1. /\ handler[d] = "account" /\ handler' = [handler EXCEPT ![d] = "subscription"]
        /\ says' = says /\ payer' = payer /\ usage' = usage /\ meter' = meter /\ report' = report
        /\ eventRow' = eventRow /\ subscription' = subscription /\ torn' = (torn \/ HalfWay)
        /\ applied' = [applied EXCEPT ![d[1]] = applied[d[1]] + 1]
        /\ account'.status = AccountStatusOf[says[d[1]]]
    BY DEF ApplyToAccount, usageVars
  <1>2. d[1] \in Event /\ "subscription" \in HandlerStates
    BY DEF HandlerStates, Delivery
  <1>3. /\ eventRow \in [Event -> {"none", "received", "processed", "failed"}]
        /\ applied \in [Event -> Nat] /\ subscription \in StripeStatus \cup {"none"}
        /\ torn \in BOOLEAN /\ OneHandler /\ ProcessedIsApplied /\ HalfWayAgrees
        /\ handler \in [Delivery -> HandlerStates]
        /\ NothingBeforePurchase
    BY DEF BillingInv, BillingTypes
  <1>4. payer # 0 /\ applied[d[1]] = 0
    BY <1>1, <1>3 DEF NothingBeforePurchase, OneHandler
  <1>5. /\ applied' \in [Event -> Nat] /\ torn' \in BOOLEAN
        /\ \A e \in Event : applied'[e] = IF e = d[1] THEN 1 ELSE applied[e]
    BY <1>1, <1>2, <1>3, <1>4 DEF HalfWay
  <1>6. /\ BillingTypes' /\ NothingBeforePurchase' /\ Metered'
        /\ \A o \in Delivery : handler'[o] = IF o = d THEN "subscription" ELSE handler[o]
    <2>1. /\ handler' \in [Delivery -> HandlerStates]
          /\ \A o \in Delivery : handler'[o] = IF o = d THEN "subscription" ELSE handler[o]
      BY <1>1, <1>2, <1>3
    <2>2. eventRow' \in [Event -> {"none", "received", "processed", "failed"}]
          /\ subscription' \in StripeStatus \cup {"none"}
      BY <1>1, <1>3
    <2> QED BY <1>1, <1>4, <1>5, <2>1, <2>2, HandlerStep
  <1>7. OneHandler'
    BY <1>1, <1>2, <1>3, <1>5, <1>6, OneHandlerKept
  <1>8. ProcessedIsApplied'
    BY <1>1, <1>3, <1>5 DEF ProcessedIsApplied
  <1>9. ~torn' => \A o \in Delivery : handler'[o] \in HalfWayStates => o = d
    BY <1>1, <1>6 DEF HalfWay, HalfWayStates
  <1>10. HalfWayAgrees'
    BY <1>1, <1>9 DEF HalfWayAgrees
  <1>11. AccountAgrees'
    BY <1>6 DEF AccountAgrees, HalfWay
  <1> QED BY <1>6, <1>7, <1>8, <1>10, <1>11 DEF BillingInv

(* The handler goes on to the subscription, the event's row, or fails. *)
LEMMA SubscriptionSteps ==
  ASSUME BillingInv, NEW d \in Delivery,
         \/ LookUpSubscription(d) \/ ApplyToSubscription(d)
         \/ MarkEventProcessed(d) \/ EventFails(d)
  PROVE  BillingInv'
  <1>1. /\ says' = says /\ payer' = payer /\ usage' = usage /\ meter' = meter /\ report' = report
        /\ applied' = applied /\ account' = account
        /\ handler[d] \in {"account", "subscription", "insert", "update", "mark"}
    BY DEF LookUpSubscription, ApplyToSubscription, MarkEventProcessed, EventFails, usageVars,
           checkoutVars
  <1>2. d[1] \in Event
    BY DEF Delivery
  <1>3. /\ eventRow \in [Event -> {"none", "received", "processed", "failed"}]
        /\ applied \in [Event -> Nat] /\ subscription \in StripeStatus \cup {"none"}
        /\ torn \in BOOLEAN /\ OneHandler /\ ProcessedIsApplied /\ HalfWayAgrees
        /\ handler \in [Delivery -> HandlerStates]
        /\ NothingBeforePurchase /\ AccountAgrees /\ says \in [Event -> StripeStatus]
    BY DEF BillingInv, BillingTypes
  <1>4. payer # 0
    BY <1>1, <1>3 DEF NothingBeforePurchase
  <1>5. PICK s \in {"insert", "update", "mark", "done"} :
          /\ handler' = [handler EXCEPT ![d] = s]
          /\ s = "insert" => handler[d] = "subscription" /\ subscription = "none"
          /\ s = "update" => handler[d] = "subscription" /\ subscription # "none"
          /\ s = "mark" => /\ handler[d] \in {"insert", "update"}
                           /\ subscription' = says[d[1]]
          /\ s # "mark" => subscription' = subscription
          /\ s # "done" => eventRow' = eventRow /\ torn' = torn
          /\ s = "done" =>
                \/ /\ handler[d] = "mark" /\ torn' = torn
                   /\ eventRow' = [eventRow EXCEPT ![d[1]] = "processed"]
                \/ /\ torn' = (torn \/ handler[d] \in {"subscription", "insert", "update"})
                   /\ eventRow' = [eventRow EXCEPT ![d[1]] = "failed"]
    <2>1. CASE LookUpSubscription(d)
      BY <2>1 DEF LookUpSubscription
    <2>2. CASE ApplyToSubscription(d)
      BY <2>2 DEF ApplyToSubscription
    <2>3. CASE MarkEventProcessed(d)
      BY <2>3 DEF MarkEventProcessed
    <2>4. CASE EventFails(d)
      BY <2>4 DEF EventFails
    <2> QED BY <2>1, <2>2, <2>3, <2>4
  <1>6. /\ s \in HandlerStates /\ s \notin {"account", "unsent", "duplicate"}
        /\ subscription' \in StripeStatus \cup {"none"}
        /\ subscription # "none" => subscription' # "none"
        /\ s \in {"update", "mark"} => subscription' # "none"
    BY <1>2, <1>3, <1>5 DEF HandlerStates, StripeStatus
  <1>7. /\ torn' \in BOOLEAN
        /\ torn => torn'
        /\ (s = "done" /\ handler[d] # "mark") => (torn' \/ handler[d] = "account")
    <2>1. CASE s = "done" /\ handler[d] # "mark"
      BY <1>1, <1>3, <1>5, <2>1
    <2>2. CASE s = "done" /\ handler[d] = "mark"
      BY <1>3, <1>5, <2>2
    <2>3. CASE s # "done"
      BY <1>3, <1>5, <2>3
    <2> QED BY <2>1, <2>2, <2>3
  <1>8. /\ eventRow' \in [Event -> {"none", "received", "processed", "failed"}]
        /\ \A e \in Event : (eventRow'[e] = "none") <=> (eventRow[e] = "none")
        /\ \A e \in Event : eventRow'[e] = "processed" =>
              eventRow[e] = "processed" \/ (e = d[1] /\ handler[d] = "mark")
    <2>1. eventRow[d[1]] # "none"
      BY <1>1, <1>3 DEF OneHandler
    <2>2. CASE s # "done"
      BY <1>3, <1>5, <2>2
    <2>3. CASE s = "done" /\ handler[d] = "mark"
      BY <1>2, <1>3, <1>5, <2>1, <2>3
    <2>4. CASE s = "done" /\ handler[d] # "mark"
      BY <1>2, <1>3, <1>5, <2>1, <2>4
    <2> QED BY <2>2, <2>3, <2>4
  <1>9. applied' \in [Event -> Nat]
    BY <1>1, <1>3
  <1>10. /\ BillingTypes' /\ NothingBeforePurchase' /\ Metered'
         /\ \A o \in Delivery : handler'[o] = IF o = d THEN s ELSE handler[o]
    <2>1. /\ handler' \in [Delivery -> HandlerStates]
          /\ \A o \in Delivery : handler'[o] = IF o = d THEN s ELSE handler[o]
      BY <1>3, <1>5, <1>6
    <2>2. BillingTypes' /\ NothingBeforePurchase' /\ Metered'
      BY <1>1, <1>4, <1>6, <1>7, <1>8, <1>9, <2>1, HandlerStep
    <2> QED BY <2>1, <2>2
  <1>11. OneHandler'
    <2>1. /\ applied[d[1]] \in {0, 1}
          /\ handler[d] \in HalfWayStates \cup {"mark"} => applied[d[1]] = 1
      BY <1>2, <1>3 DEF OneHandler
    <2>2. s \in HalfWayStates \cup {"mark"} => applied[d[1]] = 1
      BY <1>5, <2>1 DEF HalfWayStates
    <2>3. \A e \in Event : applied'[e] = IF e = d[1] THEN applied[d[1]] ELSE applied[e]
      BY <1>1
    <2> QED BY <1>1, <1>3, <1>6, <1>8, <1>10, <2>1, <2>2, <2>3, OneHandlerKept
  <1>12. ProcessedIsApplied'
    <2>1. handler[d] = "mark" => applied[d[1]] = 1 /\ subscription # "none"
      BY <1>3 DEF OneHandler, HalfWayStates
    <2> QED BY <1>1, <1>3, <1>6, <1>8, <2>1 DEF ProcessedIsApplied
  <1>13. s \in HalfWayStates => handler[d] \in HalfWayStates
    BY <1>5 DEF HalfWayStates
  <1>14. HalfWayAgrees'
    <2>1. \A o \in Delivery : handler'[o] \in HalfWayStates => handler[o] \in HalfWayStates
      BY <1>10, <1>13
    <2> SUFFICES ASSUME ~torn'
                 PROVE  /\ \A a, b \in Delivery :
                             (handler'[a] \in HalfWayStates /\ handler'[b] \in HalfWayStates) => a = b
                        /\ \A a \in Delivery : handler'[a] \in HalfWayStates =>
                             account'.status = AccountStatusOf[says'[a[1]]]
      BY DEF HalfWayAgrees
    <2>2. ~torn
      BY <1>7
    <2> QED BY <1>1, <1>3, <2>1, <2>2 DEF HalfWayAgrees
  <1>15. AccountAgrees'
    <2> SUFFICES ASSUME subscription' # "none", ~HalfWay', ~torn'
                 PROVE  account'.status = AccountStatusOf[subscription']
      BY DEF AccountAgrees
    <2>1. CASE s = "mark"
      BY <1>1, <1>3, <1>5, <1>7, <2>1 DEF HalfWayAgrees, HalfWayStates
    <2>2. CASE s # "mark"
      <3>1. handler[d] \notin HalfWayStates
        BY <1>5, <1>7, <1>10, <2>2 DEF HalfWay, HalfWayStates
      <3>2. ~HalfWay
        BY <1>10, <3>1 DEF HalfWay, HalfWayStates
      <3> QED BY <1>1, <1>3, <1>5, <1>7, <2>2, <3>2 DEF AccountAgrees
    <2> QED BY <2>1, <2>2
  <1> QED BY <1>10, <1>11, <1>12, <1>14, <1>15 DEF BillingInv

(* Every step of the billing keeps the invariant. *)
LEMMA BillingStep == BillingInv /\ [BillingNext]_billingVars => BillingInv'
  <1> SUFFICES ASSUME BillingInv, [BillingNext]_billingVars PROVE BillingInv'
    OBVIOUS
  <1>1. CASE UNCHANGED billingVars
    <2>1. /\ BillingTypes' /\ OneHandler' /\ NothingBeforePurchase' /\ HalfWayAgrees' /\ Metered'
      BY <1>1 DEF billingVars, BillingInv, BillingTypes, OneHandler, NothingBeforePurchase,
                  HalfWayAgrees, Metered
    <2>2. ProcessedIsApplied' /\ AccountAgrees'
      BY <1>1 DEF billingVars, BillingInv, ProcessedIsApplied, AccountAgrees, HalfWay
    <2> QED BY <2>1, <2>2 DEF BillingInv
  <1>2. CASE BillingNext
    BY <1>2, CheckoutSteps, UsageSteps, ReceiveEventStep, ApplyToAccountStep, SubscriptionSteps
    DEF BillingNext
  <1> QED BY <1>1, <1>2

(* server.ts, processStripeWebhookEvent; repository.ts,
   upsertBillingSubscription: with events and reports repeated, reordered,
   overlapping and failing half way, an event is applied once and marked only
   when it was, account and subscription tell the same story unless two
   writers met, and an accepted call is metered once and counts as reported
   only when it was. *)
THEOREM BillingStaysTrue == BillingSpec => []BillingAgrees
  <1>1. BillingInv => BillingAgrees
    <2> SUFFICES ASSUME BillingInv PROVE BillingAgrees
      OBVIOUS
    <2>1. EventAppliedOnce /\ ReportedIsMetered /\ ProcessedIsApplied /\ AccountAgrees
      BY DEF BillingInv, OneHandler, Metered, EventAppliedOnce, ReportedIsMetered
    <2>2. Cardinality(meter) <= 1
      <3>1. meter = {} \/ meter = {0}
        BY DEF BillingInv, Metered
      <3> QED BY <3>1, FS_EmptySet, FS_Singleton
    <2> QED BY <2>1, <2>2 DEF BillingAgrees, MeteredOnce
  <1> QED BY <1>1, BillingStarts, BillingStep, PTL DEF BillingSpec

-----------------------------------------------------------------------------
(* The contacts of a tenant (Contacts) *)

ContactRows == [live : BOOLEAN, email : Emails \cup {Unknown}, phone : Phones \cup {Unknown},
                ids : SUBSET ChannelIds]
VisitRows ==
    [at : {"none", "new", "found", "done"}, talk : Threads \cup {CHOOSE t \in Threads : TRUE},
     form : BOOLEAN, email : Emails \cup {Unknown}, phone : Phones \cup {Unknown},
     id : ChannelIds \cup {Unknown}, match : 0..MaxContacts]

(* What a visit carries is in the hands of the contact it found, and of no
   other one that is left; and nobody else has found a contact meanwhile. *)
FoundHolds ==
    /\ \A u, v \in Visit : Finding(u) /\ Finding(v) => u = v
    /\ \A v \in Visit : Finding(v) => SameAddress(v) \cup SameId(v) \subseteq {visit[v].match}

Apart == \A m, n \in Live : m # n => ~Share(m, n)

ContactsTypes == contact \in [Contact -> ContactRows] /\ visit \in [Visit -> VisitRows]

(* The invariant: unless contacts were merged by a mishap, they are apart. *)
ContactsInv == ContactsTypes /\ (mergers = {} => FoundHolds /\ Apart)

(* At first there are no contacts. *)
LEMMA ContactsStart == ContactsInit => ContactsInv
  <1> SUFFICES ASSUME ContactsInit PROVE ContactsInv
    OBVIOUS
  <1>1. contact \in [Contact -> ContactRows]
    BY DEF ContactsInit, ContactRows, Nobody
  <1>2. visit \in [Visit -> VisitRows]
    BY ContactsAssumption DEF ContactsInit, VisitRows
  <1>3. FoundHolds /\ Apart
    BY DEF ContactsInit, FoundHolds, Apart, Finding, Live, Nobody
  <1> QED BY <1>1, <1>2, <1>3 DEF ContactsInv, ContactsTypes

(* A set of live contacts that is not said to be ambiguous has one member at most. *)
LEMMA AtMostOneLive ==
  ASSUME NEW S \in SUBSET Contact, ~(Cardinality(S) > 1), NEW m \in S, NEW n \in S
  PROVE  m = n
  <1> SUFFICES ASSUME m # n PROVE FALSE
    OBVIOUS
  <1>1. IsFiniteSet(Contact)
    BY ContactsAssumption, FS_Interval DEF Contact
  <1>2. IsFiniteSet(S)
    BY <1>1, FS_Subset
  <1>3. Cardinality({m}) = 1 /\ IsFiniteSet({m})
    BY FS_Singleton
  <1>4. Cardinality({m} \cup {n}) = 2 /\ IsFiniteSet({m} \cup {n})
    <2>1. Cardinality({m} \cup {n}) = Cardinality({m}) + 1 /\ IsFiniteSet({m} \cup {n})
      BY <1>3, FS_AddElement
    <2> QED BY <1>3, <2>1
  <1>5. Cardinality({m} \cup {n}) <= Cardinality(S)
    BY <1>2, FS_Subset
  <1>6. Cardinality(S) \in Nat
    BY <1>2, FS_CardinalityType
  <1> QED BY <1>4, <1>5, <1>6

(* A step that writes no contact and finds none, and ends what it found. *)
LEMMA VisitStep ==
  ASSUME ContactsInv, contact' = contact, visit' \in [Visit -> VisitRows], mergers' = mergers,
         \A u \in Visit : Finding(u)' => Finding(u) /\ visit'[u] = visit[u]
  PROVE  ContactsInv'
  <1>1. Live' = Live
    BY DEF Live
  <1>2. \A u \in Visit : Finding(u)' => SameAddress(u)' = SameAddress(u) /\ SameId(u)' = SameId(u)
    BY <1>1 DEF SameAddress, SameId
  <1>3. ContactsTypes'
    BY DEF ContactsInv, ContactsTypes
  <1>4. FoundHolds => FoundHolds'
    BY <1>2 DEF FoundHolds
  <1>5. Apart => Apart'
    BY <1>1 DEF Apart, Share
  <1> QED BY <1>3, <1>4, <1>5 DEF ContactsInv

(* A visit arrives with what it carries. *)
LEMMA ArriveStep ==
  ASSUME ContactsInv, NEW v \in Visit, NEW t \in Threads, NEW form \in BOOLEAN,
         NEW email \in Emails \cup {Unknown}, NEW phone \in Phones \cup {Unknown},
         NEW id \in ChannelIds \cup {Unknown}, Arrive(v, t, form, email, phone, id)
  PROVE  ContactsInv'
  <1> DEFINE row == [at |-> "new", talk |-> t, form |-> form, email |-> email,
                     phone |-> phone, id |-> id, match |-> 0]
  <1>1. visit \in [Visit -> VisitRows]
    BY DEF ContactsInv, ContactsTypes
  <1>2. row \in VisitRows /\ row.at = "new"
    BY ContactsAssumption DEF VisitRows
  <1>3. visit' = [visit EXCEPT ![v] = row] /\ UNCHANGED <<contact, linkedTo, mergers>>
    BY DEF Arrive
  <1> HIDE DEF row
  <1>4. visit' \in [Visit -> VisitRows] /\ \A u \in Visit : visit'[u] = IF u = v THEN row ELSE visit[u]
    BY <1>1, <1>2, <1>3
  <1>5. \A u \in Visit : Finding(u)' => Finding(u) /\ visit'[u] = visit[u]
    BY <1>2, <1>4 DEF Finding
  <1> QED BY <1>3, <1>4, <1>5, VisitStep

(* A visit finds the one contact that has its email, phone or channel. *)
LEMMA FindContactStep == ASSUME ContactsInv, NEW v \in Visit, Find(v) PROVE ContactsInv'
  <1>1. ContactsTypes
    BY DEF ContactsInv
  <1>2. Live \subseteq Contact /\ Matches(v) \subseteq Preferred(v) \cup SameAddress(v) \cup SameId(v)
        /\ Preferred(v) \cup SameAddress(v) \cup SameId(v) \subseteq Live
    BY DEF Live, Matches, Preferred, SameAddress, SameId
  <1>3. PICK n \in IF Matches(v) = {} THEN {0} ELSE Matches(v) :
          visit' = [visit EXCEPT ![v].at = "found", ![v].match = n]
    BY DEF Find
  <1>4. n \in 0..MaxContacts
    BY <1>2, <1>3, ContactsAssumption DEF Contact
  <1> DEFINE row == [visit[v] EXCEPT !.at = "found", !.match = n]
  <1>5. row \in VisitRows /\ row.at = "found" /\ row.match = n /\ row.email = visit[v].email
        /\ row.phone = visit[v].phone /\ row.id = visit[v].id
    <2>1. visit[v] \in VisitRows
      BY <1>1 DEF ContactsTypes
    <2> QED BY <1>4, <2>1 DEF VisitRows
  <1>6. visit' = [visit EXCEPT ![v] = row]
    BY <1>1, <1>3 DEF ContactsTypes
  <1> HIDE DEF row
  <1>7. visit' \in [Visit -> VisitRows] /\ \A u \in Visit : visit'[u] = IF u = v THEN row ELSE visit[u]
    BY <1>1, <1>5, <1>6 DEF ContactsTypes
  <1>8. /\ contact' = contact
        /\ mergers' = {} => mergers = {} /\ ~(\E u \in Visit : Finding(u))
                            /\ ~(Cardinality(Preferred(v) \cup SameAddress(v) \cup SameId(v)) > 1)
    BY DEF Find
  <1>9. ContactsTypes'
    BY <1>1, <1>7, <1>8 DEF ContactsTypes
  <1>10. ASSUME mergers' = {} PROVE FoundHolds' /\ Apart'
    <2>1. \A u \in Visit : Finding(u)' => u = v
      BY <1>7, <1>8, <1>10 DEF Finding
    <2>2. SameAddress(v)' = SameAddress(v) /\ SameId(v)' = SameId(v) /\ Live' = Live
      BY <1>5, <1>7, <1>8 DEF SameAddress, SameId, Live
    <2>3. SameAddress(v) \cup SameId(v) \subseteq {n}
      <3>1. CASE Matches(v) = {}
        BY <3>1 DEF Matches
      <3>2. CASE Matches(v) # {}
        <4> DEFINE S == Preferred(v) \cup SameAddress(v) \cup SameId(v)
        <4>1. n \in S /\ S \subseteq Contact /\ ~(Cardinality(S) > 1)
          BY <1>2, <1>3, <1>8, <1>10, <3>2
        <4>2. SameAddress(v) \cup SameId(v) \subseteq S
          OBVIOUS
        <4> HIDE DEF S
        <4> QED BY <4>1, <4>2, AtMostOneLive
      <3> QED BY <3>1, <3>2
    <2>4. FoundHolds'
      BY <1>5, <1>7, <2>1, <2>2, <2>3 DEF FoundHolds
    <2>5. Apart'
      BY <1>8, <1>10, <2>2 DEF ContactsInv, Apart, Share
    <2> QED BY <2>4, <2>5
  <1> QED BY <1>9, <1>10 DEF ContactsInv

(* The contact a visit found, or a new one, takes what the visit carries. *)
LEMMA SaveContactStep ==
  ASSUME ContactsInv, NEW v \in Visit, NEW n \in Contact, Finding(v), Save(v, n),
         visit' = [visit EXCEPT ![v].at = "done"], mergers' = mergers,
         (n = visit[v].match /\ contact[n].live) \/ (visit[v].match \notin Contact /\ contact[n] = Nobody)
  PROVE  ContactsInv'
  <1>1. ContactsTypes /\ contact[n] \in ContactRows /\ visit[v] \in VisitRows
    BY DEF ContactsInv, ContactsTypes
  <1> DEFINE row == [live |-> TRUE, email |-> Merged(visit[v].email, contact[n].email),
                     phone |-> Merged(visit[v].phone, contact[n].phone),
                     ids |-> contact[n].ids \cup Ids(v)]
             old == contact[n]
  <1>2. /\ row \in ContactRows
        /\ row.email = Merged(visit[v].email, old.email) /\ row.phone = Merged(visit[v].phone, old.phone)
        /\ row.ids = old.ids \cup Ids(v)
    BY <1>1 DEF ContactRows, VisitRows, Merged, Ids, Known
  <1>3. contact' = [contact EXCEPT ![n] = row]
    BY DEF Save
  <1> HIDE DEF row
  <1>4. /\ contact' \in [Contact -> ContactRows]
        /\ \A m \in Contact : contact'[m] = IF m = n THEN row ELSE contact[m]
    BY <1>1, <1>2, <1>3 DEF ContactsTypes
  <1>5. /\ visit' \in [Visit -> VisitRows] /\ visit'[v].at = "done"
        /\ \A u \in Visit : u # v => visit'[u] = visit[u]
    BY <1>1 DEF ContactsTypes, VisitRows
  <1>6. ContactsTypes'
    BY <1>4, <1>5 DEF ContactsTypes
  <1>7. ASSUME mergers = {} PROVE FoundHolds' /\ Apart'
    <2>1. FoundHolds /\ Apart
      BY <1>7 DEF ContactsInv
    <2>2. \A u \in Visit : ~Finding(u)'
      BY <1>5, <2>1 DEF FoundHolds, Finding
    <2>3. FoundHolds'
      BY <2>2 DEF FoundHolds
    <2>4. ASSUME NEW m \in Contact, m # n, contact[m].live
          PROVE  /\ m \notin SameAddress(v) /\ m \notin SameId(v)
                 /\ \/ n \in Live /\ ~Share(m, n) /\ ~Share(n, m)
                    \/ old = Nobody
      <3>1. m \in Live /\ m # visit[v].match
        BY <2>4 DEF Live
      <3>2. m \notin SameAddress(v) /\ m \notin SameId(v)
        BY <2>1, <3>1 DEF FoundHolds
      <3>3. n \in Live => ~Share(m, n) /\ ~Share(n, m)
        BY <2>1, <2>4, <3>1 DEF Apart
      <3> QED BY <3>2, <3>3 DEF Live
    <2>5. old = Nobody => (old.email = Unknown /\ old.phone = Unknown /\ old.ids = {})
      BY DEF Nobody
    <2>6. ASSUME NEW m \in Contact, m # n, contact[m].live PROVE ~Share(m, n)' /\ ~Share(n, m)'
      <3>1. contact'[m] = contact[m] /\ contact'[n] = row /\ m \in Live
        BY <1>4, <2>6 DEF Live
      <3>2. ~(Known(contact[m].email) /\ contact[m].email = row.email)
        BY <1>2, <2>4, <2>5, <2>6, <3>1 DEF SameAddress, Share, Merged, Known
      <3>3. ~(Known(contact[m].phone) /\ contact[m].phone = row.phone)
        BY <1>2, <2>4, <2>5, <2>6, <3>1 DEF SameAddress, Share, Merged, Known
      <3>4. contact[m].ids \cap row.ids = {}
        <4>1. contact[m].ids \cap old.ids = {}
          BY <2>4, <2>5, <2>6 DEF Share
        <4>2. contact[m].ids \cap Ids(v) = {}
          BY <2>4, <2>6, <3>1 DEF SameId, Ids
        <4> QED BY <1>2, <4>1, <4>2
      <3> QED BY <3>1, <3>2, <3>3, <3>4 DEF Share
    <2>7. \A m \in Live' : m # n => m \in Contact /\ contact[m].live
      BY <1>4 DEF Live
    <2>8. \A m, k \in Live : m # k => ~Share(m, k)
      BY <2>1 DEF Apart
    <2>9. ASSUME NEW m \in Live', NEW k \in Live', m # k PROVE ~Share(m, k)'
      <3>1. m \in Contact /\ k \in Contact
        BY DEF Live
      <3>2. CASE m = n
        BY <2>6, <2>7, <2>9, <3>2
      <3>3. CASE k = n
        BY <2>6, <2>7, <2>9, <3>3
      <3>4. CASE m # n /\ k # n
        <4>1. contact'[m] = contact[m] /\ contact'[k] = contact[k] /\ m \in Live /\ k \in Live
          BY <1>4, <2>7, <3>1, <3>4 DEF Live
        <4> QED BY <2>8, <2>9, <4>1 DEF Share
      <3> QED BY <3>2, <3>3, <3>4
    <2>10. Apart'
      BY <2>9 DEF Apart
    <2> QED BY <2>3, <2>10
  <1> QED BY <1>6, <1>7 DEF ContactsInv

(* The three ways to save what was found. *)
LEMMA WriteSteps ==
  ASSUME ContactsInv, NEW v \in Visit, WriteMatch(v) \/ LoseMatch(v) \/ CreateContact(v)
  PROVE  ContactsInv'
  <1>1. visit \in [Visit -> VisitRows] /\ visit[v] \in VisitRows
    BY DEF ContactsInv, ContactsTypes
  <1>2. visit[v].match \in 0..MaxContacts
    BY <1>1 DEF VisitRows
  <1>3. CASE WriteMatch(v)
    <2>1. visit[v].match \in Contact
      BY <1>2, <1>3, ContactsAssumption DEF WriteMatch, Contact
    <2> QED BY <1>3, <2>1, SaveContactStep DEF WriteMatch
  <1>4. CASE CreateContact(v)
    <2>1. PICK n \in Unused : Save(v, n)
      BY <1>4 DEF CreateContact
    <2>2. n \in Contact /\ contact[n] = Nobody
      BY DEF Unused
    <2>3. visit[v].match \notin Contact
      BY <1>4 DEF CreateContact, Contact
    <2> QED BY <1>4, <2>1, <2>2, <2>3, SaveContactStep DEF CreateContact
  <1>5. CASE LoseMatch(v)
    <2>1. /\ visit' = [visit EXCEPT ![v].at = "done"]
          /\ UNCHANGED <<contact, linkedTo, mergers>>
      BY <1>5 DEF LoseMatch
    <2>2. /\ visit' \in [Visit -> VisitRows] /\ visit'[v].at = "done"
          /\ \A u \in Visit : u # v => visit'[u] = visit[u]
      BY <1>1, <2>1 DEF VisitRows
    <2>3. \A u \in Visit : Finding(u)' => Finding(u) /\ visit'[u] = visit[u]
      BY <2>2 DEF Finding
    <2> QED BY <2>1, <2>2, <2>3, VisitStep
  <1> QED BY <1>3, <1>4, <1>5

(* An erased contact shares nothing. *)
LEMMA EraseStep == ASSUME ContactsInv, NEW n \in Contact, EraseContact(n) PROVE ContactsInv'
  <1>1. /\ contact \in [Contact -> ContactRows] /\ visit \in [Visit -> VisitRows]
        /\ contact' = [contact EXCEPT ![n].live = FALSE] /\ visit' = visit /\ mergers' = mergers
    BY DEF ContactsInv, ContactsTypes, EraseContact
  <1> DEFINE row == [contact[n] EXCEPT !.live = FALSE]
  <1>2. row \in ContactRows /\ ~row.live
    <2>1. contact[n] \in ContactRows
      BY <1>1
    <2> QED BY <2>1 DEF ContactRows
  <1>3. contact' = [contact EXCEPT ![n] = row]
    BY <1>1
  <1> HIDE DEF row
  <1>4. /\ contact' \in [Contact -> ContactRows] /\ ~contact'[n].live
        /\ \A m \in Contact : m # n => contact'[m] = contact[m]
    BY <1>1, <1>2, <1>3
  <1>5. Live' \subseteq Live /\ \A m \in Live' : contact'[m] = contact[m]
    BY <1>4 DEF Live
  <1>6. \A u \in Visit : /\ Finding(u)' <=> Finding(u)
                         /\ SameAddress(u)' \subseteq SameAddress(u) /\ SameId(u)' \subseteq SameId(u)
    BY <1>1, <1>5 DEF Finding, SameAddress, SameId
  <1>7. FoundHolds => FoundHolds'
    BY <1>1, <1>6 DEF FoundHolds
  <1>8. Apart => Apart'
    <2> SUFFICES ASSUME Apart, NEW m \in Live', NEW k \in Live', m # k PROVE ~Share(m, k)'
      BY DEF Apart
    <2>1. m \in Live /\ k \in Live /\ contact'[m] = contact[m] /\ contact'[k] = contact[k]
      BY <1>5
    <2> QED BY <2>1 DEF Apart, Share
  <1> QED BY <1>1, <1>4, <1>7, <1>8 DEF ContactsInv, ContactsTypes

(* repository.ts, findMatchingContact and enrichConversationContact: no two
   contacts have an email, a phone or a channel identity in common, unless
   visits overlapped or a visit's identities belonged to several contacts. *)
THEOREM CustomersAreOne == ContactsSpec => []OneContactPerCustomer
  <1>1. ContactsInit => ContactsInv
    BY ContactsStart
  <1>2. ContactsInv /\ [ContactsNext]_contactsVars => ContactsInv'
    <2> SUFFICES ASSUME ContactsInv, [ContactsNext]_contactsVars PROVE ContactsInv'
      OBVIOUS
    <2>1. CASE ContactsNext
      BY <2>1, ArriveStep, FindContactStep, WriteSteps, EraseStep DEF ContactsNext
    <2>2. CASE UNCHANGED contactsVars
      <3>1. contact' = contact /\ visit' = visit /\ mergers' = mergers /\ visit \in [Visit -> VisitRows]
        BY <2>2 DEF contactsVars, ContactsInv, ContactsTypes
      <3>2. \A u \in Visit : Finding(u)' => Finding(u) /\ visit'[u] = visit[u]
        BY <3>1 DEF Finding
      <3> QED BY <3>1, <3>2, VisitStep
    <2> QED BY <2>1, <2>2
  <1>3. ContactsInv => OneContactPerCustomer
    BY DEF ContactsInv, Apart, OneContactPerCustomer
  <1> QED BY <1>1, <1>2, <1>3, PTL DEF ContactsSpec

-----------------------------------------------------------------------------
(* The erasure of a contact (ContactErasure) *)

ErasureTypes ==
    /\ talk \in [Talks -> {"none", "young", "old", "gone"}]
    /\ traces \in [Talks -> [Kinds -> {"none", "ref", "loose"}]]
    /\ eraser \in [at : {"idle", "links", "contact", "rows", "talks"}, found : SUBSET Talks]

(* While nothing raced and nothing was pruned too early: only a conversation that
   is there has traces, all of which still refer to it; an erasure past the
   contact row knows every conversation, and past the rows finds no trace. *)
TracesHold ==
    /\ \A t \in Talks, k \in Kinds : traces[t][k] # "loose" /\ (traces[t][k] # "none" => There(t))
    /\ eraser.at \in {"rows", "talks"} => \A t \in Talks : There(t) => t \in eraser.found
    /\ eraser.at = "talks" => \A t \in Talks, k \in Kinds : traces[t][k] = "none"
    /\ contactRow = "erased" => \A t \in Talks : ~There(t)

(* The invariant: unless something raced, the erasure knows what it will
   delete. *)
ErasureInv == ErasureTypes /\ (happened = {} => TracesHold)

(* At first there are no conversations. *)
LEMMA ErasureStarts == ErasureInit => ErasureInv
  <1> SUFFICES ASSUME ErasureInit PROVE ErasureInv
    OBVIOUS
  <1>1. ErasureTypes
    BY DEF ErasureInit, ErasureTypes
  <1>2. TracesHold
    BY DEF ErasureInit, TracesHold, There
  <1> QED BY <1>1, <1>2 DEF ErasureInv

(* A conversation that starts or grows old. *)
LEMMA TalkSteps ==
  ASSUME ErasureInv, NEW t \in Talks, Converse(t) \/ GrowOld(t) PROVE ErasureInv'
  <1>1. ErasureTypes /\ (happened = {} => TracesHold)
    BY DEF ErasureInv
  <1>2. PICK x \in {"young", "old"} : talk' = [talk EXCEPT ![t] = x]
    BY DEF Converse, GrowOld
  <1>3. talk' \in [Talks -> {"none", "young", "old", "gone"}] /\ There(t)'
        /\ \A u \in Talks : u # t => talk'[u] = talk[u]
    BY <1>1, <1>2 DEF ErasureTypes, There
  <1>4. UNCHANGED <<contactRow, traces, eraser, happened>>
    BY DEF Converse, GrowOld
  <1>5. \/ There(t)
        \/ contactRow = "live" /\ eraser.at \notin {"rows", "talks"}
    BY DEF Converse, GrowOld, There
  <1>6. \A u \in Talks : u # t => (There(u)' <=> There(u))
    BY <1>3 DEF There
  <1>7. TracesHold => TracesHold'
    BY <1>3, <1>4, <1>5, <1>6 DEF TracesHold
  <1> QED BY <1>1, <1>3, <1>4, <1>7 DEF ErasureInv, ErasureTypes

(* A trace is added to a conversation that is there. *)
LEMMA AddStep ==
  ASSUME ErasureInv, NEW t \in Talks, NEW k \in Kinds, AddTrace(t, k) PROVE ErasureInv'
  <1>1. ErasureTypes /\ (happened = {} => TracesHold)
    BY DEF ErasureInv
  <1>2. /\ traces' = [traces EXCEPT ![t][k] = "ref"]
        /\ UNCHANGED <<contactRow, talk, eraser>>
        /\ happened' = {} => happened = {} /\ There(t) /\ eraser.at # "talks"
    BY DEF AddTrace
  <1>3. /\ traces' \in [Talks -> [Kinds -> {"none", "ref", "loose"}]] /\ traces'[t][k] = "ref"
        /\ \A u \in Talks, l \in Kinds : (u # t \/ l # k) => traces'[u][l] = traces[u][l]
    BY <1>1, <1>2 DEF ErasureTypes
  <1>4. \A u \in Talks : There(u)' <=> There(u)
    BY <1>2 DEF There
  <1>5. happened' = {} => TracesHold'
    BY <1>1, <1>2, <1>3, <1>4 DEF TracesHold
  <1> QED BY <1>1, <1>2, <1>3, <1>5 DEF ErasureInv, ErasureTypes

(* What deleting conversations leaves of the traces. *)
LEMMA LoosenIs ==
  ASSUME traces \in [Talks -> [Kinds -> {"none", "ref", "loose"}]], NEW gone
  PROVE  /\ Loosen(gone) \in [Talks -> [Kinds -> {"none", "ref", "loose"}]]
         /\ \A t \in Talks, k \in Kinds :
               Loosen(gone)[t][k] # traces[t][k] => t \in gone /\ traces[t][k] = "ref"
  BY DEF Loosen

(* The retention deletes old conversations and calls. *)
LEMMA PruneSteps == ASSUME ErasureInv, PruneTalks \/ PruneCalls PROVE ErasureInv'
  <1>1. ErasureTypes /\ (happened = {} => TracesHold)
    BY DEF ErasureInv
  <1>2. CASE PruneTalks
    <2> DEFINE gone == {t \in Talks : talk[t] = "old"}
    <2>1. /\ talk' = [t \in Talks |-> IF t \in gone THEN "gone" ELSE talk[t]]
          /\ traces' = Loosen(gone) /\ UNCHANGED <<contactRow, eraser>>
          /\ happened' = {} => happened = {} /\ \A t \in gone : Present(t) = {}
      BY <1>2 DEF PruneTalks
    <2>2. \A t \in gone : There(t) /\ t \in Talks
      BY DEF There
    <2> HIDE DEF gone
    <2>3. /\ traces' \in [Talks -> [Kinds -> {"none", "ref", "loose"}]]
          /\ \A t \in Talks, k \in Kinds :
                traces'[t][k] # traces[t][k] => t \in gone /\ traces[t][k] = "ref"
      BY <1>1, <2>1, LoosenIs DEF ErasureTypes
    <2>4. /\ talk' \in [Talks -> {"none", "young", "old", "gone"}]
          /\ \A t \in Talks : There(t)' => There(t)
          /\ \A t \in Talks : There(t) /\ ~There(t)' => t \in gone
      BY <1>1, <2>1 DEF ErasureTypes, There
    <2>5. ASSUME happened' = {} PROVE TracesHold'
      <3>1. \A t \in Talks, k \in Kinds : t \in gone => traces[t][k] = "none"
        BY <2>1, <2>5 DEF Present
      <3>2. \A t \in Talks, k \in Kinds : traces'[t][k] = traces[t][k]
        BY <2>3, <3>1
      <3> QED BY <1>1, <2>1, <2>4, <2>5, <3>1, <3>2 DEF TracesHold
    <2> QED BY <1>1, <2>1, <2>3, <2>4, <2>5 DEF ErasureInv, ErasureTypes
  <1>3. CASE PruneCalls
    <2>1. UNCHANGED <<contactRow, talk, eraser, happened>>
      BY <1>3 DEF PruneCalls
    <2>2. /\ traces' \in [Talks -> [Kinds -> {"none", "ref", "loose"}]]
          /\ \A t \in Talks, k \in Kinds : traces'[t][k] \in {traces[t][k], "none"}
      <3>1. CASE traces' = traces
        BY <1>1, <3>1 DEF ErasureTypes
      <3>2. CASE traces' = [t \in Talks |-> [traces[t] EXCEPT !["call"] =
                                IF talk[t] \in {"old", "gone"} THEN "none" ELSE @]]
        BY <1>1, <3>2 DEF ErasureTypes
      <3> QED BY <1>3, <3>1, <3>2 DEF PruneCalls
    <2>3. \A t \in Talks : There(t)' <=> There(t)
      BY <2>1 DEF There
    <2>4. TracesHold => TracesHold'
      BY <2>1, <2>2, <2>3 DEF TracesHold
    <2> QED BY <1>1, <2>1, <2>2, <2>4 DEF ErasureInv, ErasureTypes
  <1> QED BY <1>2, <1>3

(* A step of the erasure before it deletes, and of anything else that deletes
   nothing. *)
LEMMA SearchStep ==
  ASSUME ErasureInv, UNCHANGED <<contactRow, talk, traces>>,
         eraser' \in [at : {"idle", "links", "contact", "rows", "talks"}, found : SUBSET Talks],
         happened' = {} => happened = {},
         \/ eraser' = eraser
         \/ eraser'.at \notin {"rows", "talks"}
         \/ eraser'.at = "rows" /\ (happened' = {} => \A t \in Talks : There(t) => t \in eraser'.found)
  PROVE  ErasureInv'
  <1>1. \A t \in Talks : There(t)' <=> There(t)
    BY DEF There
  <1>2. happened' = {} => TracesHold'
    BY <1>1 DEF ErasureInv, TracesHold
  <1> QED BY <1>2 DEF ErasureInv, ErasureTypes

(* The steps of the erasure, from its check to the conversations it found. *)
LEMMA EraserSteps ==
  ASSUME ErasureInv, CheckErasable \/ FindLinks \/ DeleteRow \/ DeleteTraces \/ DeleteTalks
  PROVE  ErasureInv'
  <1>1. ErasureTypes /\ (happened = {} => TracesHold)
    BY DEF ErasureInv
  <1>2. CASE CheckErasable \/ FindLinks
    <2>1. UNCHANGED <<contactRow, talk, traces, happened>> /\ eraser'.at \in {"links", "contact"}
          /\ eraser' \in [at : {"idle", "links", "contact", "rows", "talks"}, found : SUBSET Talks]
      BY <1>1, <1>2 DEF CheckErasable, FindLinks, ErasureTypes, Linked
    <2> QED BY <2>1, SearchStep
  <1>3. CASE DeleteRow
    <2>1. /\ UNCHANGED <<contactRow, talk, traces>> /\ eraser' = [eraser EXCEPT !.at = "rows"]
          /\ happened' = {} => happened = {} /\ Linked \ eraser.found = {}
      BY <1>3 DEF DeleteRow
    <2>2. /\ eraser' \in [at : {"idle", "links", "contact", "rows", "talks"}, found : SUBSET Talks]
          /\ eraser'.at = "rows" /\ eraser'.found = eraser.found
      BY <1>1, <2>1 DEF ErasureTypes
    <2>3. happened' = {} => \A t \in Talks : There(t) => t \in eraser'.found
      BY <2>1, <2>2 DEF Linked
    <2> QED BY <2>1, <2>2, <2>3, SearchStep
  <1>4. CASE DeleteTraces
    <2>1. /\ eraser.at = "rows" /\ eraser' = [eraser EXCEPT !.at = "talks"]
          /\ UNCHANGED <<contactRow, talk, happened>>
          /\ traces' = [t \in Talks |-> [k \in Kinds |->
                     IF t \in Reached(eraser.found, k) THEN "none" ELSE traces[t][k]]]
      BY <1>4 DEF DeleteTraces
    <2>2. /\ traces' \in [Talks -> [Kinds -> {"none", "ref", "loose"}]]
          /\ \A t \in Talks, k \in Kinds :
                traces'[t][k] = IF t \in eraser.found /\ traces[t][k] = "ref" THEN "none" ELSE traces[t][k]
      BY <1>1, <2>1 DEF ErasureTypes, Reached
    <2>3. /\ eraser' \in [at : {"idle", "links", "contact", "rows", "talks"}, found : SUBSET Talks]
          /\ eraser'.at = "talks" /\ eraser'.found = eraser.found
      BY <1>1, <2>1 DEF ErasureTypes
    <2>4. \A t \in Talks : There(t)' <=> There(t)
      BY <2>1 DEF There
    <2>5. ASSUME TracesHold PROVE TracesHold'
      <3>1. \A t \in Talks, k \in Kinds : traces[t][k] \in {"none", "ref"}
        BY <1>1, <2>5 DEF TracesHold, ErasureTypes
      <3>2. \A t \in Talks, k \in Kinds : traces'[t][k] = "none"
        BY <2>1, <2>2, <2>5, <3>1 DEF TracesHold
      <3> QED BY <2>1, <2>3, <2>4, <2>5, <3>2 DEF TracesHold
    <2> QED BY <1>1, <2>1, <2>2, <2>3, <2>5 DEF ErasureInv, ErasureTypes
  <1>5. CASE DeleteTalks
    <2>1. /\ eraser.at = "talks" /\ eraser' = [eraser EXCEPT !.at = "idle", !.found = {}]
          /\ talk' = [t \in Talks |-> IF t \in eraser.found /\ There(t) THEN "gone" ELSE talk[t]]
          /\ traces' = Loosen(eraser.found) /\ happened' = happened
      BY <1>5 DEF DeleteTalks
    <2>2. /\ traces' \in [Talks -> [Kinds -> {"none", "ref", "loose"}]]
          /\ \A t \in Talks, k \in Kinds : traces'[t][k] # traces[t][k] => traces[t][k] = "ref"
      BY <1>1, <2>1, LoosenIs DEF ErasureTypes
    <2>3. /\ eraser' \in [at : {"idle", "links", "contact", "rows", "talks"}, found : SUBSET Talks]
          /\ eraser'.at = "idle"
      BY <1>1, <2>1 DEF ErasureTypes
    <2>4. /\ talk' \in [Talks -> {"none", "young", "old", "gone"}]
          /\ \A t \in Talks : There(t)' => There(t) /\ t \notin eraser.found
      BY <1>1, <2>1 DEF ErasureTypes, There
    <2>5. ASSUME TracesHold PROVE TracesHold'
      <3>1. \A t \in Talks, k \in Kinds : traces[t][k] = "none" /\ traces'[t][k] = "none"
        BY <2>1, <2>2, <2>5 DEF TracesHold
      <3>2. \A t \in Talks : ~There(t)'
        BY <2>1, <2>4, <2>5 DEF TracesHold
      <3> QED BY <2>3, <3>1, <3>2 DEF TracesHold
    <2> QED BY <1>1, <2>1, <2>2, <2>3, <2>4, <2>5 DEF ErasureInv, ErasureTypes
  <1> QED BY <1>2, <1>3, <1>4, <1>5

(* repository.ts, the erasure of a contact and
   deleteTenantDataOlderThanRetention: nothing that carries the customer's
   data survives an erasure, unless rows were added while it ran or
   conversations were pruned before it. *)
THEOREM ErasureLeavesNothing == ErasureSpec => []ErasedLeavesNothing
  <1>1. ErasureInit => ErasureInv
    BY ErasureStarts
  <1>2. ErasureInv /\ [ErasureNext]_erasureVars => ErasureInv'
    <2> SUFFICES ASSUME ErasureInv, [ErasureNext]_erasureVars PROVE ErasureInv'
      OBVIOUS
    <2>1. CASE ChangeHold \/ CheckRetention \/ UNCHANGED erasureVars
      <3>1. UNCHANGED <<contactRow, talk, traces, eraser, happened>>
        BY <2>1 DEF ChangeHold, CheckRetention, erasureVars
      <3> QED BY <3>1, SearchStep DEF ErasureInv, ErasureTypes
    <2> QED BY <2>1, TalkSteps, AddStep, PruneSteps, EraserSteps DEF ErasureNext
  <1>3. ErasureInv => ErasedLeavesNothing
    BY DEF ErasureInv, TracesHold, ErasedLeavesNothing, Present
  <1> QED BY <1>1, <1>2, <1>3, PTL DEF ErasureSpec

-----------------------------------------------------------------------------
(* Operators' replies on the website (WidgetReplies) *)

ReplyRows == [status : {"none", "writing", "stored"}, chat : Nat, created : Nat]
PollRows == [at : {"idle", "sent", "answered"}, chat : Nat, since : Nat, page : Seq(Replies)]

RepliesTypes ==
    /\ clock \in Nat \ {0}
    /\ reply \in [Replies -> ReplyRows]
    /\ visitor \in [chat : Nat, cursor : Nat, shown : Seq(Replies)]
    /\ poll \in [Polls -> PollRows]
    /\ \A r \in Replies : reply[r].status # "none" => reply[r].chat # 0 /\ reply[r].created # 0

(* Unless a reset met a poll in flight, polls ask for the visitor's own
   conversation, and what they bring and what is shown was written in it. *)
OwnHolds ==
    "reset" \notin mixed =>
        /\ visitor.chat = 0 => visitor.cursor = 0
        /\ \A i \in DOMAIN visitor.shown : visitor.shown[i] \in Stored(visitor.chat)
        /\ \A p \in Polls : poll[p].at # "idle" =>
              /\ visitor.chat # 0 /\ poll[p].chat = visitor.chat
              /\ \A i \in DOMAIN poll[p].page : poll[p].page[i] \in Stored(visitor.chat)

(* What is not later than a time was shown, and something stored is as late. *)
Passed(time) == /\ \A r \in Stored(visitor.chat) : reply[r].created <= time => r \in ToSet(visitor.shown)
                /\ time # 0 => \E r \in Stored(visitor.chat) : time <= reply[r].created

(* A page leaves nothing out between the cursor it was asked for and its end. *)
PageHolds(page, since) ==
    page # <<>> =>
        \A r \in Stored(visitor.chat) :
            since < reply[r].created /\ reply[r].created <= reply[Last(page)].created =>
                r \in ToSet(page)

(* As long as replies are committed in the order of their times, they are all
   different, and cursors have passed what was shown only. *)
CursorHolds ==
    mixed \cap {"late", "reset"} = {} =>
        /\ \A r, o \in Replies : (/\ reply[r].status = "stored" /\ reply[o].status = "stored"
                                  /\ reply[r].chat = reply[o].chat
                                  /\ reply[r].created = reply[o].created) => r = o
        /\ Passed(visitor.cursor)
        /\ \A p \in Polls : poll[p].at # "idle" =>
              Passed(poll[p].since) /\ PageHolds(poll[p].page, poll[p].since)

(* The invariant. *)
RepliesInv == RepliesTypes /\ OwnHolds /\ CursorHolds

(* At first there are no replies and no polls. *)
LEMMA RepliesStart == RepliesInit => RepliesInv
  <1> SUFFICES ASSUME RepliesInit PROVE RepliesInv
    OBVIOUS
  <1>1. RepliesTypes
    BY DEF RepliesInit, RepliesTypes, ReplyRows, PollRows, Blank, IdlePoll
  <1>2. \A c : Stored(c) = {}
    BY DEF RepliesInit, Stored
  <1>3. OwnHolds
    BY DEF RepliesInit, OwnHolds, Blank, IdlePoll
  <1>4. CursorHolds
    <2>1. /\ \A r \in Replies : reply[r].status = "none"
          /\ \A p \in Polls : poll[p].at = "idle"
          /\ visitor.cursor = 0
      BY DEF RepliesInit, Blank, IdlePoll
    <2>2. Passed(visitor.cursor)
      BY <1>2, <2>1 DEF Passed
    <2> QED BY <2>1, <2>2 DEF CursorHolds
  <1> QED BY <1>1, <1>3, <1>4 DEF RepliesInv

(* Cutting a time to milliseconds moves it back. *)
LEMMA IsoIsEarlier == \A time \in Nat : ToIso(time) \in Nat /\ ToIso(time) <= time
  <1> SUFFICES ASSUME NEW time \in Nat PROVE ToIso(time) \in Nat /\ ToIso(time) <= time
    OBVIOUS
  <1>1. Milli \in Nat /\ Milli > 0
    BY RepliesAssumption
  <1>2. time \div Milli \in Nat
    BY <1>1
  <1>3. time = Milli * (time \div Milli) + (time % Milli) /\ time % Milli \in Nat
    BY <1>1
  <1>4. Milli * (time \div Milli) = (time \div Milli) * Milli /\ (time \div Milli) * Milli \in Nat
    BY <1>1, <1>2
  <1> QED BY <1>3, <1>4 DEF ToIso

(* The clock and the panel change nothing of this. *)
LEMMA StillSteps ==
  ASSUME RepliesInv, PassTime \/ OpenPanel \/ ClosePanel \/ UNCHANGED repliesVars
  PROVE  RepliesInv'
  <1>1. UNCHANGED <<reply, visitor, poll, mixed>> /\ clock' \in Nat \ {0}
    BY DEF PassTime, OpenPanel, ClosePanel, repliesVars, RepliesInv, RepliesTypes
  <1>2. RepliesTypes'
    BY <1>1 DEF RepliesInv, RepliesTypes
  <1>3. OwnHolds' /\ CursorHolds'
    BY <1>1 DEF RepliesInv, OwnHolds, CursorHolds, Passed, PageHolds, Stored
  <1> QED BY <1>2, <1>3 DEF RepliesInv

(* A conversation begins with the earliest cursor. *)
LEMMA AdoptStep ==
  ASSUME RepliesInv, NEW c \in 1..Chats, Adopt(c)
  PROVE  RepliesInv'
  <1>0. c \in Nat \ {0}
    BY RepliesAssumption
  <1>1. /\ visitor.chat = 0 /\ visitor' = [visitor EXCEPT !.chat = c]
        /\ UNCHANGED <<clock, reply, poll, mixed>>
    BY DEF Adopt
  <1>2. RepliesTypes'
    BY <1>0, <1>1 DEF RepliesInv, RepliesTypes
  <1>3. visitor'.chat = c /\ visitor'.cursor = visitor.cursor /\ visitor'.shown = visitor.shown
    BY <1>1 DEF RepliesInv, RepliesTypes
  <1>4. Stored(0) = {}
    BY DEF Stored, RepliesInv, RepliesTypes
  <1>5. OwnHolds'
    <2> SUFFICES ASSUME "reset" \notin mixed PROVE OwnHolds'
      BY <1>1 DEF OwnHolds
    <2>1. \A p \in Polls : poll[p].at = "idle"
      BY <1>1 DEF RepliesInv, OwnHolds
    <2>2. DOMAIN visitor.shown = {}
      BY <1>1, <1>4 DEF RepliesInv, OwnHolds
    <2> QED BY <1>0, <1>1, <1>3, <2>1, <2>2 DEF OwnHolds
  <1>6. CursorHolds'
    <2> SUFFICES ASSUME mixed \cap {"late", "reset"} = {} PROVE CursorHolds'
      BY <1>1 DEF CursorHolds
    <2>1. "reset" \notin mixed
      OBVIOUS
    <2>2. visitor.cursor = 0 /\ \A p \in Polls : poll[p].at = "idle"
      BY <1>1, <2>1 DEF RepliesInv, OwnHolds
    <2>3. Passed(visitor.cursor)'
      BY <1>0, <1>1, <1>2, <1>3, <2>2 DEF Passed, Stored, RepliesTypes, ReplyRows
    <2> QED BY <1>1, <2>2, <2>3 DEF RepliesInv, CursorHolds
  <1> QED BY <1>2, <1>5, <1>6 DEF RepliesInv

(* A reply that is being written is not stored yet. *)
LEMMA BeginStep ==
  ASSUME RepliesInv, NEW r \in Replies, NEW c \in 1..Chats, BeginReply(r, c)
  PROVE  RepliesInv'
  <1>1. /\ reply[r].status = "none"
        /\ reply' = [reply EXCEPT ![r] = [status |-> "writing", chat |-> c, created |-> clock]]
        /\ UNCHANGED <<clock, visitor, poll, mixed>>
    BY DEF BeginReply
  <1>2. RepliesTypes'
    <2>1. c \in Nat \ {0} /\ clock \in Nat \ {0}
      BY RepliesAssumption DEF RepliesInv, RepliesTypes
    <2>2. reply' \in [Replies -> ReplyRows]
      BY <1>1, <2>1 DEF RepliesInv, RepliesTypes, ReplyRows
    <2> QED BY <1>1, <2>1, <2>2 DEF RepliesInv, RepliesTypes, ReplyRows
  <1>3. \A x : Stored(x)' = Stored(x)
    BY <1>1 DEF Stored, RepliesInv, RepliesTypes, ReplyRows
  <1>4. \A o \in Replies : o # r => reply'[o] = reply[o]
    BY <1>1 DEF RepliesInv, RepliesTypes
  <1>5. reply'[r].status = "writing"
    BY <1>1 DEF RepliesInv, RepliesTypes
  <1>6. \A x : \A o \in Stored(x) : reply'[o] = reply[o]
    BY <1>1, <1>4 DEF Stored
  <1>7. OwnHolds'
    BY <1>1, <1>3 DEF RepliesInv, OwnHolds
  <1>8. CursorHolds'
    <2> SUFFICES ASSUME mixed \cap {"late", "reset"} = {} PROVE CursorHolds'
      BY <1>1 DEF CursorHolds
    <2>0. "reset" \notin mixed
      OBVIOUS
    <2>1. \A time \in Nat : Passed(time) => Passed(time)'
      BY <1>1, <1>3, <1>6 DEF Passed
    <2>2. \A p \in Polls : poll[p].at # "idle" => PageHolds(poll[p].page, poll[p].since)'
      <3> SUFFICES ASSUME NEW p \in Polls, poll[p].at # "idle", poll[p].page # <<>>
                   PROVE  PageHolds(poll[p].page, poll[p].since)'
        BY <1>1 DEF PageHolds
      <3>1. PageHolds(poll[p].page, poll[p].since)
        BY DEF RepliesInv, CursorHolds
      <3>2. poll[p].page \in Seq(Replies)
        BY DEF RepliesInv, RepliesTypes, PollRows
      <3>3. Last(poll[p].page) \in Stored(visitor.chat)
        <4>1. Len(poll[p].page) \in DOMAIN poll[p].page
          BY <3>2
        <4> QED BY <2>0, <4>1 DEF Last, RepliesInv, OwnHolds
      <3> QED BY <1>1, <1>3, <1>6, <3>1, <3>3 DEF PageHolds
    <2>3. \A o, q \in Replies : (/\ reply'[o].status = "stored" /\ reply'[q].status = "stored"
                                 /\ reply'[o].chat = reply'[q].chat
                                 /\ reply'[o].created = reply'[q].created) => o = q
      BY <1>4, <1>5 DEF RepliesInv, CursorHolds
    <2>4. visitor.cursor \in Nat /\ \A p \in Polls : poll[p].since \in Nat
      BY DEF RepliesInv, RepliesTypes, PollRows
    <2> QED BY <1>1, <2>1, <2>2, <2>3, <2>4 DEF RepliesInv, CursorHolds
  <1> QED BY <1>2, <1>7, <1>8 DEF RepliesInv

(* A reply committed in the order of times is later than everything a cursor
   or a page has reached. *)
LEMMA CommitStep ==
  ASSUME RepliesInv, NEW r \in Replies, CommitReply(r)
  PROVE  RepliesInv'
  <1>1. /\ reply[r].status = "writing"
        /\ reply' = [reply EXCEPT ![r].status = "stored"]
        /\ mixed \subseteq mixed'
        /\ "reset" \in mixed' => "reset" \in mixed
        /\ "late" \notin mixed' => \A o \in Stored(reply[r].chat) : ~(reply[o].created >= reply[r].created)
        /\ UNCHANGED <<clock, visitor, poll>>
    BY DEF CommitReply
  <1>2. RepliesTypes'
    BY <1>1 DEF RepliesInv, RepliesTypes, ReplyRows
  <1>3. \A o \in Replies : /\ o # r => reply'[o] = reply[o]
                           /\ reply'[o].chat = reply[o].chat /\ reply'[o].created = reply[o].created
                           /\ reply[o].created \in Nat /\ reply[o].chat \in Nat
    BY <1>1 DEF RepliesInv, RepliesTypes, ReplyRows
  <1>4. \A x : Stored(x) \subseteq Stored(x)' /\ Stored(x)' \subseteq Stored(x) \cup {r}
    BY <1>1, <1>3 DEF Stored
  <1>5. OwnHolds'
    BY <1>1, <1>4 DEF RepliesInv, OwnHolds
  <1>6. CursorHolds'
    <2> SUFFICES ASSUME mixed' \cap {"late", "reset"} = {} PROVE CursorHolds'
      BY DEF CursorHolds
    <2>0. mixed \cap {"late", "reset"} = {} /\ "reset" \notin mixed /\ "late" \notin mixed'
      BY <1>1
    <2>1. \A o \in Stored(reply[r].chat) : reply[o].created < reply[r].created
      BY <1>1, <1>3, <2>0 DEF Stored
    <2>2. \A time \in Nat : Passed(time) => Passed(time)'
      <3> SUFFICES ASSUME NEW time \in Nat, Passed(time) PROVE Passed(time)'
        OBVIOUS
      <3>1. r \in Stored(visitor.chat)' => time < reply[r].created
        <4> SUFFICES ASSUME reply[r].chat = visitor.chat PROVE time < reply[r].created
          BY <1>1, <1>3 DEF Stored
        <4>1. CASE time = 0
          BY <1>1, <1>3, <4>1 DEF RepliesInv, RepliesTypes
        <4>2. CASE time # 0
          <5>1. PICK o \in Stored(visitor.chat) : time <= reply[o].created
            BY <4>2 DEF Passed
          <5> QED BY <1>3, <2>1, <5>1 DEF Stored
        <4> QED BY <4>1, <4>2
      <3>2. \A o \in Stored(visitor.chat)' : o \in Replies
        BY DEF Stored
      <3>3. \A o \in Stored(visitor.chat)' : reply'[o].created <= time => o \in ToSet(visitor.shown)
        BY <1>3, <1>4, <1>1, <3>1, <3>2 DEF Passed
      <3>4. time # 0 => \E o \in Stored(visitor.chat)' : time <= reply'[o].created
        BY <1>1, <1>3, <1>4, <3>2 DEF Passed
      <3> QED BY <1>1, <3>3, <3>4 DEF Passed
    <2>3. \A p \in Polls : poll[p].at # "idle" => PageHolds(poll[p].page, poll[p].since)'
      <3> SUFFICES ASSUME NEW p \in Polls, poll[p].at # "idle", poll[p].page # <<>>
                   PROVE  PageHolds(poll[p].page, poll[p].since)'
        BY <1>1 DEF PageHolds
      <3>1. PageHolds(poll[p].page, poll[p].since)
        BY <2>0 DEF RepliesInv, CursorHolds
      <3>2. poll[p].page \in Seq(Replies)
        BY DEF RepliesInv, RepliesTypes, PollRows
      <3>3. Last(poll[p].page) \in Stored(visitor.chat)
        <4>1. Len(poll[p].page) \in DOMAIN poll[p].page
          BY <3>2
        <4> QED BY <2>0, <4>1 DEF Last, RepliesInv, OwnHolds
      <3>4. Last(poll[p].page) \in Replies
        BY <3>3 DEF Stored
      <3> SUFFICES ASSUME NEW o \in Stored(visitor.chat)',
                          poll[p].since < reply'[o].created,
                          reply'[o].created <= reply'[Last(poll[p].page)].created
                   PROVE  o \in ToSet(poll[p].page)
        BY <1>1 DEF PageHolds
      <3>5. o \in Replies /\ reply'[o].created = reply[o].created
            /\ reply'[Last(poll[p].page)].created = reply[Last(poll[p].page)].created
        BY <1>3, <3>4 DEF Stored
      <3>6. CASE o = r
        <4>1. reply[r].chat = visitor.chat
          BY <1>1, <1>3, <3>6 DEF Stored
        <4>2. reply[Last(poll[p].page)].created < reply[r].created
          BY <2>1, <3>3, <4>1
        <4> QED BY <1>3, <3>4, <3>5, <3>6, <4>2
      <3>7. CASE o # r
        BY <1>4, <1>1, <3>1, <3>5, <3>7 DEF PageHolds
      <3> QED BY <3>6, <3>7
    <2>4. \A o, q \in Replies : (/\ reply'[o].status = "stored" /\ reply'[q].status = "stored"
                                 /\ reply'[o].chat = reply'[q].chat
                                 /\ reply'[o].created = reply'[q].created) => o = q
      <3> SUFFICES ASSUME NEW o \in Replies, NEW q \in Replies, o # q,
                          reply'[o].status = "stored", reply'[q].status = "stored",
                          reply'[o].chat = reply'[q].chat, reply'[o].created = reply'[q].created
                   PROVE  FALSE
        OBVIOUS
      <3>1. CASE o = r
        <4>1. q \in Stored(reply[r].chat)
          BY <1>3, <3>1 DEF Stored
        <4> QED BY <1>3, <2>1, <3>1, <4>1
      <3>2. CASE q = r
        <4>1. o \in Stored(reply[r].chat)
          BY <1>3, <3>2 DEF Stored
        <4> QED BY <1>3, <2>1, <3>2, <4>1
      <3>3. CASE o # r /\ q # r
        BY <1>3, <2>0, <3>3 DEF RepliesInv, CursorHolds
      <3> QED BY <3>1, <3>2, <3>3
    <2>5. visitor.cursor \in Nat /\ \A p \in Polls : poll[p].since \in Nat
      BY DEF RepliesInv, RepliesTypes, PollRows
    <2> QED BY <1>1, <2>0, <2>2, <2>3, <2>4, <2>5 DEF RepliesInv, CursorHolds
  <1> QED BY <1>2, <1>5, <1>6 DEF RepliesInv

(* A reset while no poll is in flight empties the widget. *)
LEMMA ResetStep ==
  ASSUME RepliesInv, Reset
  PROVE  RepliesInv'
  <1>1. /\ visitor' = [chat |-> 0, cursor |-> 0, shown |-> <<>>]
        /\ UNCHANGED <<clock, reply, poll>> /\ mixed \subseteq mixed'
        /\ "reset" \notin mixed' => \A p \in Polls : poll[p].at = "idle"
    BY DEF Reset, Blank, InFlight
  <1>2. RepliesTypes'
    BY <1>1 DEF RepliesInv, RepliesTypes
  <1>3. OwnHolds'
    BY <1>1 DEF OwnHolds
  <1>4. CursorHolds'
    <2> SUFFICES ASSUME mixed' \cap {"late", "reset"} = {} PROVE CursorHolds'
      BY DEF CursorHolds
    <2>1. mixed \cap {"late", "reset"} = {} /\ \A p \in Polls : poll'[p].at = "idle"
      BY <1>1
    <2>2. Stored(0)' = {}
      BY <1>1 DEF Stored, RepliesInv, RepliesTypes
    <2>3. Passed(visitor.cursor)'
      BY <1>1, <2>2 DEF Passed
    <2> QED BY <1>1, <2>1, <2>3 DEF RepliesInv, CursorHolds
  <1> QED BY <1>2, <1>3, <1>4 DEF RepliesInv

(* A poll is sent with the cursor, and a lost one is forgotten. *)
LEMMA SendSteps ==
  ASSUME RepliesInv, NEW p \in Polls, SendPoll(p) \/ LosePoll(p)
  PROVE  RepliesInv'
  <1>1. /\ UNCHANGED <<clock, reply, visitor>> /\ mixed \subseteq mixed'
        /\ mixed' \subseteq mixed \cup {"overlap"}
        /\ \/ poll' = [poll EXCEPT ![p] = IdlePoll]
           \/ /\ visitor.chat # 0
              /\ poll' = [poll EXCEPT ![p] = [at |-> "sent", chat |-> visitor.chat,
                                              since |-> visitor.cursor, page |-> <<>>]]
    BY DEF SendPoll, LosePoll
  <1>2. \A o \in Polls : o # p => poll'[o] = poll[o]
    BY <1>1 DEF RepliesInv, RepliesTypes
  <1>3. \/ poll'[p] = IdlePoll
        \/ visitor.chat # 0 /\ poll'[p] = [at |-> "sent", chat |-> visitor.chat,
                                           since |-> visitor.cursor, page |-> <<>>]
    BY <1>1 DEF RepliesInv, RepliesTypes
  <1>4. RepliesTypes'
    <2>1. poll'[p] \in PollRows
      <3>1. visitor.chat \in Nat /\ visitor.cursor \in Nat
        BY DEF RepliesInv, RepliesTypes
      <3>2. <<>> \in Seq(Replies)
        OBVIOUS
      <3>3. [at |-> "sent", chat |-> visitor.chat, since |-> visitor.cursor, page |-> <<>>] \in PollRows
        BY <3>1, <3>2 DEF PollRows
      <3>4. IdlePoll \in PollRows
        BY <3>2 DEF IdlePoll, PollRows
      <3> QED BY <1>3, <3>3, <3>4
    <2>2. poll' \in [Polls -> PollRows]
      BY <1>1, <2>1, <1>2 DEF RepliesInv, RepliesTypes
    <2> QED BY <1>1, <2>2 DEF RepliesInv, RepliesTypes
  <1>5. OwnHolds'
    <2> SUFFICES ASSUME "reset" \notin mixed' PROVE OwnHolds'
      BY DEF OwnHolds
    <2>1. "reset" \notin mixed
      BY <1>1
    <2>2. poll'[p].at # "idle" => /\ visitor.chat # 0 /\ poll'[p].chat = visitor.chat
                                 /\ DOMAIN poll'[p].page = {}
      BY <1>3 DEF IdlePoll
    <2> QED BY <1>1, <1>2, <2>1, <2>2 DEF RepliesInv, OwnHolds, Stored
  <1>6. CursorHolds'
    <2> SUFFICES ASSUME mixed' \cap {"late", "reset"} = {} PROVE CursorHolds'
      BY DEF CursorHolds
    <2>1. mixed \cap {"late", "reset"} = {}
      BY <1>1
    <2>2. poll'[p].at # "idle" => poll'[p].since = visitor.cursor /\ poll'[p].page = <<>>
      BY <1>3 DEF IdlePoll
    <2>3. \A o \in Polls : poll'[o].at # "idle" =>
             Passed(poll'[o].since) /\ PageHolds(poll'[o].page, poll'[o].since)
      BY <1>2, <2>1, <2>2 DEF RepliesInv, CursorHolds, PageHolds
    <2>4. \A o \in Polls : poll'[o].at # "idle" =>
             Passed(poll[o].since)' /\ PageHolds(poll[o].page, poll[o].since)'
      BY <1>1, <2>3 DEF Passed, PageHolds, Stored
    <2>5. Passed(visitor.cursor)'
      BY <1>1, <2>1 DEF RepliesInv, CursorHolds, Passed, Stored
    <2> QED BY <1>1, <2>1, <2>4, <2>5 DEF RepliesInv, CursorHolds
  <1> QED BY <1>4, <1>5, <1>6 DEF RepliesInv

(* A page consists of stored replies after the cursor, and leaves out only what
   is not earlier than its end. *)
LEMMA PagesAre ==
  ASSUME RepliesTypes, NEW c, NEW since \in Nat, NEW page \in OldestAfter(c, since)
  PROVE  /\ page \in Seq(Replies)
         /\ \A i \in DOMAIN page : page[i] \in Stored(c)
         /\ page # <<>> => \A r \in After(c, since) \ ToSet(page) :
               reply[Last(page)].created <= reply[r].created
  <1> DEFINE found == After(c, since)
             many  == IF Cardinality(found) < PageSize THEN Cardinality(found) ELSE PageSize
  <1>1. found \subseteq Stored(c) /\ found \subseteq Replies
    BY DEF After, Stored
  <1>2. many \in Nat
    BY <1>1, RepliesAssumption, FS_Subset, FS_CardinalityType
  <1>3. /\ page \in [1..many -> found]
        /\ \A r \in found \ ToSet(page) : \A i \in 1..many : reply[page[i]].created <= reply[r].created
    BY DEF OldestAfter
  <1> HIDE DEF found, many
  <1>4. page \in Seq(Replies) /\ Len(page) = many
    BY <1>1, <1>2, <1>3
  <1>5. page # <<>> => Len(page) \in 1..many
    BY <1>4
  <1>6. \A i \in DOMAIN page : page[i] \in Stored(c)
    BY <1>1, <1>3
  <1> QED BY <1>3, <1>4, <1>5, <1>6 DEF Last, found

(* What a poll returns is in the visitor's conversation and leaves no gap. *)
LEMMA AnswerStep ==
  ASSUME RepliesInv, NEW p \in Polls, AnswerPoll(p)
  PROVE  RepliesInv'
  <1>1. PICK page \in OldestAfter(poll[p].chat, poll[p].since) :
           poll' = [poll EXCEPT ![p].at = "answered", ![p].page = page]
    BY DEF AnswerPoll
  <1>2. poll[p].at = "sent" /\ UNCHANGED <<clock, reply, visitor, mixed>>
    BY DEF AnswerPoll
  <1>3. poll[p] \in PollRows /\ RepliesTypes
    BY DEF RepliesInv, RepliesTypes
  <1>4. /\ page \in Seq(Replies)
        /\ \A i \in DOMAIN page : page[i] \in Stored(poll[p].chat)
        /\ page # <<>> => \A r \in After(poll[p].chat, poll[p].since) \ ToSet(page) :
              reply[Last(page)].created <= reply[r].created
    BY <1>3, PagesAre DEF PollRows
  <1>5. /\ \A o \in Polls : o # p => poll'[o] = poll[o]
        /\ poll'[p] = [at |-> "answered", chat |-> poll[p].chat, since |-> poll[p].since, page |-> page]
    BY <1>1, <1>3 DEF RepliesTypes, PollRows
  <1>6. RepliesTypes'
    <2>1. poll'[p] \in PollRows
      BY <1>3, <1>4, <1>5 DEF PollRows
    <2>2. poll' \in [Polls -> PollRows]
      BY <1>1, <1>3, <1>5, <2>1 DEF RepliesTypes
    <2> QED BY <1>2, <1>3, <2>2 DEF RepliesTypes
  <1>7. OwnHolds'
    <2> SUFFICES ASSUME "reset" \notin mixed PROVE OwnHolds'
      BY <1>2 DEF OwnHolds
    <2>1. visitor.chat # 0 /\ poll[p].chat = visitor.chat
      BY <1>2 DEF RepliesInv, OwnHolds
    <2>2. /\ poll'[p].chat = visitor.chat
          /\ \A i \in DOMAIN poll'[p].page : poll'[p].page[i] \in Stored(visitor.chat)
      BY <1>4, <1>5, <2>1
    <2> QED BY <1>2, <1>5, <2>1, <2>2 DEF RepliesInv, OwnHolds, Stored
  <1>8. CursorHolds'
    <2> SUFFICES ASSUME mixed \cap {"late", "reset"} = {} PROVE CursorHolds'
      BY <1>2 DEF CursorHolds
    <2>0. "reset" \notin mixed
      OBVIOUS
    <2>1. poll[p].chat = visitor.chat
      BY <1>2, <2>0 DEF RepliesInv, OwnHolds
    <2>2. PageHolds(page, poll[p].since)
      <3> SUFFICES ASSUME page # <<>>, NEW r \in Stored(visitor.chat),
                          poll[p].since < reply[r].created,
                          reply[r].created <= reply[Last(page)].created,
                          r \notin ToSet(page)
                   PROVE  FALSE
        BY DEF PageHolds
      <3>1. r \in After(poll[p].chat, poll[p].since) /\ r \in Replies
        BY <1>3, <2>1 DEF After, Stored, RepliesTypes, ReplyRows, PollRows
      <3>2. reply[Last(page)].created <= reply[r].created
        BY <1>4, <3>1
      <3>3. Len(page) \in DOMAIN page
        BY <1>4
      <3>4. Last(page) \in Stored(visitor.chat)
        BY <1>4, <2>1, <3>3 DEF Last
      <3>5. reply[Last(page)].created = reply[r].created
        BY <1>3, <3>1, <3>2, <3>4 DEF Stored, RepliesTypes, ReplyRows
      <3>6. r = Last(page)
        BY <3>4, <3>5 DEF RepliesInv, CursorHolds, Stored
      <3> QED BY <3>3, <3>6 DEF Last, ToSet
    <2>3. \A o \in Polls : poll'[o].at # "idle" =>
             Passed(poll'[o].since) /\ PageHolds(poll'[o].page, poll'[o].since)
      BY <1>2, <1>5, <2>2 DEF RepliesInv, CursorHolds
    <2>4. \A o \in Polls : poll'[o].at # "idle" =>
             Passed(poll[o].since)' /\ PageHolds(poll[o].page, poll[o].since)'
      BY <1>2, <2>3 DEF Passed, PageHolds, Stored
    <2>5. Passed(visitor.cursor)'
      BY <1>2 DEF RepliesInv, CursorHolds, Passed, Stored
    <2> QED BY <1>2, <2>4, <2>5 DEF RepliesInv, CursorHolds
  <1> QED BY <1>6, <1>7, <1>8 DEF RepliesInv

(* What is shown after a page was added. *)
LEMMA ShownBoth ==
  ASSUME NEW S, NEW s \in Seq(S), NEW t \in Seq(S)
  PROVE  ToSet(s \o t) = ToSet(s) \cup ToSet(t)
  <1>1. \A i \in DOMAIN (s \o t) : (s \o t)[i] \in ToSet(s) \cup ToSet(t)
    BY DEF ToSet
  <1>2. \A i \in DOMAIN s : i \in DOMAIN (s \o t) /\ (s \o t)[i] = s[i]
    OBVIOUS
  <1>3. \A i \in DOMAIN t : Len(s) + i \in DOMAIN (s \o t) /\ (s \o t)[Len(s) + i] = t[i]
    OBVIOUS
  <1>4. ToSet(s \o t) \subseteq ToSet(s) \cup ToSet(t)
    BY <1>1 DEF ToSet
  <1>5. ToSet(s) \subseteq ToSet(s \o t)
    BY <1>2 DEF ToSet
  <1>6. ToSet(t) \subseteq ToSet(s \o t)
    BY <1>3 DEF ToSet
  <1> QED BY <1>4, <1>5, <1>6

(* A page is added to what is shown, and the cursor moves to its end. *)
LEMMA ShowStep ==
  ASSUME RepliesInv, NEW p \in Polls, ShowReplies(p)
  PROVE  RepliesInv'
  <1> DEFINE page == poll[p].page
  <1>1. /\ poll[p].at = "answered"
        /\ visitor' = IF page = <<>> THEN visitor
                      ELSE [visitor EXCEPT !.shown = visitor.shown \o page,
                                           !.cursor = ToIso(reply[Last(page)].created)]
        /\ poll' = [poll EXCEPT ![p] = IdlePoll]
        /\ UNCHANGED <<clock, reply, mixed>>
    BY DEF ShowReplies
  <1>2. RepliesTypes /\ page \in Seq(Replies) /\ visitor.shown \in Seq(Replies)
    BY DEF RepliesInv, RepliesTypes, PollRows
  <1> HIDE DEF page
  <1>3. \A o \in Polls : poll'[o] = IF o = p THEN IdlePoll ELSE poll[o]
    BY <1>1, <1>2 DEF RepliesTypes
  <1>4. IdlePoll \in PollRows /\ IdlePoll.at = "idle"
    BY DEF IdlePoll, PollRows
  <1>5. poll' \in [Polls -> PollRows]
    BY <1>1, <1>2, <1>4 DEF RepliesTypes
  <1>6. CASE page = <<>>
    <2>1. visitor' = visitor
      BY <1>1, <1>6
    <2>2. RepliesTypes'
      BY <1>1, <1>2, <1>5, <2>1 DEF RepliesTypes
    <2>3. OwnHolds'
      <3>1. Stored(visitor.chat)' = Stored(visitor.chat)
        BY <1>1, <2>1 DEF Stored
      <3>2. \A o \in Polls : poll'[o].at # "idle" => poll'[o] = poll[o]
        BY <1>3, <1>4
      <3> QED BY <1>1, <2>1, <3>1, <3>2 DEF RepliesInv, OwnHolds
    <2>4. CursorHolds'
      <3>1. mixed \cap {"late", "reset"} = {} =>
               \A o \in Polls : poll'[o].at # "idle" =>
                  Passed(poll'[o].since) /\ PageHolds(poll'[o].page, poll'[o].since)
        BY <1>3, <1>4 DEF RepliesInv, CursorHolds
      <3> QED BY <1>1, <2>1, <3>1 DEF RepliesInv, CursorHolds, Passed, PageHolds, Stored
    <2> QED BY <2>2, <2>3, <2>4 DEF RepliesInv
  <1>7. CASE page # <<>>
    <2>1. Len(page) \in DOMAIN page /\ Last(page) = page[Len(page)]
      BY <1>2, <1>7 DEF Last
    <2>2. Last(page) \in Replies
      BY <1>2, <2>1
    <2> DEFINE end == reply[Last(page)].created
    <2>3. end \in Nat /\ ToIso(end) \in Nat /\ ToIso(end) <= end
      BY <1>2, <2>2, IsoIsEarlier DEF RepliesTypes, ReplyRows
    <2>4. /\ visitor'.chat = visitor.chat /\ visitor'.cursor = ToIso(end)
          /\ visitor'.shown = visitor.shown \o page
          /\ visitor' \in [chat : Nat, cursor : Nat, shown : Seq(Replies)]
      <3>1. visitor.shown \o page \in Seq(Replies)
        BY <1>2
      <3> QED BY <1>1, <1>2, <1>7, <2>3, <3>1 DEF RepliesTypes
    <2> HIDE DEF end
    <2>5. RepliesTypes'
      BY <1>1, <1>2, <1>5, <2>4 DEF RepliesTypes
    <2>6. ToSet(visitor'.shown) = ToSet(visitor.shown) \cup ToSet(page)
      BY <1>2, <2>4, ShownBoth
    <2>7. OwnHolds'
      <3> SUFFICES ASSUME "reset" \notin mixed PROVE OwnHolds'
        BY <1>1 DEF OwnHolds
      <3>1. /\ visitor.chat # 0 /\ \A i \in DOMAIN page : page[i] \in Stored(visitor.chat)
            /\ \A i \in DOMAIN visitor.shown : visitor.shown[i] \in Stored(visitor.chat)
        BY <1>1 DEF RepliesInv, OwnHolds, page
      <3>2. \A i \in DOMAIN visitor'.shown : visitor'.shown[i] \in Stored(visitor.chat)
        <4>1. ToSet(visitor'.shown) \subseteq Stored(visitor.chat)
          BY <2>6, <3>1 DEF ToSet
        <4> QED BY <4>1 DEF ToSet
      <3> QED BY <1>1, <1>3, <1>4, <2>4, <3>1, <3>2 DEF RepliesInv, OwnHolds, Stored
    <2>8. CursorHolds'
      <3> SUFFICES ASSUME mixed \cap {"late", "reset"} = {} PROVE CursorHolds'
        BY <1>1 DEF CursorHolds
      <3>0. "reset" \notin mixed
        OBVIOUS
      <3>1. Passed(poll[p].since) /\ PageHolds(page, poll[p].since)
        BY <1>1 DEF RepliesInv, CursorHolds, page
      <3>2. \A i \in DOMAIN page : page[i] \in Stored(visitor.chat)
        BY <1>1, <3>0 DEF RepliesInv, OwnHolds, page
      <3>3. Last(page) \in Stored(visitor.chat)
        BY <2>1, <3>2
      <3>4. Stored(visitor.chat)' = Stored(visitor.chat)
        BY <1>1, <2>4 DEF Stored
      <3>5. Passed(visitor.cursor)'
        <4>1. \A r \in Stored(visitor.chat) : reply[r].created <= ToIso(end) =>
                 r \in ToSet(visitor.shown) \cup ToSet(page)
          <5> SUFFICES ASSUME NEW r \in Stored(visitor.chat), reply[r].created <= ToIso(end),
                              r \notin ToSet(visitor.shown)
                       PROVE  r \in ToSet(page)
            OBVIOUS
          <5>1. r \in Replies /\ reply[r].created \in Nat /\ poll[p].since \in Nat
            BY <1>2 DEF Stored, RepliesTypes, ReplyRows, PollRows
          <5>2. poll[p].since < reply[r].created
            BY <3>1, <5>1 DEF Passed
          <5>3. reply[r].created <= reply[Last(page)].created
            BY <2>3, <5>1 DEF end
          <5> QED BY <1>7, <3>1, <5>2, <5>3 DEF PageHolds
        <4>2. ToIso(end) <= reply[Last(page)].created
          BY <2>3 DEF end
        <4> QED BY <1>1, <2>4, <2>6, <3>3, <3>4, <4>1, <4>2 DEF Passed
      <3>6. \A o \in Polls : poll'[o].at # "idle" =>
               Passed(poll'[o].since) /\ PageHolds(poll'[o].page, poll'[o].since)
        BY <1>3, <1>4 DEF RepliesInv, CursorHolds
      <3>7. \A o \in Polls : poll'[o].at # "idle" =>
               Passed(poll[o].since)' /\ PageHolds(poll[o].page, poll[o].since)'
        BY <1>1, <2>6, <3>4, <3>6 DEF Passed, PageHolds
      <3> QED BY <1>1, <3>5, <3>7 DEF RepliesInv, CursorHolds
    <2> QED BY <2>5, <2>7, <2>8 DEF RepliesInv
  <1> QED BY <1>6, <1>7

(* widget.ts, pollOperatorRepliesOnce; repository.ts,
   listOperatorRepliesForWidget: a reply that the cursor has passed was shown,
   unless replies were committed out of the order of their times or a reset
   met a poll in flight; and but for such a reset a visitor is shown replies
   of the own conversation only. *)
THEOREM RepliesDoArrive == RepliesSpec => []RepliesArrive
  <1>1. RepliesInit => RepliesInv
    BY RepliesStart
  <1>2. RepliesInv /\ [RepliesNext]_repliesVars => RepliesInv'
    <2> SUFFICES ASSUME RepliesInv, [RepliesNext]_repliesVars PROVE RepliesInv'
      OBVIOUS
    <2>1. CASE PassTime \/ OpenPanel \/ ClosePanel \/ UNCHANGED repliesVars
      BY <2>1, StillSteps
    <2>2. CASE Reset
      BY <2>2, ResetStep
    <2>3. CASE \E c \in 1..Chats : Adopt(c)
      BY <2>3, AdoptStep
    <2>4. CASE \E c \in 1..Chats, r \in Replies : BeginReply(r, c)
      BY <2>4, BeginStep
    <2>5. CASE \E r \in Replies : CommitReply(r)
      BY <2>5, CommitStep
    <2>6. CASE \E p \in Polls : SendPoll(p) \/ LosePoll(p)
      BY <2>6, SendSteps
    <2>7. CASE \E p \in Polls : AnswerPoll(p)
      BY <2>7, AnswerStep
    <2>8. CASE \E p \in Polls : ShowReplies(p)
      BY <2>8, ShowStep
    <2> QED BY <2>1, <2>2, <2>3, <2>4, <2>5, <2>6, <2>7, <2>8 DEF RepliesNext
  <1>3. RepliesInv => RepliesArrive
    <2> SUFFICES ASSUME RepliesInv PROVE RepliesArrive
      OBVIOUS
    <2>1. NoReplySkipped
      BY DEF RepliesInv, CursorHolds, Passed, NoReplySkipped
    <2>2. OwnRepliesOnly
      BY DEF RepliesInv, OwnHolds, OwnRepliesOnly, Stored
    <2> QED BY <2>1, <2>2 DEF RepliesArrive
  <1> QED BY <1>1, <1>2, <1>3, PTL DEF RepliesSpec

-----------------------------------------------------------------------------
(* The visit of a website (WidgetChat) *)

Tabs == [chat : Nat, captured : BOOLEAN]
Sendings == [at : {"unsent", "awaiting", "done", "failed", "left"}, kind : {"chat", "form"},
             chat : Nat, keyed : BOOLEAN, try : 1..Attempts]
InConversation == {"found", "answering", "human", "ai", "captured", "thanked"}
Servings == [at : {"none", "sent", "lost"} \cup InConversation, chat : Nat, pausedAt : BOOLEAN]
Handoffs == [send : Send, try : 1..Attempts, chat : Nat]

ChatTypes ==
    /\ tab \in Tabs /\ storage = tab
    /\ sending \in [Send -> Sendings]
    /\ served \in [Attempt -> Servings]
    /\ conversations \in Nat
    /\ handoff \subseteq Handoffs

(* Attempts exist up to the request's current one; an attempt is in a
   conversation once it was found one, and an answered request's was served. *)
ServedHolds ==
    /\ \A a \in Attempt :
          /\ served[a].at # "none" => a[2] <= sending[a[1]].try /\ sending[a[1]].at # "unsent"
          /\ served[a].at \in {"none", "sent"} => served[a].chat = 0
          /\ served[a].at \in InConversation => served[a].chat # 0
    /\ \A s \in Send : sending[s].at = "done" => Done(<<s, sending[s].try>>)

LeadsHold ==
    /\ \A h \in handoff : /\ sending[h.send].at # "unsent"
                          /\ sending[h.send].chat # 0 => h.chat = sending[h.send].chat
    /\ \A g, h \in handoff : sending[h.send].keyed /\ g.send = h.send /\ g.chat = h.chat => g = h

Started(s) == sending[s].at # "unsent"

(* In a visit without retries of the first request, overlaps or losses, the
   first request is alone until its answer gives the tab its conversation;
   every later one is sent with it. *)
VisitHolds ==
    stray = {} =>
        /\ \A s \in Send : /\ sending[s].chat \in {0, tab.chat}
                           /\ Started(s) /\ sending[s].chat = 0 =>
                                 sending[s].at \in {"awaiting", "done"} /\ sending[s].try = 1
                           /\ tab.chat # 0 /\ Awaiting(s) => sending[s].chat # 0
                           /\ tab.chat = 0 /\ Started(s) => Awaiting(s)
        /\ tab.chat = 0 => \A s, o \in Send : Started(s) /\ Started(o) => s = o
        /\ tab.chat # 0 => \A a \in Kept : served[a].chat = tab.chat

(* The invariant. *)
ChatInv == ChatTypes /\ ServedHolds /\ LeadsHold /\ VisitHolds

(* An attempt is a request and the number of the try. *)
LEMMA AttemptsAre ==
  /\ \A a \in Attempt : a[1] \in Send /\ a[2] \in 1..Attempts /\ a = <<a[1], a[2]>>
  /\ \A s \in Send, k \in 1..Attempts : <<s, k>> \in Attempt /\ <<s, k>>[1] = s /\ <<s, k>>[2] = k
  BY DEF Attempt

(* At first nothing was sent. *)
LEMMA ChatStarts == ChatInit => ChatInv
  <1> SUFFICES ASSUME ChatInit PROVE ChatInv
    OBVIOUS
  <1>1. 1 \in 1..Attempts
    BY ChatAssumption
  <1>2. ChatTypes
    BY <1>1 DEF ChatInit, ChatTypes, Tabs, Fresh, Sendings, Servings
  <1>3. /\ \A a \in Attempt : served[a].at = "none" /\ served[a].chat = 0
        /\ \A s \in Send : sending[s].at = "unsent" /\ sending[s].chat = 0
        /\ handoff = {} /\ tab.chat = 0
    BY DEF ChatInit, Fresh
  <1>4. ServedHolds
    BY <1>3 DEF ServedHolds, InConversation
  <1> QED BY <1>2, <1>3, <1>4 DEF ChatInv, LeadsHold, VisitHolds, Started, Awaiting

(* A step of the server with one attempt. *)
LEMMA ServerStep ==
  ASSUME ChatInv, NEW a \in Attempt, NEW row \in Servings, served' = [served EXCEPT ![a] = row],
         row.at \in InConversation, row.chat # 0, served[a].at # "none", ~Done(a),
         \/ row.chat = served[a].chat
         \/ served[a].at = "sent" /\ (sending[a[1]].chat # 0 => row.chat = sending[a[1]].chat),
         UNCHANGED <<tab, storage, sending, stray>>, conversations' \in Nat,
         handoff' \subseteq Handoffs, LeadsHold'
  PROVE  ChatInv'
  <1>1. ChatTypes /\ ServedHolds /\ VisitHolds
    BY DEF ChatInv
  <1>2. served'[a] = row /\ \A b \in Attempt : b # a => served'[b] = served[b]
    BY <1>1 DEF ChatTypes
  <1>3. ChatTypes'
    BY <1>1 DEF ChatTypes
  <1>4. ServedHolds'
    <2>1. \A b \in Attempt :
            /\ served'[b].at # "none" => b[2] <= sending[b[1]].try /\ sending[b[1]].at # "unsent"
            /\ served'[b].at \in {"none", "sent"} => served'[b].chat = 0
            /\ served'[b].at \in InConversation => served'[b].chat # 0
      BY <1>1, <1>2 DEF ServedHolds, InConversation
    <2>2. \A s \in Send : sending[s].at = "done" => <<s, sending[s].try>> \in Attempt
      BY <1>1 DEF ChatTypes, Sendings, Attempt
    <2>3. \A s \in Send : sending[s].at = "done" => Done(<<s, sending[s].try>>)'
      BY <1>1, <1>2, <2>2 DEF ServedHolds, Done
    <2> QED BY <2>1, <2>3 DEF ServedHolds, Done
  <1>5. VisitHolds'
    <2> SUFFICES ASSUME stray = {} PROVE VisitHolds'
      BY DEF VisitHolds
    <2>1. a[1] \in Send /\ a[2] \in Nat /\ a[2] >= 1 /\ a = <<a[1], a[2]>>
      BY AttemptsAre, ChatAssumption
    <2>2. row.chat = served[a].chat => (tab.chat # 0 => row.chat = tab.chat)
      BY <1>1 DEF VisitHolds, Kept
    <2>3. sending[a[1]].chat # 0 /\ row.chat = sending[a[1]].chat => (tab.chat # 0 => row.chat = tab.chat)
      BY <1>1, <2>1 DEF VisitHolds
    <2>4. served[a].at = "sent" /\ sending[a[1]].chat = 0 => tab.chat = 0
      <3> SUFFICES ASSUME served[a].at = "sent", sending[a[1]].chat = 0 PROVE tab.chat = 0
        OBVIOUS
      <3>1. Started(a[1]) /\ a[2] <= sending[a[1]].try
        BY <1>1 DEF ServedHolds, Started
      <3>2. sending[a[1]].at \in {"awaiting", "done"} /\ sending[a[1]].try = 1
        BY <1>1, <2>1, <3>1 DEF VisitHolds
      <3>3. a = <<a[1], sending[a[1]].try>>
        BY <2>1, <3>1, <3>2
      <3>4. sending[a[1]].at # "done"
        BY <1>1, <2>1, <3>3 DEF ServedHolds
      <3> QED BY <1>1, <2>1, <3>2, <3>4 DEF VisitHolds, Awaiting
    <2>5. tab.chat # 0 => row.chat = tab.chat
      BY <2>2, <2>3, <2>4
    <2>6. tab.chat # 0 => \A b \in Kept' : served'[b].chat = tab.chat
      BY <1>1, <1>2, <2>5 DEF VisitHolds, Kept
    <2> QED BY <1>1, <2>6 DEF VisitHolds, Started, Awaiting
  <1> QED BY <1>3, <1>4, <1>5 DEF ChatInv

(* Leads stay as they are when requests and handoffs do. *)
LEMMA LeadsKept ==
  ASSUME LeadsHold, UNCHANGED <<handoff, sending>> PROVE LeadsHold'
  BY DEF LeadsHold

(* The server finds the conversation of an attempt, or opens one. *)
LEMMA FindConversationStep ==
  ASSUME ChatInv, NEW a \in Attempt, FindConversation(a)
  PROVE  ChatInv'
  <1> DEFINE named == sending[a[1]].chat # 0
             chat == IF named THEN sending[a[1]].chat ELSE conversations + 1
             stops == named /\ sending[a[1]].chat \in paused
             row == [at |-> "found", chat |-> chat, pausedAt |-> stops]
  <1>1. served[a].at = "sent" /\ UNCHANGED <<tab, storage, sending, stray, handoff>>
    BY DEF FindConversation
  <1>2. ChatTypes /\ LeadsHold /\ sending[a[1]].chat \in Nat
    BY AttemptsAre DEF ChatInv, ChatTypes, Sendings
  <1>3. CASE named
    <2>1. served' = [served EXCEPT ![a] = row] /\ conversations' = conversations
      BY <1>3 DEF FindConversation, FindOrCreate
    <2>2. chat \in Nat /\ chat # 0 /\ chat = sending[a[1]].chat /\ stops \in BOOLEAN
      BY <1>2, <1>3
    <2> HIDE DEF chat, stops
    <2>3. row \in Servings /\ row.at = "found" /\ row.chat = chat
      BY <2>2 DEF Servings, InConversation
    <2> HIDE DEF row
    <2> QED BY <1>1, <1>2, <2>1, <2>2, <2>3, LeadsKept, ServerStep DEF InConversation, Done, ChatTypes
  <1>4. CASE ~named
    <2>1. served' = [served EXCEPT ![a] = row] /\ conversations' = conversations + 1
      <3>1. served' = [served EXCEPT ![a] = [at |-> "found", chat |-> conversations + 1, pausedAt |-> FALSE]]
            /\ conversations' = conversations + 1
        BY <1>4 DEF FindConversation, FindOrCreate, Create
      <3>2. chat = conversations + 1 /\ stops = FALSE
        BY <1>4
      <3> HIDE DEF chat, stops
      <3> QED BY <3>1, <3>2
    <2>2. chat \in Nat /\ chat # 0 /\ stops \in BOOLEAN
      BY <1>2, <1>4 DEF ChatTypes
    <2> HIDE DEF chat, stops
    <2>3. row \in Servings /\ row.at = "found" /\ row.chat = chat
      BY <2>2 DEF Servings, InConversation
    <2> HIDE DEF row
    <2>4. sending[a[1]].chat = 0 /\ conversations' \in Nat
      BY <1>2, <1>4, <2>1 DEF ChatTypes
    <2> QED BY <1>1, <1>2, <2>1, <2>2, <2>3, <2>4, LeadsKept, ServerStep DEF InConversation, Done, ChatTypes
  <1> QED BY <1>3, <1>4

(* An attempt that goes on in the conversation it has. *)
LEMMA GoesOnStep ==
  ASSUME ChatInv, NEW a \in Attempt, RecordTurn(a) \/ AnswerTurn(a) \/ FinishLead(a)
  PROVE  ChatInv'
  <1>1. /\ served[a].at \in {"found", "answering", "captured"}
        /\ UNCHANGED <<tab, storage, sending, conversations, stray, handoff>>
    BY DEF RecordTurn, AnswerTurn, FinishLead
  <1>2. PICK at \in InConversation : served' = [served EXCEPT ![a].at = at]
    BY DEF RecordTurn, AnswerTurn, FinishLead, InConversation
  <1>3. ChatTypes /\ ServedHolds /\ LeadsHold /\ served[a] \in Servings
    BY DEF ChatInv, ChatTypes
  <1> DEFINE row == [served[a] EXCEPT !.at = at]
  <1>4. row \in Servings
    BY <1>3 DEF Servings
  <1>5. row.at = at /\ row.chat = served[a].chat
    BY <1>3 DEF Servings
  <1>6. served' = [served EXCEPT ![a] = row]
    BY <1>2, <1>3 DEF ChatTypes
  <1>7. row.chat # 0
    BY <1>1, <1>3, <1>5 DEF ServedHolds, InConversation
  <1> HIDE DEF row
  <1> QED BY <1>1, <1>3, <1>4, <1>5, <1>6, <1>7, LeadsKept, ServerStep DEF Done, ChatTypes

(* A lead is captured once for each key. *)
LEMMA CaptureStep ==
  ASSUME ChatInv, NEW a \in Attempt, CaptureLead(a)
  PROVE  ChatInv'
  <1> DEFINE no == FALSE
             c == IF sending[a[1]].chat = 0 THEN conversations + 1 ELSE sending[a[1]].chat
             row == [at |-> "captured", chat |-> c, pausedAt |-> no]
             new == [send |-> a[1], try |-> a[2], chat |-> c]
  <1>1. served[a].at = "sent" /\ UNCHANGED <<tab, storage, sending, stray>>
        /\ conversations' = (IF sending[a[1]].chat = 0 THEN c ELSE conversations)
        /\ handoff' = (IF NewHandoff(a[1], c) THEN handoff \cup {new} ELSE handoff)
        /\ served' = [served EXCEPT ![a] = row]
    BY DEF CaptureLead
  <1>2. ChatTypes /\ LeadsHold /\ ServedHolds /\ sending[a[1]].chat \in Nat
        /\ a[1] \in Send /\ a[2] \in 1..Attempts
    BY AttemptsAre DEF ChatInv, ChatTypes, Sendings
  <1>3. c \in Nat /\ c # 0 /\ (sending[a[1]].chat # 0 => c = sending[a[1]].chat)
    BY <1>2 DEF ChatTypes
  <1>4. conversations' \in Nat
    BY <1>1, <1>2, <1>3 DEF ChatTypes
  <1> HIDE DEF c
  <1>5. no \in BOOLEAN
    OBVIOUS
  <1> HIDE DEF no
  <1>6. row \in Servings /\ row.at = "captured" /\ row.chat = c
    BY <1>3, <1>5 DEF Servings, InConversation
  <1>7. new \in Handoffs /\ new.send = a[1] /\ new.chat = c
    BY <1>2, <1>3 DEF Handoffs
  <1> HIDE DEF row, new
  <1>8. handoff' \subseteq Handoffs
    BY <1>1, <1>2, <1>7 DEF ChatTypes
  <1>9. LeadsHold'
    <2>1. CASE ~NewHandoff(a[1], c)
      BY <1>1, <1>2, <2>1, LeadsKept
    <2>2. CASE NewHandoff(a[1], c)
      <3>1. handoff' = handoff \cup {new}
        BY <1>1, <2>2
      <3>2. sending[a[1]].at # "unsent"
        BY <1>1, <1>2 DEF ServedHolds
      <3>3. sending[a[1]].keyed => \A h \in handoff : ~(h.send = a[1] /\ h.chat = c)
        BY <2>2 DEF NewHandoff
      <3> QED BY <1>1, <1>2, <1>3, <1>7, <3>1, <3>2, <3>3 DEF LeadsHold
    <2> QED BY <2>1, <2>2
  <1> QED BY <1>1, <1>3, <1>4, <1>6, <1>8, <1>9, ServerStep DEF InConversation, Done

(* The visitor sends a message or the form. *)
LEMMA StartStep ==
  ASSUME ChatInv, NEW s \in Send, NEW kind \in {"chat", "form"}, NEW keyed \in BOOLEAN,
         Start(s, kind, keyed)
  PROVE  ChatInv'
  <1> DEFINE row == [at |-> "awaiting", kind |-> kind, chat |-> tab.chat, keyed |-> keyed, try |-> 1]
             a == <<s, 1>>
  <1>1. /\ sending[s].at = "unsent" /\ UNCHANGED <<tab, storage, conversations, handoff>>
        /\ sending' = [sending EXCEPT ![s] = row]
        /\ served' = [served EXCEPT ![a].at = "sent"]
        /\ (stray' = {} => stray = {} /\ ~(tab.chat = 0 /\ Pending # {}))
    BY DEF Start
  <1>2. ChatTypes /\ ServedHolds /\ LeadsHold /\ VisitHolds /\ tab.chat \in Nat /\ 1 \in 1..Attempts
    BY ChatAssumption DEF ChatInv, ChatTypes, Tabs
  <1>3. a \in Attempt /\ a[1] = s /\ a[2] = 1
    BY <1>2, AttemptsAre
  <1> HIDE DEF a
  <1>4. row \in Sendings /\ row.at = "awaiting" /\ row.chat = tab.chat /\ row.try = 1
    BY <1>2 DEF Sendings
  <1> HIDE DEF row
  <1>5. sending'[s] = row /\ \A o \in Send : o # s => sending'[o] = sending[o]
    BY <1>1, <1>2 DEF ChatTypes
  <1>6. served[a].at = "none" /\ served[a].chat = 0 /\ served[a] \in Servings
    BY <1>1, <1>2, <1>3 DEF ServedHolds, ChatTypes
  <1> DEFINE sent == [served[a] EXCEPT !.at = "sent"]
  <1>7. sent \in Servings /\ sent.at = "sent" /\ sent.chat = 0
    BY <1>6 DEF Servings
  <1>8. served' = [served EXCEPT ![a] = sent]
    BY <1>1, <1>2 DEF ChatTypes
  <1> HIDE DEF sent
  <1>9. served'[a] = sent /\ \A b \in Attempt : b # a => served'[b] = served[b]
    BY <1>2, <1>3, <1>8 DEF ChatTypes
  <1>10. ChatTypes'
    BY <1>1, <1>2, <1>4, <1>7, <1>8 DEF ChatTypes
  <1>11. ServedHolds'
    <2>1. \A b \in Attempt : b[1] = s => served[b].at = "none"
      BY <1>1, <1>2 DEF ServedHolds
    <2>2. \A b \in Attempt :
            /\ served'[b].at # "none" => b[2] <= sending'[b[1]].try /\ sending'[b[1]].at # "unsent"
            /\ served'[b].at \in {"none", "sent"} => served'[b].chat = 0
            /\ served'[b].at \in InConversation => served'[b].chat # 0
      <3> SUFFICES ASSUME NEW b \in Attempt
                   PROVE  /\ served'[b].at # "none" => b[2] <= sending'[b[1]].try /\ sending'[b[1]].at # "unsent"
                          /\ served'[b].at \in {"none", "sent"} => served'[b].chat = 0
                          /\ served'[b].at \in InConversation => served'[b].chat # 0
        OBVIOUS
      <3>1. CASE b = a
        BY <1>3, <1>4, <1>5, <1>7, <1>9, <3>1 DEF InConversation
      <3>2. CASE b # a /\ b[1] = s
        BY <1>2, <1>9, <2>1, <3>2 DEF ServedHolds, InConversation
      <3>3. CASE b # a /\ b[1] # s
        BY <1>2, <1>5, <1>9, <3>3, AttemptsAre DEF ServedHolds
      <3> QED BY <3>1, <3>2, <3>3
    <2>3. \A o \in Send : sending'[o].at = "done" => Done(<<o, sending[o].try>>)'
      <3> SUFFICES ASSUME NEW o \in Send, sending'[o].at = "done"
                   PROVE  Done(<<o, sending[o].try>>)'
        OBVIOUS
      <3>1. o # s /\ sending'[o] = sending[o] /\ Done(<<o, sending[o].try>>)
        BY <1>2, <1>4, <1>5 DEF ServedHolds
      <3>2. <<o, sending[o].try>> \in Attempt /\ <<o, sending[o].try>> # a
        BY <1>2, <1>3, <3>1, AttemptsAre DEF ChatTypes, Sendings
      <3> QED BY <1>9, <3>1, <3>2 DEF Done
    <2> QED BY <2>2, <2>3 DEF ServedHolds, Done
  <1>12. LeadsHold'
    <2>1. \A h \in handoff : h.send # s /\ h.send \in Send
      BY <1>1, <1>2 DEF LeadsHold, ChatTypes, Handoffs
    <2> QED BY <1>1, <1>2, <1>5, <2>1 DEF LeadsHold
  <1>13. VisitHolds'
    <2> SUFFICES ASSUME stray' = {} PROVE VisitHolds'
      BY DEF VisitHolds
    <2>1. stray = {} /\ (tab.chat = 0 => \A o \in Send : ~Awaiting(o))
      BY <1>1 DEF Pending
    <2>2. tab.chat = 0 => \A o \in Send : ~Started(o)
      BY <1>2, <2>1 DEF VisitHolds
    <2>3. \A o \in Send : o # s => (Started(o)' <=> Started(o)) /\ (Awaiting(o)' <=> Awaiting(o))
      BY <1>5 DEF Started, Awaiting
    <2>4. Awaiting(s)' /\ Started(s)' /\ sending'[s].chat = tab.chat /\ sending'[s].try = 1
          /\ sending'[s].at = "awaiting"
      BY <1>4, <1>5 DEF Awaiting, Started
    <2>5. \A o \in Send : /\ sending'[o].chat \in {0, tab.chat}
                          /\ Started(o)' /\ sending'[o].chat = 0 =>
                                sending'[o].at \in {"awaiting", "done"} /\ sending'[o].try = 1
                          /\ tab.chat # 0 /\ Awaiting(o)' => sending'[o].chat # 0
                          /\ tab.chat = 0 /\ Started(o)' => Awaiting(o)'
      BY <1>2, <1>5, <2>1, <2>2, <2>3, <2>4 DEF VisitHolds
    <2>6. tab.chat = 0 => \A r, o \in Send : Started(r)' /\ Started(o)' => r = o
      BY <2>2, <2>3
    <2>7. Kept' = Kept /\ \A b \in Kept : served'[b].chat = served[b].chat
      BY <1>6, <1>7, <1>9 DEF Kept
    <2> QED BY <1>1, <1>2, <2>1, <2>5, <2>6, <2>7 DEF VisitHolds
  <1> QED BY <1>10, <1>11, <1>12, <1>13 DEF ChatInv

(* The tab takes the conversation of the answer. *)
LEMMA ReceiveReplyStep ==
  ASSUME ChatInv, NEW s \in Send, Receive(s)
  PROVE  ChatInv'
  <1> DEFINE a == <<s, sending[s].try>>
             row == [sending[s] EXCEPT !.at = "done"]
             captured == tab.captured \/ served[a].at = "thanked"
             new == [tab EXCEPT !.chat = served[a].chat, !.captured = captured]
  <1>1. /\ Awaiting(s) /\ Done(a) /\ UNCHANGED <<served, conversations, handoff, stray>>
        /\ tab' = new /\ storage' = tab' /\ sending' = [sending EXCEPT ![s].at = "done"]
    BY DEF Receive, Adopted
  <1>2. ChatTypes /\ ServedHolds /\ LeadsHold /\ VisitHolds /\ sending[s] \in Sendings /\ tab \in Tabs
    BY DEF ChatInv, ChatTypes
  <1>3. a \in Attempt /\ a[1] = s /\ a[2] = sending[s].try
    BY <1>2, AttemptsAre DEF Sendings
  <1>4. served[a].chat # 0 /\ served[a].chat \in Nat
    BY <1>1, <1>2, <1>3 DEF ServedHolds, ChatTypes, Servings, Done, InConversation
  <1>5. captured \in BOOLEAN
    BY <1>2 DEF Tabs
  <1> HIDE DEF captured, a
  <1>6. new \in Tabs /\ new.chat = served[a].chat
    BY <1>2, <1>4, <1>5 DEF Tabs
  <1> HIDE DEF new
  <1>7. row \in Sendings /\ row.at = "done" /\ row.chat = sending[s].chat /\ row.try = sending[s].try
    BY <1>2 DEF Sendings
  <1>8. row.keyed = sending[s].keyed
    BY <1>2 DEF Sendings
  <1>9. sending' = [sending EXCEPT ![s] = row]
    BY <1>1, <1>2 DEF ChatTypes
  <1> HIDE DEF row
  <1>10. sending'[s] = row /\ \A o \in Send : o # s => sending'[o] = sending[o]
    BY <1>2, <1>9 DEF ChatTypes
  <1>11. ChatTypes'
    BY <1>1, <1>2, <1>6, <1>7, <1>9 DEF ChatTypes
  <1>12. \A o \in Send : /\ sending'[o].chat = sending[o].chat /\ sending'[o].try = sending[o].try
                         /\ (Started(o)' <=> Started(o)) /\ (Awaiting(o)' => Awaiting(o) /\ o # s)
                         /\ (sending'[o].at = "done" => o = s \/ sending[o].at = "done")
    BY <1>1, <1>7, <1>10 DEF Started, Awaiting
  <1>13. ServedHolds'
    <2>1. \A b \in Attempt : b[1] \in Send
      BY AttemptsAre
    <2>2. \A o \in Send : sending'[o].at = "done" => Done(<<o, sending'[o].try>>)
      BY <1>1, <1>2, <1>12 DEF ServedHolds, a
    <2>3. \A b \in Attempt : served[b].at # "none" => b[2] <= sending'[b[1]].try /\ sending'[b[1]].at # "unsent"
      BY <1>2, <1>12, <2>1 DEF ServedHolds, Started
    <2> QED BY <1>1, <1>2, <2>2, <2>3 DEF ServedHolds, Done
  <1>14. LeadsHold'
    <2>1. \A h \in handoff : h.send \in Send
      BY <1>2 DEF ChatTypes, Handoffs
    <2>2. \A o \in Send : (sending'[o].keyed => sending[o].keyed)
      BY <1>8, <1>10
    <2> QED BY <1>1, <1>2, <1>12, <2>1, <2>2 DEF LeadsHold, Started
  <1>15. VisitHolds'
    <2> SUFFICES ASSUME stray = {} PROVE VisitHolds'
      BY <1>1 DEF VisitHolds
    <2>1. Started(s)
      BY <1>1 DEF Started, Awaiting
    <2>2. CASE tab.chat # 0
      <3>1. served[a].chat = tab.chat
        BY <1>2, <1>3, <1>4, <2>2 DEF VisitHolds, Kept
      <3>2. tab'.chat = tab.chat
        BY <1>1, <1>6, <3>1
      <3>3. \A o \in Send : /\ sending'[o].chat \in {0, tab'.chat}
                            /\ Started(o)' /\ sending'[o].chat = 0 =>
                                  sending'[o].at \in {"awaiting", "done"} /\ sending'[o].try = 1
                            /\ tab'.chat # 0 /\ Awaiting(o)' => sending'[o].chat # 0
        BY <1>2, <1>7, <1>10, <1>12, <2>2, <3>2 DEF VisitHolds
      <3> QED BY <1>1, <1>2, <2>2, <3>2, <3>3 DEF VisitHolds, Kept
    <2>3. CASE tab.chat = 0
      <3>1. \A o \in Send : Started(o) => o = s
        BY <1>2, <2>1, <2>3 DEF VisitHolds
      <3>2. \A o \in Send : sending[o].chat = 0
        BY <1>2, <2>3 DEF VisitHolds
      <3>3. \A o \in Send : ~Awaiting(o)'
        BY <1>12, <3>1 DEF Started, Awaiting
      <3>4. sending[s].try = 1
        BY <1>2, <2>1, <3>2 DEF VisitHolds
      <3>5. \A b \in Kept : b = a
        <4> SUFFICES ASSUME NEW b \in Kept PROVE b = a
          OBVIOUS
        <4>1. b \in Attempt /\ served[b].at # "none"
          BY <1>2 DEF Kept, ServedHolds
        <4>2. b[1] \in Send /\ b[2] \in 1..Attempts /\ b = <<b[1], b[2]>>
          BY <4>1, AttemptsAre
        <4>3. b[1] = s /\ b[2] <= 1
          BY <1>2, <3>1, <3>4, <4>1, <4>2 DEF ServedHolds, Started
        <4>4. b[2] = 1
          BY <4>2, <4>3, ChatAssumption
        <4> QED BY <3>4, <4>2, <4>3, <4>4 DEF a
      <3>6. tab'.chat = served[a].chat /\ tab'.chat # 0
        BY <1>1, <1>4, <1>6
      <3>7. \A o \in Send : /\ sending'[o].chat \in {0, tab'.chat}
                            /\ Started(o)' /\ sending'[o].chat = 0 =>
                                  sending'[o].at \in {"awaiting", "done"} /\ sending'[o].try = 1
        BY <1>7, <1>10, <1>12, <3>1, <3>2, <3>4
      <3>8. \A b \in Kept' : served'[b].chat = tab'.chat
        BY <1>1, <3>5, <3>6 DEF Kept
      <3> QED BY <3>3, <3>6, <3>7, <3>8 DEF VisitHolds
    <2> QED BY <2>2, <2>3
  <1> QED BY <1>11, <1>13, <1>14, <1>15 DEF ChatInv

(* A lost answer is retried with the same key, or given up. *)
LEMMA FailStep ==
  ASSUME ChatInv, NEW s \in Send, Fail(s)
  PROVE  ChatInv'
  <1>1. /\ Awaiting(s) /\ UNCHANGED <<tab, storage, conversations, handoff>>
        /\ (stray' = {} => stray = {} /\ sending[s].chat # 0)
    BY DEF Fail
  <1>2. ChatTypes /\ ServedHolds /\ LeadsHold /\ VisitHolds /\ sending[s] \in Sendings
        /\ sending[s].at = "awaiting" /\ sending[s].try \in 1..Attempts
    BY <1>1 DEF ChatInv, ChatTypes, Awaiting, Sendings
  <1> DEFINE try == sending[s].try
             a == <<s, try>>
             b == <<s, try + 1>>
  <1>3. a \in Attempt /\ a[1] = s /\ a[2] = try
    BY <1>2, AttemptsAre
  <1>4. PICK row \in Sendings :
          /\ sending' = [sending EXCEPT ![s] = row] /\ row.at \in {"awaiting", "failed"}
          /\ row.chat = sending[s].chat /\ row.keyed = sending[s].keyed
          /\ row.try \in {try, try + 1} /\ row.try \in 1..Attempts
          /\ \/ served' = served
             \/ /\ row.try = try + 1 /\ try < Attempts
                /\ \E at \in {"lost", served[a].at} :
                   /\ at = "lost" => served[a].at # "none"
                   /\ served' = [served EXCEPT ![a].at = at, ![b].at = "sent"]
    <2>1. CASE try < Attempts
      <3> DEFINE new == [sending[s] EXCEPT !.try = try + 1]
      <3>1. try + 1 \in 1..Attempts
        BY <1>2, <2>1, ChatAssumption
      <3>2. new \in Sendings /\ new.at = "awaiting" /\ new.chat = sending[s].chat /\ new.try = try + 1
        BY <1>2, <3>1 DEF Sendings
      <3>3. new.keyed = sending[s].keyed
        BY <1>2 DEF Sendings
      <3>4. sending' = [sending EXCEPT ![s] = new]
        BY <1>2, <2>1 DEF Fail, ChatTypes
      <3>5. PICK lost \in IF Unserved(a) THEN BOOLEAN ELSE {FALSE} :
               served' = [served EXCEPT ![a].at = IF lost THEN "lost" ELSE @, ![b].at = "sent"]
        BY <2>1 DEF Fail
      <3>6. \E at \in {"lost", served[a].at} :
               /\ at = "lost" => served[a].at # "none"
               /\ served' = [served EXCEPT ![a].at = at, ![b].at = "sent"]
        <4>1. CASE lost
          <5>1. served' = [served EXCEPT ![a].at = "lost", ![b].at = "sent"]
            BY <3>5, <4>1
          <5>2. served[a].at # "none"
            BY <3>5, <4>1 DEF Unserved
          <5> QED BY <5>1, <5>2
        <4>2. CASE ~lost
          <5>1. served' = [served EXCEPT ![a].at = served[a].at, ![b].at = "sent"]
            BY <3>5, <4>2
          <5>2. served[a].at = "lost" => served[a].at # "none"
            OBVIOUS
          <5> QED BY <5>1, <5>2
        <4> QED BY <4>1, <4>2
      <3> HIDE DEF new
      <3> QED BY <2>1, <3>1, <3>2, <3>3, <3>4, <3>6
    <2>2. CASE ~(try < Attempts)
      <3> DEFINE new == [sending[s] EXCEPT !.at = "failed"]
      <3>1. new \in Sendings /\ new.at = "failed" /\ new.chat = sending[s].chat /\ new.try = try
        BY <1>2 DEF Sendings
      <3>2. new.keyed = sending[s].keyed
        BY <1>2 DEF Sendings
      <3>3. sending' = [sending EXCEPT ![s] = new] /\ served' = served
        BY <1>2, <2>2 DEF Fail, ChatTypes
      <3> HIDE DEF new
      <3> QED BY <1>2, <3>1, <3>2, <3>3
    <2> QED BY <2>1, <2>2
  <1>5. sending'[s] = row /\ \A o \in Send : o # s => sending'[o] = sending[o]
    BY <1>2, <1>4 DEF ChatTypes
  <1>6. /\ served' \in [Attempt -> Servings]
        /\ \A x \in Attempt :
              /\ served'[x].chat = served[x].chat
              /\ \/ served'[x].at = served[x].at
                 \/ served'[x].at = "lost" /\ x = a /\ served[a].at # "none"
                 \/ served'[x].at = "sent" /\ x = b /\ row.try = try + 1
    <2>1. CASE served' = served
      BY <1>2, <2>1 DEF ChatTypes
    <2>2. CASE served' # served
      <3>1. PICK at \in {"lost", served[a].at} :
                /\ at = "lost" => served[a].at # "none"
                /\ served' = [served EXCEPT ![a].at = at, ![b].at = "sent"]
                /\ row.try = try + 1 /\ try < Attempts
        BY <1>4, <2>2
      <3>2. b \in Attempt /\ b # a
        BY <1>2, <1>3, <3>1, AttemptsAre, ChatAssumption
      <3> DEFINE old == [served[a] EXCEPT !.at = at]
                 next == [served[b] EXCEPT !.at = "sent"]
      <3>3. served[a] \in Servings /\ served[b] \in Servings
        BY <1>2, <1>3, <3>2 DEF ChatTypes
      <3>4. old \in Servings /\ old.at = at /\ old.chat = served[a].chat
        BY <3>3 DEF Servings
      <3>5. next \in Servings /\ next.at = "sent" /\ next.chat = served[b].chat
        BY <3>3 DEF Servings
      <3>6. served' = [x \in Attempt |-> IF x = a THEN old ELSE IF x = b THEN next ELSE served[x]]
        <4> DEFINE mid == [served EXCEPT ![a] = old]
        <4> HIDE DEF a, b
        <4>1. mid \in [Attempt -> Servings] /\ mid[b] = served[b]
              /\ \A x \in Attempt : mid[x] = IF x = a THEN old ELSE served[x]
          BY <1>2, <1>3, <3>2, <3>4 DEF ChatTypes
        <4>2. served' = [mid EXCEPT ![b].at = "sent"]
          <5>1. [served EXCEPT ![a].at = at] = mid
            BY <1>2, <1>3 DEF ChatTypes
          <5>2. served' = [[served EXCEPT ![a].at = at] EXCEPT ![b].at = "sent"]
            BY <3>1
          <5> QED BY <5>1, <5>2
        <4>3. served' = [mid EXCEPT ![b] = next]
          <5> HIDE DEF mid
          <5> QED BY <3>2, <4>1, <4>2
        <4> HIDE DEF mid, next, old
        <4> QED BY <3>2, <4>1, <4>3
      <3> HIDE DEF old, next
      <3>7. served' \in [Attempt -> Servings]
        BY <1>2, <3>4, <3>5, <3>6 DEF ChatTypes
      <3>8. \A x \in Attempt : served'[x].chat = served[x].chat
        BY <3>4, <3>5, <3>6
      <3>9. \A x \in Attempt : \/ served'[x].at = served[x].at
                               \/ served'[x].at = at /\ x = a
                               \/ served'[x].at = "sent" /\ x = b
        BY <3>4, <3>5, <3>6
      <3> QED BY <3>1, <3>7, <3>8, <3>9
    <2> QED BY <2>1, <2>2
  <1>7. ChatTypes'
    BY <1>1, <1>2, <1>4, <1>6 DEF ChatTypes
  <1>8. \A o \in Send : /\ sending'[o].chat = sending[o].chat
                        /\ (Started(o)' <=> Started(o)) /\ (Awaiting(o)' => Awaiting(o))
                        /\ (o # s => sending'[o].try = sending[o].try /\ sending'[o].at = sending[o].at)
                        /\ sending'[o].try >= sending[o].try
                        /\ (sending'[o].at = "done" => o # s)
                        /\ sending[o].try \in Nat /\ sending'[o].try \in Nat
    BY <1>2, <1>4, <1>5, ChatAssumption DEF Started, Awaiting, ChatTypes, Sendings
  <1> HIDE DEF a, try
  <1>9. ServedHolds'
    <2>1. \A x \in Attempt :
            /\ served'[x].at # "none" => x[2] <= sending'[x[1]].try /\ sending'[x[1]].at # "unsent"
            /\ served'[x].at \in {"none", "sent"} => served'[x].chat = 0
            /\ served'[x].at \in InConversation => served'[x].chat # 0
      <3> SUFFICES ASSUME NEW x \in Attempt
                   PROVE  /\ served'[x].at # "none" => x[2] <= sending'[x[1]].try /\ sending'[x[1]].at # "unsent"
                          /\ served'[x].at \in {"none", "sent"} => served'[x].chat = 0
                          /\ served'[x].at \in InConversation => served'[x].chat # 0
        OBVIOUS
      <3>1. x[1] \in Send /\ x[2] \in Nat
        BY AttemptsAre, ChatAssumption
      <3>2. CASE served'[x].at = served[x].at \/ (served'[x].at = "lost" /\ served[x].at # "none")
        BY <1>2, <1>6, <1>8, <3>1, <3>2 DEF ServedHolds, Started, InConversation
      <3>3. CASE served'[x].at = "sent" /\ x = b /\ row.try = try + 1
        <4>1. x[1] = s /\ x[2] = try + 1 /\ sending[s].try = try
          BY <3>3 DEF try
        <4>2. served[x].at = "none"
          BY <1>2, <1>8, <3>1, <4>1 DEF ServedHolds
        <4> QED BY <1>2, <1>4, <1>5, <1>6, <3>3, <4>1, <4>2 DEF ServedHolds, InConversation
      <3> QED BY <1>6, <3>2, <3>3
    <2>2. \A o \in Send : sending'[o].at = "done" => Done(<<o, sending[o].try>>)'
      <3> SUFFICES ASSUME NEW o \in Send, sending'[o].at = "done"
                   PROVE  Done(<<o, sending[o].try>>)'
        OBVIOUS
      <3>1. o # s /\ sending'[o] = sending[o]
        BY <1>5, <1>8
      <3>2. Done(<<o, sending[o].try>>) /\ <<o, sending[o].try>> \in Attempt
        BY <1>2, <3>1, AttemptsAre DEF ServedHolds, ChatTypes, Sendings
      <3>3. <<o, sending[o].try>>[1] # s
        BY <3>1
      <3>4. served'[<<o, sending[o].try>>].at = served[<<o, sending[o].try>>].at
        BY <1>3, <1>6, <3>2, <3>3
      <3> QED BY <3>1, <3>2, <3>4 DEF Done
    <2> QED BY <2>1, <2>2 DEF ServedHolds, Done
  <1>10. LeadsHold'
    <2>1. \A h \in handoff : h.send \in Send
      BY <1>2 DEF ChatTypes, Handoffs
    <2>2. \A o \in Send : (sending'[o].keyed => sending[o].keyed)
      BY <1>4, <1>5
    <2> QED BY <1>1, <1>2, <1>8, <2>1, <2>2 DEF LeadsHold, Started
  <1>11. VisitHolds'
    <2> SUFFICES ASSUME stray' = {} PROVE VisitHolds'
      BY DEF VisitHolds
    <2>1. stray = {} /\ sending[s].chat # 0 /\ tab.chat # 0
      BY <1>1, <1>2 DEF VisitHolds
    <2>2. \A o \in Send : /\ sending'[o].chat \in {0, tab.chat}
                          /\ Started(o)' /\ sending'[o].chat = 0 =>
                                sending'[o].at \in {"awaiting", "done"} /\ sending'[o].try = 1
                          /\ Awaiting(o)' => sending'[o].chat # 0
      BY <1>2, <1>8, <2>1 DEF VisitHolds
    <2>3. \A x \in Kept' : served'[x].chat = tab.chat
      BY <1>2, <1>6, <2>1 DEF VisitHolds, Kept
    <2> QED BY <1>1, <2>1, <2>2, <2>3 DEF VisitHolds
  <1> QED BY <1>7, <1>9, <1>10, <1>11 DEF ChatInv

(* A reload keeps the conversation that was stored, clearing forgets it. *)
LEMMA ReloadStep ==
  ASSUME ChatInv, Reload \/ ClearHistory
  PROVE  ChatInv'
  <1>1. ChatTypes /\ ServedHolds /\ LeadsHold /\ VisitHolds /\ Fresh \in Tabs
    BY DEF ChatInv, Fresh, Tabs
  <1>2. UNCHANGED <<served, conversations, handoff>> /\ tab' \in Tabs /\ storage' = tab'
    BY <1>1 DEF Reload, ClearHistory, ChatTypes
  <1>3. stray' = {} => stray = {} /\ tab' = tab /\ ~Unnamed
    BY <1>1 DEF Reload, ClearHistory, ChatTypes
  <1>4. /\ sending' \in [Send -> Sendings]
        /\ \A o \in Send :
              /\ sending'[o].chat = sending[o].chat /\ sending'[o].try = sending[o].try
              /\ (Started(o)' <=> Started(o)) /\ (Awaiting(o)' => Awaiting(o))
              /\ sending'[o].at = sending[o].at \/ (Awaiting(o) /\ sending'[o].at = "left")
              /\ (sending'[o].keyed => sending[o].keyed)
    <2>1. CASE ClearHistory
      BY <1>1, <2>1 DEF ClearHistory, ChatTypes, Started, Awaiting
    <2>2. CASE Reload
      <3> DEFINE Left(o) == [sending[o] EXCEPT !.at = "left"]
      <3>1. sending' = [o \in Send |-> IF Awaiting(o) THEN Left(o) ELSE sending[o]]
        BY <2>2 DEF Reload
      <3>2. \A o \in Send : /\ Left(o) \in Sendings /\ Left(o).at = "left"
                            /\ Left(o).chat = sending[o].chat /\ Left(o).try = sending[o].try
        BY <1>1 DEF ChatTypes, Sendings
      <3>3. \A o \in Send : Left(o).keyed = sending[o].keyed
        BY <1>1 DEF ChatTypes, Sendings
      <3> HIDE DEF Left
      <3> QED BY <1>1, <3>1, <3>2, <3>3 DEF ChatTypes, Started, Awaiting
    <2> QED BY <2>1, <2>2
  <1>5. ChatTypes'
    BY <1>1, <1>2, <1>4 DEF ChatTypes
  <1>6. ServedHolds'
    <2>1. \A b \in Attempt : b[1] \in Send
      BY AttemptsAre
    <2>2. \A o \in Send : sending'[o].at = "done" => Done(<<o, sending'[o].try>>)
      BY <1>1, <1>4 DEF ServedHolds
    <2>3. \A b \in Attempt : served[b].at # "none" => b[2] <= sending'[b[1]].try /\ sending'[b[1]].at # "unsent"
      BY <1>1, <1>4, <2>1 DEF ServedHolds, Started
    <2> QED BY <1>1, <1>2, <2>2, <2>3 DEF ServedHolds, Done
  <1>7. LeadsHold'
    <2>1. \A h \in handoff : h.send \in Send
      BY <1>1 DEF ChatTypes, Handoffs
    <2> QED BY <1>1, <1>2, <1>4, <2>1 DEF LeadsHold, Started
  <1>8. VisitHolds'
    <2> SUFFICES ASSUME stray' = {} PROVE VisitHolds'
      BY DEF VisitHolds
    <2>1. stray = {} /\ tab' = tab /\ \A o \in Send : Awaiting(o) => sending[o].chat # 0
      BY <1>3 DEF Unnamed, Pending
    <2>2. \A o \in Send : sending[o].chat # 0 => tab.chat # 0
      BY <1>1, <2>1 DEF VisitHolds
    <2>3. \A o \in Send : /\ sending'[o].chat \in {0, tab.chat}
                          /\ Started(o)' /\ sending'[o].chat = 0 =>
                                sending'[o].at \in {"awaiting", "done"} /\ sending'[o].try = 1
                          /\ Awaiting(o)' => sending'[o].chat # 0
                          /\ tab.chat = 0 => ~Started(o)'
      BY <1>1, <1>4, <2>1, <2>2 DEF VisitHolds
    <2>4. tab.chat # 0 => \A b \in Kept' : served'[b].chat = tab.chat
      BY <1>1, <1>2, <2>1 DEF VisitHolds, Kept
    <2> QED BY <2>1, <2>3, <2>4 DEF VisitHolds
  <1> QED BY <1>5, <1>6, <1>7, <1>8 DEF ChatInv

(* widget.ts, sendChatMessage and the forms; repository.ts,
   findOrCreateConversation and createHandoffIdempotent: what a visitor sends
   in one visit is in one conversation, unless a request without one was
   retried, overlapped or left; and a keyed form makes one handoff however
   often it is retried. *)
THEOREM VisitsStayOne == ChatSpec => []VisitsAreOne
  <1>1. ChatInit => ChatInv
    BY ChatStarts
  <1>2. ChatInv /\ [ChatNext]_chatVars => ChatInv'
    <2> SUFFICES ASSUME ChatInv, [ChatNext]_chatVars PROVE ChatInv'
      OBVIOUS
    <2>1. CASE Reload \/ ClearHistory
      BY <2>1, ReloadStep
    <2>2. CASE \E c \in 1..Sends : SetTakeover(c)
      BY <2>2 DEF SetTakeover, ChatInv, ChatTypes, ServedHolds, LeadsHold, VisitHolds, Done, Kept, Started, Awaiting
    <2>3. CASE \E s \in Send : Receive(s)
      BY <2>3, ReceiveReplyStep
    <2>4. CASE \E s \in Send : Fail(s)
      BY <2>4, FailStep
    <2>5. CASE \E s \in Send, kind \in {"chat", "form"}, keyed \in BOOLEAN : Start(s, kind, keyed)
      BY <2>5, StartStep
    <2>6. CASE \E a \in Attempt : FindConversation(a)
      BY <2>6, FindConversationStep
    <2>7. CASE \E a \in Attempt : RecordTurn(a) \/ AnswerTurn(a) \/ FinishLead(a)
      BY <2>7, GoesOnStep
    <2>8. CASE \E a \in Attempt : CaptureLead(a)
      BY <2>8, CaptureStep
    <2>9. CASE UNCHANGED chatVars
      BY <2>9 DEF chatVars, ChatInv, ChatTypes, ServedHolds, LeadsHold, VisitHolds, Done, Kept, Started, Awaiting
    <2> QED BY <2>1, <2>2, <2>3, <2>4, <2>5, <2>6, <2>7, <2>8, <2>9 DEF ChatNext
  <1>3. ChatInv => VisitsAreOne
    <2> SUFFICES ASSUME ChatInv PROVE VisitsAreOne
      OBVIOUS
    <2>1. ChatTypes /\ ServedHolds /\ LeadsHold /\ VisitHolds
      BY DEF ChatInv
    <2>2. TurnsStayTogether
      <3> SUFFICES ASSUME stray = {}, NEW a \in Kept
                   PROVE  /\ \A b \in Kept : served[a].chat = served[b].chat
                          /\ tab.chat # 0 => served[a].chat = tab.chat
        BY DEF TurnsStayTogether
      <3>1. CASE tab.chat # 0
        BY <2>1, <3>1 DEF VisitHolds
      <3>2. CASE tab.chat = 0
        <4> SUFFICES ASSUME NEW b \in Kept PROVE a = b
          BY <3>2
        <4>1. \A x \in Kept : x[1] \in Send /\ x[2] = 1 /\ x = <<x[1], x[2]>> /\ Started(x[1])
          <5> SUFFICES ASSUME NEW x \in Kept
                       PROVE  x[1] \in Send /\ x[2] = 1 /\ x = <<x[1], x[2]>> /\ Started(x[1])
            OBVIOUS
          <5>1. x \in Attempt /\ served[x].at # "none"
            BY <2>1 DEF Kept, ServedHolds
          <5>2. x[1] \in Send /\ x[2] \in 1..Attempts /\ x = <<x[1], x[2]>>
            BY <5>1, AttemptsAre
          <5>3. Started(x[1]) /\ x[2] <= sending[x[1]].try
            BY <2>1, <5>1 DEF ServedHolds, Started
          <5>4. sending[x[1]].chat = 0
            BY <2>1, <3>2, <5>2 DEF VisitHolds
          <5>5. sending[x[1]].try = 1
            BY <2>1, <5>2, <5>3, <5>4 DEF VisitHolds
          <5> QED BY <5>2, <5>3, <5>5, ChatAssumption
        <4> QED BY <2>1, <3>2, <4>1 DEF VisitHolds
      <3> QED BY <3>1, <3>2
    <2>3. KeyedLeadOnce
      <3> SUFFICES ASSUME NEW s \in Send, sending[s].keyed, sending[s].chat # 0
                   PROVE  Cardinality({h \in handoff : h.send = s}) <= 1
        BY DEF KeyedLeadOnce
      <3> DEFINE mine == {h \in handoff : h.send = s}
      <3>1. \A g, h \in mine : g = h
        BY <2>1 DEF LeadsHold
      <3> HIDE DEF mine
      <3>3. Cardinality(mine) <= 1
        BY <3>1, AtMostOne
      <3> QED BY <3>3 DEF mine
    <2> QED BY <2>2, <2>3 DEF VisitsAreOne
  <1> QED BY <1>1, <1>2, <1>3, PTL DEF ChatSpec

-----------------------------------------------------------------------------
(* Telephone numbers and their settings (TelephoneSetup) *)

AccountIds == TwilioNumbers \cup Firms \cup {Area, Null, None}
SettingsParts == {"checklist", "hours"}
LineRows == [account : AccountIds, fields : SUBSET SettingsParts]

(* What a request may be: only purchases and connects go to Twilio, for the
   tenant's Twilio row; orders and settings go to the default provider's row. *)
SetupRequests ==
    {q \in [kind : {"buy", "connect", "put", "order", "settings"}, at : {"twilio", "save"},
            slot : Slots, account : AccountIds, base : SUBSET SettingsParts, alone : BOOLEAN] :
        /\ q.kind \in {"buy", "connect"} => q.slot[2] = "twilio" /\ q.account \in TwilioNumbers
        /\ q.kind \in {"order", "settings"} => q.slot[2] = "easybell"
        /\ q.kind = "put" => q.account = Null
        /\ q.at = "twilio" => q.kind \in {"buy", "connect"}}

SetupTypes ==
    /\ line \in [Slots -> LineRows]
    /\ route \in [TwilioNumbers -> Firms \cup {None}]
    /\ setup \in [Setups -> SetupRequests \cup {NoSetup}]
    /\ expected \in [Slots -> SUBSET SettingsParts]

Runs(r) == setup[r] # NoSetup
AtTwilio(r) == setup[r].kind \in {"buy", "connect"}

(* A request that overlapped no other is the only one of its tenant and its
   number; the number it changed at Twilio still goes to its tenant, and what
   it read of the row it will write still stands there. *)
AloneHolds(r) ==
    Runs(r) /\ setup[r].alone =>
        /\ \A q \in Setups : Runs(q) /\ q # r =>
              setup[q].slot[1] # setup[r].slot[1] /\ setup[q].account # setup[r].account
        /\ AtTwilio(r) /\ setup[r].at = "save" => route[setup[r].account] = setup[r].slot[1]
        /\ (setup[r].kind \in {"order", "settings"} /\ line[setup[r].slot].account # None
               /\ LinesOf(setup[r].slot[1]) \subseteq {setup[r].slot})
              => setup[r].base = line[setup[r].slot].fields

(* A number whose route no request has changed and not yet saved. *)
Settled(n) == \A r \in Setups : ~(AtTwilio(r) /\ setup[r].at = "save" /\ setup[r].account = n)

OwnersReached ==
    \A n \in TwilioNumbers, f \in Firms :
        line[<<f, "twilio">>].account = n /\ n \notin trouble /\ Settled(n) => route[n] = f

(* The invariant. *)
SetupInv ==
    /\ SetupTypes
    /\ \A r \in Setups : AloneHolds(r)
    /\ OwnersReached
    /\ SettingsAreMerged

(* A slot is a tenant and a supplier. *)
LEMMA SlotsAre ==
  /\ \A s \in Slots : s[1] \in Firms /\ s[2] \in Suppliers /\ s = <<s[1], s[2]>>
  /\ \A f \in Firms, p \in Suppliers : <<f, p>> \in Slots
  /\ "twilio" \in Suppliers /\ "easybell" \in Suppliers
  BY DEF Slots, Suppliers

(* At first no number is set up. *)
LEMMA SetupStarts == SetupInit => SetupInv
  <1> SUFFICES ASSUME SetupInit PROVE SetupInv
    OBVIOUS
  <1>1. \A r \in Setups : setup[r] = NoSetup
    BY DEF SetupInit
  <1>2. \A s \in Slots : line[s].account = None /\ expected[s] = {}
    BY DEF SetupInit, NoLine
  <1>3. SetupTypes
    BY DEF SetupTypes, SetupInit, LineRows, NoLine, AccountIds
  <1>4. \A r \in Setups : AloneHolds(r)
    BY <1>1 DEF AloneHolds, Runs
  <1>5. OwnersReached
    BY <1>2, SlotsAre, SetupAssumption DEF OwnersReached, None
  <1>6. SettingsAreMerged
    BY <1>2 DEF SettingsAreMerged
  <1> QED BY <1>3, <1>4, <1>5, <1>6 DEF SetupInv

(* A request that begins alone has read the row it will write. *)
LEMMA BeginKeeps ==
  ASSUME SetupInv, NEW r \in Setups, NEW kind, NEW slot \in Slots, NEW number, NEW base,
         Begin(r, kind, slot, number, base),
         NEW at, at = IF kind \in {"buy", "connect"} THEN "twilio" ELSE "save",
         \A yes \in BOOLEAN :
            [kind |-> kind, at |-> at, slot |-> slot, account |-> number, base |-> base,
             alone |-> yes] \in SetupRequests,
         (kind \in {"order", "settings"} /\ line[slot].account # None
               /\ LinesOf(slot[1]) \subseteq {slot}) => base = line[slot].fields
  PROVE  SetupInv'
  <1> DEFINE others == {q \in Setups : setup[q] # NoSetup /\
                            (setup[q].slot[1] = slot[1] \/ setup[q].account = number)}
             alone == (others = {})
             new == [kind |-> kind, at |-> at, slot |-> slot, account |-> number, base |-> base,
                     alone |-> alone]
  <1>0. alone \in BOOLEAN
    OBVIOUS
  <1>1. /\ setup[r] = NoSetup /\ UNCHANGED <<line, route, expected, trouble>>
        /\ setup' = [q \in Setups |-> IF q = r THEN new ELSE
                        IF q \in others THEN [setup[q] EXCEPT !.alone = FALSE] ELSE setup[q]]
    BY DEF Begin
  <1>2. SetupTypes
    BY DEF SetupInv
  <1> HIDE DEF alone
  <1>3. new \in SetupRequests /\ new.kind = kind /\ new.at = at /\ new.slot = slot
        /\ new.account = number /\ new.base = base
    BY <1>0
  <1>4. new.alone = alone
    OBVIOUS
  <1> HIDE DEF new
  <1>5. r \notin others
    BY <1>1
  <1>6. setup'[r] = new /\ \A q \in Setups \ {r} :
           setup'[q] = IF q \in others THEN [setup[q] EXCEPT !.alone = FALSE] ELSE setup[q]
    BY <1>1
  <1>7. \A q \in others : /\ q \in Setups /\ Runs(q) /\ setup[q] \in SetupRequests
                          /\ [setup[q] EXCEPT !.alone = FALSE] \in SetupRequests
    <2> SUFFICES ASSUME NEW q \in others
                 PROVE  /\ q \in Setups /\ Runs(q) /\ setup[q] \in SetupRequests
                        /\ [setup[q] EXCEPT !.alone = FALSE] \in SetupRequests
      OBVIOUS
    <2>1. q \in Setups /\ Runs(q) /\ setup[q] \in SetupRequests
      BY <1>2 DEF SetupTypes, Runs
    <2> DEFINE no == FALSE
               row == [setup[q] EXCEPT !.alone = no]
    <2>2. no \in BOOLEAN
      OBVIOUS
    <2> HIDE DEF no
    <2>3. row \in SetupRequests
      BY <2>1, <2>2 DEF SetupRequests
    <2> QED BY <2>1, <2>3 DEF no
  <1>70. \A q \in others :
            /\ [setup[q] EXCEPT !.alone = FALSE].kind = setup[q].kind
            /\ [setup[q] EXCEPT !.alone = FALSE].at = setup[q].at
            /\ [setup[q] EXCEPT !.alone = FALSE].slot = setup[q].slot
            /\ [setup[q] EXCEPT !.alone = FALSE].account = setup[q].account
            /\ [setup[q] EXCEPT !.alone = FALSE].base = setup[q].base
    BY <1>7 DEF SetupRequests
  <1>71. \A q \in others : ~[setup[q] EXCEPT !.alone = FALSE].alone
    BY <1>7 DEF SetupRequests
  <1>8. setup' \in [Setups -> SetupRequests \cup {NoSetup}]
    BY <1>1, <1>2, <1>3, <1>7 DEF SetupTypes
  <1>9. SetupTypes'
    BY <1>1, <1>2, <1>8 DEF SetupTypes
  <1>10. \A q \in Setups \ {r} :
            /\ setup'[q].kind = setup[q].kind /\ setup'[q].at = setup[q].at
            /\ setup'[q].slot = setup[q].slot /\ setup'[q].account = setup[q].account
            /\ setup'[q].base = setup[q].base
    BY <1>6, <1>70
  <1>11. \A q \in Setups \ {r} : (setup'[q].alone => setup[q].alone /\ q \notin others)
    BY <1>6, <1>71
  <1>12. NoSetup \notin SetupRequests
    BY DEF NoSetup, SetupRequests, None
  <1>13. Runs(r)' /\ \A q \in Setups \ {r} : Runs(q)' => Runs(q)
    BY <1>3, <1>6, <1>7, <1>12 DEF Runs
  <1>14. \A q \in Setups : AloneHolds(q)'
    <2> SUFFICES ASSUME NEW q \in Setups PROVE AloneHolds(q)'
      OBVIOUS
    <2>1. CASE q = r
      <3> SUFFICES ASSUME alone
                   PROVE  /\ \A p \in Setups : Runs(p)' /\ p # r =>
                                setup'[p].slot[1] # slot[1] /\ setup'[p].account # number
                          /\ kind \in {"buy", "connect"} /\ at = "save" => route[number] = slot[1]
        BY <1>1, <1>3, <1>4, <1>6, <2>1 DEF AloneHolds, AtTwilio, LinesOf
      <3>1. others = {}
        BY DEF alone
      <3> HIDE DEF others
      <3>2. \A p \in Setups : Runs(p)' /\ p # r => Runs(p) /\ p \notin others
        BY <1>13, <3>1
      <3>3. \A p \in Setups : Runs(p)' /\ p # r =>
                                setup'[p].slot[1] # slot[1] /\ setup'[p].account # number
        BY <1>10, <3>2 DEF Runs, others
      <3> QED BY <3>3
    <2>2. CASE q # r
      <3> SUFFICES ASSUME Runs(q)', setup'[q].alone PROVE AloneHolds(q)'
        BY DEF AloneHolds
      <3>1. q \in Setups \ {r} /\ Runs(q) /\ setup[q].alone /\ q \notin others
        BY <1>11, <1>13, <2>2
      <3>2. AloneHolds(q)
        BY DEF SetupInv
      <3>3. setup[q].slot[1] # slot[1] /\ setup[q].account # number
        BY <3>1 DEF Runs
      <3> HIDE DEF others
      <3>4. \A p \in Setups : Runs(p)' /\ p # q =>
                 setup'[p].slot[1] # setup'[q].slot[1] /\ setup'[p].account # setup'[q].account
        <4> SUFFICES ASSUME NEW p \in Setups, Runs(p)', p # q
                     PROVE  setup'[p].slot[1] # setup'[q].slot[1] /\ setup'[p].account # setup'[q].account
          OBVIOUS
        <4>1. CASE p = r
          BY <1>3, <1>6, <1>10, <3>1, <3>3, <4>1
        <4>2. CASE p # r
          BY <1>10, <1>13, <3>1, <3>2, <4>2 DEF AloneHolds
        <4> QED BY <4>1, <4>2
      <3>5. AtTwilio(q)' /\ setup'[q].at = "save" => route[setup[q].account] = setup[q].slot[1]
        BY <1>10, <3>1, <3>2 DEF AloneHolds, AtTwilio
      <3>7. (setup[q].kind \in {"order", "settings"} /\ line[setup[q].slot].account # None
               /\ LinesOf(setup[q].slot[1]) \subseteq {setup[q].slot})
              => setup[q].base = line[setup[q].slot].fields
        BY <3>1, <3>2 DEF AloneHolds
      <3> QED BY <1>1, <1>10, <3>1, <3>4, <3>5, <3>7 DEF AloneHolds, LinesOf
    <2> QED BY <2>1, <2>2
  <1>15. \A n \in TwilioNumbers : Settled(n)' => Settled(n)
    <2>1. \A q \in Setups \ {r} : AtTwilio(q)' <=> AtTwilio(q)
      BY <1>10 DEF AtTwilio
    <2>2. ~AtTwilio(r)
      BY <1>1 DEF AtTwilio, NoSetup, None
    <2> QED BY <1>10, <2>1, <2>2 DEF Settled
  <1>16. OwnersReached'
    BY <1>1, <1>15 DEF SetupInv, OwnersReached
  <1>17. SettingsAreMerged'
    BY <1>1 DEF SetupInv, SettingsAreMerged
  <1> QED BY <1>9, <1>14, <1>16, <1>17 DEF SetupInv

(* The slots of one tenant. *)
LEMMA FirmSlots ==
  ASSUME NEW f \in Firms, NEW p \in Suppliers
  PROVE  <<f, p>> \in Slots /\ <<f, p>>[1] = f /\ <<f, p>>[2] = p
  BY DEF Slots

(* Purchases and connects begin with the tenant's Twilio row. *)
LEMMA TwilioBegins ==
  ASSUME SetupInv, NEW r \in Setups, NEW f \in Firms, NEW n \in TwilioNumbers,
         Buy(r, f, n) \/ Connect(r, f, n)
  PROVE  SetupInv'
  <1> DEFINE slot == <<f, "twilio">>
  <1>1. PICK kind \in {"buy", "connect"} : Begin(r, kind, slot, n, {})
    BY DEF Buy, Connect
  <1>2. slot \in Slots /\ slot[1] = f /\ slot[2] = "twilio"
    BY FirmSlots DEF Suppliers
  <1> HIDE DEF slot
  <1>3. n \in AccountIds
    BY DEF AccountIds
  <1>4. \A yes \in BOOLEAN : [kind |-> kind, at |-> "twilio", slot |-> slot, account |-> n,
                               base |-> {}, alone |-> yes] \in SetupRequests
    BY <1>1, <1>2, <1>3 DEF SetupRequests
  <1>5. "twilio" = IF kind \in {"buy", "connect"} THEN "twilio" ELSE "save"
    OBVIOUS
  <1>6. kind \notin {"order", "settings"}
    OBVIOUS
  <1> QED BY <1>1, <1>2, <1>4, <1>5, <1>6, BeginKeeps

(* A settings form begins with any row. *)
LEMMA PutBegins ==
  ASSUME SetupInv, NEW r \in Setups, NEW slot \in Slots, Put(r, slot)
  PROVE  SetupInv'
  <1>1. Begin(r, "put", slot, Null, {})
    BY DEF Put
  <1>2. \A yes \in BOOLEAN : [kind |-> "put", at |-> "save", slot |-> slot, account |-> Null,
                               base |-> {}, alone |-> yes] \in SetupRequests
    BY DEF SetupRequests, AccountIds
  <1>3. "save" = IF "put" \in {"buy", "connect"} THEN "twilio" ELSE "save"
    OBVIOUS
  <1>4. "put" \notin {"order", "settings"}
    OBVIOUS
  <1> QED BY <1>1, <1>2, <1>3, <1>4, BeginKeeps

(* Orders and settings begin with the default provider's row. *)
LEMMA SupplierBegins ==
  ASSUME SetupInv, NEW r \in Setups, NEW slot \in Slots, slot[2] = "easybell",
         NEW kind \in {"order", "settings"}, NEW number \in AccountIds, NEW base \in SUBSET SettingsParts,
         Begin(r, kind, slot, number, base),
         line[slot].account # None /\ LinesOf(slot[1]) \subseteq {slot} => base = line[slot].fields
  PROVE  SetupInv'
  <1>1. \A yes \in BOOLEAN : [kind |-> kind, at |-> "save", slot |-> slot, account |-> number,
                               base |-> base, alone |-> yes] \in SetupRequests
    BY DEF SetupRequests
  <1>2. "save" = IF kind \in {"buy", "connect"} THEN "twilio" ELSE "save"
    OBVIOUS
  <1> QED BY <1>1, <1>2, BeginKeeps

(* An order begins with what it keeps of the row. *)
LEMMA OrderBegins ==
  ASSUME SetupInv, NEW r \in Setups, NEW f \in Firms, OrderNumber(r, f)
  PROVE  SetupInv'
  <1> DEFINE slot == <<f, "easybell">>
             from == ReadFor(slot)
  <1>1. slot \in Slots /\ slot[1] = f /\ slot[2] = "easybell"
    BY FirmSlots DEF Suppliers
  <1>2. PICK base \in IF from = {} THEN {{}} ELSE {line[s].fields : s \in from} :
           \E number \in OrderAccount(f) : Begin(r, "order", slot, number, base)
    BY DEF OrderNumber
  <1>3. PICK number \in OrderAccount(f) : Begin(r, "order", slot, number, base)
    BY <1>2
  <1> HIDE DEF slot
  <1>4. number \in AccountIds
    BY DEF OrderAccount, AccountIds
  <1>5. from \subseteq Slots /\ (line[slot].account # None => from = {slot})
    BY <1>1 DEF ReadFor, LinesOf
  <1>6. \A s \in Slots : line[s].fields \in SUBSET SettingsParts
    BY DEF SetupInv, SetupTypes, LineRows
  <1> HIDE DEF from
  <1>7. base \in SUBSET SettingsParts
    <2>1. CASE from = {}
      BY <1>2, <2>1
    <2>2. CASE from # {}
      BY <1>2, <1>5, <1>6, <2>2
    <2> QED BY <2>1, <2>2
  <1>8. line[slot].account # None => base = line[slot].fields
    BY <1>2, <1>5
  <1> QED BY <1>1, <1>3, <1>4, <1>7, <1>8, SupplierBegins

(* A change of the settings begins with the row it merges into. *)
LEMMA SettingsBegin ==
  ASSUME SetupInv, NEW r \in Setups, NEW f \in Firms, ChangeSettings(r, f)
  PROVE  SetupInv'
  <1> DEFINE slot == <<f, "easybell">>
  <1>1. slot \in Slots /\ slot[1] = f /\ slot[2] = "easybell"
    BY FirmSlots DEF Suppliers
  <1>2. \/ LinesOf(f) = {} /\ Begin(r, "settings", slot, f, {})
        \/ \E s \in LinesOf(f) : Begin(r, "settings", slot,
               IF line[s].account = Null THEN f ELSE line[s].account, line[s].fields)
    BY DEF ChangeSettings
  <1> HIDE DEF slot
  <1>3. CASE LinesOf(f) = {} /\ Begin(r, "settings", slot, f, {})
    <2>1. line[slot].account = None
      BY <1>1, <1>3 DEF LinesOf
    <2>2. f \in AccountIds
      BY DEF AccountIds
    <2> QED BY <1>1, <1>3, <2>1, <2>2, SupplierBegins
  <1>4. CASE \E s \in LinesOf(f) : Begin(r, "settings", slot,
               IF line[s].account = Null THEN f ELSE line[s].account, line[s].fields)
    <2>1. PICK s \in LinesOf(f) : Begin(r, "settings", slot,
               IF line[s].account = Null THEN f ELSE line[s].account, line[s].fields)
      BY <1>4
    <2> DEFINE number == IF line[s].account = Null THEN f ELSE line[s].account
    <2>2. s \in Slots /\ line[s].fields \in SUBSET SettingsParts /\ line[s].account \in AccountIds
      BY DEF LinesOf, SetupInv, SetupTypes, LineRows
    <2>3. number \in AccountIds
      BY <2>2 DEF AccountIds
    <2>4. LinesOf(slot[1]) \subseteq {slot} => s = slot
      BY <1>1
    <2>5. Begin(r, "settings", slot, number, line[s].fields)
      BY <2>1
    <2> HIDE DEF number
    <2> QED BY <1>1, <2>2, <2>3, <2>4, <2>5, SupplierBegins
  <1> QED BY <1>2, <1>3, <1>4

(* A request that ends without writing a row. *)
LEMMA EndKeeps ==
  ASSUME SetupInv, NEW r \in Setups, setup' = [setup EXCEPT ![r] = NoSetup],
         UNCHANGED <<line, route, expected>>, trouble \subseteq trouble',
         AtTwilio(r) /\ setup[r].at = "save" => setup[r].account \in trouble'
  PROVE  SetupInv'
  <1>1. SetupTypes
    BY DEF SetupInv
  <1>2. setup'[r] = NoSetup /\ \A q \in Setups : q # r => setup'[q] = setup[q]
    BY <1>1 DEF SetupTypes
  <1>3. SetupTypes'
    BY <1>1 DEF SetupTypes
  <1>4. \A q \in Setups : AloneHolds(q)'
    <2> SUFFICES ASSUME NEW q \in Setups, q # r PROVE AloneHolds(q)'
      BY <1>2 DEF AloneHolds, Runs
    <2>1. AloneHolds(q) /\ setup'[q] = setup[q] /\ (Runs(q)' <=> Runs(q))
      BY <1>2 DEF SetupInv, Runs
    <2>2. \A p \in Setups : Runs(p)' /\ p # q => Runs(p) /\ setup'[p] = setup[p]
      BY <1>2 DEF Runs
    <2> QED BY <2>1, <2>2 DEF AloneHolds, AtTwilio, LinesOf
  <1>5. \A n \in TwilioNumbers \ trouble' : Settled(n)' => Settled(n)
    BY <1>2 DEF Settled, AtTwilio
  <1>6. OwnersReached'
    BY <1>5 DEF SetupInv, OwnersReached
  <1>7. SettingsAreMerged'
    BY DEF SetupInv, SettingsAreMerged
  <1> QED BY <1>3, <1>4, <1>6, <1>7 DEF SetupInv

(* A request that is given up is counted where the number was moved already.
   *)
LEMMA AbandonStep ==
  ASSUME SetupInv, NEW r \in Setups, Abandon(r)
  PROVE  SetupInv'
  <1>1. setup[r] \in SetupRequests \cup {NoSetup}
    BY DEF SetupInv, SetupTypes
  <1>2. AtTwilio(r) => setup[r].account \in Unsaved(r)
    BY <1>1 DEF AtTwilio, Unsaved, SetupRequests, NoSetup, None
  <1> QED BY <1>2, EndKeeps DEF Abandon

(* Twilio routes the number to the tenant. *)
LEMMA TwilioStep ==
  ASSUME SetupInv, NEW r \in Setups, TwilioBuy(r) \/ TwilioConnect(r)
  PROVE  SetupInv'
  <1>1. SetupTypes /\ setup[r].at = "twilio" /\ AtTwilio(r)
        /\ UNCHANGED <<line, expected, trouble>>
    BY DEF SetupInv, TwilioBuy, TwilioConnect, AtTwilio
  <1>2. \/ UNCHANGED route /\ setup' = [setup EXCEPT ![r] = NoSetup]
        \/ /\ route' = [route EXCEPT ![setup[r].account] = setup[r].slot[1]]
           /\ setup' = [setup EXCEPT ![r].at = "save"]
    BY DEF TwilioBuy, TwilioConnect, Routed
  <1>3. CASE UNCHANGED route /\ setup' = [setup EXCEPT ![r] = NoSetup]
    BY <1>1, <1>3, EndKeeps
  <1>4. CASE /\ route' = [route EXCEPT ![setup[r].account] = setup[r].slot[1]]
             /\ setup' = [setup EXCEPT ![r].at = "save"]
    <2>1. setup[r] \in SetupRequests /\ Runs(r) /\ NoSetup \notin SetupRequests
      BY <1>1 DEF SetupTypes, AtTwilio, NoSetup, None, Runs, SetupRequests
    <2>2. setup[r].account \in TwilioNumbers /\ setup[r].slot \in Slots /\ setup[r].slot[1] \in Firms
      BY <1>1, <2>1, SlotsAre DEF SetupRequests, AtTwilio
    <2> DEFINE row == [setup[r] EXCEPT !.at = "save"]
    <2>3. row \in SetupRequests
      BY <2>1 DEF SetupRequests
    <2>4. /\ row.kind = setup[r].kind /\ row.at = "save" /\ row.slot = setup[r].slot
          /\ row.account = setup[r].account /\ row.base = setup[r].base
      BY <2>1 DEF SetupRequests
    <2>5. row.alone = setup[r].alone
      BY <2>1 DEF SetupRequests
    <2>6. setup' = [setup EXCEPT ![r] = row]
      BY <1>1, <1>4 DEF SetupTypes
    <2> HIDE DEF row
    <2>7. setup'[r] = row /\ \A q \in Setups : q # r => setup'[q] = setup[q]
      BY <1>1, <2>6 DEF SetupTypes
    <2>8. SetupTypes'
      BY <1>1, <1>4, <2>2, <2>3, <2>6 DEF SetupTypes
    <2>9. /\ route'[setup[r].account] = setup[r].slot[1]
          /\ \A n \in TwilioNumbers : n # setup[r].account => route'[n] = route[n]
      BY <1>1, <1>4, <2>2 DEF SetupTypes
    <2>10. \A q \in Setups : Runs(q)' <=> Runs(q)
      BY <2>1, <2>3, <2>7 DEF Runs
    <2>11. \A q \in Setups : /\ setup'[q].slot = setup[q].slot /\ setup'[q].account = setup[q].account
                             /\ setup'[q].kind = setup[q].kind /\ setup'[q].base = setup[q].base
      BY <2>4, <2>7
    <2>12. \A q \in Setups : AloneHolds(q)'
      <3> SUFFICES ASSUME NEW q \in Setups, Runs(q)', setup'[q].alone PROVE AloneHolds(q)'
        BY DEF AloneHolds
      <3>1. Runs(q) /\ setup[q].alone /\ AloneHolds(q)
        BY <2>5, <2>7, <2>10 DEF SetupInv
      <3>2. \A p \in Setups : Runs(p)' /\ p # q =>
               setup'[p].slot[1] # setup'[q].slot[1] /\ setup'[p].account # setup'[q].account
        BY <2>10, <2>11, <3>1 DEF AloneHolds
      <3>3. AtTwilio(q)' /\ setup'[q].at = "save" => route'[setup'[q].account] = setup'[q].slot[1]
        <4>1. CASE q = r
          BY <2>9, <2>11, <4>1
        <4>2. CASE q # r
          <5>1. setup[r].account # setup[q].account
            BY <2>1, <3>1, <4>2 DEF AloneHolds
          <5>2. AtTwilio(q)' /\ setup'[q].at = "save" => setup[q].account \in TwilioNumbers
                  /\ route[setup[q].account] = setup[q].slot[1]
            <6>1. setup[q] \in SetupRequests
              BY <1>1, <3>1 DEF SetupTypes, Runs
            <6> QED BY <2>7, <3>1, <4>2, <6>1 DEF AloneHolds, AtTwilio, SetupRequests
          <5> QED BY <2>9, <2>11, <5>1, <5>2
        <4> QED BY <4>1, <4>2
      <3> QED BY <1>1, <2>11, <3>1, <3>2, <3>3 DEF AloneHolds, LinesOf
    <2>13. \A n \in TwilioNumbers : Settled(n)' => Settled(n) /\ n # setup[r].account
      <3>1. AtTwilio(r)' /\ setup'[r].at = "save" /\ setup'[r].account = setup[r].account
        BY <1>1, <2>4, <2>7 DEF AtTwilio
      <3>2. \A q \in Setups : AtTwilio(q) /\ setup[q].at = "save" => AtTwilio(q)' /\ setup'[q].at = "save"
        BY <2>4, <2>7 DEF AtTwilio
      <3> QED BY <2>11, <3>1, <3>2 DEF Settled
    <2>14. OwnersReached'
      BY <1>1, <2>9, <2>13 DEF SetupInv, OwnersReached
    <2>15. SettingsAreMerged'
      BY <1>1 DEF SetupInv, SettingsAreMerged
    <2> QED BY <2>8, <2>12, <2>14, <2>15 DEF SetupInv
  <1> QED BY <1>2, <1>3, <1>4

(* A request that writes its row. *)
LEMMA SaveStep ==
  ASSUME SetupInv, NEW r \in Setups, SaveSetup(r)
  PROVE  SetupInv'
  <1> DEFINE q == setup[r]
  <1>1. SetupTypes /\ q.at = "save" /\ setup' = [setup EXCEPT ![r] = NoSetup] /\ UNCHANGED route
    BY DEF SetupInv, SaveSetup
  <1>2. setup[r] \in SetupRequests /\ Runs(r)
    BY <1>1 DEF SetupTypes, NoSetup, Runs
  <1>3. AtTwilio(r) => setup[r].account \in Unsaved(r)
    BY <1>2 DEF AtTwilio, Unsaved, SetupRequests
  <1>4. CASE ~Free(q.account, q.slot)
    <2>1. trouble' = trouble \cup Unsaved(r) /\ UNCHANGED <<line, expected>>
      BY <1>4 DEF SaveSetup
    <2> QED BY <1>1, <1>3, <2>1, EndKeeps
  <1>5. CASE Free(q.account, q.slot)
    <2> DEFINE new == [account |-> q.account, fields |-> Fields(q.kind, q.base)]
               saved == IF q.kind \in Replaces THEN {}
                        ELSE IF line[q.slot].account = None THEN Added(q.kind)
                        ELSE expected[q.slot] \cup Added(q.kind)
    <2>1. /\ line' = [line EXCEPT ![q.slot] = new]
          /\ trouble' = trouble \cup (IF q.alone THEN {} ELSE {q.slot[1]} \cup Unsaved(r))
                                \cup (IF LinesOf(q.slot[1]) \subseteq {q.slot} THEN {} ELSE {q.slot[1]})
      BY <1>5 DEF SaveSetup
    <2>2. expected' = [expected EXCEPT ![q.slot] = saved]
      BY <1>1, <1>5 DEF SaveSetup
    <2>3. q.slot \in Slots /\ q.account \in AccountIds /\ q.base \in SUBSET SettingsParts
          /\ q.kind \in {"buy", "connect", "put", "order", "settings"}
      BY <1>2 DEF SetupRequests
    <2>4. Added(q.kind) \in SUBSET SettingsParts /\ Fields(q.kind, q.base) \in SUBSET SettingsParts
      BY <2>3 DEF Added, SettingsParts, Fields
    <2>5. new \in LineRows /\ new.account = q.account /\ new.fields = Fields(q.kind, q.base)
      BY <2>3, <2>4 DEF LineRows
    <2>6. saved \in SUBSET SettingsParts
      BY <1>1, <2>3, <2>4 DEF SetupTypes
    <2> HIDE DEF new
    <2>7. /\ line'[q.slot] = new /\ \A s \in Slots : s # q.slot => line'[s] = line[s]
          /\ expected'[q.slot] = saved /\ \A s \in Slots : s # q.slot => expected'[s] = expected[s]
      BY <1>1, <2>1, <2>2, <2>3 DEF SetupTypes
    <2>8. setup'[r] = NoSetup /\ \A p \in Setups : p # r => setup'[p] = setup[p]
      BY <1>1 DEF SetupTypes
    <2>9. SetupTypes'
      <3> HIDE DEF q, saved
      <3> QED BY <1>1, <2>1, <2>2, <2>5, <2>6 DEF SetupTypes
    <2>10. \A p \in Setups : AloneHolds(p)'
      <3> SUFFICES ASSUME NEW p \in Setups, p # r, Runs(p)', setup'[p].alone PROVE AloneHolds(p)'
        BY <2>8 DEF AloneHolds, Runs
      <3>1. AloneHolds(p) /\ setup'[p] = setup[p] /\ Runs(p) /\ setup[p].alone
        BY <2>8 DEF SetupInv, Runs
      <3>2. setup[r].slot[1] # setup[p].slot[1]
        BY <1>2, <3>1 DEF AloneHolds
      <3>3. \A o \in Setups : Runs(o)' /\ o # p => Runs(o) /\ setup'[o] = setup[o]
        BY <2>8 DEF Runs
      <3>4. \A s \in Slots : s[1] = setup[p].slot[1] => line'[s] = line[s]
        BY <2>7, <3>2
      <3>5. {x \in Slots : x[1] = setup'[p].slot[1] /\ line'[x].account # None} = LinesOf(setup[p].slot[1])
        BY <3>1, <3>4 DEF LinesOf
      <3>51. setup'[p].slot = setup[p].slot /\ setup'[p].kind = setup[p].kind
             /\ setup'[p].base = setup[p].base /\ setup'[p].at = setup[p].at
             /\ setup'[p].account = setup[p].account
        BY <3>1
      <3>52. {x \in Slots : x[1] = setup'[p].slot[1] /\ line'[x].account # None} \subseteq {setup'[p].slot}
             => LinesOf(setup[p].slot[1]) \subseteq {setup[p].slot}
        BY <3>5, <3>51
      <3>6. setup[p].slot \in Slots
        BY <1>1, <3>1 DEF SetupTypes, Runs, SetupRequests
      <3>7. line'[setup[p].slot] = line[setup[p].slot]
        BY <3>4, <3>6
      <3> QED BY <1>1, <3>1, <3>3, <3>51, <3>52, <3>7 DEF AloneHolds, AtTwilio, LinesOf
    <2>11. OwnersReached'
      <3> SUFFICES ASSUME NEW n \in TwilioNumbers, NEW f \in Firms,
                          line'[<<f, "twilio">>].account = n, n \notin trouble', Settled(n)'
                   PROVE  route[n] = f
        BY <1>1 DEF OwnersReached
      <3>1. <<f, "twilio">> \in Slots /\ <<f, "twilio">>[2] = "twilio" /\ <<f, "twilio">>[1] = f
        BY SlotsAre
      <3>2. n \notin trouble /\ n # None /\ n # Null
        BY <2>1, SetupAssumption DEF None, Null
      <3>3. CASE <<f, "twilio">> = q.slot
        <4>1. q.account = n /\ AtTwilio(r)
          BY <1>2, <2>5, <2>7, <3>1, <3>2, <3>3 DEF SetupRequests, AtTwilio
        <4>2. setup[r].alone
          BY <1>3, <2>1, <4>1
        <4>3. AloneHolds(r)
          BY DEF SetupInv
        <4> QED BY <1>1, <1>2, <3>1, <3>3, <4>1, <4>2, <4>3 DEF AloneHolds
      <3>4. CASE <<f, "twilio">> # q.slot
        <4>1. line[<<f, "twilio">>].account = n
          BY <2>7, <3>1, <3>4
        <4>2. q.account # n
          BY <1>5, <3>1, <3>2, <3>4, <4>1 DEF Free, Owners
        <4>3. Settled(n)
          BY <2>8, <4>2 DEF Settled, AtTwilio
        <4> QED BY <3>2, <4>1, <4>3 DEF SetupInv, OwnersReached
      <3> QED BY <3>3, <3>4
    <2>12. SettingsAreMerged'
      <3> SUFFICES ASSUME NEW s \in Slots, s[1] \notin trouble'
                   PROVE  expected'[s] \subseteq line'[s].fields
        BY DEF SettingsAreMerged
      <3>1. expected[s] \subseteq line[s].fields
        BY <2>1 DEF SetupInv, SettingsAreMerged
      <3>2. CASE s # q.slot
        BY <2>7, <3>1, <3>2
      <3>3. CASE s = q.slot
        <4>1. setup[r].alone /\ LinesOf(q.slot[1]) \subseteq {q.slot} /\ AloneHolds(r)
          BY <2>1, <3>3 DEF SetupInv
        <4>2. CASE q.kind \in Replaces
          BY <2>7, <3>3, <4>2
        <4>3. CASE q.kind \notin Replaces
          <5>1. line'[s].fields = q.base \cup Added(q.kind)
            BY <2>5, <2>7, <3>3, <4>3 DEF Fields
          <5>2. q.kind \in {"order", "settings"}
            BY <2>3, <4>3 DEF Replaces
          <5>3. line[q.slot].account # None => q.base = line[q.slot].fields
            BY <1>2, <4>1, <5>2 DEF AloneHolds
          <5> QED BY <2>7, <3>1, <3>3, <4>3, <5>1, <5>3
        <4> QED BY <4>2, <4>3
      <3> QED BY <3>2, <3>3
    <2> QED BY <2>9, <2>10, <2>11, <2>12 DEF SetupInv
  <1> QED BY <1>4, <1>5

(* server.ts, the telephone routes; repository.ts, upsertChannelConnection:
   the calls of a number go to the tenant whose connection has the number,
   and saved settings stay when other parts are saved later, unless setups
   were refused, interrupted or overlapped. *)
THEOREM SetupsStayRight == SetupSpec => []SetupsHold
  <1>1. SetupInit => SetupInv
    BY SetupStarts
  <1>2. SetupInv /\ [SetupNext]_setupVars => SetupInv'
    <2> SUFFICES ASSUME SetupInv, [SetupNext]_setupVars PROVE SetupInv'
      OBVIOUS
    <2>1. CASE \E r \in Setups, f \in Firms, n \in TwilioNumbers : Buy(r, f, n) \/ Connect(r, f, n)
      BY <2>1, TwilioBegins
    <2>2. CASE \E r \in Setups, f \in Firms : OrderNumber(r, f) \/ ChangeSettings(r, f)
      BY <2>2, OrderBegins, SettingsBegin
    <2>3. CASE \E r \in Setups : TwilioBuy(r) \/ TwilioConnect(r)
      BY <2>3, TwilioStep
    <2>4. CASE \E r \in Setups : SaveSetup(r)
      BY <2>4, SaveStep
    <2>5. CASE \E r \in Setups : Abandon(r)
      BY <2>5, AbandonStep
    <2>6. CASE \E r \in Setups, slot \in Slots : Put(r, slot)
      BY <2>6, PutBegins
    <2>7. CASE UNCHANGED setupVars
      <3>1. UNCHANGED <<line, route, setup, expected, trouble>>
        BY <2>7 DEF setupVars
      <3> QED BY <3>1 DEF SetupInv, SetupTypes, AloneHolds, AtTwilio, Runs, LinesOf, OwnersReached, Settled,
                          SettingsAreMerged
    <2> QED BY <2>1, <2>2, <2>3, <2>4, <2>5, <2>6, <2>7 DEF SetupNext
  <1>3. SetupInv => SetupsHold
    <2> SUFFICES ASSUME SetupInv, NEW n \in TwilioNumbers, NEW f \in Firms,
                        line[<<f, "twilio">>].account = n, n \notin trouble,
                        \A r \in Setups : setup[r].account # n
                 PROVE  route[n] = f
      BY DEF SetupsHold, CallsReachOwner, SetupInv
    <2>1. Settled(n)
      BY DEF Settled
    <2> QED BY <2>1 DEF SetupInv, OwnersReached
  <1> QED BY <1>1, <1>2, <1>3, PTL DEF SetupSpec

-----------------------------------------------------------------------------
(* The panels of the admin console (AdminConsole) *)

Contents == [of : Projects, stray : BOOLEAN]
Flights == [panel : Panels \cup {"dashboard"}, of : Projects, stray : BOOLEAN, more : BOOLEAN,
            newest : BOOLEAN]
NewLoads == [panel : Panels \cup {"dashboard"}, of : Projects, stray : BOOLEAN, more : BOOLEAN]
Works == [kind : Handlers, of : Projects, at : {"request", "loads"}]

ConsoleTypes ==
    /\ selected \in Projects \cup {"none"}
    /\ shown \in [Panels -> SUBSET Contents]
    /\ flights \subseteq Flights
    /\ saving \in Works \cup {Resting}

(* What fills a panel when it arrives is the tenant's, or came over a gap. *)
FlightsFit(F, t) == \A f \in F : Counts(f) => f.of = t \/ f.stray
ShownFits == \A p \in Panels \ KeptPanels : \A c \in shown[p] : c.of = selected \/ c.stray
ImportsFit == \A i \in imported : i.from.of = i.to \/ i.from.stray

(* The invariant. *)
ConsoleInv ==
    /\ ConsoleTypes
    /\ FlightsFit(flights, selected)
    /\ ShownFits
    /\ ImportsFit

(* At first nobody is signed in. *)
LEMMA ConsoleStarts == ConsoleInit => ConsoleInv
  BY DEF ConsoleInit, ConsoleInv, ConsoleTypes, FlightsFit, ShownFits, ImportsFit, Empty, Resting

(* Loads that begin, for the selected tenant or over a gap. *)
LEMMA LoadsBegin ==
  ASSUME NEW F \in SUBSET Flights, NEW loads \in SUBSET NewLoads, NEW t,
         \A f \in F : (Counts(f) /\ ~\E l \in loads : l.panel = f.panel /\ f.panel \in Numbered \cup {"dashboard"})
                         => f.of = t \/ f.stray,
         \A l \in loads : l.of = t \/ l.stray
  PROVE  BeginLoads(F, loads) \subseteq Flights /\ FlightsFit(BeginLoads(F, loads), t)
  <1> DEFINE no == FALSE
             yes == TRUE
             Past(f) == [f EXCEPT !.newest = no]
             New(l) == [panel |-> l.panel, of |-> l.of, stray |-> l.stray, more |-> l.more,
                        newest |-> yes]
  <1>1. no \in BOOLEAN /\ yes \in BOOLEAN
    OBVIOUS
  <1>2. \A f \in BeginLoads(F, loads) :
           \/ f \in F /\ ~\E l \in loads : l.panel = f.panel
           \/ \E g \in F : f = Past(g) /\ \E l \in loads : l.panel = g.panel
           \/ \E l \in loads : f = New(l)
    BY DEF BeginLoads
  <1> HIDE DEF no, yes
  <1>3. \A g \in F : /\ Past(g) \in Flights /\ Past(g).panel = g.panel /\ Past(g).of = g.of
    BY <1>1 DEF Flights
  <1>4. \A g \in F : Past(g).stray = g.stray
    BY <1>1 DEF Flights
  <1>5. \A g \in F : ~Past(g).newest
    <2>1. \A g \in F : Past(g).newest = no
      BY <1>1 DEF Flights
    <2> QED BY <2>1 DEF no
  <1>6. \A l \in loads : New(l) \in Flights /\ New(l).of = l.of
    BY <1>1 DEF Flights, NewLoads
  <1>7. \A l \in loads : New(l).stray = l.stray
    OBVIOUS
  <1> HIDE DEF Past, New
  <1> SUFFICES ASSUME NEW f \in BeginLoads(F, loads)
               PROVE  f \in Flights /\ (Counts(f) => f.of = t \/ f.stray)
    BY DEF FlightsFit
  <1>8. CASE f \in F /\ ~\E l \in loads : l.panel = f.panel
    BY <1>8
  <1>9. CASE \E g \in F : f = Past(g) /\ \E l \in loads : l.panel = g.panel
    <2>1. PICK g \in F : f = Past(g) /\ \E l \in loads : l.panel = g.panel
      BY <1>9
    <2>2. f \in Flights /\ f.panel = g.panel /\ f.of = g.of
      BY <1>3, <2>1
    <2>3. ~f.newest /\ (g.stray => f.stray)
      BY <1>4, <1>5, <2>1
    <2>4. Counts(f) => g.panel \notin Numbered \cup {"dashboard"} /\ Counts(g)
      BY <2>2, <2>3 DEF Counts
    <2> QED BY <2>2, <2>3, <2>4
  <1>10. CASE \E l \in loads : f = New(l)
    BY <1>6, <1>7, <1>10
  <1> QED BY <1>2, <1>8, <1>9, <1>10

(* The loads of a tenant's panels are of that tenant. *)
LEMMA LoadsAre ==
  ASSUME NEW ps \in SUBSET (Panels \cup {"dashboard"}), NEW t \in Projects, NEW astray \in BOOLEAN
  PROVE  /\ Loads(ps, t, astray) \in SUBSET NewLoads
         /\ \A l \in Loads(ps, t, astray) : l.of = t /\ (astray => l.stray)
         /\ \A p \in ps : \E l \in Loads(ps, t, astray) : l.panel = p
  <1> DEFINE no == FALSE
             Load(p) == [panel |-> p, of |-> t, stray |-> astray, more |-> no]
  <1>1. no \in BOOLEAN
    OBVIOUS
  <1>2. \A l : l \in Loads(ps, t, astray) <=> \E p \in ps : l = Load(p)
    BY DEF Loads
  <1> HIDE DEF no
  <1>3. \A p \in ps : Load(p) \in NewLoads /\ Load(p).of = t /\ Load(p).panel = p
    BY <1>1 DEF NewLoads
  <1>4. \A p \in ps : Load(p).stray = astray
    OBVIOUS
  <1> HIDE DEF Load
  <1> QED BY <1>2, <1>3, <1>4

(* Loads under way when the tenant changes are over a gap, but for the panels
   that are loaded again. *)
LEMMA StrayingFits ==
  ASSUME NEW F \in SUBSET Flights, NEW t, NEW reloaded
  PROVE  /\ Straying(F, t, reloaded) \in SUBSET Flights
         /\ \A f \in Straying(F, t, reloaded) : f.panel \notin reloaded => f.of = t \/ f.stray
  <1> DEFINE Strays(f) == f.stray \/ (f.of # t /\ f.panel \notin reloaded)
             Row(f) == [f EXCEPT !.stray = Strays(f)]
  <1>1. \A g \in F : Strays(g) \in BOOLEAN
    BY DEF Flights
  <1>2. \A f \in Straying(F, t, reloaded) : \E g \in F : f = Row(g)
    <2> SUFFICES ASSUME NEW f \in Straying(F, t, reloaded) PROVE \E g \in F : f = Row(g)
      OBVIOUS
    <2>1. PICK g \in F : f = [g EXCEPT !.stray = g.stray \/ (g.of # t /\ g.panel \notin reloaded)]
      BY DEF Straying
    <2> QED BY <2>1
  <1>3. \A g \in F : Strays(g) \/ g.panel \in reloaded \/ g.of = t
    OBVIOUS
  <1> HIDE DEF Strays
  <1>4. \A g \in F : Row(g) \in Flights /\ Row(g).of = g.of /\ Row(g).panel = g.panel
    BY <1>1 DEF Flights
  <1>5. \A g \in F : Row(g).stray = Strays(g)
    BY <1>1 DEF Flights
  <1> HIDE DEF Row
  <1> QED BY <1>2, <1>3, <1>4, <1>5

(* Selecting a tenant drops its predecessor's panels and loads its own. *)
LEMMA SelectKeeps ==
  ASSUME ConsoleInv, NEW t \in Projects, Select(t)
  PROVE  ConsoleInv'
  <1> DEFINE now == {"dashboard"} \cup TabPanels(openTab) \cup (KeptPanels \cap Panels)
             reloaded == now \cap (Numbered \cup {"dashboard"})
             old == Straying(flights, t, reloaded)
             loads == Loads(now, t, FALSE)
  <1>1. /\ selected' = t /\ shown' = Emptied /\ UNCHANGED <<saving, imported>>
        /\ flights' = BeginLoads(old, loads)
    BY DEF Select
  <1>2. ConsoleTypes
    BY DEF ConsoleInv
  <1>3. now \subseteq Panels \cup {"dashboard"}
    BY DEF TabPanels
  <1>4. \E astray \in BOOLEAN : loads = Loads(now, t, astray)
    OBVIOUS
  <1> HIDE DEF now, loads
  <1>5. /\ loads \in SUBSET NewLoads /\ \A l \in loads : l.of = t
        /\ \A p \in now : \E l \in loads : l.panel = p
    BY <1>3, <1>4, LoadsAre
  <1>6. old \in SUBSET Flights /\ \A f \in old : f.panel \notin reloaded => f.of = t \/ f.stray
    BY <1>2, StrayingFits DEF ConsoleTypes
  <1> HIDE DEF old
  <1>7. \A f \in old : (Counts(f) /\ ~\E l \in loads : l.panel = f.panel /\ f.panel \in Numbered \cup {"dashboard"})
                         => f.of = t \/ f.stray
    BY <1>5, <1>6
  <1>8. flights' \subseteq Flights /\ FlightsFit(flights', t)
    BY <1>1, <1>5, <1>6, <1>7, LoadsBegin
  <1>9. shown' \in [Panels -> SUBSET Contents] /\ \A p \in Panels \ KeptPanels : shown'[p] = {}
    BY <1>1, <1>2 DEF Emptied, ConsoleTypes
  <1>10. ConsoleTypes'
    BY <1>1, <1>2, <1>8, <1>9 DEF ConsoleTypes
  <1> QED BY <1>1, <1>8, <1>9, <1>10 DEF ConsoleInv, ShownFits, ImportsFit, FlightsFit, Counts

(* Signing out drops everything. *)
LEMMA LogoutKeeps ==
  ASSUME ConsoleInv, Logout
  PROVE  ConsoleInv'
  <1>1. /\ selected' = "none" /\ shown' = Empty /\ flights' = Straying(flights, "none", {})
        /\ UNCHANGED <<saving, imported>>
    BY DEF Logout
  <1>2. ConsoleTypes
    BY DEF ConsoleInv
  <1>3. flights' \in SUBSET Flights /\ \A f \in flights' : f.of = "none" \/ f.stray
    BY <1>1, <1>2, StrayingFits DEF ConsoleTypes
  <1>4. shown' \in [Panels -> SUBSET Contents] /\ \A p \in Panels : shown'[p] = {}
    BY <1>1 DEF Empty
  <1> QED BY <1>1, <1>2, <1>3, <1>4 DEF ConsoleInv, ConsoleTypes, ShownFits, ImportsFit, FlightsFit

(* A step that only begins loads of the selected tenant. *)
LEMMA LoadingKeeps ==
  ASSUME ConsoleInv, NEW loads \in SUBSET NewLoads, \A l \in loads : l.of = selected \/ l.stray,
         flights' = BeginLoads(flights, loads), UNCHANGED <<selected, imported>>,
         saving' \in Works \cup {Resting}, shown' \in [Panels -> SUBSET Contents], ShownFits'
  PROVE  ConsoleInv'
  <1>1. flights \in SUBSET Flights /\ FlightsFit(flights, selected)
    BY DEF ConsoleInv, ConsoleTypes
  <1>2. flights' \subseteq Flights /\ FlightsFit(flights', selected)
    BY <1>1, LoadsBegin DEF FlightsFit
  <1>3. ConsoleTypes'
    BY <1>2 DEF ConsoleInv, ConsoleTypes
  <1> QED BY <1>2, <1>3 DEF ConsoleInv, ImportsFit, FlightsFit, Counts

(* A tab loads its panels. *)
LEMMA TabKeeps ==
  ASSUME ConsoleInv, NEW t, OpenTab(t)
  PROVE  ConsoleInv'
  <1> DEFINE loads == Loads(TabPanels(t), selected, FALSE)
  <1>1. /\ selected \in Projects /\ flights' = BeginLoads(flights, loads)
        /\ UNCHANGED <<selected, shown, saving, imported>>
    BY DEF OpenTab, ConsoleInv, ConsoleTypes
  <1>2. TabPanels(t) \subseteq Panels \cup {"dashboard"}
    BY DEF TabPanels
  <1>3. \E astray \in BOOLEAN : loads = Loads(TabPanels(t), selected, astray)
    OBVIOUS
  <1> HIDE DEF loads
  <1>4. loads \in SUBSET NewLoads /\ \A l \in loads : l.of = selected
    BY <1>1, <1>2, <1>3, LoadsAre
  <1>5. /\ saving' \in Works \cup {Resting} /\ shown' \in [Panels -> SUBSET Contents] /\ ShownFits'
    BY <1>1 DEF ConsoleInv, ConsoleTypes, ShownFits
  <1> QED BY <1>1, <1>4, <1>5, LoadingKeeps

(* A panel is loaded again, or more of it. *)
LEMMA ReloadKeeps ==
  ASSUME ConsoleInv, NEW p \in Panels, NEW more \in BOOLEAN, ReloadPanel(p, more)
  PROVE  ConsoleInv'
  <1> DEFINE no == FALSE
             load == [panel |-> p, of |-> selected, stray |-> no, more |-> more]
  <1>1. /\ selected \in Projects /\ flights' = BeginLoads(flights, {load})
        /\ UNCHANGED <<selected, shown, saving, imported>>
    BY DEF ReloadPanel, ConsoleInv, ConsoleTypes
  <1>2. no \in BOOLEAN
    OBVIOUS
  <1> HIDE DEF no
  <1>3. load \in NewLoads /\ load.of = selected
    BY <1>1, <1>2 DEF NewLoads
  <1> HIDE DEF load
  <1>4. /\ saving' \in Works \cup {Resting} /\ shown' \in [Panels -> SUBSET Contents] /\ ShownFits'
    BY <1>1 DEF ConsoleInv, ConsoleTypes, ShownFits
  <1>5. {load} \in SUBSET NewLoads /\ \A l \in {load} : l.of = selected \/ l.stray
    BY <1>3
  <1> QED BY <1>1, <1>4, <1>5, LoadingKeeps

(* What is saved is loaded again. *)
LEMMA SavedKeeps ==
  ASSUME ConsoleInv, Saved
  PROVE  ConsoleInv'
  <1> DEFINE strays == saving.of # selected
             loads == Loads(Reloads(saving.kind), saving.of, strays)
             cell == [of |-> saving.of, stray |-> strays]
  <1>1. /\ flights' = BeginLoads(flights, loads) /\ UNCHANGED <<selected, imported>>
        /\ saving' = [saving EXCEPT !.at = "loads"]
        /\ shown' = IF saving.kind = "website" THEN [shown EXCEPT !["website"] = {cell}] ELSE shown
    BY DEF Saved
  <1>2. ConsoleTypes /\ ShownFits
    BY DEF ConsoleInv
  <1>3. saving \in Works
    BY <1>2 DEF ConsoleTypes, Saved, Resting
  <1>4. Reloads(saving.kind) \subseteq Panels \cup {"dashboard"} /\ strays \in BOOLEAN
        /\ (~strays => saving.of = selected) /\ saving.of \in Projects
    BY <1>3 DEF Reloads, Works
  <1> HIDE DEF strays
  <1>5. loads \in SUBSET NewLoads /\ \A l \in loads : l.of = saving.of /\ (strays => l.stray)
    BY <1>4, LoadsAre
  <1>6. \A l \in loads : l.of = selected \/ l.stray
    BY <1>4, <1>5
  <1> HIDE DEF loads
  <1>7. saving' \in Works \cup {Resting}
    BY <1>1, <1>3 DEF Works
  <1>8. cell \in Contents /\ cell.of = saving.of
    BY <1>4 DEF Contents
  <1>9. cell.stray = strays
    OBVIOUS
  <1>10. cell.of = selected \/ cell.stray
    BY <1>4, <1>8, <1>9
  <1> HIDE DEF cell
  <1>11. shown' \in [Panels -> SUBSET Contents] /\ ShownFits'
    <2>1. CASE saving.kind = "website"
      <3>1. shown' = [shown EXCEPT !["website"] = {cell}]
        BY <1>1, <2>1
      <3>2. shown' \in [Panels -> SUBSET Contents]
        BY <1>2, <1>8, <3>1 DEF ConsoleTypes
      <3>3. \A p \in Panels : shown'[p] = IF p = "website" THEN {cell} ELSE shown[p]
        BY <1>2, <3>1 DEF ConsoleTypes
      <3> QED BY <1>1, <1>2, <1>10, <3>2, <3>3 DEF ShownFits
    <2>2. CASE saving.kind # "website"
      BY <1>1, <1>2, <2>2 DEF ConsoleTypes, ShownFits
    <2> QED BY <2>1, <2>2
  <1> QED BY <1>1, <1>5, <1>6, <1>7, <1>11, LoadingKeeps

(* A reply that arrives, or fails to. *)
LEMMA ArrivesKeeps ==
  ASSUME ConsoleInv, NEW f \in flights, LoadArrives(f)
  PROVE  ConsoleInv'
  <1>1. ConsoleTypes /\ ShownFits /\ f \in Flights /\ flights' \subseteq flights
        /\ UNCHANGED <<selected, saving, imported>>
    BY DEF ConsoleInv, ConsoleTypes, LoadArrives
  <1> DEFINE cell == [of |-> f.of, stray |-> f.stray]
  <1>2. cell \in Contents /\ cell.of = f.of
    BY <1>1 DEF Contents, Flights
  <1>3. cell.stray = f.stray
    OBVIOUS
  <1>4. Counts(f) => cell.of = selected \/ cell.stray
    BY <1>2, <1>3 DEF ConsoleInv, FlightsFit
  <1>5. shown' =
          IF ~Counts(f) THEN shown
          ELSE IF f.panel = "dashboard"
          THEN [p \in Panels |-> IF p \in NotOnDashboard THEN shown[p] ELSE {cell}]
          ELSE [shown EXCEPT ![f.panel] = (IF f.more THEN shown[f.panel] ELSE {}) \cup {cell}]
    BY DEF LoadArrives, Content
  <1> HIDE DEF cell
  <1>6. shown' \in [Panels -> SUBSET Contents] /\ ShownFits'
    <2>1. CASE ~Counts(f)
      BY <1>1, <1>5, <2>1 DEF ConsoleTypes, ShownFits
    <2>2. CASE Counts(f) /\ f.panel = "dashboard"
      <3>1. shown' = [p \in Panels |-> IF p \in NotOnDashboard THEN shown[p] ELSE {cell}]
        BY <1>5, <2>2
      <3> QED BY <1>1, <1>2, <1>4, <2>2, <3>1 DEF ConsoleTypes, ShownFits
    <2>3. CASE Counts(f) /\ f.panel # "dashboard"
      <3> DEFINE more == (IF f.more THEN shown[f.panel] ELSE {}) \cup {cell}
      <3>1. shown' = [shown EXCEPT ![f.panel] = more]
        BY <1>5, <2>3
      <3>2. f.panel \in Panels /\ shown[f.panel] \subseteq Contents
        BY <1>1, <2>3 DEF Flights, ConsoleTypes
      <3>3. more \subseteq shown[f.panel] \cup {cell}
        OBVIOUS
      <3> HIDE DEF more
      <3>4. shown' \in [Panels -> SUBSET Contents]
            /\ \A p \in Panels : shown'[p] = IF p = f.panel THEN more ELSE shown[p]
        BY <1>1, <1>2, <3>1, <3>2, <3>3 DEF ConsoleTypes
      <3> QED BY <1>1, <1>4, <2>3, <3>2, <3>3, <3>4 DEF ShownFits
    <2> QED BY <2>1, <2>2, <2>3
  <1> QED BY <1>1, <1>6 DEF ConsoleInv, ConsoleTypes, FlightsFit, ImportsFit, Counts

(* A reply that fails to arrive shows nothing. *)
LEMMA FailsKeeps ==
  ASSUME ConsoleInv, NEW f \in flights, FailToArrive(f)
  PROVE  ConsoleInv'
  <1>1. ConsoleTypes /\ ShownFits /\ f \in Flights /\ flights' \subseteq flights
        /\ UNCHANGED <<selected, saving, imported>>
    BY DEF ConsoleInv, ConsoleTypes, FailToArrive
  <1>2. \A p \in Panels : shown[p] \subseteq Contents
    BY <1>1 DEF ConsoleTypes
  <1>3. /\ shown' \in [Panels -> SUBSET Contents]
        /\ \A p \in Panels : shown'[p] \subseteq shown[p]
    <2>1. CASE f.panel = "dashboard" /\ Counts(f)
      <3>1. shown' = [Emptied EXCEPT !["website"] = shown["website"]]
        BY <2>1 DEF FailToArrive, EmptiedByError
      <3>2. /\ DOMAIN shown' = Panels
            /\ \A p \in Panels : shown'[p] = IF p = "website" THEN shown[p] ELSE Emptied[p]
            /\ shown' = [p \in Panels |-> shown'[p]]
        BY <3>1 DEF Emptied
      <3> QED BY <1>2, <3>2 DEF Emptied
    <2>2. CASE ~(f.panel = "dashboard" /\ Counts(f)) /\ f.panel \in EmptiedByError
      <3>1. shown' = [shown EXCEPT ![f.panel] = {}]
        BY <2>2 DEF FailToArrive
      <3> QED BY <1>1, <3>1 DEF ConsoleTypes
    <2>3. CASE ~(f.panel = "dashboard" /\ Counts(f)) /\ f.panel \notin EmptiedByError
      <3>1. shown' = shown
        BY <2>3 DEF FailToArrive
      <3> QED BY <1>1, <3>1 DEF ConsoleTypes
    <2> QED BY <2>1, <2>2, <2>3
  <1> QED BY <1>1, <1>3 DEF ConsoleInv, ConsoleTypes, FlightsFit, ImportsFit, ShownFits, Counts

(* A button works on what is shown. *)
LEMMA PressKeeps ==
  ASSUME ConsoleInv, NEW kind \in Handlers, Press(kind)
  PROVE  ConsoleInv'
  <1>1. ConsoleTypes /\ ShownFits /\ ImportsFit /\ selected \in Projects
        /\ UNCHANGED <<selected, openTab, shown, flights>>
        /\ saving' = [kind |-> kind, of |-> selected, at |-> "request"]
        /\ imported' = IF kind = "import"
                       THEN imported \cup {[from |-> c, to |-> selected] : c \in shown["website"]}
                       ELSE imported
    BY DEF ConsoleInv, ConsoleTypes, Press
  <1>2. ConsoleTypes'
    BY <1>1 DEF ConsoleTypes, Works
  <1>3. kind = "import" => \A c \in shown["website"] : c.of = selected \/ c.stray
    BY <1>1, ConsoleAssumption DEF ShownFits, KeptPanels
  <1>4. ImportsFit'
    <2> SUFFICES ASSUME NEW i \in imported' PROVE i.from.of = i.to \/ i.from.stray
      BY DEF ImportsFit
    <2>1. CASE i \in imported
      BY <1>1, <2>1 DEF ImportsFit
    <2>2. CASE kind = "import" /\ \E c \in shown["website"] : i = [from |-> c, to |-> selected]
      <3>1. PICK c \in shown["website"] : i = [from |-> c, to |-> selected]
        BY <2>2
      <3>2. i.from = c /\ i.to = selected
        BY <3>1
      <3> QED BY <1>3, <2>2, <3>2
    <2> QED BY <1>1, <2>1, <2>2
  <1> QED BY <1>1, <1>2, <1>4 DEF ConsoleInv, FlightsFit, ShownFits, Counts

(* page.tsx, refreshWorkspace and the handlers: with replies in any order,
   failures, tabs and searches, a panel shows the selected tenant's data, and
   an import takes that tenant's answers, but for what came over the gaps of
   the code that AdminConsole names. *)
THEOREM OnlyGapsMix == ConsoleSpec => []OnlyStragglersMix
  <1>1. ConsoleInit => ConsoleInv
    BY ConsoleStarts
  <1>2. ConsoleInv /\ [ConsoleNext]_consoleVars => ConsoleInv'
    <2> SUFFICES ASSUME ConsoleInv, [ConsoleNext]_consoleVars PROVE ConsoleInv'
      OBVIOUS
    <2>1. CASE \E t \in Projects : Select(t)
      BY <2>1, SelectKeeps
    <2>2. CASE \E t \in {"home", "knowledge"} : OpenTab(t)
      BY <2>2, TabKeeps
    <2>3. CASE \E p \in Panels, more \in BOOLEAN : ReloadPanel(p, more)
      BY <2>3, ReloadKeeps
    <2>4. CASE \E f \in flights : LoadArrives(f)
      BY <2>4, ArrivesKeeps
    <2>5. CASE \E f \in flights : FailToArrive(f)
      BY <2>5, FailsKeeps
    <2>6. CASE \E kind \in Handlers : Press(kind)
      BY <2>6, PressKeeps
    <2>7. CASE Logout
      BY <2>7, LogoutKeeps
    <2>8. CASE Saved
      BY <2>8, SavedKeeps
    <2>9. CASE RefusedSave \/ Unbusy
      BY <2>9 DEF RefusedSave, Unbusy, ConsoleInv, ConsoleTypes, FlightsFit, ShownFits, ImportsFit, Counts
    <2>10. CASE UNCHANGED consoleVars
      BY <2>10 DEF consoleVars, ConsoleInv, ConsoleTypes, FlightsFit, ShownFits, ImportsFit, Counts
    <2> QED BY <2>1, <2>2, <2>3, <2>4, <2>5, <2>6, <2>7, <2>8, <2>9, <2>10 DEF ConsoleNext
  <1>3. ConsoleInv => OnlyStragglersMix
    BY DEF ConsoleInv, ShownFits, ImportsFit, OnlyStragglersMix
  <1> QED BY <1>1, <1>2, <1>3, PTL DEF ConsoleSpec
-----------------------------------------------------------------------------
(* The operator's replies (OperatorReplies) *)

LetterStates == {"idle", "refused", "read", "held", "sent", "filed", "answered", "cut"}

LetterRows ==
    [at : LetterStates, read : Int, status : {"none", "sent", "skipped", "failed", "retryable"},
     reached : Int, again : BOOLEAN, filed : BOOLEAN]

DialogRows ==
    [exists : BOOLEAN, source : Sources, paused : BOOLEAN, owner : Letters \cup {NoOne},
     first : Int, inbound : Int]

NoteRows ==
    [at : {"idle", "looked", "lost", "kept", "asked", "answered"}, paused : BOOLEAN,
     late : BOOLEAN]

(* The types; nothing is stamped later than it is. *)
OperatorTypes ==
    /\ hour \in Nat
    /\ dialog \in DialogRows
    /\ letter \in [Letters -> LetterRows]
    /\ note \in [Notes -> NoteRows]
    /\ holding \subseteq Letters
    /\ -1 <= dialog.first /\ dialog.first <= hour
    /\ -1 <= dialog.inbound /\ dialog.inbound <= hour

(* What a request read is no later than the last message stored, and the reply
   that was sent on it was in the window of what it read. *)
LetterInTime(l) ==
    /\ -1 <= letter[l].read /\ letter[l].read <= dialog.inbound
    /\ letter[l].at \in {"read", "held"} => dialog.source # "telephone"
    /\ letter[l].reached # Never /\ ~letter[l].again /\ dialog.source # "website" =>
          \/ letter[l].read = Never /\ dialog.source = "messenger"
          \/ letter[l].read # Never /\ letter[l].reached - letter[l].read <= Window

(* A reply reaches nobody before it is sent, and who is answered has it filed. *)
LetterFiled(l) ==
    /\ letter[l].reached # Never => letter[l].at \in {"sent", "filed", "answered", "cut"}
    /\ letter[l].at = "answered" => letter[l].filed
    /\ letter[l].filed => letter[l].at = "answered"
    /\ letter[l].reached # Never /\ l \in holding => dialog.first <= letter[l].reached

(* Who holds the conversation has paused it and stamped its first response. *)
HeldIsPaused ==
    holding # {} =>
        /\ 0 <= dialog.first
        /\ dialog.exists => dialog.paused /\ dialog.owner # NoOne

(* A message is late only if the conversation it found was paused. *)
NoteIsQuiet(n) ==
    /\ note[n].at = "looked" /\ note[n].late => note[n].paused
    /\ note[n].at \in {"asked", "answered"} => ~note[n].late

OperatorInv ==
    /\ OperatorTypes
    /\ \A l \in Letters : LetterInTime(l) /\ LetterFiled(l)
    /\ HeldIsPaused
    /\ \A n \in Notes : NoteIsQuiet(n)

(* Nothing has happened yet. *)
LEMMA OperatorStarts == OperatorInit => OperatorInv
  <1> SUFFICES ASSUME OperatorInit PROVE OperatorInv
    OBVIOUS
  <1>1. dialog \in DialogRows /\ dialog.first = -1 /\ dialog.inbound = -1
    <2>1. dialog.exists = TRUE /\ dialog.paused = FALSE /\ dialog.owner = NoOne
          /\ dialog.first = -1 /\ dialog.inbound = -1 /\ dialog.source \in Sources
      BY DEF OperatorInit, Never
    <2>2. dialog = [exists |-> dialog.exists, source |-> dialog.source, paused |-> dialog.paused,
                    owner |-> dialog.owner, first |-> dialog.first, inbound |-> dialog.inbound]
      BY DEF OperatorInit
    <2>3. dialog.first \in Int /\ dialog.inbound \in Int /\ dialog.owner \in Letters \cup {NoOne}
      BY <2>1
    <2>4. dialog.exists \in BOOLEAN /\ dialog.paused \in BOOLEAN
      BY <2>1, Zenon
    <2> QED BY <2>1, <2>2, <2>3, <2>4 DEF DialogRows
  <1>2. NoLetter \in LetterRows /\ NoNote \in NoteRows
    BY DEF NoLetter, NoNote, LetterRows, LetterStates, NoteRows, Never
  <1>3. \A l \in Letters : letter[l] = NoLetter
    BY DEF OperatorInit
  <1>4. \A n \in Notes : note[n] = NoNote
    BY DEF OperatorInit
  <1>5. OperatorTypes
    BY <1>1, <1>2 DEF OperatorInit, OperatorTypes
  <1>6. \A l \in Letters : LetterInTime(l) /\ LetterFiled(l)
    BY <1>1, <1>3 DEF LetterInTime, LetterFiled, NoLetter, Never
  <1>7. HeldIsPaused /\ \A n \in Notes : NoteIsQuiet(n)
    BY <1>4 DEF OperatorInit, HeldIsPaused, NoteIsQuiet, NoNote
  <1> QED BY <1>5, <1>6, <1>7 DEF OperatorInv

(* What a step makes of one letter, and leaves of everything else. *)
Becomes(l, row) ==
    /\ letter' = [letter EXCEPT ![l] = row]
    /\ row \in LetterRows
    /\ UNCHANGED <<hour, dialog, note, holding>>

(* The invariant is kept when it holds of what the letter becomes. *)
LEMMA LetterKeeps ==
  ASSUME OperatorInv, NEW l \in Letters, NEW row \in LetterRows, Becomes(l, row),
         -1 <= row.read, row.read <= dialog.inbound,
         row.at \in {"read", "held"} => dialog.source # "telephone",
         row.reached # Never /\ ~row.again /\ dialog.source # "website" =>
            \/ row.read = Never /\ dialog.source = "messenger"
            \/ row.read # Never /\ row.reached - row.read <= Window,
         row.reached # Never => row.at \in {"sent", "filed", "answered", "cut"},
         row.at = "answered" => row.filed, row.filed => row.at = "answered",
         row.reached # Never /\ l \in holding => dialog.first <= row.reached
  PROVE  OperatorInv'
  <1>1. /\ letter' \in [Letters -> LetterRows]
        /\ letter'[l] = row
        /\ \A x \in Letters : x # l => letter'[x] = letter[x]
        /\ UNCHANGED <<hour, dialog, note, holding>>
    BY DEF OperatorInv, OperatorTypes, Becomes
  <1>2. \A x \in Letters : LetterInTime(x)' /\ LetterFiled(x)'
    BY <1>1 DEF OperatorInv, LetterInTime, LetterFiled
  <1>3. OperatorTypes' /\ HeldIsPaused' /\ \A n \in Notes : NoteIsQuiet(n)'
    BY <1>1 DEF OperatorInv, OperatorTypes, HeldIsPaused, NoteIsQuiet
  <1> QED BY <1>2, <1>3 DEF OperatorInv

(* What the invariant says of one letter. *)
LEMMA LetterNow ==
  ASSUME OperatorInv, NEW l \in Letters
  PROVE  /\ letter \in [Letters -> LetterRows]
         /\ letter[l] \in LetterRows /\ dialog \in DialogRows /\ hour \in Nat
         /\ dialog.first <= hour /\ dialog.inbound <= hour
         /\ LetterInTime(l) /\ LetterFiled(l)
  BY DEF OperatorInv, OperatorTypes

(* The request, an await at a time. *)
LEMMA ReadKeeps ==
  ASSUME OperatorInv, NEW l \in Letters, ReadContext(l)
  PROVE  OperatorInv'
  <1> DEFINE state == IF dialog.exists /\ dialog.source # "telephone" THEN "read" ELSE "refused"
             row == [letter[l] EXCEPT !.at = state, !.read = dialog.inbound]
  <1>1. Becomes(l, row) /\ row \in LetterRows /\ letter[l].at = "idle"
    BY LetterNow DEF ReadContext, Becomes, LetterRows, LetterStates, DialogRows
  <1>2. /\ row.at = state /\ row.read = dialog.inbound /\ row.reached = letter[l].reached
        /\ row.filed = letter[l].filed /\ row.again = letter[l].again
    BY LetterNow DEF LetterRows
  <1>3. row.reached = Never /\ ~row.filed
    BY <1>1, <1>2, LetterNow DEF LetterFiled
  <1>4. -1 <= dialog.inbound
    BY LetterNow DEF LetterInTime, LetterRows, DialogRows
  <1> HIDE DEF row
  <1> QED BY <1>1, <1>2, <1>3, <1>4, LetterNow, LetterKeeps DEF DialogRows

(* A send ends in one of four ways, and reaches nobody unless it is allowed. *)
LEMMA SendsAre ==
  ASSUME NEW read, NEW outcome \in Sent(read)
  PROVE  /\ outcome[1] \in {"sent", "skipped", "failed", "retryable"}
         /\ outcome[2] \in BOOLEAN
         /\ outcome[2] => /\ FreeformAllowed(read) /\ dialog.source # "website"
                          /\ dialog.source = "whatsapp" => read # Never
  <1>1. \/ outcome \in {<<"skipped", FALSE>>, <<"failed", FALSE>>, <<"retryable", FALSE>>,
                        <<"sent", FALSE>>}
        \/ /\ outcome \in {<<"sent", TRUE>>, <<"retryable", TRUE>>}
           /\ FreeformAllowed(read) /\ dialog.source # "website"
           /\ dialog.source = "whatsapp" => read # Never
    BY DEF Sent
  <1>2. outcome[1] \in {"sent", "skipped", "failed", "retryable"}
    <2>1. <<"skipped", FALSE>>[1] = "skipped" /\ <<"failed", FALSE>>[1] = "failed"
          /\ <<"retryable", FALSE>>[1] = "retryable" /\ <<"sent", FALSE>>[1] = "sent"
          /\ <<"sent", TRUE>>[1] = "sent" /\ <<"retryable", TRUE>>[1] = "retryable"
      OBVIOUS
    <2> QED BY <1>1, <2>1, Zenon
  <1>3. outcome[2] \in BOOLEAN
    <2>1. <<"skipped", FALSE>>[2] = FALSE /\ <<"failed", FALSE>>[2] = FALSE
          /\ <<"retryable", FALSE>>[2] = FALSE /\ <<"sent", FALSE>>[2] = FALSE
          /\ <<"sent", TRUE>>[2] = TRUE /\ <<"retryable", TRUE>>[2] = TRUE
      OBVIOUS
    <2> QED BY <1>1, <2>1, Zenon
  <1>4. outcome[2] => /\ FreeformAllowed(read) /\ dialog.source # "website"
                      /\ dialog.source = "whatsapp" => read # Never
    <2>1. ~<<"skipped", FALSE>>[2] /\ ~<<"failed", FALSE>>[2]
          /\ ~<<"retryable", FALSE>>[2] /\ ~<<"sent", FALSE>>[2]
      OBVIOUS
    <2> QED BY <1>1, <2>1, Zenon
  <1> QED BY <1>2, <1>3, <1>4, Zenon

LEMMA SendKeeps ==
  ASSUME OperatorInv, NEW l \in Letters, SendLetter(l)
  PROVE  OperatorInv'
  <1>1. PICK outcome \in Sent(letter[l].read) :
           letter' = [letter EXCEPT ![l].at = "sent", ![l].status = outcome[1],
                                    ![l].reached = IF outcome[2] THEN hour ELSE Never]
    BY DEF SendLetter
  <1>2. outcome[1] \in {"sent", "skipped", "failed", "retryable"} /\ outcome[2] \in BOOLEAN
    BY SendsAre
  <1>3. outcome[2] => /\ FreeformAllowed(letter[l].read) /\ dialog.source # "website"
                      /\ dialog.source = "whatsapp" => letter[l].read # Never
    BY SendsAre
  <1> DEFINE time == IF outcome[2] THEN hour ELSE Never
             row == [letter[l] EXCEPT !.at = "sent", !.status = outcome[1], !.reached = time]
  <1>4. time \in Int /\ (time # Never => time = hour /\ outcome[2])
    BY LetterNow DEF Never
  <1>5. Becomes(l, row) /\ row \in LetterRows
    <2>1. letter' = [letter EXCEPT ![l] = row]
      BY <1>1, LetterNow DEF LetterRows
    <2>2. row \in LetterRows
      BY <1>2, <1>4, LetterNow DEF LetterRows, LetterStates
    <2> HIDE DEF row
    <2> QED BY <2>1, <2>2 DEF Becomes, SendLetter
  <1>6. /\ row.at = "sent" /\ row.read = letter[l].read /\ row.reached = time
        /\ row.again = letter[l].again /\ row.filed = letter[l].filed
    BY LetterNow DEF LetterRows
  <1>7. /\ -1 <= letter[l].read /\ letter[l].read <= dialog.inbound
    BY LetterNow DEF LetterInTime
  <1>8. dialog.source \in {"whatsapp", "messenger", "website", "telephone"}
    BY OperatorAssumption, LetterNow DEF DialogRows
  <1>9. letter[l].at = "held" /\ ~letter[l].filed /\ dialog.source # "telephone"
    BY LetterNow DEF SendLetter, LetterInTime, LetterFiled
  <1>10. time # Never /\ dialog.source # "website" =>
            \/ letter[l].read = Never /\ dialog.source = "messenger"
            \/ letter[l].read # Never /\ time - letter[l].read <= Window
    BY <1>3, <1>4, <1>8, <1>9 DEF FreeformAllowed
  <1> HIDE DEF row, time
  <1> QED BY <1>4, <1>5, <1>6, <1>7, <1>9, <1>10, LetterNow, LetterKeeps DEF DialogRows

LEMMA FileKeeps ==
  ASSUME OperatorInv, NEW l \in Letters, FileLetter(l)
  PROVE  OperatorInv'
  <1> DEFINE state == IF dialog.exists THEN "filed" ELSE "cut"
             time == IF dialog.exists /\ dialog.source = "website" THEN hour
                     ELSE letter[l].reached
             row == [letter[l] EXCEPT !.at = state, !.reached = time]
  <1>1. time \in Int /\ (time # letter[l].reached => time = hour /\ dialog.source = "website")
    BY LetterNow DEF LetterRows
  <1>2. Becomes(l, row) /\ row \in LetterRows
    <2>1. letter' = [letter EXCEPT ![l] = row]
      BY LetterNow DEF FileLetter, LetterRows
    <2>2. row \in LetterRows
      BY <1>1, LetterNow DEF LetterRows, LetterStates
    <2> HIDE DEF row
    <2> QED BY <2>1, <2>2 DEF Becomes, FileLetter
  <1>3. /\ row.at = state /\ row.read = letter[l].read /\ row.reached = time
        /\ row.again = letter[l].again /\ row.filed = letter[l].filed
    BY LetterNow DEF LetterRows
  <1>4. state \in {"filed", "cut"}
    OBVIOUS
  <1>5. LetterInTime(l) /\ LetterFiled(l) /\ dialog.first <= hour /\ ~letter[l].filed
    BY LetterNow DEF FileLetter, LetterFiled
  <1> HIDE DEF row, time, state
  <1>6. row.reached # Never /\ l \in holding => dialog.first <= row.reached
    BY <1>1, <1>3, <1>5 DEF LetterFiled
  <1>7. row.reached # Never /\ ~row.again /\ dialog.source # "website" =>
            \/ row.read = Never /\ dialog.source = "messenger"
            \/ row.read # Never /\ row.reached - row.read <= Window
    BY <1>1, <1>3, <1>5 DEF LetterInTime
  <1> QED BY <1>2, <1>3, <1>4, <1>5, <1>6, <1>7, LetterKeeps DEF LetterInTime

LEMMA AnswerKeeps ==
  ASSUME OperatorInv, NEW l \in Letters, AnswerOperator(l)
  PROVE  OperatorInv'
  <1> DEFINE state == IF dialog.exists THEN "answered" ELSE "cut"
             row == [letter[l] EXCEPT !.at = state, !.filed = dialog.exists]
  <1>1. dialog.exists \in BOOLEAN
    BY LetterNow DEF DialogRows
  <1>2. Becomes(l, row) /\ row \in LetterRows
    <2>1. letter' = [letter EXCEPT ![l] = row]
      BY LetterNow DEF AnswerOperator, LetterRows
    <2>2. row \in LetterRows
      BY <1>1, LetterNow DEF LetterRows, LetterStates
    <2> HIDE DEF row
    <2> QED BY <2>1, <2>2 DEF Becomes, AnswerOperator
  <1>3. /\ row.at = state /\ row.read = letter[l].read /\ row.reached = letter[l].reached
        /\ row.again = letter[l].again /\ row.filed = dialog.exists
    BY LetterNow DEF LetterRows
  <1>4. state \in {"answered", "cut"} /\ (state = "answered" => dialog.exists)
        /\ (dialog.exists => state = "answered")
    OBVIOUS
  <1>5. LetterInTime(l) /\ LetterFiled(l) /\ letter[l].at = "filed"
    BY LetterNow DEF AnswerOperator
  <1> HIDE DEF row, state
  <1> QED BY <1>2, <1>3, <1>4, <1>5, LetterKeeps DEF LetterInTime, LetterFiled

LEMMA CutKeeps ==
  ASSUME OperatorInv, NEW l \in Letters, CutLetter(l)
  PROVE  OperatorInv'
  <1> DEFINE row == [letter[l] EXCEPT !.at = "cut"]
  <1>1. Becomes(l, row) /\ row \in LetterRows
    BY LetterNow DEF CutLetter, Becomes, LetterRows, LetterStates
  <1>2. /\ row.at = "cut" /\ row.read = letter[l].read /\ row.reached = letter[l].reached
        /\ row.again = letter[l].again /\ row.filed = letter[l].filed
    BY LetterNow DEF LetterRows
  <1>3. LetterInTime(l) /\ LetterFiled(l) /\ ~letter[l].filed
    BY LetterNow DEF CutLetter, LetterFiled
  <1> HIDE DEF row
  <1> QED BY <1>1, <1>2, <1>3, LetterKeeps DEF LetterInTime, LetterFiled

(* A second try is a letter again. *)
LEMMA ResentIsLetter ==
  ASSUME NEW row \in LetterRows, NEW time \in Int, NEW again \in BOOLEAN
  PROVE  [row EXCEPT !.status = "sent", !.reached = time, !.again = again] \in LetterRows
  BY DEF LetterRows

LEMMA ResendKeeps ==
  ASSUME OperatorInv, NEW l \in Letters, ResendLetter(l)
  PROVE  OperatorInv'
  <1> DEFINE row == [letter[l] EXCEPT !.status = "sent", !.reached = hour, !.again = TRUE]
  <1>1. Becomes(l, row) /\ row \in LetterRows
    <2>1. letter' = [letter EXCEPT ![l] = row]
      BY LetterNow DEF ResendLetter, LetterRows
    <2>2. letter[l] \in LetterRows /\ hour \in Int /\ TRUE \in BOOLEAN
      BY LetterNow
    <2>3. row \in LetterRows
      BY <2>2, ResentIsLetter
    <2> HIDE DEF row
    <2> QED BY <2>1, <2>3 DEF Becomes, ResendLetter
  <1>2. /\ row.at = letter[l].at /\ row.read = letter[l].read /\ row.reached = hour
        /\ row.again = TRUE /\ row.filed = letter[l].filed
    BY LetterNow DEF LetterRows
  <1>3. LetterInTime(l) /\ LetterFiled(l) /\ dialog.first <= hour
    BY LetterNow
  <1>4. letter[l].at = "answered"
    BY LetterNow DEF ResendLetter, LetterFiled
  <1> HIDE DEF row
  <1> QED BY <1>1, <1>2, <1>3, <1>4, LetterKeeps DEF LetterInTime, LetterFiled, ResendLetter

(* Who takes over a conversation, or hands it back, leaves a conversation. *)
LEMMA TakenIsDialog ==
  ASSUME NEW d \in DialogRows, NEW p \in BOOLEAN, NEW owner \in Letters \cup {NoOne},
         NEW first \in Int
  PROVE  [d EXCEPT !.paused = p, !.owner = owner, !.first = first] \in DialogRows
  BY DEF DialogRows

(* The operator takes over, in front of the send. *)
LEMMA TakeOverKeeps ==
  ASSUME OperatorInv, NEW l \in Letters, TakeOverFirst(l)
  PROVE  OperatorInv'
  <1>1. CASE ~dialog.exists
    <2> DEFINE row == [letter[l] EXCEPT !.at = "held"]
    <2>1. Becomes(l, row) /\ row \in LetterRows
      BY <1>1, LetterNow DEF TakeOverFirst, Becomes, LetterRows, LetterStates
    <2>2. /\ row.at = "held" /\ row.read = letter[l].read /\ row.reached = letter[l].reached
          /\ row.filed = letter[l].filed
      BY LetterNow DEF LetterRows
    <2>3. LetterInTime(l) /\ LetterFiled(l) /\ letter[l].at = "read"
      BY LetterNow DEF TakeOverFirst
    <2> HIDE DEF row
    <2> QED BY <2>1, <2>2, <2>3, LetterKeeps DEF LetterInTime, LetterFiled
  <1>2. CASE dialog.exists
    <2>1. /\ dialog' = TakenOver(l) /\ holding' = holding \cup {l}
          /\ letter' = [letter EXCEPT ![l].at = "held"] /\ UNCHANGED <<hour, note>>
          /\ letter[l].at = "read"
      BY <1>2 DEF TakeOverFirst
    <2>2. /\ OperatorTypes /\ HeldIsPaused /\ \A n \in Notes : NoteIsQuiet(n)
          /\ \A x \in Letters : LetterInTime(x) /\ LetterFiled(x)
      BY DEF OperatorInv
    <2>3. /\ dialog' \in DialogRows
          /\ dialog'.paused = TRUE /\ dialog'.owner = l /\ dialog'.exists = dialog.exists
          /\ dialog'.source = dialog.source /\ dialog'.inbound = dialog.inbound
          /\ dialog'.first = IF dialog.first = Never THEN hour ELSE dialog.first
      <3> DEFINE first == IF dialog.first = Never THEN hour ELSE dialog.first
      <3>1. dialog \in DialogRows /\ first \in Int /\ l \in Letters \cup {NoOne}
            /\ TRUE \in BOOLEAN
        BY <2>2 DEF OperatorTypes, DialogRows
      <3>2. dialog' = [dialog EXCEPT !.paused = TRUE, !.owner = l, !.first = first]
        BY <2>1, <3>1 DEF TakenOver, DialogRows
      <3> HIDE DEF first
      <3>3. dialog' \in DialogRows
        BY <3>1, <3>2, TakenIsDialog
      <3>4. /\ dialog'.paused = TRUE /\ dialog'.owner = l /\ dialog'.exists = dialog.exists
            /\ dialog'.source = dialog.source /\ dialog'.inbound = dialog.inbound
            /\ dialog'.first = first
        BY <3>1, <3>2 DEF DialogRows
      <3> QED BY <3>3, <3>4 DEF first
    <2>4. /\ letter' \in [Letters -> LetterRows]
          /\ \A x \in Letters : /\ letter'[x].at = IF x = l THEN "held" ELSE letter[x].at
                                /\ letter'[x].read = letter[x].read
                                /\ letter'[x].reached = letter[x].reached
                                /\ letter'[x].again = letter[x].again
                                /\ letter'[x].filed = letter[x].filed
      BY <2>1, <2>2 DEF OperatorTypes, LetterRows, LetterStates
    <2>5. dialog.first \in Int
      BY <2>2 DEF OperatorTypes, DialogRows
    <2>6. OperatorTypes' /\ HeldIsPaused'
      <3>1. OperatorTypes'
        BY <2>1, <2>2, <2>3, <2>4 DEF OperatorTypes
      <3>2. 0 <= dialog'.first
        BY <2>2, <2>3, <2>5 DEF OperatorTypes, Never
      <3>3. dialog'.paused /\ dialog'.owner # NoOne
        BY OperatorAssumption, <2>3
      <3> QED BY <3>1, <3>2, <3>3 DEF HeldIsPaused
    <2>7. \A x \in Letters : LetterInTime(x)' /\ LetterFiled(x)'
      <3> SUFFICES ASSUME NEW x \in Letters PROVE LetterInTime(x)' /\ LetterFiled(x)'
        OBVIOUS
      <3>1. LetterInTime(x)'
        BY <2>1, <2>2, <2>3, <2>4 DEF LetterInTime, Never
      <3>2. LetterFiled(x)'
        BY <2>1, <2>2, <2>3, <2>4 DEF LetterFiled, HeldIsPaused, Never
      <3> QED BY <3>1, <3>2
    <2>8. \A n \in Notes : NoteIsQuiet(n)'
      BY <2>1, <2>2 DEF NoteIsQuiet
    <2> QED BY <2>6, <2>7, <2>8 DEF OperatorInv
  <1> QED BY <1>1, <1>2

(* The handling route, for every letter and message. *)
LEMMA HandlingKeeps ==
  ASSUME OperatorInv, NEW who \in Letters, NEW pauses \in BOOLEAN, SetHandling(who, pauses)
  PROVE  OperatorInv'
  <1>1. /\ OperatorTypes /\ HeldIsPaused /\ \A n \in Notes : NoteIsQuiet(n)
        /\ \A x \in Letters : LetterInTime(x) /\ LetterFiled(x)
    BY DEF OperatorInv
  <1> DEFINE owner == IF pauses THEN who ELSE NoOne
  <1>2. /\ dialog' = [dialog EXCEPT !.paused = pauses, !.owner = owner]
        /\ holding' = IF pauses THEN holding ELSE {}
        /\ UNCHANGED <<hour, letter, note>>
    BY DEF SetHandling
  <1>3. owner \in Letters \cup {NoOne} /\ (pauses => owner # NoOne)
    BY OperatorAssumption
  <1> HIDE DEF owner
  <1>4. /\ dialog' \in DialogRows
        /\ dialog'.paused = pauses /\ dialog'.owner = owner /\ dialog'.exists = dialog.exists
        /\ dialog'.source = dialog.source /\ dialog'.inbound = dialog.inbound
        /\ dialog'.first = dialog.first
    BY <1>1, <1>2, <1>3 DEF OperatorTypes, DialogRows
  <1>5. holding' \subseteq holding
    BY <1>2
  <1>6. OperatorTypes'
    BY <1>1, <1>2, <1>4, <1>5 DEF OperatorTypes
  <1>7. HeldIsPaused'
    BY <1>1, <1>2, <1>3, <1>4 DEF HeldIsPaused
  <1>8. \A x \in Letters : LetterInTime(x)' /\ LetterFiled(x)'
    BY <1>1, <1>2, <1>4, <1>5 DEF LetterInTime, LetterFiled
  <1>9. \A n \in Notes : NoteIsQuiet(n)'
    BY <1>1, <1>2 DEF NoteIsQuiet
  <1> QED BY <1>6, <1>7, <1>8, <1>9 DEF OperatorInv

(* The assistant on a customer's message. *)
LEMMA NoteKeeps ==
  ASSUME OperatorInv, NEW n \in Notes, AssistantLooks(n) \/ StoreNote(n) \/ AssistantAnswers(n)
  PROVE  OperatorInv'
  <1>1. /\ OperatorTypes /\ HeldIsPaused /\ \A m \in Notes : NoteIsQuiet(m)
        /\ \A x \in Letters : LetterInTime(x) /\ LetterFiled(x)
    BY DEF OperatorInv
  <1>2. UNCHANGED <<hour, letter, holding>>
    BY DEF AssistantLooks, StoreNote, AssistantAnswers
  <1>3. note \in [Notes -> NoteRows] /\ dialog \in DialogRows /\ hour \in Nat
    BY <1>1 DEF OperatorTypes
  <1>4. /\ dialog' \in DialogRows
        /\ dialog'.paused = dialog.paused /\ dialog'.owner = dialog.owner
        /\ dialog'.exists = dialog.exists /\ dialog'.source = dialog.source
        /\ dialog'.first = dialog.first
        /\ dialog'.inbound \in {dialog.inbound, hour}
    BY <1>3 DEF AssistantLooks, StoreNote, AssistantAnswers, DialogRows
  <1>5. dialog'.inbound \in Int /\ dialog.inbound <= dialog'.inbound /\ dialog'.inbound <= hour
    BY <1>1, <1>4 DEF OperatorTypes, DialogRows
  <1>6. \A m \in Notes : m # n => note'[m] = note[m]
    BY <1>3 DEF AssistantLooks, StoreNote, AssistantAnswers
  <1>7. note' \in [Notes -> NoteRows] /\ NoteIsQuiet(n)'
    <2>1. CASE AssistantLooks(n)
      <3> DEFINE late == \E l \in holding : letter[l].reached # Never
      <3>1. note' = [note EXCEPT ![n] = [at |-> "looked", paused |-> dialog.paused,
                                         late |-> late]]
            /\ dialog.exists
        BY <2>1 DEF AssistantLooks
      <3>2. late \in BOOLEAN /\ (late => dialog.paused)
        BY <1>1, <3>1 DEF HeldIsPaused
      <3> HIDE DEF late
      <3>3. [at |-> "looked", paused |-> dialog.paused, late |-> late] \in NoteRows
        BY <1>3, <3>2 DEF NoteRows, DialogRows
      <3>4. note'[n].at = "looked" /\ note'[n].paused = dialog.paused /\ note'[n].late = late
        BY <1>3, <3>1
      <3> QED BY <1>3, <3>1, <3>2, <3>3, <3>4 DEF NoteIsQuiet
    <2>2. CASE StoreNote(n)
      <3> DEFINE state == IF ~dialog.exists THEN "lost"
                          ELSE IF note[n].paused THEN "kept" ELSE "asked"
      <3>1. note' = [note EXCEPT ![n].at = state] /\ note[n].at = "looked"
        BY <2>2 DEF StoreNote
      <3>2. state \in {"lost", "kept", "asked"} /\ (state = "asked" => ~note[n].paused)
        OBVIOUS
      <3> HIDE DEF state
      <3>3. /\ note' \in [Notes -> NoteRows] /\ note'[n].at = state
            /\ note'[n].late = note[n].late /\ note'[n].paused = note[n].paused
        BY <1>3, <3>1, <3>2 DEF NoteRows
      <3> QED BY <1>1, <3>1, <3>2, <3>3 DEF NoteIsQuiet
    <2>3. CASE AssistantAnswers(n)
      <3>1. note' = [note EXCEPT ![n].at = "answered"] /\ note[n].at = "asked"
        BY <2>3 DEF AssistantAnswers
      <3>2. /\ note' \in [Notes -> NoteRows] /\ note'[n].at = "answered"
            /\ note'[n].late = note[n].late
        BY <1>3, <3>1 DEF NoteRows
      <3> QED BY <1>1, <3>1, <3>2 DEF NoteIsQuiet
    <2> QED BY <2>1, <2>2, <2>3
  <1>8. OperatorTypes'
    BY <1>1, <1>2, <1>4, <1>5, <1>7 DEF OperatorTypes
  <1>9. HeldIsPaused' /\ \A m \in Notes : NoteIsQuiet(m)'
    BY <1>1, <1>2, <1>4, <1>6, <1>7 DEF HeldIsPaused, NoteIsQuiet
  <1>10. \A x \in Letters : LetterInTime(x)' /\ LetterFiled(x)'
    <2> SUFFICES ASSUME NEW x \in Letters PROVE LetterInTime(x)' /\ LetterFiled(x)'
      OBVIOUS
    <2>1. letter[x] \in LetterRows /\ dialog.inbound \in Int
      BY <1>1 DEF OperatorTypes, DialogRows
    <2>2. LetterInTime(x)'
      BY <1>1, <1>2, <1>4, <1>5, <2>1 DEF LetterInTime, LetterRows
    <2> QED BY <1>1, <1>2, <1>4, <2>2 DEF LetterFiled
  <1> QED BY <1>8, <1>9, <1>10 DEF OperatorInv

(* server.ts, POST .../messages: once a human's reply has come, the assistant
   does not answer what is written then; a reply comes within the customer's
   window; and it is on record, for any number of requests and messages. *)
THEOREM OperatorRepliesHold == OperatorSpec => []RepliesHold
  <1>1. OperatorInit => OperatorInv
    BY OperatorStarts
  <1>2. OperatorInv /\ [OperatorNext]_operatorVars => OperatorInv'
    <2> SUFFICES ASSUME OperatorInv, [OperatorNext]_operatorVars PROVE OperatorInv'
      OBVIOUS
    <2>0. /\ OperatorTypes /\ HeldIsPaused /\ \A n \in Notes : NoteIsQuiet(n)
          /\ \A x \in Letters : LetterInTime(x) /\ LetterFiled(x)
      BY DEF OperatorInv
    <2>1. CASE PassHour
      BY <2>0, <2>1 DEF PassHour, OperatorInv, OperatorTypes, DialogRows, HeldIsPaused,
                        NoteIsQuiet, LetterInTime, LetterFiled
    <2>2. CASE EraseDialog
      <3>1. /\ dialog' = [dialog EXCEPT !.exists = FALSE]
            /\ UNCHANGED <<hour, letter, note, holding>>
        BY <2>2 DEF EraseDialog
      <3>2. /\ dialog' \in DialogRows /\ dialog'.exists = FALSE
            /\ dialog'.source = dialog.source /\ dialog'.inbound = dialog.inbound
            /\ dialog'.first = dialog.first
        BY <2>0, <3>1 DEF OperatorTypes, DialogRows
      <3>3. OperatorTypes' /\ HeldIsPaused' /\ \A n \in Notes : NoteIsQuiet(n)'
        BY <2>0, <3>1, <3>2 DEF OperatorTypes, HeldIsPaused, NoteIsQuiet
      <3>4. \A x \in Letters : LetterInTime(x)' /\ LetterFiled(x)'
        BY <2>0, <3>1, <3>2 DEF LetterInTime, LetterFiled
      <3> QED BY <3>3, <3>4 DEF OperatorInv
    <2>3. ASSUME NEW l \in Letters,
                 ReadContext(l) \/ TakeOverFirst(l) \/ SendLetter(l) \/ FileLetter(l)
                    \/ AnswerOperator(l) \/ CutLetter(l) \/ ResendLetter(l)
          PROVE  OperatorInv'
      BY <2>3, ReadKeeps, TakeOverKeeps, SendKeeps, FileKeeps, AnswerKeeps, CutKeeps, ResendKeeps
    <2>4. ASSUME NEW l \in Letters, NEW pauses \in BOOLEAN, SetHandling(l, pauses)
          PROVE  OperatorInv'
      BY <2>4, HandlingKeeps
    <2>5. ASSUME NEW n \in Notes, AssistantLooks(n) \/ StoreNote(n) \/ AssistantAnswers(n)
          PROVE  OperatorInv'
      BY <2>5, NoteKeeps
    <2>6. CASE UNCHANGED operatorVars
      BY <2>0, <2>6 DEF operatorVars, OperatorInv, OperatorTypes, HeldIsPaused, NoteIsQuiet,
                        LetterInTime, LetterFiled
    <2> QED BY <2>1, <2>2, <2>3, <2>4, <2>5, <2>6 DEF OperatorNext
  <1>3. OperatorInv => RepliesHold
    <2> SUFFICES ASSUME OperatorInv PROVE RepliesHold
      OBVIOUS
    <2>0. /\ OperatorTypes /\ HeldIsPaused /\ \A n \in Notes : NoteIsQuiet(n)
          /\ \A x \in Letters : LetterInTime(x) /\ LetterFiled(x)
      BY DEF OperatorInv
    <2>1. HumanSpeaksAlone
      BY <2>0 DEF HumanSpeaksAlone, NoteIsQuiet
    <2>2. RepliesAreInTime
      <3> SUFFICES ASSUME NEW l \in Letters, letter[l].reached # Never, ~letter[l].again,
                          dialog.source # "website",
                          ~(letter[l].read = Never /\ dialog.source = "messenger")
                   PROVE  /\ letter[l].read # Never /\ letter[l].reached - letter[l].read <= Window
                          /\ \/ FreeformOpen(letter[l].reached)
                             \/ dialog.inbound + Window = letter[l].reached
        BY DEF RepliesAreInTime
      <3>1. letter[l] \in LetterRows /\ dialog.inbound \in Int /\ Window \in Nat
        BY <2>0, OperatorAssumption DEF OperatorTypes, DialogRows
      <3>2. /\ -1 <= letter[l].read /\ letter[l].read <= dialog.inbound
            /\ letter[l].read # Never /\ letter[l].reached - letter[l].read <= Window
        BY <2>0 DEF LetterInTime
      <3> QED BY <3>1, <3>2 DEF LetterRows, FreeformOpen, Never
    <2>3. RepliesAreFiled
      <3>1. ASSUME NEW l \in Letters, letter[l].reached # Never
            PROVE  /\ letter[l].filed \/ letter[l].at \in {"sent", "filed", "cut"}
                   /\ l \in holding => dialog.first \in 0 .. letter[l].reached
        <4>1. letter[l] \in LetterRows /\ dialog \in DialogRows
          BY <2>0 DEF OperatorTypes
        <4> QED BY <2>0, <3>1, <4>1 DEF LetterFiled, HeldIsPaused, LetterRows, DialogRows
      <3> QED BY <2>0, <3>1 DEF RepliesAreFiled, HeldIsPaused
    <2> QED BY <2>1, <2>2, <2>3 DEF RepliesHold
  <1> QED BY <1>1, <1>2, <1>3, PTL DEF OperatorSpec

-----------------------------------------------------------------------------
(* What a workspace shows of itself (TenantReports) *)

AskStates == {"none", "open", "in_progress", "resolved"}
AskRows == [status : AskStates, owned : BOOLEAN, lead : BOOLEAN, room : Rooms \cup {NoRoom}]
Bases ==
  [rooms : SUBSET Rooms, words : SUBSET (Rooms \X (1 .. PerRoom)),
   asks : [1 .. Asks -> AskRows], exported : BOOLEAN]
ReportViews ==
  [kind : ReportKinds \cup {"none"}, done : [StoreCalls -> Nat], got : [Statements -> Bases]]

ReportTypes ==
  /\ stored \in Bases /\ IsFiniteSet(stored.words)
  /\ view \in ReportViews
  /\ \A s \in Statements : IsFiniteSet(view.got[s].words)
  /\ \A c \in StoreCalls : view.done[c] <= Len(StatementsOf[c])

(* Nothing of the earlier snapshot is missing in the later one. *)
Grows(earlier, later) ==
  /\ earlier.rooms \subseteq later.rooms /\ earlier.words \subseteq later.words
  /\ AsksOf(earlier) \subseteq AsksOf(later)

(* What the k-th statement of a call saw. *)
Saw(c, k) == view.got[StatementsOf[c][k]]

(* A statement saw what the store holds, but for what was written since. *)
SawStored(c, k) ==
  /\ Saw(c, k).exported = stored.exported
  /\ meanwhile = {} => Saw(c, k) = stored
  /\ "gone" \notin meanwhile => Grows(Saw(c, k), stored)

(* The statements of a call saw the store in their order. *)
SawInOrder(c, j, k) == "gone" \notin meanwhile => Grows(Saw(c, j), Saw(c, k))

ReportInv ==
  /\ ReportTypes
  /\ view.kind = "none" => meanwhile = {} /\ \A c \in StoreCalls : view.done[c] = 0
  /\ \A c \in StoreCalls : \A k \in 1 .. view.done[c] :
        SawStored(c, k) /\ \A j \in 1 .. k : SawInOrder(c, j, k)

LEMMA FourLong ==
  ASSUME NEW a, NEW b, NEW c, NEW d
  PROVE  Len(<<a, b, c, d>>) = 4 /\ DOMAIN <<a, b, c, d>> = 1 .. 4
  OBVIOUS

LEMMA OneLong ==
  ASSUME NEW a
  PROVE  Len(<<a>>) = 1 /\ DOMAIN <<a>> = 1 .. 1
  OBVIOUS

(* The calls, their statements, and that no two of these are the same. *)
LEMMA CallsAndStatements ==
  /\ StoreCalls = {"analytics", "inbox", "export", "handoffs"}
  /\ \A c \in StoreCalls :
        /\ Len(StatementsOf[c]) = IF c = "handoffs" THEN 1 ELSE 4
        /\ \A k \in 1 .. Len(StatementsOf[c]) : StatementsOf[c][k] \in Statements
  /\ \A c, d \in StoreCalls :
        \A j \in 1 .. Len(StatementsOf[c]), k \in 1 .. Len(StatementsOf[d]) :
           StatementsOf[c][j] = StatementsOf[d][k] => c = d /\ j = k
  <1>1. StoreCalls = {"analytics", "inbox", "export", "handoffs"}
    BY DEF StoreCalls, StatementsOf
  <1>2. /\ StatementsOf["analytics"] = <<"messages", "open", "total", "channels">>
        /\ StatementsOf["inbox"] = <<"listed", "last", "count", "pending">>
        /\ StatementsOf["export"] = <<"rooms", "words", "asks", "trail">>
        /\ StatementsOf["handoffs"] = <<"list">>
    BY DEF StatementsOf, Figures, Inbox, Export, HandoffList
  <1>3. ASSUME NEW c \in StoreCalls
        PROVE  /\ Len(StatementsOf[c]) = IF c = "handoffs" THEN 1 ELSE 4
               /\ DOMAIN StatementsOf[c] = 1 .. Len(StatementsOf[c])
    <2>1. CASE c = "handoffs"
      BY <1>2, <2>1, OneLong
    <2>2. CASE c = "analytics"
      <3>1. Len(StatementsOf[c]) = 4 /\ DOMAIN StatementsOf[c] = 1 .. 4
        BY <1>2, <2>2, FourLong, Zenon
      <3> QED BY <2>2, <3>1
    <2>3. CASE c = "inbox"
      <3>1. Len(StatementsOf[c]) = 4 /\ DOMAIN StatementsOf[c] = 1 .. 4
        BY <1>2, <2>3, FourLong, Zenon
      <3> QED BY <2>3, <3>1
    <2>4. CASE c = "export"
      <3>1. Len(StatementsOf[c]) = 4 /\ DOMAIN StatementsOf[c] = 1 .. 4
        BY <1>2, <2>4, FourLong, Zenon
      <3> QED BY <2>4, <3>1
    <2> QED BY <1>1, <2>1, <2>2, <2>3, <2>4
  <1>4. ASSUME NEW c \in StoreCalls, NEW k \in 1 .. Len(StatementsOf[c])
        PROVE  StatementsOf[c][k] \in Statements
    BY <1>3 DEF Statements
  <1>5. ASSUME NEW c \in StoreCalls, NEW d \in StoreCalls,
               NEW j \in 1 .. Len(StatementsOf[c]), NEW k \in 1 .. Len(StatementsOf[d]),
               StatementsOf[c][j] = StatementsOf[d][k]
        PROVE  c = d /\ j = k
    <2>1. j \in 1 .. 4 /\ k \in 1 .. 4 /\ (c = "handoffs" => j = 1) /\ (d = "handoffs" => k = 1)
      BY <1>3
    <2>2. CASE c = "analytics"
      BY <1>1, <1>2, <1>5, <2>1, <2>2
    <2>3. CASE c = "inbox"
      BY <1>1, <1>2, <1>5, <2>1, <2>3
    <2>4. CASE c = "export"
      BY <1>1, <1>2, <1>5, <2>1, <2>4
    <2>5. CASE c = "handoffs"
      BY <1>1, <1>2, <1>5, <2>1, <2>5
    <2> QED BY <1>1, <2>2, <2>3, <2>4, <2>5
  <1> QED BY <1>1, <1>3, <1>4, <1>5

(* A handoff request as it is created. *)
LEMMA NewAskIsRow ==
  ASSUME NEW room \in Rooms, NEW lead \in BOOLEAN
  PROVE  NewAsk(room, lead) \in AskRows
  <1>1. ASSUME NEW o \in BOOLEAN
        PROVE  [status |-> "open", owned |-> o, lead |-> lead, room |-> room] \in AskRows
    BY DEF AskRows, AskStates
  <1> QED BY <1>1 DEF NewAsk

LEMMA NoAskIsRow == NoAsk \in AskRows
  <1>1. ASSUME NEW o \in BOOLEAN, NEW l \in BOOLEAN
        PROVE  [status |-> "none", owned |-> o, lead |-> l, room |-> NoRoom] \in AskRows
    BY DEF AskRows, AskStates
  <1> QED BY <1>1, Zenon DEF NoAsk

LEMMA NoBaseIsBase == NoBase \in Bases /\ IsFiniteSet(NoBase.words)
  <1>1. [i \in 1 .. Asks |-> NoAsk] \in [1 .. Asks -> AskRows]
    BY NoAskIsRow
  <1>2. ASSUME NEW e \in BOOLEAN
        PROVE  [rooms |-> {}, words |-> {}, asks |-> [i \in 1 .. Asks |-> NoAsk],
                exported |-> e] \in Bases
    BY <1>1 DEF Bases
  <1>3. NoBase \in Bases
    BY <1>2, Zenon DEF NoBase
  <1>4. NoBase.words = {}
    BY DEF NoBase
  <1> QED BY <1>3, <1>4, FS_EmptySet

LEMMA GrowsAlong ==
  ASSUME NEW a, NEW b, NEW c, Grows(a, b), Grows(b, c)
  PROVE  Grows(a, c)
  BY DEF Grows

(* A write that removes nothing but what it says: the report keeps its order. *)
LEMMA WriteKeeps ==
  ASSUME ReportInv, NEW after, NEW what, WriteRows(after, what),
         after \in Bases, IsFiniteSet(after.words), after.exported = stored.exported,
         what # "gone" => Grows(stored, after)
  PROVE  ReportInv'
  <1>1. /\ stored' = after /\ view' = view
        /\ meanwhile' = IF view.kind = "none" THEN meanwhile ELSE meanwhile \cup {what}
    BY DEF WriteRows
  <1>2. ReportTypes'
    BY <1>1 DEF ReportInv, ReportTypes
  <1>3. view'.kind = "none" => meanwhile' = {} /\ \A c \in StoreCalls : view'.done[c] = 0
    BY <1>1 DEF ReportInv
  <1>4. ASSUME NEW c \in StoreCalls, NEW k \in 1 .. view.done[c]
        PROVE  SawStored(c, k)' /\ \A j \in 1 .. k : SawInOrder(c, j, k)'
    <2>1. view.kind # "none"
      BY <1>4 DEF ReportInv
    <2>2. meanwhile' = meanwhile \cup {what}
      BY <1>1, <2>1
    <2>3. SawStored(c, k) /\ \A j \in 1 .. k : SawInOrder(c, j, k)
      BY DEF ReportInv
    <2>4. Saw(c, k)' = Saw(c, k) /\ \A j \in 1 .. k : Saw(c, j)' = Saw(c, j)
      BY <1>1 DEF Saw
    <2>5. "gone" \notin meanwhile' => Grows(Saw(c, k), stored')
      BY <1>1, <2>2, <2>3, GrowsAlong DEF SawStored
    <2>6. SawStored(c, k)'
      BY <1>1, <2>2, <2>3, <2>4, <2>5 DEF SawStored, Grows, AsksOf
    <2>7. ASSUME NEW j \in 1 .. k
          PROVE  SawInOrder(c, j, k)'
      BY <2>2, <2>3, <2>4 DEF SawInOrder, Grows, AsksOf
    <2> QED BY <2>6, <2>7
  <1> QED BY <1>1, <1>2, <1>3, <1>4 DEF ReportInv

(* Every writer keeps the invariant: a conversation is opened, *)
LEMMA OpenRoomKeeps ==
  ASSUME ReportInv, NEW r \in Rooms, OpenRoom(r)
  PROVE  ReportInv'
  <1> DEFINE after == [stored EXCEPT !.rooms = @ \cup {r}]
  <1>1. stored \in Bases /\ IsFiniteSet(stored.words)
    BY DEF ReportInv, ReportTypes
  <1>2. /\ after \in Bases /\ after.words = stored.words /\ after.exported = stored.exported
        /\ after.asks = stored.asks /\ stored.rooms \subseteq after.rooms
    BY <1>1 DEF Bases
  <1>3. Grows(stored, after)
    BY <1>2 DEF Grows, AsksOf
  <1>4. WriteRows(after, "row")
    BY DEF OpenRoom
  <1> QED BY <1>1, <1>2, <1>3, <1>4, WriteKeeps

(* a message is stored, *)
LEMMA AddWordKeeps ==
  ASSUME ReportInv, NEW r \in Rooms, NEW k \in 1 .. PerRoom, AddWord(r, k)
  PROVE  ReportInv'
  <1> DEFINE after == [stored EXCEPT !.words = @ \cup {<<r, k>>}]
  <1>1. /\ stored \in Bases /\ IsFiniteSet(stored.words)
        /\ IsFiniteSet(stored.words \cup {<<r, k>>})
    BY FS_AddElement DEF ReportInv, ReportTypes
  <1>2. /\ after \in Bases /\ after.words = stored.words \cup {<<r, k>>}
        /\ after.exported = stored.exported /\ after.asks = stored.asks
        /\ after.rooms = stored.rooms
    BY <1>1 DEF Bases
  <1>3. Grows(stored, after)
    BY <1>2 DEF Grows, AsksOf
  <1>4. WriteRows(after, "row")
    BY DEF AddWord
  <1> QED BY <1>1, <1>2, <1>3, <1>4, WriteKeeps

(* a handoff is asked for, by a visitor or with a lead form, *)
LEMMA AsksKeep ==
  ASSUME ReportInv, ReportsAssumption, NEW r \in Rooms, NEW i \in 1 .. Asks,
         AskForHuman(r, i) \/ \E k \in 1 .. PerRoom : LeadArrives(r, k, i)
  PROVE  ReportInv'
  <1>0. /\ stored \in Bases /\ IsFiniteSet(stored.words)
        /\ stored.asks[i].status = "none"
    BY DEF ReportInv, ReportTypes, AskForHuman, LeadArrives, AskExists
  <1>1. CASE AskForHuman(r, i)
    <2> DEFINE after == [stored EXCEPT !.asks[i] = NewAsk(r, FALSE)]
    <2>0. NewAsk(r, FALSE) \in AskRows
      BY NewAskIsRow, Zenon
    <2>1. /\ after \in Bases /\ after.words = stored.words /\ after.exported = stored.exported
          /\ after.asks = [stored.asks EXCEPT ![i] = NewAsk(r, FALSE)]
          /\ after.rooms = stored.rooms
      BY <1>0, <2>0 DEF Bases
    <2>2. Grows(stored, after)
      BY <1>0, <2>1 DEF Grows, AsksOf, Bases
    <2>3. WriteRows(after, "row")
      BY <1>1 DEF AskForHuman
    <2> QED BY <1>0, <2>1, <2>2, <2>3, WriteKeeps
  <1>2. ASSUME NEW k \in 1 .. PerRoom, LeadArrives(r, k, i) PROVE ReportInv'
    <2> DEFINE after == [stored EXCEPT !.rooms = @ \cup {r}, !.words = @ \cup {<<r, k>>},
                                       !.asks[i] = NewAsk(r, TRUE)]
    <2>0. NewAsk(r, TRUE) \in AskRows /\ IsFiniteSet(stored.words \cup {<<r, k>>})
      <3>1. NewAsk(r, TRUE) \in AskRows
        BY NewAskIsRow, Zenon
      <3> QED BY <1>0, <3>1, FS_AddElement
    <2>1. /\ after \in Bases /\ after.words = stored.words \cup {<<r, k>>}
          /\ after.asks = [stored.asks EXCEPT ![i] = NewAsk(r, TRUE)]
          /\ after.exported = stored.exported /\ after.rooms = stored.rooms \cup {r}
      <3> DEFINE asks == [stored.asks EXCEPT ![i] = NewAsk(r, TRUE)]
                 words == stored.words \cup {<<r, k>>}
      <3>0. /\ stored.asks \in [1 .. Asks -> AskRows]
            /\ stored.words \subseteq Rooms \X (1 .. PerRoom)
        BY <1>0 DEF Bases
      <3>a. asks \in [1 .. Asks -> AskRows]
        BY <2>0, <3>0
      <3>b. <<r, k>> \in Rooms \X (1 .. PerRoom)
        OBVIOUS
      <3>1. asks \in [1 .. Asks -> AskRows] /\ words \in SUBSET (Rooms \X (1 .. PerRoom))
        BY <3>0, <3>a, <3>b
      <3>2. after = [stored EXCEPT !.rooms = stored.rooms \cup {r}, !.words = words,
                                   !.asks = asks]
        BY <1>0 DEF Bases
      <3> HIDE DEF asks, words
      <3>3. /\ after \in Bases /\ after.words = words /\ after.asks = asks
            /\ after.exported = stored.exported /\ after.rooms = stored.rooms \cup {r}
        BY <1>0, <3>1, <3>2 DEF Bases
      <3> QED BY <3>3 DEF asks, words
    <2>2. Grows(stored, after)
      BY <1>0, <2>1 DEF Grows, AsksOf, Bases
    <2>3. WriteRows(after, "row")
      BY <1>2 DEF LeadArrives
    <2> QED BY <1>0, <2>0, <2>1, <2>2, <2>3, WriteKeeps
  <1> QED BY <1>1, <1>2

(* a handoff changes, or goes with its conversation. *)
LEMMA ChangesKeep ==
  ASSUME ReportInv, ReportsAssumption,
         \/ \E i \in 1 .. Asks, owned \in BOOLEAN :
               \E status \in {"open", "in_progress", "resolved"} : UpdateAsk(i, status, owned)
         \/ \E r \in Rooms, keeps \in BOOLEAN : RemoveRoom(r, keeps)
  PROVE  ReportInv'
  <1>0. stored \in Bases /\ IsFiniteSet(stored.words)
    BY DEF ReportInv, ReportTypes
  <1>1. ASSUME NEW i \in 1 .. Asks, NEW owned \in BOOLEAN,
               NEW status \in {"open", "in_progress", "resolved"}, UpdateAsk(i, status, owned)
        PROVE  ReportInv'
    <2> DEFINE after == [stored EXCEPT !.asks[i].status = status, !.asks[i].owned = owned]
               row == [stored.asks[i] EXCEPT !.status = status, !.owned = owned]
    <2>0. row \in AskRows /\ row.status = status
      BY <1>0 DEF Bases, AskRows, AskStates
    <2>1. after = [stored EXCEPT !.asks = [stored.asks EXCEPT ![i] = row]]
      BY <1>0 DEF Bases, AskRows
    <2>2. /\ after \in Bases /\ after.words = stored.words /\ after.exported = stored.exported
          /\ after.asks = [stored.asks EXCEPT ![i] = row] /\ after.rooms = stored.rooms
      BY <1>0, <2>0, <2>1 DEF Bases
    <2>3. Grows(stored, after)
      <3>1. \A j \in 1 .. Asks : stored.asks[j].status # "none" => after.asks[j].status # "none"
        BY <1>0, <2>0, <2>2 DEF Bases
      <3> QED BY <2>2, <3>1 DEF Grows, AsksOf
    <2>4. WriteRows(after, "status")
      BY <1>1 DEF UpdateAsk
    <2> QED BY <1>0, <2>2, <2>3, <2>4, WriteKeeps
  <1>2. ASSUME NEW r \in Rooms, NEW keeps \in BOOLEAN, RemoveRoom(r, keeps)
        PROVE  ReportInv'
    <2> DEFINE rows == [i \in 1 .. Asks |->
                           IF stored.asks[i].room # r THEN stored.asks[i]
                           ELSE IF keeps THEN [stored.asks[i] EXCEPT !.room = NoRoom] ELSE NoAsk]
               after == [stored EXCEPT !.rooms = @ \ {r}, !.words = {w \in @ : w[1] # r},
                                       !.asks = rows]
    <2>0. rows \in [1 .. Asks -> AskRows]
      <3> SUFFICES ASSUME NEW i \in 1 .. Asks PROVE rows[i] \in AskRows
        OBVIOUS
      <3>1. stored.asks[i] \in AskRows
        BY <1>0 DEF Bases
      <3>2. [stored.asks[i] EXCEPT !.room = NoRoom] \in AskRows
        BY <3>1 DEF AskRows
      <3> QED BY <3>1, <3>2, NoAskIsRow
    <2>1. /\ after \in Bases /\ after.words \in SUBSET stored.words
          /\ after.exported = stored.exported
      BY <1>0, <2>0 DEF Bases
    <2>2. IsFiniteSet(after.words)
      BY <1>0, <2>1, FS_Subset
    <2>3. WriteRows(after, "gone")
      BY <1>2 DEF RemoveRoom
    <2> QED BY <2>1, <2>2, <2>3, WriteKeeps
  <1> QED BY <1>1, <1>2

(* A report starts with nothing read. *)
LEMMA BeginReportKeeps ==
  ASSUME ReportInv, NEW kind \in ReportKinds, NEW audited \in BOOLEAN,
         BeginReport(kind, audited)
  PROVE  ReportInv'
  <1>1. /\ stored' = [stored EXCEPT !.exported = audited]
        /\ view' = [NoReport EXCEPT !.kind = kind] /\ meanwhile' = {}
    BY DEF BeginReport, ReportInv
  <1>2. /\ view'.kind = kind /\ view'.done = [c \in StoreCalls |-> 0]
        /\ view'.got = [s \in Statements |-> NoBase] /\ view' \in ReportViews
    BY <1>1, NoBaseIsBase DEF NoReport, ReportViews
  <1>3. stored' \in Bases /\ stored'.words = stored.words
    BY <1>1 DEF ReportInv, ReportTypes, Bases
  <1>4. ReportTypes'
    BY <1>2, <1>3, NoBaseIsBase, CallsAndStatements DEF ReportInv, ReportTypes
  <1> QED BY <1>1, <1>2, <1>4 DEF ReportInv

(* A statement sees what is stored, which is what the earlier ones saw or more. *)
LEMMA ReadNextKeeps ==
  ASSUME ReportInv, ReportsAssumption, NEW asked \in StoreCalls, ReadNext(asked)
  PROVE  ReportInv'
  <1> DEFINE next == view.done[asked] + 1
             said == StatementsOf[asked][next]
  <1>0. /\ ReportTypes /\ stored' = stored /\ meanwhile' = meanwhile
        /\ view' = [view EXCEPT !.done[asked] = @ + 1, !.got[said] = stored]
        /\ asked \in CallsOf[view.kind] /\ view.done[asked] < Len(StatementsOf[asked])
    BY DEF ReadNext, ReportInv
  <1>1. /\ view.done \in [StoreCalls -> Nat] /\ view.got \in [Statements -> Bases]
        /\ Len(StatementsOf[asked]) \in Nat /\ next \in 1 .. Len(StatementsOf[asked])
        /\ said \in Statements
    <2>1. view.done \in [StoreCalls -> Nat] /\ view.got \in [Statements -> Bases]
      BY <1>0 DEF ReportTypes, ReportViews
    <2>2. Len(StatementsOf[asked]) \in Nat
      BY CallsAndStatements
    <2>3. next \in 1 .. Len(StatementsOf[asked])
      BY <1>0, <2>1, <2>2
    <2> QED BY <2>1, <2>2, <2>3, CallsAndStatements
  <1>2. /\ view'.kind = view.kind /\ view'.done = [view.done EXCEPT ![asked] = next]
        /\ view'.got = [view.got EXCEPT ![said] = stored] /\ view' \in ReportViews
    <2>1. /\ view.kind \in ReportKinds \cup {"none"} /\ stored \in Bases
          /\ view' = [view EXCEPT !.done = [view.done EXCEPT ![asked] = next],
                                  !.got = [view.got EXCEPT ![said] = stored]]
      BY <1>0 DEF ReportTypes, ReportViews
    <2> HIDE DEF next, said
    <2>2. /\ [view.done EXCEPT ![asked] = next] \in [StoreCalls -> Nat]
          /\ [view.got EXCEPT ![said] = stored] \in [Statements -> Bases]
      BY <1>1, <2>1
    <2> QED BY <1>0, <2>1, <2>2 DEF ReportTypes, ReportViews
  <1>3. ReportTypes'
    BY <1>0, <1>1, <1>2 DEF ReportTypes
  <1>4. view.kind # "none"
    BY <1>0 DEF CallsOf
  <1>5. ASSUME NEW c \in StoreCalls, NEW k \in 1 .. view'.done[c]
        PROVE  SawStored(c, k)' /\ \A j \in 1 .. k : SawInOrder(c, j, k)'
    <2>1. \A j \in 1 .. k :
             \/ j \in 1 .. view.done[c] /\ Saw(c, j)' = Saw(c, j)
             \/ c = asked /\ j = next /\ j = k /\ Saw(c, j)' = stored
      <3> SUFFICES ASSUME NEW j \in 1 .. k
                   PROVE  \/ j \in 1 .. view.done[c] /\ Saw(c, j)' = Saw(c, j)
                          \/ c = asked /\ j = next /\ j = k /\ Saw(c, j)' = stored
        OBVIOUS
      <3>1. /\ view.done[c] \in Nat /\ view.done[c] <= Len(StatementsOf[c])
            /\ Len(StatementsOf[c]) \in Nat
            /\ view'.done[c] = IF c = asked THEN next ELSE view.done[c]
        <4>1. Len(StatementsOf[c]) \in Nat
          BY CallsAndStatements
        <4>2. view.done[c] \in Nat /\ view.done[c] <= Len(StatementsOf[c])
          BY <1>0, <1>1 DEF ReportTypes
        <4>3. view'.done[c] = IF c = asked THEN next ELSE view.done[c]
          BY <1>1, <1>2
        <4> QED BY <4>1, <4>2, <4>3
      <3>2. j \in 1 .. Len(StatementsOf[c])
        BY <1>1, <3>1
      <3>3. StatementsOf[c][j] \in Statements
        BY <3>2, CallsAndStatements
      <3>4. CASE c = asked /\ j = next
        <4>1. j = k
          BY <1>1, <3>1, <3>4
        <4>2. Saw(c, j)' = stored
          BY <1>1, <1>2, <3>4 DEF Saw
        <4> QED BY <3>4, <4>1, <4>2
      <3>5. CASE ~(c = asked /\ j = next)
        <4>1. StatementsOf[c][j] # said
          <5>1. next \in 1 .. Len(StatementsOf[asked])
            BY <1>1
          <5> HIDE DEF next
          <5>2. StatementsOf[c][j] = StatementsOf[asked][next] => c = asked /\ j = next
            BY <3>2, <5>1, CallsAndStatements
          <5> QED BY <3>5, <5>2
        <4>2. Saw(c, j)' = Saw(c, j)
          BY <1>1, <1>2, <3>3, <4>1 DEF Saw
        <4>3. j \in 1 .. view.done[c]
          BY <3>1, <3>5
        <4> QED BY <4>2, <4>3
      <3> QED BY <3>4, <3>5
    <2>2. \A j \in 1 .. k : SawStored(c, j)'
      <3> SUFFICES ASSUME NEW j \in 1 .. k PROVE SawStored(c, j)'
        OBVIOUS
      <3>1. CASE j \in 1 .. view.done[c] /\ Saw(c, j)' = Saw(c, j)
        BY <1>0, <3>1 DEF ReportInv, SawStored, Grows, AsksOf
      <3>2. CASE Saw(c, j)' = stored
        BY <1>0, <3>2 DEF SawStored, Grows, AsksOf
      <3> QED BY <2>1, <3>1, <3>2
    <2>3. k \in 1 .. k
      OBVIOUS
    <2>4. ASSUME NEW j \in 1 .. k
          PROVE  SawInOrder(c, j, k)'
      <3>1. CASE k \in 1 .. view.done[c] /\ Saw(c, k)' = Saw(c, k)
        <4>1. j \in 1 .. view.done[c] /\ j # k => j # next \/ c # asked
          BY <1>1
        <4>2. Saw(c, j)' = Saw(c, j)
          BY <2>1, <3>1, <4>1
        <4> QED BY <1>0, <3>1, <4>2 DEF ReportInv, SawInOrder, Grows, AsksOf
      <3>2. CASE Saw(c, k)' = stored
        BY <1>0, <2>2, <3>2 DEF SawStored, SawInOrder, Grows, AsksOf
      <3> QED BY <2>1, <2>3, <3>1, <3>2
    <2> QED BY <2>2, <2>3, <2>4
  <1> QED BY <1>2, <1>3, <1>4, <1>5 DEF ReportInv

(* What a finished call has read, and the order it has read it in. *)
LEMMA FinishedCall ==
  ASSUME ReportInv, NEW asked \in StoreCalls, Shows(asked),
         NEW j \in 1 .. Len(StatementsOf[asked]), NEW k \in j .. Len(StatementsOf[asked])
  PROVE  SawStored(asked, k) /\ SawInOrder(asked, j, k)
  <1>1. view.done[asked] = Len(StatementsOf[asked])
    BY DEF Shows
  <1>2. Len(StatementsOf[asked]) \in Nat
    BY CallsAndStatements
  <1>3. k \in 1 .. view.done[asked] /\ j \in 1 .. k
    BY <1>1, <1>2
  <1> QED BY <1>3 DEF ReportInv

(* The requests of a snapshot, and those of them that are open, can be counted. *)
LEMMA AsksAreFinite ==
  ASSUME ReportsAssumption, NEW of, NEW S \in SUBSET AsksOf(of)
  PROVE  IsFiniteSet(S)
  <1>1. IsFiniteSet(1 .. Asks)
    BY FS_Interval DEF ReportsAssumption
  <1>2. S \in SUBSET (1 .. Asks)
    BY DEF AsksOf
  <1> QED BY <1>1, <1>2, FS_Subset

LEMMA OpenAreAsks ==
  ASSUME NEW of
  PROVE  OpenAsks(of) \subseteq AsksOf(of)
  BY DEF OpenAsks, AsksOf

(* What a statement saw is written by its name. *)
LEMMA SawByName ==
  /\ Saw("analytics", 1) = view.got["messages"] /\ Saw("analytics", 2) = view.got["open"]
  /\ Saw("analytics", 3) = view.got["total"] /\ Saw("analytics", 4) = view.got["channels"]
  /\ Saw("inbox", 2) = view.got["last"] /\ Saw("inbox", 3) = view.got["count"]
  /\ Saw("export", 1) = view.got["rooms"] /\ Saw("export", 2) = view.got["words"]
  /\ Saw("export", 4) = view.got["trail"] /\ Saw("handoffs", 1) = view.got["list"]
  /\ \A s \in {"messages", "open", "total", "channels", "last", "count", "rooms", "words",
               "trail", "list"} : s \in Statements
  <1>1. /\ StatementsOf["analytics"] = <<"messages", "open", "total", "channels">>
        /\ StatementsOf["inbox"] = <<"listed", "last", "count", "pending">>
        /\ StatementsOf["export"] = <<"rooms", "words", "asks", "trail">>
        /\ StatementsOf["handoffs"] = <<"list">>
    BY DEF StatementsOf, Figures, Inbox, Export, HandoffList
  <1>2. /\ Len(StatementsOf["analytics"]) = 4 /\ Len(StatementsOf["inbox"]) = 4
        /\ Len(StatementsOf["export"]) = 4 /\ Len(StatementsOf["handoffs"]) = 1
    BY CallsAndStatements
  <1>3. /\ StatementsOf["analytics"][1] \in Statements
        /\ StatementsOf["analytics"][2] \in Statements
        /\ StatementsOf["analytics"][3] \in Statements
        /\ StatementsOf["analytics"][4] \in Statements
        /\ StatementsOf["inbox"][2] \in Statements /\ StatementsOf["inbox"][3] \in Statements
        /\ StatementsOf["export"][1] \in Statements /\ StatementsOf["export"][2] \in Statements
        /\ StatementsOf["export"][4] \in Statements /\ StatementsOf["handoffs"][1] \in Statements
    BY <1>2, CallsAndStatements
  <1>4. /\ StatementsOf["analytics"][1] = "messages" /\ StatementsOf["analytics"][2] = "open"
        /\ StatementsOf["analytics"][3] = "total" /\ StatementsOf["analytics"][4] = "channels"
        /\ StatementsOf["inbox"][2] = "last" /\ StatementsOf["inbox"][3] = "count"
        /\ StatementsOf["export"][1] = "rooms" /\ StatementsOf["export"][2] = "words"
        /\ StatementsOf["export"][4] = "trail" /\ StatementsOf["handoffs"][1] = "list"
    BY <1>1
  <1> QED BY <1>3, <1>4 DEF Saw

LEMMA FiguresDoAgree ==
  ASSUME ReportInv, ReportsAssumption
  PROVE  FiguresAgree
  <1> SUFFICES ASSUME Shows("analytics"), "gone" \notin meanwhile
               PROVE  /\ FiguresShown.open <= FiguresShown.total
                      /\ FiguresShown.messages <= FiguresShown.channels
    BY DEF FiguresAgree
  <1>1. /\ "analytics" \in StoreCalls
        /\ 1 \in 1 .. Len(StatementsOf["analytics"]) /\ 2 \in 1 .. Len(StatementsOf["analytics"])
        /\ 3 \in 2 .. Len(StatementsOf["analytics"]) /\ 4 \in 1 .. Len(StatementsOf["analytics"])
    <2>1. Len(StatementsOf["analytics"]) = 4
      BY CallsAndStatements
    <2> QED BY <2>1, CallsAndStatements
  <1>2. SawInOrder("analytics", 2, 3) /\ SawInOrder("analytics", 1, 4)
    BY <1>1, FinishedCall
  <1>3. /\ Grows(view.got["open"], view.got["total"])
        /\ Grows(view.got["messages"], view.got["channels"])
    BY <1>2, SawByName DEF SawInOrder
  <1>4. Cardinality(OpenAsks(view.got["open"])) <= Cardinality(AsksOf(view.got["total"]))
    <2>1. OpenAsks(view.got["open"]) \in SUBSET AsksOf(view.got["total"])
      BY <1>3, OpenAreAsks DEF Grows
    <2>2. IsFiniteSet(AsksOf(view.got["total"]))
      BY AsksAreFinite
    <2> QED BY <2>1, <2>2, FS_Subset
  <1>5. Cardinality(view.got["messages"].words) <= Cardinality(view.got["channels"].words)
    <2>1. view.got["messages"].words \in SUBSET view.got["channels"].words
      BY <1>3 DEF Grows
    <2>2. IsFiniteSet(view.got["channels"].words)
      BY SawByName DEF ReportInv, ReportTypes
    <2> QED BY <2>1, <2>2, FS_Subset
  <1> QED BY <1>4, <1>5 DEF FiguresShown

LEMMA InboxDoesAgree ==
  ASSUME ReportInv, ReportsAssumption
  PROVE  InboxAgrees
  <1> SUFFICES ASSUME Shows("inbox"), "gone" \notin meanwhile, NEW r, ItemShown(r).last
               PROVE  ItemShown(r).count > 0
    BY DEF InboxAgrees
  <1>1. /\ "inbox" \in StoreCalls
        /\ 2 \in 1 .. Len(StatementsOf["inbox"]) /\ 3 \in 2 .. Len(StatementsOf["inbox"])
    BY CallsAndStatements
  <1>2. SawInOrder("inbox", 2, 3)
    BY <1>1, FinishedCall
  <1>3. Grows(view.got["last"], view.got["count"])
    BY <1>2, SawByName DEF SawInOrder
  <1>4. WordsIn(view.got["last"], r) # {}
    BY DEF ItemShown
  <1>5. WordsIn(view.got["count"], r) # {}
    BY <1>3, <1>4 DEF Grows, WordsIn
  <1>6. IsFiniteSet(view.got["count"].words)
    BY SawByName DEF ReportInv, ReportTypes
  <1>7. WordsIn(view.got["count"], r) \in SUBSET view.got["count"].words
    BY DEF WordsIn
  <1>8. IsFiniteSet(WordsIn(view.got["count"], r))
    BY <1>6, <1>7, FS_Subset
  <1>9. Cardinality(WordsIn(view.got["count"], r)) > 0
    BY <1>5, <1>8, FS_CardinalityType, FS_EmptySet
  <1> QED BY <1>9 DEF ItemShown

LEMMA ExportDoesClose ==
  ASSUME ReportInv, ReportsAssumption
  PROVE  ExportIsClosed
  <1> SUFFICES ASSUME Shows("export")
               PROVE  /\ "gone" \notin meanwhile => \A r \in view.got["rooms"].rooms :
                            WordsIn(view.got["rooms"], r) \subseteq view.got["words"].words
                      /\ view.got["trail"].exported = stored.exported
    BY DEF ExportIsClosed
  <1>1. /\ "export" \in StoreCalls
        /\ 1 \in 1 .. Len(StatementsOf["export"]) /\ 2 \in 1 .. Len(StatementsOf["export"])
        /\ 4 \in 1 .. Len(StatementsOf["export"])
    <2>1. Len(StatementsOf["export"]) = 4
      BY CallsAndStatements
    <2> QED BY <2>1, CallsAndStatements
  <1>2. SawInOrder("export", 1, 2) /\ SawStored("export", 4)
    BY <1>1, FinishedCall
  <1>3. "gone" \notin meanwhile => Grows(view.got["rooms"], view.got["words"])
    BY <1>2, SawByName DEF SawInOrder
  <1>4. view.got["trail"].exported = stored.exported
    BY <1>2, SawByName DEF SawStored
  <1> QED BY <1>3, <1>4 DEF Grows, WordsIn

LEMMA AdviceDoesAgree ==
  ASSUME ReportInv, ReportsAssumption
  PROVE  AdviceAgrees
  <1> SUFFICES ASSUME Shows("handoffs"), meanwhile = {}
               PROVE  /\ Cardinality(Suggested) <= 1
                      /\ Cardinality(OpenLeads) <= FiguresShown.open
                      /\ Verdict = "ready_for_beta" =>
                            /\ workspace.website
                            /\ AsksOf(stored) = NewestRows(stored) /\ OpenAsks(stored) # {} =>
                                  \E i \in OpenAsks(stored) : stored.asks[i].owned
    BY DEF AdviceAgrees
  <1>1. Shows("analytics")
    <2>1. view.kind \in ReportKinds \cup {"none"}
      BY DEF ReportInv, ReportTypes, ReportViews
    <2>2. "analytics" \in CallsOf[view.kind]
      <3>1. "handoffs" \in CallsOf[view.kind]
        BY DEF Shows
      <3>2. view.kind \in {"none", "dashboard", "readiness", "suggestions", "weekly", "inbox",
                           "export"}
        BY <2>1 DEF ReportsAssumption
      <3> QED
        BY <3>1, <3>2 DEF CallsOf, Dashboard, Readiness, Suggestions, Weekly
    <2> QED BY <2>2 DEF Shows
  <1>2. /\ "analytics" \in StoreCalls /\ "handoffs" \in StoreCalls
        /\ 2 \in 1 .. Len(StatementsOf["analytics"]) /\ 2 \in 2 .. Len(StatementsOf["analytics"])
        /\ 1 \in 1 .. Len(StatementsOf["handoffs"])
    <2>1. Len(StatementsOf["analytics"]) = 4 /\ Len(StatementsOf["handoffs"]) = 1
      BY CallsAndStatements
    <2> QED BY <2>1, CallsAndStatements
  <1>3. SawStored("analytics", 2) /\ SawStored("handoffs", 1)
    BY <1>1, <1>2, FinishedCall
  <1>4. view.got["open"] = stored /\ view.got["list"] = stored
    BY <1>3, SawByName DEF SawStored
  <1>5. /\ ListedOpen \in SUBSET OpenAsks(stored) /\ OpenLeads \in SUBSET OpenAsks(stored)
        /\ FiguresShown.open = Cardinality(OpenAsks(stored))
    BY <1>4 DEF ListedOpen, OpenLeads, NewestRows, OpenAsks, AsksOf, FiguresShown
  <1>6. IsFiniteSet(OpenAsks(stored))
    BY AsksAreFinite, OpenAreAsks
  <1>7. Cardinality(Suggested) <= 1
    <2>1. ListedOpen # {} => FiguresShown.open # 0
      BY <1>5, <1>6, FS_EmptySet
    <2>2. \A x, y \in Suggested : x = y
      BY <2>1 DEF Suggested
    <2> QED BY <2>2, AtMostOne
  <1>8. Cardinality(OpenLeads) <= FiguresShown.open
    BY <1>5, <1>6, FS_Subset
  <1>9. ASSUME Verdict = "ready_for_beta"
        PROVE  /\ workspace.website
               /\ AsksOf(stored) = NewestRows(stored) /\ OpenAsks(stored) # {} =>
                     \E i \in OpenAsks(stored) : stored.asks[i].owned
    <2>1. \A check \in DOMAIN Weight : Grade(check) # "fail"
      BY <1>9 DEF Verdict
    <2>2. "channel" \in DOMAIN Weight /\ "owners" \in DOMAIN Weight
      BY DEF Weight
    <2>3. ChannelGrade # "fail" /\ OwnersGrade # "fail"
      BY <2>1, <2>2 DEF Grade
    <2>4. workspace.website
      BY <2>3 DEF ChannelGrade
    <2>5. ASSUME AsksOf(stored) = NewestRows(stored), OpenAsks(stored) # {}
          PROVE  \E i \in OpenAsks(stored) : stored.asks[i].owned
      <3>1. ListedOpen = OpenAsks(stored)
        BY <1>4, <2>5 DEF ListedOpen, OpenAsks, AsksOf
      <3>2. \E i \in ListedOpen : view.got["list"].asks[i].owned
        BY <2>3, <2>5, <3>1 DEF OwnersGrade
      <3> QED BY <1>4, <3>1, <3>2
    <2> QED BY <2>4, <2>5
  <1> QED BY <1>7, <1>8, <1>9

(***************************************************************************)
(* Whatever is written while a report is made, it agrees with itself: for  *)
(* any conversations, handoffs and writes, any report and any workspace.   *)
(* The statements of a call see the store in their order, and it only      *)
(* grows unless conversations are removed (summarizeAnalytics, listInbox,  *)
(* exportTenantData, buildProductionReadiness, buildWeeklyReportEmail).    *)
(***************************************************************************)
THEOREM ReportsDoAgree == ReportSpec => []ReportsAgree
  <1> USE ReportsAssumption
  <1>1. ReportInit => ReportInv
    <2> SUFFICES ASSUME ReportInit PROVE ReportInv
      OBVIOUS
    <2>1. /\ stored = NoBase /\ view = NoReport /\ meanwhile = {}
      BY DEF ReportInit
    <2>2. /\ view.kind = "none" /\ view.done = [c \in StoreCalls |-> 0]
          /\ view.got = [s \in Statements |-> NoBase] /\ view \in ReportViews
      BY <2>1, NoBaseIsBase DEF NoReport, ReportViews
    <2>3. ReportTypes
      BY <2>1, <2>2, NoBaseIsBase, CallsAndStatements DEF ReportTypes
    <2> QED BY <2>1, <2>2, <2>3 DEF ReportInv
  <1>2. ReportInv /\ [ReportNext]_reportVars => ReportInv'
    <2> SUFFICES ASSUME ReportInv, [ReportNext]_reportVars PROVE ReportInv'
      OBVIOUS
    <2>1. ASSUME NEW kind \in ReportKinds, NEW audited \in BOOLEAN, BeginReport(kind, audited)
          PROVE  ReportInv'
      BY <2>1, BeginReportKeeps
    <2>2. ASSUME NEW asked \in StoreCalls, ReadNext(asked)
          PROVE  ReportInv'
      BY <2>2, ReadNextKeeps
    <2>3. ASSUME NEW r \in Rooms, OpenRoom(r)
          PROVE  ReportInv'
      BY <2>3, OpenRoomKeeps
    <2>4. ASSUME NEW r \in Rooms, NEW k \in 1 .. PerRoom, AddWord(r, k)
          PROVE  ReportInv'
      BY <2>4, AddWordKeeps
    <2>5. ASSUME NEW r \in Rooms, NEW i \in 1 .. Asks,
                 AskForHuman(r, i) \/ \E k \in 1 .. PerRoom : LeadArrives(r, k, i)
          PROVE  ReportInv'
      BY <2>5, AsksKeep
    <2>6. CASE \/ \E i \in 1 .. Asks, owned \in BOOLEAN :
                     \E status \in {"open", "in_progress", "resolved"} :
                        UpdateAsk(i, status, owned)
               \/ \E r \in Rooms, keeps \in BOOLEAN : RemoveRoom(r, keeps)
      BY <2>6, ChangesKeep
    <2>7. CASE UNCHANGED reportVars
      BY <2>7 DEF reportVars, ReportInv, ReportTypes, SawStored, SawInOrder, Saw, Grows, AsksOf
    <2> QED BY <2>1, <2>2, <2>3, <2>4, <2>5, <2>6, <2>7 DEF ReportNext
  <1>3. ReportInv => ReportsAgree
    BY FiguresDoAgree, InboxDoesAgree, ExportDoesClose, AdviceDoesAgree DEF ReportsAgree
  <1> QED BY <1>1, <1>2, <1>3, PTL DEF ReportSpec
=============================================================================
