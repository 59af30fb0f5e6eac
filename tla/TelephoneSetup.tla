--------------------------- MODULE TelephoneSetup ---------------------------
(***************************************************************************)
(* How tenants get their telephone connection: a number bought from or     *)
(* already held at Twilio, an order with a SIP provider, a change of the   *)
(* telephone settings, or a plain PUT of the connection.                   *)
(*                                                                         *)
(* A connection is one row per tenant and provider, and its account id     *)
(* belongs to one row only.  Setups read the tenant's rows first and write *)
(* one of them last; Twilio is changed in between.                         *)
(***************************************************************************)
EXTENDS FiniteSets, Naturals

CONSTANTS
    Firms,          \* tenants
    TwilioNumbers,  \* numbers of the platform's Twilio account
    Area,           \* the placeholder of an order without a number yet
    Setups,         \* setup requests
    MaxSetups       \* setup requests begun, a bound

ASSUME SetupAssumption == TwilioNumbers \cap {"none", "null"} = {} /\ MaxSetups \in Nat

Suppliers == {"twilio", "easybell"}
Slots == Firms \X Suppliers
None == "none"
Null == "null"

VARIABLES
    line,           \* channel_connections: account id and the settings' fields
    route,          \* the tenant a number's calls go to at Twilio; None = not bought
    setup,          \* requests in progress
    expected,       \* fields the tenants were told are saved
    trouble,        \* what makes routes or settings differ
    refusals,       \* what the account of a refused setup was
    begun

setupVars == <<line, route, setup, expected, trouble, refusals, begun>>

NoSetup == [kind |-> None, at |-> "idle", slot |-> None, account |-> None,
            base |-> {}, alone |-> TRUE]
NoLine == [account |-> None, fields |-> {}]

SetupInit ==
    /\ line = [s \in Slots |-> NoLine]
    /\ route = [n \in TwilioNumbers |-> None]
    /\ setup = [r \in Setups |-> NoSetup]
    /\ expected = [s \in Slots |-> {}]
    /\ trouble = {}
    /\ refusals = {}
    /\ begun = 0

LinesOf(f) == {s \in Slots : s[1] = f /\ line[s].account # None}

\* A request begins; another one of the tenant or of the number overlaps it.
Begin(r, kind, slot, account, base) ==
    LET others == {q \in Setups : setup[q] # NoSetup /\
                            (setup[q].slot[1] = slot[1] \/ setup[q].account = account)} IN
    /\ setup[r] = NoSetup /\ begun < MaxSetups
    /\ setup' = [q \in Setups |->
           IF q = r THEN [kind |-> kind, slot |-> slot, account |-> account, base |-> base,
                          at |-> IF kind \in {"buy", "connect"} THEN "twilio" ELSE "save",
                          alone |-> others = {}]
           ELSE IF q \in others THEN [setup[q] EXCEPT !.alone = FALSE] ELSE setup[q]]
    /\ begun' = begun + 1
    /\ UNCHANGED <<line, route, expected, trouble, refusals>>

\* A purchase answers with the connection when the tenant has it already.
Buy(r, f, n) == line[<<f, "twilio">>].account # n /\ Begin(r, "buy", <<f, "twilio">>, n, {})
Connect(r, f, n) == Begin(r, "connect", <<f, "twilio">>, n, {})
Put(r, slot) == Begin(r, "put", slot, Null, {})

\* The settings of the provider's row, or of any telephone row of the tenant.
ReadFor(slot) ==
    IF line[slot].account # None THEN {slot} ELSE LinesOf(slot[1])

\* The account of an order is its number, or the area that was asked for.
OrderAccount(f) == {Area, f}

\* A new number, call forwarding or a SIP trunk.
OrderNumber(r, f) ==
    LET slot == <<f, "easybell">>
        from == ReadFor(slot) IN
    \E base \in IF from = {} THEN {{}} ELSE {line[s].fields : s \in from} :
        \E account \in OrderAccount(f) : Begin(r, "order", slot, account, base)

\* PUT telephone/settings takes any telephone row; its account goes along to the
\* provider named or, for a Twilio row, to the default provider's row.
ChangeSettings(r, f) ==
    LET slot == <<f, "easybell">> IN
    \/ /\ LinesOf(f) = {} /\ Begin(r, "settings", slot, f, {})
    \/ \E s \in LinesOf(f) :
        Begin(r, "settings", slot, IF line[s].account = Null THEN f ELSE line[s].account,
              line[s].fields)

-----------------------------------------------------------------------------
\* Twilio sells a number once and refuses it afterwards.
TwilioSells(n) == route[n] = None

TwilioBuy(r) ==
    LET n == setup[r].account IN
    /\ setup[r].kind = "buy" /\ setup[r].at = "twilio"
    /\ IF TwilioSells(n)
       THEN /\ route' = [route EXCEPT ![n] = setup[r].slot[1]]
            /\ setup' = [setup EXCEPT ![r].at = "save"]
       ELSE UNCHANGED route /\ setup' = [setup EXCEPT ![r] = NoSetup]
    /\ UNCHANGED <<line, expected, trouble, refusals, begun>>

\* The webhook of a number of the account is set to the tenant's.
RoutedIfNew(n, f) == [route EXCEPT ![n] = IF @ = None THEN f ELSE @]
Routed(n, f) == [route EXCEPT ![n] = f]

TwilioConnect(r) ==
    LET n == setup[r].account IN
    /\ setup[r].kind = "connect" /\ setup[r].at = "twilio"
    /\ IF route[n] # None
       THEN route' = Routed(n, setup[r].slot[1]) /\ setup' = [setup EXCEPT ![r].at = "save"]
       ELSE UNCHANGED route /\ setup' = [setup EXCEPT ![r] = NoSetup]
    /\ UNCHANGED <<line, expected, trouble, refusals, begun>>

\* upsertChannelConnection: one row owns an account.
Owners(account) == {s \in Slots : account # Null /\ line[s].account = account}
Free(account, slot) == Owners(account) \subseteq {slot}
FreeForFirm(account, slot) == \A s \in Owners(account) : s[2] # slot[2]
Replaces == {"buy", "connect", "put"}
Added(kind) == IF kind = "order" THEN {"checklist"}
               ELSE IF kind = "settings" THEN {"hours"} ELSE {}
Fields(kind, base) == IF kind \in Replaces THEN {} ELSE base \cup Added(kind)

\* A setup at Twilio that is not saved leaves the number with the new route.
Unsaved(r) == IF setup[r].slot[2] = "twilio" /\ setup[r].kind # "put" THEN {setup[r].account} ELSE {}

SaveSetup(r) ==
    LET q == setup[r] IN
    /\ q.at = "save"
    /\ IF Free(q.account, q.slot)
       THEN /\ line' = [line EXCEPT ![q.slot] = [account |-> q.account,
                                                fields |-> Fields(q.kind, q.base)]]
            /\ expected' = [expected EXCEPT ![q.slot] =
                               IF q.kind \in Replaces THEN {}
                               ELSE IF line[q.slot].account = None THEN Added(q.kind)
                               ELSE @ \cup Added(q.kind)]
            /\ trouble' = trouble \cup (IF q.alone THEN {} ELSE {q.slot[1]} \cup Unsaved(r))
                                 \cup (IF LinesOf(q.slot[1]) \subseteq {q.slot} THEN {} ELSE {q.slot[1]})
            /\ UNCHANGED refusals
       ELSE /\ refusals' = refusals \cup {<<q.slot[1], s[1], q.account>> : s \in Owners(q.account)}
            /\ trouble' = trouble \cup Unsaved(r)
            /\ UNCHANGED <<line, expected>>
    /\ setup' = [setup EXCEPT ![r] = NoSetup]
    /\ UNCHANGED <<route, begun>>

\* The process dies before the row is written.
Abandon(r) ==
    /\ setup[r].at = "save"
    /\ trouble' = trouble \cup Unsaved(r)
    /\ setup' = [setup EXCEPT ![r] = NoSetup]
    /\ UNCHANGED <<line, route, expected, refusals, begun>>

SetupNext ==
    \E r \in Setups :
        \/ \E f \in Firms :
            \/ \E n \in TwilioNumbers : Buy(r, f, n) \/ Connect(r, f, n)
            \/ OrderNumber(r, f) \/ ChangeSettings(r, f)
        \/ \E slot \in Slots : Put(r, slot)
        \/ TwilioBuy(r) \/ TwilioConnect(r) \/ SaveSetup(r) \/ Abandon(r)

SetupSpec == SetupInit /\ [][SetupNext]_setupVars

-----------------------------------------------------------------------------
\* server.ts:1995-2021: the calls of a number go to the tenant whose connection has
\* the number.  Excepted are numbers whose setup was refused, interrupted or
\* overlapped after Twilio was changed, or is about to be saved.
CallsReachOwner ==
    \A n \in TwilioNumbers, f \in Firms :
        line[<<f, "twilio">>].account = n /\ n \notin trouble
            /\ (\A r \in Setups : setup[r].account # n)
                => route[n] = f

\* server.ts:2074-2075, 6499-6505: what a tenant saved in its telephone settings
\* stays there when other parts are saved later, unless two setups of the tenant
\* overlapped, the number was replaced, or the tenant has rows of two providers.
SettingsAreMerged ==
    \A s \in Slots : s[1] \notin trouble => expected[s] \subseteq line[s].fields

\* repository.ts:1604-1608: a setup is refused when another tenant owns the account.
RefusedByOwnerOnly ==
    \A x \in refusals : x[1] # x[2] /\ x[3] # Area

\* Setting up a telephone leaves the number's calls and the tenant's settings
\* where they belong.
SetupsHold == CallsReachOwner /\ SettingsAreMerged
=============================================================================
