------------------------------ MODULE Accounts ------------------------------
(***************************************************************************)
(* Users, their sign-in accounts at the provider, one project with its     *)
(* memberships and invites, and the role check of every request.           *)
(*                                                                         *)
(* Rows of users are unique by email and by provider account; a sign-in    *)
(* matches by account first and then by email.  A request reads the        *)
(* caller's roles when it starts and writes later; an invite is read and   *)
(* claimed in two statements.  A project made by self service is pending   *)
(* until its first number is paid for.                                     *)
(***************************************************************************)
EXTENDS Naturals, FiniteSets

CONSTANTS
    Rows,           \* rows of users
    Addresses,      \* emails
    Logins,         \* accounts at the sign-in provider
    Offers,         \* invites
    Calls,          \* requests in progress
    Roles           \* ranks in use: 1 viewer, 2 operator, 3 admin, 4 owner

\* An empty email and no account are neither an email nor an account.
ASSUME AccountsAssumption == Roles \subseteq Nat /\ "" \notin Addresses /\ "none" \notin Logins

VARIABLES
    user,           \* users: email ("" = unused) and linked provider account
    provider,       \* the provider's accounts and their current email
    session,        \* rows signed in with a cookie
    project,        \* tenants.status: none, setup_pending, active
    member,         \* memberships: rank, 0 = none
    offer,          \* tenant_invites
    call,           \* the requests
    top,            \* highest rank held or given by the platform so far
    refused         \* the project's owner was refused an onboarding step

accountsVars == <<user, provider, session, project, member, offer, call, top, refused>>

NoLogin == "none"
Waiting == [at |-> "idle", email |-> "", rank |-> 0, login |-> NoLogin, offer |-> 0]
Highest(a, b) == IF a > b THEN a ELSE b

AccountsInit ==
    /\ user = [u \in Rows |-> [email |-> "", login |-> NoLogin]]
    /\ provider = [l \in Logins |-> ""]
    /\ session = {}
    /\ project = "none"
    /\ member = [u \in Rows |-> 0]
    /\ offer = [o \in Offers |-> [status |-> "none", email |-> "", rank |-> 0, uses |-> 0]]
    /\ call = [c \in Calls |-> Waiting]
    /\ top = 0
    /\ refused = FALSE

-----------------------------------------------------------------------------
\* Rows by email and by provider account; both indexes are unique.
ByEmail(e) == {u \in Rows : user[u].email = e}
ByLogin(l) == {u \in Rows : l # NoLogin /\ user[u].login = l}
UnusedRows == {u \in Rows : user[u].email = ""}

\* A row linked to one provider account is never linked to another.
MatchedByEmail(e, l) == \A u \in ByEmail(e), v \in ByLogin(l) : u = v
Linkable(e, l) ==
    /\ MatchedByEmail(e, l)
    /\ \A u \in ByEmail(e) : l # NoLogin => user[u].login \in {NoLogin, l}

Register(e) ==
    \E u \in UnusedRows :
        /\ ByEmail(e) = {} /\ \A v \in UnusedRows : u <= v
        /\ user' = [user EXCEPT ![u].email = e]
        /\ session' = session \cup {u}
        /\ UNCHANGED <<provider, project, member, offer, call, top, refused>>

Login(u) ==
    /\ user[u].email # "" /\ u \notin session
    /\ session' = session \cup {u}
    /\ UNCHANGED <<user, provider, project, member, offer, call, top, refused>>

\* Logout, or the expiry of the session seen by its next request or by the sweep.
EndSession(u) ==
    /\ u \in session
    /\ session' = session \ {u}
    /\ UNCHANGED <<user, provider, project, member, offer, call, top, refused>>

\* The provider's accounts: one per email, created and renamed there.
ChangeProvider(l, e) ==
    /\ \A k \in Logins : provider[k] # e
    /\ provider' = [provider EXCEPT ![l] = e]
    /\ UNCHANGED <<user, session, project, member, offer, call, top, refused>>

\* A sign-in with the provider's token: the row follows the account's email, or
\* the row of that email is linked, or a row is created.
SignIn(l) ==
    LET e == provider[l] IN
    /\ e # ""
    /\ IF ByLogin(l) # {}
       THEN /\ ByEmail(e) \subseteq ByLogin(l)
            /\ \E u \in ByLogin(l) : user' = [user EXCEPT ![u].email = e]
       ELSE /\ Linkable(e, l)
            /\ \E u \in IF ByEmail(e) # {} THEN ByEmail(e) ELSE UnusedRows :
                    user' = [user EXCEPT ![u] = [email |-> e, login |-> l]]
    /\ UNCHANGED <<provider, session, project, member, offer, call, top, refused>>

-----------------------------------------------------------------------------
\* upsertTenantUser, in one transaction: the row of the email or of the account,
\* and its membership with the given rank, whatever it was before.
Upsert(e, l, rank) ==
    LET known == IF ByEmail(e) # {} THEN ByEmail(e) ELSE ByLogin(l)
        fresh == {u \in UnusedRows : \A v \in UnusedRows : u <= v} IN
    /\ Linkable(e, l)
    /\ \E u \in IF known # {} THEN known ELSE fresh :
        /\ user' = [user EXCEPT ![u] =
                       [email |-> IF known # {} THEN @.email ELSE e,
                        login |-> IF l # NoLogin THEN l ELSE @.login]]
        /\ member' = [member EXCEPT ![u] = rank]

\* Memberships count while the project is active.
RankOf(u) == IF project = "active" THEN member[u] ELSE 0
Allowed(u, need) == (u \in session \/ user[u].login # NoLogin) /\ RankOf(u) >= need
AdminMayGrant(u, rank) == Allowed(u, 3)
MayGrant(u, rank) == Allowed(u, 3) /\ RankOf(u) >= rank

\* The platform creates a project and sets users of any rank in it.
CreateTenant ==
    /\ project = "none" /\ project' = "active"
    /\ UNCHANGED <<user, provider, session, member, offer, call, top, refused>>

AddByPlatform(e, rank) ==
    /\ project = "active" /\ Upsert(e, NoLogin, rank)
    /\ top' = Highest(top, rank)
    /\ UNCHANGED <<provider, session, project, offer, call, refused>>

\* POST /onboarding/projects: the caller becomes the owner of a pending project.
CreateProject(u) ==
    /\ project = "none" /\ u \in session
    /\ project' = "setup_pending"
    /\ member' = [member EXCEPT ![u] = 4]
    /\ top' = 4
    /\ UNCHANGED <<user, provider, session, offer, call, refused>>

\* The owner looks for numbers, reserves one and opens the checkout; the paid
\* checkout activates the project.
Onboard(u) ==
    /\ project = "setup_pending" /\ u \in session /\ member[u] = 4
    /\ IF Allowed(u, 3)
       THEN project' = "active" /\ UNCHANGED refused
       ELSE refused' = TRUE /\ UNCHANGED project
    /\ UNCHANGED <<user, provider, session, member, offer, call, top>>

-----------------------------------------------------------------------------
\* POST users or invites: the rank is checked against the caller's roles as read
\* when the request began.  With the provider the invited user is provisioned.
BeginGrant(c, u, kind, e, l, rank) ==
    /\ call[c] = Waiting /\ MayGrant(u, rank)
    /\ l # NoLogin => provider[l] = e
    /\ call' = [call EXCEPT ![c] = [Waiting EXCEPT !.at = kind, !.email = e,
                                                   !.login = l, !.rank = rank]]
    /\ UNCHANGED <<user, provider, session, project, member, offer, top, refused>>

GrantUser(c) ==
    /\ call[c].at = "user"
    /\ Upsert(call[c].email, call[c].login, call[c].rank)
    /\ call' = [call EXCEPT ![c] = Waiting]
    /\ UNCHANGED <<provider, session, project, offer, top, refused>>

RefuseUser(c) ==
    /\ call[c].at = "user" /\ ~Linkable(call[c].email, call[c].login)
    /\ call' = [call EXCEPT ![c] = Waiting]
    /\ UNCHANGED <<user, provider, session, project, member, offer, top, refused>>

\* The invite is stored; with the provider, the membership follows at once.
StoreOffer(c) ==
    \E o \in Offers :
        /\ call[c].at = "offer" /\ offer[o].status = "none"
        /\ offer' = [offer EXCEPT ![o].status = "pending", ![o].email = call[c].email,
                                  ![o].rank = call[c].rank]
        /\ call' = [call EXCEPT ![c] = IF call[c].login # NoLogin THEN [@ EXCEPT !.at = "user"]
                                                                   ELSE Waiting]
        /\ UNCHANGED <<user, provider, session, project, member, top, refused>>

ExpireOffer(o) ==
    /\ offer[o].status = "pending"
    /\ offer' = [offer EXCEPT ![o].status = "expired"]
    /\ UNCHANGED <<user, provider, session, project, member, call, top, refused>>

\* acceptTenantInvite: read, then claim what is still pending.
ReadOffer(c, o) ==
    /\ call[c] = Waiting /\ offer[o].status = "pending"
    /\ call' = [call EXCEPT ![c].at = "claim", ![c].offer = o]
    /\ UNCHANGED <<user, provider, session, project, member, offer, top, refused>>

Claimable(o) == offer[o].status = "pending"

ClaimOffer(c) ==
    LET o == call[c].offer IN
    /\ call[c].at = "claim" /\ Claimable(o)
    /\ Upsert(offer[o].email, NoLogin, offer[o].rank)
    /\ offer' = [offer EXCEPT ![o].status = "accepted", ![o].uses = @ + 1]
    /\ session' = session \cup {u \in Rows : user'[u].email = offer[o].email}
    /\ call' = [call EXCEPT ![c] = Waiting]
    /\ UNCHANGED <<provider, project, top, refused>>

LoseOffer(c) ==
    /\ call[c].at = "claim" /\ ~Claimable(call[c].offer)
    /\ call' = [call EXCEPT ![c] = Waiting]
    /\ UNCHANGED <<user, provider, session, project, member, offer, top, refused>>

AccountsNext ==
    \/ \E e \in Addresses : Register(e) \/ \E rank \in Roles : AddByPlatform(e, rank)
    \/ \E u \in Rows : Login(u) \/ EndSession(u) \/ CreateProject(u) \/ Onboard(u)
    \/ \E l \in Logins : SignIn(l) \/ \E e \in Addresses : ChangeProvider(l, e)
    \/ CreateTenant
    \/ \E c \in Calls :
        \/ \E u \in Rows, e \in Addresses, l \in Logins \cup {NoLogin}, rank \in Roles :
                BeginGrant(c, u, "user", e, l, rank) \/ BeginGrant(c, u, "offer", e, l, rank)
        \/ GrantUser(c) \/ RefuseUser(c) \/ StoreOffer(c)
        \/ \E o \in Offers : ReadOffer(c, o)
        \/ ClaimOffer(c) \/ LoseOffer(c)
    \/ \E o \in Offers : ExpireOffer(o)

AccountsSpec == AccountsInit /\ [][AccountsNext]_accountsVars

-----------------------------------------------------------------------------
\* repository.ts:2396-2401: of two overlapping accepts of an invite one creates
\* the user; an invite is used once.
OfferUsedOnce == \A o \in Offers : offer[o].uses <= 1

\* server.ts:1646-1650, 1689-1693: neither adding a user nor an invite accepted
\* at any later time gives a rank above every rank held in the project before.
NoRankAboveGranters == \A u \in Rows : member[u] <= top

\* repository.ts:2028-2035, 2260-2273: a user linked to a provider account stays
\* with that account, also after emails moved from one account to another.
LinkedForGood ==
    [][\A u \in Rows : user[u].login # NoLogin => user'[u].login = user[u].login]_accountsVars

\* docs/api.md:100: a user who made a project reserves a number and starts the
\* checkout while the project is pending.
OwnerMayOnboard == ~refused

\* Who is in a project was let in by an unused invite or an account of the own,
\* with a rank somebody was entitled to give.
RightsAreGranted == OfferUsedOnce /\ NoRankAboveGranters
=============================================================================
