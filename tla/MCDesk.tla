------------------------------- MODULE MCDesk -------------------------------
(***************************************************************************)
(* The components around a customer's message, for TLC: what answers it,   *)
(* bills it, learns from it, and the people who set a project up and work  *)
(* in it.  They share no state here, so a behaviour moves only what its    *)
(* focus names; the rest keeps an initial state.                           *)
(***************************************************************************)
EXTENDS VoiceTurn, Billing, KnowledgeImport, OnboardingAnswers,
        WidgetReplies, WidgetChat, ContactErasure, Contacts, HandoffDesk,
        Accounts, PortalLinks, TelephoneSetup, AnswerEngine, AdminConsole

CONSTANTS f1, f2, o1, s1, s2, ra, rb, t1

VARIABLE focus

TwoFaqs      == {f1, f2}
OneOtherFaq  == {o1}
TwoChecksums == {s1, s2}
TwoReplies   == {ra, rb}
OneTalk      == {t1}

Others(part) ==
    /\ IF part = "turn" THEN TRUE ELSE UNCHANGED turnVars
    /\ IF part = "billing" THEN TRUE ELSE UNCHANGED billingVars
    /\ IF part = "import" THEN TRUE ELSE UNCHANGED importVars
    /\ IF part = "onboarding" THEN TRUE ELSE UNCHANGED onboardingVars
    /\ IF part = "replies" THEN TRUE ELSE UNCHANGED repliesVars
    /\ IF part = "chat" THEN TRUE ELSE UNCHANGED chatVars
    /\ IF part = "erasure" THEN TRUE ELSE UNCHANGED erasureVars
    /\ IF part = "contacts" THEN TRUE ELSE UNCHANGED contactsVars
    /\ IF part = "handoff" THEN TRUE ELSE UNCHANGED handoffVars
    /\ IF part = "accounts" THEN TRUE ELSE UNCHANGED accountsVars
    /\ IF part = "portal" THEN TRUE ELSE UNCHANGED portalVars
    /\ IF part = "setup" THEN TRUE ELSE UNCHANGED setupVars
    /\ IF part = "answer" THEN TRUE ELSE UNCHANGED answerVars
    /\ IF part = "console" THEN TRUE ELSE UNCHANGED consoleVars

DeskInit ==
    /\ focus \in {"turn", "events", "usage", "playbook", "uploads", "onboarding",
                  "replies", "chat", "erasure", "contacts", "handoff", "ranks", "logins",
                  "portal", "setup", "answer", "console"}
    /\ TurnInit /\ BillingInit /\ ImportInit /\ OnboardingInit
    /\ RepliesInit /\ ChatInit /\ ErasureInit /\ ContactsInit /\ HandoffInit
    /\ AccountsInit /\ PortalInit /\ SetupInit /\ AnswerInit /\ ConsoleInit
    /\ focus # "turn" => source = "edge"
    /\ focus # "events" => says = [e \in Event |-> CHOOSE s \in StripeStatus : TRUE]
    /\ focus # "answer" => mode = "off" /\ \A e \in Entries : entry[e].words = "gone"

\* What follows a part's own action bounds it: of two interchangeable actors the
\* first one starts, and of independent halves of a part only one moves.
DeskNext ==
    /\ UNCHANGED focus
    /\ \/ focus = "turn" /\ TurnNext /\ Others("turn") /\ words'[1] # "no"
             /\ (caller'.turn = 2 => caller'.attempt < 2)
       \/ focus = "events" /\ BillingNext /\ Others("billing") /\ UNCHANGED usageVars
             /\ checkout'[2].at = "idle"
       \/ focus = "usage" /\ BillingNext /\ Others("billing")
             /\ UNCHANGED <<says, eventRow, handler, subscription, applied>>
       \/ focus = "playbook" /\ ImportNext /\ Others("import") /\ UNCHANGED uploadVars
       \/ focus = "uploads" /\ ImportNext /\ Others("import") /\ UNCHANGED playbookVars
       \/ focus = "onboarding" /\ OnboardingNext /\ Others("onboarding")
       \/ focus = "replies" /\ RepliesNext /\ Others("replies")
             /\ (reply'[rb].status # "none" => reply'[ra].status # "none")
             /\ reply'[ra].chat # 2
             /\ (poll'["q"].at # "idle" => sentPolls' = 2)
       \/ focus = "chat" /\ ChatNext /\ Others("chat")
       \/ focus = "erasure" /\ ErasureNext /\ Others("erasure")
       \/ focus = "contacts" /\ ContactsNext /\ Others("contacts")
       \/ focus = "handoff" /\ HandoffNext /\ Others("handoff")
       \/ focus = "ranks" /\ AccountsNext /\ Others("accounts") /\ UNCHANGED provider
             /\ (user[1].email = "" => user'[1].email # "b")
             /\ (call[2] = Waiting /\ call'[2] # Waiting => call[1] # Waiting)
       \/ focus = "logins" /\ AccountsNext /\ Others("accounts") /\ UNCHANGED offer
             /\ session \subseteq session' /\ project' # "setup_pending"
             /\ (\A u \in Rows : member'[u] # 3)
             /\ (provider'["l"] # "" => provider'["k"] # "")
             /\ (provider["k"] = "" => provider'["k"] # "b")
             /\ (call[2] = Waiting /\ call'[2] # Waiting => call[1] # Waiting)
       \/ focus = "portal" /\ PortalNext /\ Others("portal")
       \/ focus = "setup" /\ SetupNext /\ Others("setup")
             /\ \A k \in Setups : begun' = 1 /\ setup'[k] # NoSetup =>
                                     k = 1 /\ setup'[k].slot[1] = "s"
       \/ focus = "answer" /\ AnswerNext /\ Others("answer")
       \/ focus = "console" /\ ConsoleNext /\ Others("console")
             /\ (switches' = 1 => selected' # "b")

deskVars == <<focus, turnVars, billingVars, importVars, onboardingVars,
              repliesVars, chatVars, erasureVars, contactsVars, handoffVars, accountsVars, portalVars,
              setupVars, answerVars, consoleVars>>

DeskSpec == DeskInit /\ [][DeskNext]_deskVars

\* The accounts alone.
RanksSpec == DeskInit /\ focus = "ranks" /\ [][DeskNext]_deskVars
=============================================================================
