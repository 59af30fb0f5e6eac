--------------------------- MODULE MCTombstoneFeed ---------------------------
(***************************************************************************)
(* The tombstone feed, the review of unanswered questions, the operator's  *)
(* replies and the workspace's reports for TLC: what is carried out, sent  *)
(* or shown on what was read earlier.  They share no state, so a behaviour *)
(* moves only the one its focus names.  Of the feed two runs overlap with  *)
(* an owner's call, over every feed of the bounded length of a tenant and  *)
(* an account from elsewhere; it never stops, the others may come to rest. *)
(***************************************************************************)
EXTENDS TombstoneFeed, KnowledgeReview, OperatorReplies, TenantReports

CONSTANTS t1, a1, c1, c2, o1, q1

VARIABLE focus

OneTenant    == {t1}
OneStranger  == {a1}
TwoConsumers == {c1, c2}
OneOwner     == {o1}
OneQuestion  == {q1}

feedVars     == vars
overlapsVars == <<focus, feedVars, reviewVars, operatorVars, reportVars>>

\* A workspace that its channels bring to the very score of a beta.
EdgeWorkspaces ==
    {[website |-> TRUE, entries |-> TRUE,
      grade |-> [check \in DOMAIN Weight |->
                    IF check \in {"whatsapp", "voice", "meta"} THEN "warn" ELSE "pass"]]}

Others(part) ==
    /\ IF part = "feed" THEN TRUE ELSE UNCHANGED feedVars
    /\ IF part = "review" THEN TRUE ELSE UNCHANGED reviewVars
    /\ IF part = "operator" THEN TRUE ELSE UNCHANGED operatorVars
    /\ IF part = "reports" THEN TRUE ELSE UNCHANGED reportVars

OverlapsInit ==
    /\ focus \in {"feed", "review", "operator", "reports"}
    /\ Init /\ ReviewInit /\ OperatorInit /\ ReportInit
    /\ focus # "feed" =>
          feed = [n \in 1 .. MaxSeq |-> [account |-> a1, type |-> "account"]]
    /\ focus # "operator" => dialog.source = "website"

\* The scans are interchangeable, and so are the requests: the first one starts
\* first, and a request that names two suggestions is the first.  A second reply
\* is sent only where the widget polls for it, beside the first one.  What is
\* written after a report is finished does not change it.
OverlapsNext ==
    /\ UNCHANGED focus
    /\ \/ focus = "feed" /\ Next /\ Others("feed")
       \/ focus = "review" /\ ReviewNext /\ Others("review")
             /\ (\A r \in Request : Len(reviewing'[r].todo) = 2 => r = 1)
             /\ (scan'[2].at # "idle" => scan'[1].at # "idle")
       \/ focus = "operator" /\ OperatorNext /\ Others("operator")
             /\ (letter'["b"].at # "idle" =>
                    dialog.source = "website" /\ letter'["a"].at # "idle" /\ hour = 0)
       \/ focus = "reports" /\ ReportNext /\ Others("reports")
             /\ (written' # written => ~\E call \in StoreCalls : Shows(call))
       \/ focus # "feed" /\ UNCHANGED overlapsVars

\* The consumers start by themselves, so they are fair only in focus.
OverlapsSpec ==
    /\ OverlapsInit /\ [][OverlapsNext]_overlapsVars
    /\ \A c \in Consumers : WF_feedVars(focus = "feed" /\ Consume(c))
=============================================================================
