--------------------------- MODULE ReplyContract ---------------------------
(***************************************************************************)
(* What the messaging pipeline promises the customer about one inbound     *)
(* provider event, with no request, retry, crash or database in sight: the *)
(* message is kept once, a reply is promised only for a kept message, and  *)
(* a promised reply is handed to the provider at most once.                *)
(* WebhookReply implements this specification.                             *)
(***************************************************************************)
EXTENDS Naturals

CONSTANT Events

VARIABLES kept,      \* events whose text is stored in the conversation
          promised,  \* events for which an automated reply is reserved
          copies     \* how many times the reply of an event was sent

contractVars == <<kept, promised, copies>>

Init == /\ kept = {}
        /\ promised = {}
        /\ copies = [e \in Events |-> 0]

Keep(e) == /\ e \notin kept
           /\ kept' = kept \cup {e}
           /\ UNCHANGED <<promised, copies>>

Promise(e) == /\ e \in kept
              /\ e \notin promised
              /\ promised' = promised \cup {e}
              /\ UNCHANGED <<kept, copies>>

Reply(e) == /\ e \in promised
            /\ copies[e] = 0
            /\ copies' = [copies EXCEPT ![e] = 1]
            /\ UNCHANGED <<kept, promised>>

Next == \E e \in Events : Keep(e) \/ Promise(e) \/ Reply(e)

Spec == Init /\ [][Next]_contractVars
=============================================================================
