--------------------------- MODULE KnowledgeImport ---------------------------
(***************************************************************************)
(* Bulk sources of a tenant's knowledge: the starter playbook, whose       *)
(* preview decides what an application writes, first to OneBrain and then  *)
(* entry by entry to the database, and uploaded documents, which are known *)
(* by their checksum.  A request may stop at any write.                    *)
(***************************************************************************)
EXTENDS Naturals, FiniteSets, Sequences, SequencesExt

CONSTANTS
    Faqs,          \* the questions of the playbook
    OtherFaqs,     \* entries that administrators add themselves, on other questions
    Applications,  \* requests to apply the playbook
    ListLimit,     \* how many entries the preview reads
    Checksums, Uploads

ASSUME ImportAssumption ==
    /\ Faqs \cap OtherFaqs = {} /\ "none" \notin Checksums
    /\ ListLimit \in Nat /\ Applications \in Nat /\ Uploads \in Nat

VARIABLES
    knowledge,     \* the approved entries, oldest first
    theme,         \* whether the tenant has a widget theme
    apply,         \* apply[a]: where an application is and what it will create
    recorded,      \* playbook records OneBrain holds
    document,      \* the knowledge_documents rows of uploads: checksum and upload
    upload,        \* upload[u]: where an upload is
    jobs,          \* the document_ingestion_jobs rows
    met            \* requests that overlapped, and "unlisted" when a preview
                   \* did not see an entry of the playbook

importVars == <<knowledge, theme, apply, recorded, document, upload, jobs, met>>
playbookVars == <<knowledge, theme, apply, recorded>>
uploadVars == <<document, upload, jobs>>

Application == 1..Applications
Upload == 1..Uploads

ImportInit ==
    /\ knowledge = <<>>
    /\ theme = FALSE
    /\ apply = [a \in Application |-> [at |-> "idle", create |-> {}]]
    /\ recorded = {}
    /\ document = {}
    /\ upload = [u \in Upload |-> [at |-> "idle", checksum |-> "none", duplicate |-> FALSE]]
    /\ jobs = {}
    /\ met = {}

-----------------------------------------------------------------------------
\* listKnowledge: the newest entries, at most ListLimit of them.
Listed == {knowledge[i] : i \in {j \in DOMAIN knowledge : j + ListLimit > Len(knowledge)}}

\* buildPlaybookPreview: set the theme where the tenant has none or it is to be
\* overwritten, and create each entry whose question is not listed.
Parts == Faqs \cup {"theme"}
EveryChange(overwrite) == Parts
Changes(overwrite) == (Faqs \ Listed) \cup (IF theme /\ ~overwrite THEN {} ELSE {"theme"})

Preview(a, overwrite) ==
    /\ apply[a].at = "idle"
    /\ apply' = [apply EXCEPT ![a] = [at |-> "recording", create |-> Changes(overwrite)]]
    /\ met' = met \cup (IF \E o \in Application : apply[o].at \in {"recording", "creating"}
                        THEN {"applications"} ELSE {})
                  \cup (IF Faqs \cap ToSet(knowledge) \subseteq Listed THEN {} ELSE {"unlisted"})
    /\ UNCHANGED <<knowledge, theme, recorded, uploadVars>>

\* Every change is written to OneBrain under an id of its own before any is
\* written locally.  A failed write ends the request.
RecordChange(a, c) ==
    /\ apply[a].at = "recording" /\ c \in apply[a].create
    /\ recorded' = recorded \cup {c}
    /\ UNCHANGED <<knowledge, theme, apply, uploadVars, met>>

RecordedAll(a) == apply[a].at = "recording" /\ apply[a].create \subseteq recorded

BeginCreating(a) ==
    /\ RecordedAll(a)
    /\ apply' = [apply EXCEPT ![a].at = "creating"]
    /\ UNCHANGED <<knowledge, theme, recorded, uploadVars, met>>

ApplyTheme(a) ==
    /\ apply[a].at = "creating" /\ "theme" \in apply[a].create
    /\ theme' = TRUE
    /\ apply' = [apply EXCEPT ![a].create = @ \ {"theme"}]
    /\ UNCHANGED <<knowledge, recorded, uploadVars, met>>

\* addFaq: source, document and chunk in one transaction.
AddFaq(a, f) ==
    /\ apply[a].at = "creating" /\ f \in apply[a].create \ {"theme"} /\ "theme" \notin apply[a].create
    /\ knowledge' = Append(knowledge, f)
    /\ apply' = [apply EXCEPT ![a].create = @ \ {f}]
    /\ UNCHANGED <<theme, recorded, uploadVars, met>>

StopApplying(a) ==
    /\ apply[a].at \in {"recording", "creating"}
    /\ apply' = [apply EXCEPT ![a].at = "done"]
    /\ UNCHANGED <<knowledge, theme, recorded, uploadVars, met>>

\* The routes that add one entry by hand and delete one.
AddOther(f) ==
    /\ f \notin ToSet(knowledge)
    /\ knowledge' = Append(knowledge, f)
    /\ UNCHANGED <<theme, apply, recorded, uploadVars, met>>

DeleteEntry(i) ==
    /\ knowledge' = RemoveAt(knowledge, i)
    /\ UNCHANGED <<theme, apply, recorded, uploadVars, met>>

-----------------------------------------------------------------------------
\* decodeKnowledgeUpload refuses what is not base64, empty or too large; no
\* row is written for it.
Decode(u, sum) ==
    /\ upload[u].at = "idle"
    /\ \/ upload' = [upload EXCEPT ![u] = [at |-> "decoded", checksum |-> sum, duplicate |-> FALSE]]
       \/ upload' = [upload EXCEPT ![u].at = "refused"]
    /\ met' = met \cup (IF \E o \in Upload : upload[o].at \in {"decoded", "checked"}
                        THEN {"uploads"} ELSE {})
    /\ UNCHANGED <<playbookVars, document, jobs>>

\* extractUploadedKnowledgeText finds no text: the failure is recorded.
RecordFailure(u) ==
    /\ upload[u].at = "decoded"
    /\ jobs' = jobs \cup {[of |-> u, status |-> "failed"]}
    /\ upload' = [upload EXCEPT ![u].at = "refused"]
    /\ UNCHANGED <<playbookVars, document, met>>

\* ingestKnowledgeDocument looks for a document with the checksum, and adds
\* source, document, job and suggestions, or only an archived job.
KnownSum(sum) == \E d \in document : d.checksum = sum

CheckDuplicate(u) ==
    /\ upload[u].at = "decoded"
    /\ upload' = [upload EXCEPT ![u].at = "checked", ![u].duplicate = KnownSum(upload[u].checksum)]
    /\ UNCHANGED <<playbookVars, document, jobs, met>>

Ingest(u) ==
    /\ upload[u].at = "checked"
    /\ jobs' = jobs \cup {[of |-> u, status |-> IF upload[u].duplicate THEN "archived" ELSE "pending_review"]}
    /\ document' = IF upload[u].duplicate THEN document
                   ELSE document \cup {[checksum |-> upload[u].checksum, by |-> u]}
    /\ upload' = [upload EXCEPT ![u].at = "done"]
    /\ UNCHANGED <<playbookVars, met>>

ImportNext ==
    \/ \E a \in Application :
          \/ BeginCreating(a) \/ ApplyTheme(a) \/ StopApplying(a)
          \/ \E overwrite \in BOOLEAN : Preview(a, overwrite)
          \/ \E c \in Parts : RecordChange(a, c)
          \/ \E f \in Faqs : AddFaq(a, f)
    \/ \E f \in OtherFaqs : AddOther(f)
    \/ \E i \in DOMAIN knowledge : DeleteEntry(i)
    \/ \E u \in Upload :
          \/ RecordFailure(u) \/ CheckDuplicate(u) \/ Ingest(u)
          \/ \E sum \in Checksums : Decode(u, sum)

ImportSpec == ImportInit /\ [][ImportNext]_importVars

-----------------------------------------------------------------------------
(* Properties *)

\* However often the playbook is applied, stopped half way and applied again,
\* each of its entries exists once, unless two applications overlapped or the
\* tenant has more knowledge than a preview lists.
PlaybookEntriesOnce ==
    met \cap {"applications", "unlisted"} = {} => IsInjective(knowledge)

\* Nothing of the playbook reaches the tenant's database before OneBrain.
PlaybookRecordedFirst ==
    /\ ToSet(knowledge) \cap Faqs \subseteq recorded
    /\ theme => "theme" \in recorded

\* Uploading a file again adds no second document, unless two uploads of it
\* overlapped.
UploadedOnce ==
    "uploads" \notin met =>
        \A d, e \in document : d.checksum = e.checksum => d = e

\* What is imported is imported once and known to OneBrain first.
ImportedOnce == PlaybookEntriesOnce /\ PlaybookRecordedFirst /\ UploadedOnce
=============================================================================
