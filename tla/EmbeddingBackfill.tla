-------------------------- MODULE EmbeddingBackfill --------------------------
(***************************************************************************)
(* The repeated worker job that embeds approved chunks without a vector:   *)
(* tenant after tenant, a batch at a time, while entries are added, edited,*)
(* published again and deleted.  A refused batch ends the run for every    *)
(* tenant that is left.                                                    *)
(***************************************************************************)
EXTENDS Naturals, FiniteSets, Sequences, FiniteSetsExt

CONSTANTS
    Chunks,        \* Chunks[t]: the chunk ids of tenant t, in id order
    BatchSize,     \* BATCH_SIZE of the job
    Edits,         \* how often each text may change
    MaxDeaths      \* how often the worker may die within a run

VARIABLES
    text,          \* text[c]: version of the approved text, 0 when there is none
    vector,        \* vector[c]: the version it was computed from, 0 when missing
    job,           \* the job: its tenant, its batch and the texts it read
    deaths

backfillVars == <<text, vector, job, deaths>>

Tenant == DOMAIN Chunks
ChunkId == UNION {Chunks[t] : t \in Tenant}
Idle == [at |-> "idle", tenant |-> 1, batch |-> {}, read |-> [c \in ChunkId |-> 0], any |-> FALSE]

BackfillInit ==
    /\ text = [c \in ChunkId |-> 0]
    /\ vector = [c \in ChunkId |-> 0]
    /\ job = Idle
    /\ deaths = 0

-----------------------------------------------------------------------------
AddChunk(c) ==
    /\ text[c] = 0
    /\ text' = [text EXCEPT ![c] = 1]
    /\ UNCHANGED <<vector, job, deaths>>

\* updateFaq leaves the vector of the old text.
EditFaq(c) ==
    /\ text[c] \in 1..Edits
    /\ text' = [text EXCEPT ![c] = @ + 1]
    /\ UNCHANGED <<vector, job, deaths>>

\* publishOnboardingAnswer writes its chunk anew, without a vector.
Republish(c) ==
    /\ text[c] \in 1..Edits
    /\ text' = [text EXCEPT ![c] = @ + 1]
    /\ vector' = [vector EXCEPT ![c] = 0]
    /\ UNCHANGED <<job, deaths>>

-----------------------------------------------------------------------------
StartRun ==
    /\ job.at = "idle"
    /\ job' = [Idle EXCEPT !.at = "list"]
    /\ UNCHANGED <<text, vector, deaths>>

\* listChunksMissingEmbedding, in id order.
Missing(t) == {c \in Chunks[t] : text[c] # 0 /\ vector[c] = 0}
FirstIds(set) == {c \in Chunks[job.tenant] : Cardinality({d \in Chunks[job.tenant] : d < c}) < BatchSize}
FirstOf(set) == {c \in set : Cardinality({d \in set : d < c}) < BatchSize}

NextTenant == IF job.tenant + 1 \in Tenant THEN [Idle EXCEPT !.at = "list", !.tenant = job.tenant + 1] ELSE Idle

ListMissing ==
    /\ job.at = "list"
    /\ job' = IF Missing(job.tenant) = {} THEN NextTenant
              ELSE [job EXCEPT !.at = "embed", !.batch = FirstOf(Missing(job.tenant)),
                               !.read = text, !.any = FALSE]
    /\ UNCHANGED <<text, vector, deaths>>

\* The provider embeds the whole batch or fails, and the job with it.
Embed ==
    /\ job.at = "embed"
    /\ job' = [job EXCEPT !.at = "store"]
    /\ UNCHANGED <<text, vector, deaths>>

EmbedsNothing ==
    /\ job.at = "embed"
    /\ job' = [job EXCEPT !.at = "store", !.batch = {}]
    /\ UNCHANGED <<text, vector, deaths>>

EmbedFails ==
    /\ job.at = "embed"
    /\ job' = Idle
    /\ UNCHANGED <<text, vector, deaths>>

\* setChunkEmbedding, chunk by chunk.
StoreVector ==
    /\ job.at = "store" /\ job.batch # {}
    /\ LET c == Min(job.batch) IN
          /\ vector' = [vector EXCEPT ![c] = job.read[c]]
          /\ job' = [job EXCEPT !.batch = @ \ {c}, !.any = TRUE]
    /\ UNCHANGED <<text, deaths>>

NextBatch ==
    /\ job.at = "store" /\ job.batch = {}
    /\ job' = IF job.any THEN [job EXCEPT !.at = "list"] ELSE NextTenant
    /\ UNCHANGED <<text, vector, deaths>>

WorkerDies ==
    /\ job.at # "idle" /\ deaths < MaxDeaths
    /\ job' = Idle
    /\ deaths' = deaths + 1
    /\ UNCHANGED <<text, vector>>

JobStep == StartRun \/ ListMissing \/ StoreVector \/ NextBatch

BackfillNext ==
    \/ \E c \in ChunkId : AddChunk(c) \/ EditFaq(c) \/ Republish(c)
    \/ JobStep \/ Embed \/ EmbedsNothing \/ EmbedFails \/ WorkerDies

-----------------------------------------------------------------------------
(* Fairness: the scheduler starts the job again and again, and the provider *)
(* answers if it is asked often enough.                                     *)
BackfillFairness ==
    /\ WF_backfillVars(JobStep)
    /\ SF_backfillVars(Embed)

\* Every approved text can be found by its meaning in the end: the job reaches
\* each chunk of each tenant however its runs fail, and leaves none behind.
EmbeddingsSettle == []<>(\A t \in Tenant : Missing(t) = {})
=============================================================================
