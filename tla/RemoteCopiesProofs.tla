-------------------------- MODULE RemoteCopiesProofs --------------------------
(***************************************************************************)
(* Proofs about RemoteCopies for every set of items and every number of    *)
(* overlapping syncs, erasures and drains, whatever fails or dies.         *)
(***************************************************************************)
EXTENDS RemoteCopies, TLAPS

SyncStates == [at : {"next", "intake", "record", "fail"}, todo : JobSets, hand : JobSets]
ErasureStates == [at : {"idle", "delete"}, captured : SUBSET Items]
OutboxRows == [status : {"none", "pending", "done", "failed"}, attempts : Nat]
DrainStates == [at : {"next", "done", "failed"}, todo : ListedRows, hand : ListedRows]

(* The types of the jobs' local state, by name. *)
Typed ==
  /\ tenant \in {"live", "erased"}
  /\ content \in [Items -> Versions]
  /\ record \in [Items -> Records]
  /\ remote \in [Items -> Versions \cup {NoCopy}]
  /\ sync \in [Syncs -> SyncStates]
  /\ erasure \in [Erasures -> ErasureStates]
  /\ outbox \in [Rows -> OutboxRows]
  /\ drain \in [Drains -> DrainStates]
  /\ raced \subseteq Items
  /\ faults \in 0 .. MaxFaults

LEMMA TypedIsTypeOK == Typed <=> TypeOK
  BY DEF Typed, TypeOK, SyncStates, ErasureStates, OutboxRows, DrainStates

(* Every step keeps the types. *)
LEMMA TypeStep ==
  ASSUME Typed, [Next]_vars
  PROVE  Typed'
  <1> USE DEF Typed
  <1>1. ASSUME NEW i \in Items, Edit(i)
        PROVE  Typed'
    BY <1>1, CopiesAssumption DEF Edit, Versions
  <1>2. ASSUME NEW s \in Syncs, List(s)
        PROVE  Typed'
    <2>1. PICK some \in SUBSET Items :
            /\ sync' = [sync EXCEPT ![s].todo = {<<i, content[i]>> : i \in some}]
            /\ raced' = IF Erasing THEN raced \cup some ELSE raced
      BY <1>2 DEF List
    <2>2. {<<i, content[i]>> : i \in some} \in JobSets
      BY DEF JobSets, Jobs
    <2>3. sync' \in [Syncs -> SyncStates]
      BY <2>1, <2>2 DEF SyncStates
    <2> QED BY <1>2, <2>1, <2>3 DEF List
  <1>3. ASSUME NEW s \in Syncs, NEW i \in Items, NEW v \in Versions,
            Take(s, i, v)
        PROVE  Typed'
    <2>1. sync[s].todo \ {<<i, v>>} \in JobSets /\ {} \in JobSets /\ {<<i, v>>} \in JobSets
      BY DEF SyncStates, JobSets, Jobs
    <2> QED BY <1>3, <2>1 DEF Take, SyncStates
  <1>4. ASSUME NEW s \in Syncs, NEW i \in Items, NEW v \in Versions,
            Intake(s, i, v)
        PROVE  Typed'
    BY <1>4 DEF Intake, SyncStates
  <1>5. ASSUME NEW s \in Syncs, NEW i \in Items, NEW v \in Versions,
            RecordSuccess(s, i, v)
        PROVE  Typed'
    <2>1. {} \in JobSets
      BY DEF JobSets
    <2>2. sync' \in [Syncs -> SyncStates]
      BY <1>5, <2>1 DEF RecordSuccess, SyncStates
    <2>a. [status |-> "synced", ref |-> TRUE, hash |-> HashSent(i, v)] \in Records
      BY DEF Records, HashSent
    <2>3. record' \in [Items -> Records]
      BY <1>5, <2>a DEF RecordSuccess
    <2> QED BY <1>5, <2>2, <2>3 DEF RecordSuccess
  <1>6. ASSUME NEW s \in Syncs, NEW i \in Items, NEW v \in Versions,
            RecordFailure(s, i, v)
        PROVE  Typed'
    <2>0. record[i] \in Records /\ IdleSync \in SyncStates
      BY DEF IdleSync, SyncStates, JobSets
    <2>1. [status |-> "failed", ref |-> record[i].ref, hash |-> v] \in Records
      BY <2>0 DEF Records
    <2>2. record' \in [Items -> Records]
      BY <1>6, <2>1 DEF RecordFailure
    <2>3. sync' \in [Syncs -> SyncStates]
      BY <1>6, <2>0 DEF RecordFailure
    <2> QED BY <1>6, <2>2, <2>3 DEF RecordFailure
  <1>7. ASSUME NEW s \in Syncs, ThrowInSync(s)
        PROVE  Typed'
    BY <1>7, CopiesAssumption DEF ThrowInSync, Fault, SyncStates
  <1>8. ASSUME NEW s \in Syncs, CrashSync(s)
        PROVE  Typed'
    <2>1. IdleSync \in SyncStates
      BY DEF IdleSync, SyncStates, JobSets
    <2> QED BY <1>8, <2>1, CopiesAssumption DEF CrashSync, Fault
  <1>9. ASSUME NEW e \in Erasures, Capture(e)
        PROVE  Typed'
    <2>1. erasure' \in [Erasures -> ErasureStates]
      BY <1>9 DEF Capture, ErasureStates
    <2>2. raced' \subseteq Items
      BY <1>9 DEF Capture, ItemsHeld, SyncStates, JobSets, Jobs
    <2> QED BY <1>9, <2>1, <2>2 DEF Capture
  <1>10. ASSUME NEW e \in Erasures, Delete(e)
         PROVE  Typed'
    <2>1. IdleErasure \in ErasureStates
      BY DEF IdleErasure, ErasureStates
    <2>2. erasure' \in [Erasures -> ErasureStates]
      BY <1>10, <2>1 DEF Delete
    <2>3. outbox' \in [Rows -> OutboxRows]
      BY <1>10 DEF Delete, OutboxRows
    <2>4. record' \in [Items -> Records]
      BY <1>10, CopiesAssumption DEF Delete, NoRecord, Records, Versions
    <2> QED BY <1>10, <2>2, <2>3, <2>4 DEF Delete
  <1>11. ASSUME NEW e \in Erasures, RollBack(e)
         PROVE  Typed'
    <2>1. IdleErasure \in ErasureStates
      BY DEF IdleErasure, ErasureStates
    <2> QED BY <1>11, <2>1, CopiesAssumption DEF RollBack, Fault
  <1>12. ASSUME NEW d \in Drains, ListPending(d)
         PROVE  Typed'
    <2>1. {<<k, outbox[k].attempts>> : k \in Pending} \in ListedRows
      BY DEF ListedRows, Pending, OutboxRows
    <2> QED BY <1>12, <2>1 DEF ListPending, DrainStates
  <1>13. ASSUME NEW d \in Drains, NEW row \in drain[d].todo \cup drain[d].hand,
            DeleteCopy(d, row)
         PROVE  Typed'
    <2>1. row \in Rows \X Nat
      BY DEF DrainStates, ListedRows
    <2>2. drain[d].todo \ {row} \in ListedRows /\ {row} \in ListedRows
      BY <2>1 DEF DrainStates, ListedRows
    <2>3. row[1][1] \in Items
      BY <2>1 DEF Rows
    <2>a. \A answer \in {"done", "failed"} :
            [at |-> answer, todo |-> drain[d].todo \ {row}, hand |-> {row}] \in DrainStates
      BY <2>2 DEF DrainStates
    <2>4. drain' \in [Drains -> DrainStates]
      BY <1>13, <2>a DEF DeleteCopy
    <2>5. remote' \in [Items -> Versions \cup {NoCopy}]
      BY <1>13, <2>3 DEF DeleteCopy
    <2> QED BY <1>13, <2>4, <2>5 DEF DeleteCopy
  <1>14. ASSUME NEW d \in Drains, NEW row \in drain[d].todo \cup drain[d].hand,
            MarkDone(d, row)
         PROVE  Typed'
    <2>1. row[1] \in Rows /\ {} \in ListedRows
      BY DEF DrainStates, ListedRows
    <2>2. drain' \in [Drains -> DrainStates]
      BY <1>14, <2>1 DEF MarkDone, DrainStates
    <2>3. outbox' \in [Rows -> OutboxRows]
      BY <1>14, <2>1 DEF MarkDone, OutboxRows
    <2> QED BY <1>14, <2>2, <2>3 DEF MarkDone
  <1>15. ASSUME NEW d \in Drains, NEW row \in drain[d].todo \cup drain[d].hand,
            MarkFailed(d, row)
         PROVE  Typed'
    <2>1. row[1] \in Rows /\ {} \in ListedRows
      BY DEF DrainStates, ListedRows
    <2>2. drain' \in [Drains -> DrainStates]
      BY <1>15, <2>1 DEF MarkFailed, DrainStates
    <2>3. outbox' \in [Rows -> OutboxRows]
      BY <1>15, <2>1 DEF MarkFailed, OutboxRows, Counted
    <2> QED BY <1>15, <2>2, <2>3 DEF MarkFailed
  <1>16. ASSUME NEW d \in Drains, ThrowInDrain(d)
         PROVE  Typed'
    BY <1>16, CopiesAssumption DEF ThrowInDrain, Fault, DrainStates
  <1>17. ASSUME NEW d \in Drains, CrashDrain(d)
         PROVE  Typed'
    <2>1. IdleDrain \in DrainStates
      BY DEF IdleDrain, DrainStates, ListedRows
    <2> QED BY <1>17, <2>1, CopiesAssumption DEF CrashDrain, Fault
  <1>18. ASSUME UNCHANGED vars
         PROVE  Typed'
    BY <1>18 DEF vars
  <1> HIDE DEF Typed
  <1> QED BY <1>1, <1>2, <1>3, <1>4, <1>5, <1>6, <1>7, <1>8, <1>9, <1>10,
             <1>11, <1>12, <1>13, <1>14, <1>15, <1>16, <1>17, <1>18 DEF Next,
             SyncStep, DrainStep

(* A synced record has an external id. *)
LEMMA RefStep ==
  ASSUME Typed, SyncedHasRef, [Next]_vars
  PROVE  SyncedHasRef'
  <1> USE DEF SyncedHasRef
  <1>a. /\ record \in [Items -> Records]
    BY DEF Typed
  <1> USE <1>a
  <1>1. ASSUME NEW i \in Items, Edit(i)
        PROVE  SyncedHasRef'
    BY <1>1 DEF Edit
  <1>2. ASSUME NEW s \in Syncs, List(s)
        PROVE  SyncedHasRef'
    BY <1>2 DEF List
  <1>3. ASSUME NEW s \in Syncs, NEW i \in Items, NEW v \in Versions,
            Take(s, i, v)
        PROVE  SyncedHasRef'
    BY <1>3 DEF Take
  <1>4. ASSUME NEW s \in Syncs, NEW i \in Items, NEW v \in Versions,
            Intake(s, i, v)
        PROVE  SyncedHasRef'
    BY <1>4 DEF Intake
  <1>5. ASSUME NEW s \in Syncs, NEW i \in Items, NEW v \in Versions,
            RecordSuccess(s, i, v)
        PROVE  SyncedHasRef'
    BY <1>5 DEF RecordSuccess, HashSent
  <1>6. ASSUME NEW s \in Syncs, NEW i \in Items, NEW v \in Versions,
            RecordFailure(s, i, v)
        PROVE  SyncedHasRef'
    BY <1>6 DEF RecordFailure, IdleSync
  <1>7. ASSUME NEW s \in Syncs, ThrowInSync(s)
        PROVE  SyncedHasRef'
    BY <1>7 DEF ThrowInSync
  <1>8. ASSUME NEW s \in Syncs, CrashSync(s)
        PROVE  SyncedHasRef'
    BY <1>8 DEF CrashSync
  <1>9. ASSUME NEW e \in Erasures, Capture(e)
        PROVE  SyncedHasRef'
    BY <1>9 DEF Capture
  <1>10. ASSUME NEW e \in Erasures, Delete(e)
         PROVE  SyncedHasRef'
    BY <1>10 DEF Delete, IdleErasure, NoRecord
  <1>11. ASSUME NEW e \in Erasures, RollBack(e)
         PROVE  SyncedHasRef'
    BY <1>11 DEF RollBack
  <1>12. ASSUME NEW d \in Drains, ListPending(d)
         PROVE  SyncedHasRef'
    BY <1>12 DEF ListPending
  <1>13. ASSUME NEW d \in Drains, NEW row \in drain[d].todo \cup drain[d].hand,
            DeleteCopy(d, row)
         PROVE  SyncedHasRef'
    BY <1>13 DEF DeleteCopy
  <1>14. ASSUME NEW d \in Drains, NEW row \in drain[d].todo \cup drain[d].hand,
            MarkDone(d, row)
         PROVE  SyncedHasRef'
    BY <1>14 DEF MarkDone
  <1>15. ASSUME NEW d \in Drains, NEW row \in drain[d].todo \cup drain[d].hand,
            MarkFailed(d, row)
         PROVE  SyncedHasRef'
    BY <1>15 DEF MarkFailed
  <1>16. ASSUME NEW d \in Drains, ThrowInDrain(d)
         PROVE  SyncedHasRef'
    BY <1>16 DEF ThrowInDrain
  <1>17. ASSUME NEW d \in Drains, CrashDrain(d)
         PROVE  SyncedHasRef'
    BY <1>17 DEF CrashDrain
  <1>18. ASSUME UNCHANGED vars
         PROVE  SyncedHasRef'
    BY <1>18 DEF vars
  <1> HIDE DEF SyncedHasRef
  <1> QED BY <1>1, <1>2, <1>3, <1>4, <1>5, <1>6, <1>7, <1>8, <1>9, <1>10,
             <1>11, <1>12, <1>13, <1>14, <1>15, <1>16, <1>17, <1>18 DEF Next,
             SyncStep, DrainStep

(* An erasure has no rows before its delete. *)
LEMMA InsertedStep ==
  ASSUME Typed, RowsAfterErasure, InsertedOnce, [Next]_vars
  PROVE  InsertedOnce'
  <1> USE DEF InsertedOnce
  <1>a. /\ erasure \in [Erasures -> ErasureStates]
        /\ outbox \in [Rows -> OutboxRows]
    BY DEF Typed
  <1> USE <1>a
  <1>1. ASSUME NEW i \in Items, Edit(i)
        PROVE  InsertedOnce'
    BY <1>1 DEF Edit
  <1>2. ASSUME NEW s \in Syncs, List(s)
        PROVE  InsertedOnce'
    BY <1>2 DEF List
  <1>3. ASSUME NEW s \in Syncs, NEW i \in Items, NEW v \in Versions,
            Take(s, i, v)
        PROVE  InsertedOnce'
    BY <1>3 DEF Take
  <1>4. ASSUME NEW s \in Syncs, NEW i \in Items, NEW v \in Versions,
            Intake(s, i, v)
        PROVE  InsertedOnce'
    BY <1>4 DEF Intake
  <1>5. ASSUME NEW s \in Syncs, NEW i \in Items, NEW v \in Versions,
            RecordSuccess(s, i, v)
        PROVE  InsertedOnce'
    BY <1>5 DEF RecordSuccess
  <1>6. ASSUME NEW s \in Syncs, NEW i \in Items, NEW v \in Versions,
            RecordFailure(s, i, v)
        PROVE  InsertedOnce'
    BY <1>6 DEF RecordFailure
  <1>7. ASSUME NEW s \in Syncs, ThrowInSync(s)
        PROVE  InsertedOnce'
    BY <1>7 DEF ThrowInSync
  <1>8. ASSUME NEW s \in Syncs, CrashSync(s)
        PROVE  InsertedOnce'
    BY <1>8 DEF CrashSync
  <1>9. ASSUME NEW e \in Erasures, Capture(e)
        PROVE  InsertedOnce'
    <2>1. \A i \in Items : <<i, e>> \in Rows /\ outbox[<<i, e>>].status = "none"
      BY <1>9 DEF Capture, RowsAfterErasure, Rows
    <2> QED BY <1>9, <2>1 DEF Capture, IdleErasure, ErasureStates
  <1>10. ASSUME NEW e \in Erasures, Delete(e)
         PROVE  InsertedOnce'
    <2>1. \A f \in Erasures : erasure'[f].at = "delete" => f # e /\ erasure[f].at = "delete"
      BY <1>10 DEF Delete, IdleErasure
    <2>2. \A i \in Items, f \in Erasures \ {e} : outbox'[<<i, f>>] = outbox[<<i, f>>]
      BY <1>10 DEF Delete, Rows
    <2> QED BY <2>1, <2>2
  <1>11. ASSUME NEW e \in Erasures, RollBack(e)
         PROVE  InsertedOnce'
    BY <1>11 DEF RollBack, IdleErasure, Fault
  <1>12. ASSUME NEW d \in Drains, ListPending(d)
         PROVE  InsertedOnce'
    BY <1>12 DEF ListPending
  <1>13. ASSUME NEW d \in Drains, NEW row \in drain[d].todo \cup drain[d].hand,
            DeleteCopy(d, row)
         PROVE  InsertedOnce'
    BY <1>13 DEF DeleteCopy
  <1>14. ASSUME NEW d \in Drains, NEW row \in drain[d].todo \cup drain[d].hand,
            MarkDone(d, row)
         PROVE  InsertedOnce'
    <2>1. row[1] \in Rows /\ outbox[row[1]].status # "none"
      BY DEF RowsAfterErasure, Typed, DrainStates, ListedRows
    <2> QED BY <1>14, <2>1 DEF MarkDone
  <1>15. ASSUME NEW d \in Drains, NEW row \in drain[d].todo \cup drain[d].hand,
            MarkFailed(d, row)
         PROVE  InsertedOnce'
    <2>1. row[1] \in Rows /\ outbox[row[1]].status # "none"
      BY DEF RowsAfterErasure, Typed, DrainStates, ListedRows
    <2> QED BY <1>15, <2>1 DEF MarkFailed
  <1>16. ASSUME NEW d \in Drains, ThrowInDrain(d)
         PROVE  InsertedOnce'
    BY <1>16 DEF ThrowInDrain
  <1>17. ASSUME NEW d \in Drains, CrashDrain(d)
         PROVE  InsertedOnce'
    BY <1>17 DEF CrashDrain
  <1>18. ASSUME UNCHANGED vars
         PROVE  InsertedOnce'
    BY <1>18 DEF vars
  <1> HIDE DEF InsertedOnce
  <1> QED BY <1>1, <1>2, <1>3, <1>4, <1>5, <1>6, <1>7, <1>8, <1>9, <1>10,
             <1>11, <1>12, <1>13, <1>14, <1>15, <1>16, <1>17, <1>18 DEF Next,
             SyncStep, DrainStep

(* A row belongs to an erased tenant; what a drain has listed of it is at most
   what it has counted. *)
LEMMA RowsStep ==
  ASSUME Typed, RowsAfterErasure, InsertedOnce, [Next]_vars
  PROVE  RowsAfterErasure'
  <1> USE DEF RowsAfterErasure
  <1>a. /\ tenant \in {"live", "erased"}
        /\ outbox \in [Rows -> OutboxRows]
        /\ drain \in [Drains -> DrainStates]
    BY DEF Typed
  <1> USE <1>a
  <1>1. ASSUME NEW i \in Items, Edit(i)
        PROVE  RowsAfterErasure'
    BY <1>1 DEF Edit
  <1>2. ASSUME NEW s \in Syncs, List(s)
        PROVE  RowsAfterErasure'
    BY <1>2 DEF List
  <1>3. ASSUME NEW s \in Syncs, NEW i \in Items, NEW v \in Versions,
            Take(s, i, v)
        PROVE  RowsAfterErasure'
    BY <1>3 DEF Take
  <1>4. ASSUME NEW s \in Syncs, NEW i \in Items, NEW v \in Versions,
            Intake(s, i, v)
        PROVE  RowsAfterErasure'
    BY <1>4 DEF Intake
  <1>5. ASSUME NEW s \in Syncs, NEW i \in Items, NEW v \in Versions,
            RecordSuccess(s, i, v)
        PROVE  RowsAfterErasure'
    BY <1>5 DEF RecordSuccess
  <1>6. ASSUME NEW s \in Syncs, NEW i \in Items, NEW v \in Versions,
            RecordFailure(s, i, v)
        PROVE  RowsAfterErasure'
    BY <1>6 DEF RecordFailure
  <1>7. ASSUME NEW s \in Syncs, ThrowInSync(s)
        PROVE  RowsAfterErasure'
    BY <1>7 DEF ThrowInSync
  <1>8. ASSUME NEW s \in Syncs, CrashSync(s)
        PROVE  RowsAfterErasure'
    BY <1>8 DEF CrashSync
  <1>9. ASSUME NEW e \in Erasures, Capture(e)
        PROVE  RowsAfterErasure'
    BY <1>9 DEF Capture
  <1>10. ASSUME NEW e \in Erasures, Delete(e)
         PROVE  RowsAfterErasure'
    <2>1. tenant' = "erased" /\ drain' = drain
      BY <1>10 DEF Delete
    <2>2. \A k \in Rows : outbox[k].status # "none" => outbox'[k] = outbox[k]
      BY <1>10 DEF Delete, InsertedOnce, Rows
    <2>3. \A f \in Drains : \A row \in drain[f].todo \cup drain[f].hand : row[1] \in Rows
      BY DEF DrainStates, ListedRows
    <2> QED BY <2>1, <2>2, <2>3
  <1>11. ASSUME NEW e \in Erasures, RollBack(e)
         PROVE  RowsAfterErasure'
    BY <1>11 DEF RollBack
  <1>12. ASSUME NEW d \in Drains, ListPending(d)
         PROVE  RowsAfterErasure'
    <2>1. drain' = [drain EXCEPT ![d].todo = {<<k, outbox[k].attempts>> : k \in Pending}]
      BY <1>12 DEF ListPending
    <2>2. \A row \in {<<k, outbox[k].attempts>> : k \in Pending} :
            outbox[row[1]].status # "none" /\ row[2] <= outbox[row[1]].attempts
      BY DEF Pending, OutboxRows
    <2>3. drain'[d].todo = {<<k, outbox[k].attempts>> : k \in Pending} /\ drain'[d].hand = drain[d].hand
      BY <2>1 DEF DrainStates
    <2>4. \A f \in Drains \ {d} : drain'[f] = drain[f]
      BY <2>1
    <2>5. tenant' = tenant /\ outbox' = outbox
      BY <1>12 DEF ListPending
    <2> QED BY <2>2, <2>3, <2>4, <2>5
  <1>13. ASSUME NEW d \in Drains, NEW row \in drain[d].todo \cup drain[d].hand,
            DeleteCopy(d, row)
         PROVE  RowsAfterErasure'
    <2>1. drain'[d].todo \subseteq drain[d].todo /\ drain'[d].hand = {row}
      BY <1>13 DEF DeleteCopy
    <2>2. \A f \in Drains \ {d} : drain'[f] = drain[f]
      BY <1>13 DEF DeleteCopy
    <2>3. tenant' = tenant /\ outbox' = outbox
      BY <1>13 DEF DeleteCopy
    <2> QED BY <2>1, <2>2, <2>3
  <1>14. ASSUME NEW d \in Drains, NEW row \in drain[d].todo \cup drain[d].hand,
            MarkDone(d, row)
         PROVE  RowsAfterErasure'
    <2>1. row[1] \in Rows /\ row[2] \in Nat
      BY DEF Typed, DrainStates, ListedRows
    <2>2. drain'[d].todo = drain[d].todo /\ drain'[d].hand = {}
      BY <1>14 DEF MarkDone, DrainStates
    <2>3. \A f \in Drains \ {d} : drain'[f] = drain[f]
      BY <1>14 DEF MarkDone
    <2>4. /\ outbox'[row[1]].status # "none"
          /\ outbox'[row[1]].attempts = outbox[row[1]].attempts
          /\ \A k \in Rows \ {row[1]} : outbox'[k] = outbox[k]
      BY <1>14, <2>1 DEF MarkDone, OutboxRows
    <2>5. \A f \in Drains : \A r \in drain[f].todo \cup drain[f].hand : r[1] \in Rows
      BY DEF DrainStates, ListedRows
    <2>6. tenant' = tenant
      BY <1>14 DEF MarkDone
    <2> QED BY <2>1, <2>2, <2>3, <2>4, <2>5, <2>6
  <1>15. ASSUME NEW d \in Drains, NEW row \in drain[d].todo \cup drain[d].hand,
            MarkFailed(d, row)
         PROVE  RowsAfterErasure'
    <2>1. row[1] \in Rows /\ row[2] \in Nat
      BY DEF Typed, DrainStates, ListedRows
    <2>2. drain'[d].todo = drain[d].todo /\ drain'[d].hand = {}
      BY <1>15 DEF MarkFailed, DrainStates
    <2>3. \A f \in Drains \ {d} : drain'[f] = drain[f]
      BY <1>15 DEF MarkFailed
    <2>4. /\ outbox'[row[1]].status # "none"
          /\ outbox'[row[1]].attempts = outbox[row[1]].attempts + 1
          /\ \A k \in Rows \ {row[1]} : outbox'[k] = outbox[k]
      BY <1>15, <2>1 DEF MarkFailed, OutboxRows, Counted
    <2>5. \A f \in Drains : \A r \in drain[f].todo \cup drain[f].hand :
            r[1] \in Rows /\ r[2] \in Nat
      BY DEF DrainStates, ListedRows
    <2>6. tenant' = tenant /\ outbox[row[1]].attempts \in Nat
      BY <1>15, <2>1 DEF MarkFailed, OutboxRows
    <2> QED BY <2>1, <2>2, <2>3, <2>4, <2>5, <2>6
  <1>16. ASSUME NEW d \in Drains, ThrowInDrain(d)
         PROVE  RowsAfterErasure'
    <2>1. /\ drain'[d].todo = drain[d].todo /\ drain'[d].hand = drain[d].hand
          /\ \A f \in Drains \ {d} : drain'[f] = drain[f]
      BY <1>16 DEF ThrowInDrain, DrainStates
    <2>2. tenant' = tenant /\ outbox' = outbox
      BY <1>16 DEF ThrowInDrain
    <2> QED BY <2>1, <2>2
  <1>17. ASSUME NEW d \in Drains, CrashDrain(d)
         PROVE  RowsAfterErasure'
    <2>1. drain'[d] = IdleDrain /\ \A f \in Drains \ {d} : drain'[f] = drain[f]
      BY <1>17 DEF CrashDrain
    <2>2. tenant' = tenant /\ outbox' = outbox
      BY <1>17 DEF CrashDrain
    <2> QED BY <2>1, <2>2 DEF IdleDrain
  <1>18. ASSUME UNCHANGED vars
         PROVE  RowsAfterErasure'
    BY <1>18 DEF vars
  <1> HIDE DEF RowsAfterErasure
  <1> QED BY <1>1, <1>2, <1>3, <1>4, <1>5, <1>6, <1>7, <1>8, <1>9, <1>10,
             <1>11, <1>12, <1>13, <1>14, <1>15, <1>16, <1>17, <1>18 DEF Next,
             SyncStep, DrainStep

(* An erasure knows of every item a sync holds. *)
LEMMA RacesStep ==
  ASSUME Typed, RacesAreSeen, [Next]_vars
  PROVE  RacesAreSeen'
  <1> USE DEF RacesAreSeen
  <1>a. /\ tenant \in {"live", "erased"}
        /\ erasure \in [Erasures -> ErasureStates]
        /\ sync \in [Syncs -> SyncStates]
    BY DEF Typed
  <1> USE <1>a
  <1>1. ASSUME NEW i \in Items, Edit(i)
        PROVE  RacesAreSeen'
    BY <1>1 DEF Edit, Erasing, ItemsHeld
  <1>2. ASSUME NEW s \in Syncs, List(s)
        PROVE  RacesAreSeen'
    <2>1. PICK some \in SUBSET Items :
            /\ sync' = [sync EXCEPT ![s].todo = {<<i, content[i]>> : i \in some}]
            /\ raced' = IF Erasing THEN raced \cup some ELSE raced
      BY <1>2 DEF List
    <2>2. ItemsHeld(s)' \subseteq some /\ \A x \in Syncs \ {s} : ItemsHeld(x)' = ItemsHeld(x)
      BY <1>2, <2>1 DEF List, IdleSync, ItemsHeld, SyncStates
    <2>3. tenant = "live" /\ tenant' = tenant /\ erasure' = erasure
      BY <1>2 DEF List
    <2> QED BY <2>1, <2>2, <2>3 DEF Erasing
  <1>3. ASSUME NEW s \in Syncs, NEW i \in Items, NEW v \in Versions,
            Take(s, i, v)
        PROVE  RacesAreSeen'
    <2>1. ItemsHeld(s)' \subseteq ItemsHeld(s) /\ \A x \in Syncs \ {s} : ItemsHeld(x)' = ItemsHeld(x)
      BY <1>3 DEF Take, ItemsHeld, SyncStates
    <2>2. tenant' = tenant /\ erasure' = erasure /\ raced' = raced
      BY <1>3 DEF Take
    <2> QED BY <2>1, <2>2 DEF Erasing
  <1>4. ASSUME NEW s \in Syncs, NEW i \in Items, NEW v \in Versions,
            Intake(s, i, v)
        PROVE  RacesAreSeen'
    <2>1. ItemsHeld(s)' \subseteq ItemsHeld(s) /\ \A x \in Syncs \ {s} : ItemsHeld(x)' = ItemsHeld(x)
      BY <1>4 DEF Intake, ItemsHeld, SyncStates
    <2>2. tenant' = tenant /\ erasure' = erasure /\ raced' = raced
      BY <1>4 DEF Intake
    <2> QED BY <2>1, <2>2 DEF Erasing
  <1>5. ASSUME NEW s \in Syncs, NEW i \in Items, NEW v \in Versions,
            RecordSuccess(s, i, v)
        PROVE  RacesAreSeen'
    <2>1. ItemsHeld(s)' \subseteq ItemsHeld(s) /\ \A x \in Syncs \ {s} : ItemsHeld(x)' = ItemsHeld(x)
      BY <1>5 DEF RecordSuccess, ItemsHeld, SyncStates
    <2>2. tenant' = tenant /\ erasure' = erasure /\ raced' = raced
      BY <1>5 DEF RecordSuccess
    <2> QED BY <2>1, <2>2 DEF Erasing
  <1>6. ASSUME NEW s \in Syncs, NEW i \in Items, NEW v \in Versions,
            RecordFailure(s, i, v)
        PROVE  RacesAreSeen'
    <2>1. ItemsHeld(s)' \subseteq ItemsHeld(s) /\ \A x \in Syncs \ {s} : ItemsHeld(x)' = ItemsHeld(x)
      BY <1>6 DEF RecordFailure, ItemsHeld, SyncStates, IdleSync
    <2>2. tenant' = tenant /\ erasure' = erasure /\ raced' = raced
      BY <1>6 DEF RecordFailure
    <2> QED BY <2>1, <2>2 DEF Erasing
  <1>7. ASSUME NEW s \in Syncs, ThrowInSync(s)
        PROVE  RacesAreSeen'
    <2>1. ItemsHeld(s)' \subseteq ItemsHeld(s) /\ \A x \in Syncs \ {s} : ItemsHeld(x)' = ItemsHeld(x)
      BY <1>7 DEF ThrowInSync, ItemsHeld, SyncStates
    <2>2. tenant' = tenant /\ erasure' = erasure /\ raced' = raced
      BY <1>7 DEF ThrowInSync
    <2> QED BY <2>1, <2>2 DEF Erasing
  <1>8. ASSUME NEW s \in Syncs, CrashSync(s)
        PROVE  RacesAreSeen'
    <2>1. ItemsHeld(s)' \subseteq ItemsHeld(s) /\ \A x \in Syncs \ {s} : ItemsHeld(x)' = ItemsHeld(x)
      BY <1>8 DEF CrashSync, ItemsHeld, SyncStates, IdleSync
    <2>2. tenant' = tenant /\ erasure' = erasure /\ raced' = raced
      BY <1>8 DEF CrashSync
    <2> QED BY <2>1, <2>2 DEF Erasing
  <1>9. ASSUME NEW e \in Erasures, Capture(e)
        PROVE  RacesAreSeen'
    <2>1. sync' = sync /\ raced' = raced \cup UNION {ItemsHeld(s) : s \in Syncs}
      BY <1>9 DEF Capture
    <2> QED BY <2>1 DEF ItemsHeld
  <1>10. ASSUME NEW e \in Erasures, Delete(e)
         PROVE  RacesAreSeen'
    <2>1. Erasing /\ sync' = sync /\ raced' = raced
      BY <1>10 DEF Delete, Erasing
    <2> QED BY <2>1 DEF ItemsHeld
  <1>11. ASSUME NEW e \in Erasures, RollBack(e)
         PROVE  RacesAreSeen'
    <2>1. Erasing' => Erasing
      BY <1>11 DEF RollBack, Erasing, IdleErasure
    <2> QED BY <1>11, <2>1 DEF RollBack, ItemsHeld
  <1>12. ASSUME NEW d \in Drains, ListPending(d)
         PROVE  RacesAreSeen'
    BY <1>12 DEF ListPending, Erasing, ItemsHeld
  <1>13. ASSUME NEW d \in Drains, NEW row \in drain[d].todo \cup drain[d].hand,
            DeleteCopy(d, row)
         PROVE  RacesAreSeen'
    BY <1>13 DEF DeleteCopy, Erasing, ItemsHeld
  <1>14. ASSUME NEW d \in Drains, NEW row \in drain[d].todo \cup drain[d].hand,
            MarkDone(d, row)
         PROVE  RacesAreSeen'
    BY <1>14 DEF MarkDone, Erasing, ItemsHeld
  <1>15. ASSUME NEW d \in Drains, NEW row \in drain[d].todo \cup drain[d].hand,
            MarkFailed(d, row)
         PROVE  RacesAreSeen'
    BY <1>15 DEF MarkFailed, Erasing, ItemsHeld
  <1>16. ASSUME NEW d \in Drains, ThrowInDrain(d)
         PROVE  RacesAreSeen'
    BY <1>16 DEF ThrowInDrain, Erasing, ItemsHeld
  <1>17. ASSUME NEW d \in Drains, CrashDrain(d)
         PROVE  RacesAreSeen'
    BY <1>17 DEF CrashDrain, Erasing, ItemsHeld
  <1>18. ASSUME UNCHANGED vars
         PROVE  RacesAreSeen'
    BY <1>18 DEF vars, Erasing, ItemsHeld
  <1> HIDE DEF RacesAreSeen
  <1> QED BY <1>1, <1>2, <1>3, <1>4, <1>5, <1>6, <1>7, <1>8, <1>9, <1>10,
             <1>11, <1>12, <1>13, <1>14, <1>15, <1>16, <1>17, <1>18 DEF Next,
             SyncStep, DrainStep

(* An open erasure goes on knowing what has a copy, races excepted. *)
LEMMA CaptureStep ==
  ASSUME Typed, SyncedHasRef, RacesAreSeen, CaptureIsCurrent, [Next]_vars
  PROVE  CaptureIsCurrent'
  <1> USE DEF CaptureIsCurrent, HasCopy
  <1>a. /\ tenant \in {"live", "erased"}
        /\ erasure \in [Erasures -> ErasureStates]
        /\ raced \subseteq Items
        /\ record \in [Items -> Records]
    BY DEF Typed
  <1> USE <1>a
  <1>1. ASSUME NEW i \in Items, Edit(i)
        PROVE  CaptureIsCurrent'
    BY <1>1 DEF Edit
  <1>2. ASSUME NEW s \in Syncs, List(s)
        PROVE  CaptureIsCurrent'
    BY <1>2 DEF List, IdleSync
  <1>3. ASSUME NEW s \in Syncs, NEW i \in Items, NEW v \in Versions,
            Take(s, i, v)
        PROVE  CaptureIsCurrent'
    BY <1>3 DEF Take
  <1>4. ASSUME NEW s \in Syncs, NEW i \in Items, NEW v \in Versions,
            Intake(s, i, v)
        PROVE  CaptureIsCurrent'
    BY <1>4 DEF Intake
  <1>5. ASSUME NEW s \in Syncs, NEW i \in Items, NEW v \in Versions,
            RecordSuccess(s, i, v)
        PROVE  CaptureIsCurrent'
    <2>1. i \in ItemsHeld(s)
      <3>1. <<i, v>> \in sync[s].todo \cup sync[s].hand
        BY <1>5 DEF RecordSuccess
      <3>2. <<i, v>>[1] = i
        OBVIOUS
      <3> QED BY <3>1, <3>2 DEF ItemsHeld
    <2>2. Erasing => i \in raced
      BY <2>1 DEF RacesAreSeen
    <2>3. \A x \in Items \ {i} : record'[x] = record[x]
      BY <1>5 DEF RecordSuccess
    <2>4. tenant' = tenant /\ erasure' = erasure /\ raced' = raced
      BY <1>5 DEF RecordSuccess
    <2> QED BY <2>2, <2>3, <2>4 DEF Erasing
  <1>6. ASSUME NEW s \in Syncs, NEW i \in Items, NEW v \in Versions,
            RecordFailure(s, i, v)
        PROVE  CaptureIsCurrent'
    <2>1. i \in ItemsHeld(s)
      <3>1. <<i, v>> \in sync[s].todo \cup sync[s].hand
        BY <1>6 DEF RecordFailure
      <3>2. <<i, v>>[1] = i
        OBVIOUS
      <3> QED BY <3>1, <3>2 DEF ItemsHeld
    <2>2. Erasing => i \in raced
      BY <2>1 DEF RacesAreSeen
    <2>3. \A x \in Items \ {i} : record'[x] = record[x]
      BY <1>6 DEF RecordFailure
    <2>4. tenant' = tenant /\ erasure' = erasure /\ raced' = raced
      BY <1>6 DEF RecordFailure
    <2> QED BY <2>2, <2>3, <2>4 DEF Erasing
  <1>7. ASSUME NEW s \in Syncs, ThrowInSync(s)
        PROVE  CaptureIsCurrent'
    BY <1>7 DEF ThrowInSync
  <1>8. ASSUME NEW s \in Syncs, CrashSync(s)
        PROVE  CaptureIsCurrent'
    BY <1>8 DEF CrashSync
  <1>9. ASSUME NEW e \in Erasures, Capture(e)
        PROVE  CaptureIsCurrent'
    BY <1>9 DEF Capture, IdleErasure, ErasureStates
  <1>10. ASSUME NEW e \in Erasures, Delete(e)
         PROVE  CaptureIsCurrent'
    BY <1>10 DEF Delete, IdleErasure, ErasureStates
  <1>11. ASSUME NEW e \in Erasures, RollBack(e)
         PROVE  CaptureIsCurrent'
    BY <1>11 DEF RollBack, IdleErasure, Fault, ErasureStates
  <1>12. ASSUME NEW d \in Drains, ListPending(d)
         PROVE  CaptureIsCurrent'
    BY <1>12 DEF ListPending
  <1>13. ASSUME NEW d \in Drains, NEW row \in drain[d].todo \cup drain[d].hand,
            DeleteCopy(d, row)
         PROVE  CaptureIsCurrent'
    BY <1>13 DEF DeleteCopy
  <1>14. ASSUME NEW d \in Drains, NEW row \in drain[d].todo \cup drain[d].hand,
            MarkDone(d, row)
         PROVE  CaptureIsCurrent'
    BY <1>14 DEF MarkDone
  <1>15. ASSUME NEW d \in Drains, NEW row \in drain[d].todo \cup drain[d].hand,
            MarkFailed(d, row)
         PROVE  CaptureIsCurrent'
    BY <1>15 DEF MarkFailed
  <1>16. ASSUME NEW d \in Drains, ThrowInDrain(d)
         PROVE  CaptureIsCurrent'
    BY <1>16 DEF ThrowInDrain
  <1>17. ASSUME NEW d \in Drains, CrashDrain(d)
         PROVE  CaptureIsCurrent'
    BY <1>17 DEF CrashDrain
  <1>18. ASSUME UNCHANGED vars
         PROVE  CaptureIsCurrent'
    BY <1>18 DEF vars
  <1> HIDE DEF CaptureIsCurrent, HasCopy
  <1> QED BY <1>1, <1>2, <1>3, <1>4, <1>5, <1>6, <1>7, <1>8, <1>9, <1>10,
             <1>11, <1>12, <1>13, <1>14, <1>15, <1>16, <1>17, <1>18 DEF Next,
             SyncStep, DrainStep

(* Nothing but a race brings a copy back that a drain has deleted. *)
LEMMA DoneStep ==
  ASSUME Typed, RowsAfterErasure, RacesAreSeen, DoneIsGone, [Next]_vars
  PROVE  DoneIsGone'
  <1> USE DEF DoneIsGone
  <1>a. /\ drain \in [Drains -> DrainStates]
        /\ raced \subseteq Items
        /\ remote \in [Items -> Versions \cup {NoCopy}]
    BY DEF Typed
  <1> USE <1>a
  <1>1. ASSUME NEW i \in Items, Edit(i)
        PROVE  DoneIsGone'
    BY <1>1 DEF Edit
  <1>2. ASSUME NEW s \in Syncs, List(s)
        PROVE  DoneIsGone'
    BY <1>2 DEF List, IdleSync
  <1>3. ASSUME NEW s \in Syncs, NEW i \in Items, NEW v \in Versions,
            Take(s, i, v)
        PROVE  DoneIsGone'
    BY <1>3 DEF Take
  <1>4. ASSUME NEW s \in Syncs, NEW i \in Items, NEW v \in Versions,
            Intake(s, i, v)
        PROVE  DoneIsGone'
    <2>1. i \in ItemsHeld(s)
      <3>1. <<i, v>> \in sync[s].todo \cup sync[s].hand
        BY <1>4 DEF Intake
      <3>2. <<i, v>>[1] = i
        OBVIOUS
      <3> QED BY <3>1, <3>2 DEF ItemsHeld
    <2>2. \A d \in Drains : \A row \in drain[d].hand : i \in raced
      <3>1. \A d \in Drains : \A row \in drain[d].hand : row[1] \in Rows
        BY DEF DrainStates, ListedRows
      <3>2. \A d \in Drains : \A row \in drain[d].hand : tenant = "erased"
        BY <3>1 DEF RowsAfterErasure
      <3> QED BY <2>1, <3>2 DEF RacesAreSeen
    <2>3. remote' = remote \/ remote' = [remote EXCEPT ![i] = v]
      BY <1>4 DEF Intake
    <2>4. \A x \in Items \ {i} : remote'[x] = remote[x]
      BY <2>3
    <2>5. drain' = drain /\ raced' = raced
      BY <1>4 DEF Intake
    <2>6. \A d \in Drains : \A row \in drain[d].hand : row[1][1] \in Items
      BY DEF DrainStates, ListedRows, Rows
    <2> QED BY <2>2, <2>4, <2>5, <2>6
  <1>5. ASSUME NEW s \in Syncs, NEW i \in Items, NEW v \in Versions,
            RecordSuccess(s, i, v)
        PROVE  DoneIsGone'
    BY <1>5 DEF RecordSuccess
  <1>6. ASSUME NEW s \in Syncs, NEW i \in Items, NEW v \in Versions,
            RecordFailure(s, i, v)
        PROVE  DoneIsGone'
    BY <1>6 DEF RecordFailure
  <1>7. ASSUME NEW s \in Syncs, ThrowInSync(s)
        PROVE  DoneIsGone'
    BY <1>7 DEF ThrowInSync
  <1>8. ASSUME NEW s \in Syncs, CrashSync(s)
        PROVE  DoneIsGone'
    BY <1>8 DEF CrashSync
  <1>9. ASSUME NEW e \in Erasures, Capture(e)
        PROVE  DoneIsGone'
    BY <1>9 DEF Capture, IdleErasure
  <1>10. ASSUME NEW e \in Erasures, Delete(e)
         PROVE  DoneIsGone'
    BY <1>10 DEF Delete
  <1>11. ASSUME NEW e \in Erasures, RollBack(e)
         PROVE  DoneIsGone'
    BY <1>11 DEF RollBack
  <1>12. ASSUME NEW d \in Drains, ListPending(d)
         PROVE  DoneIsGone'
    BY <1>12 DEF ListPending, IdleDrain, Pending, DrainStates
  <1>13. ASSUME NEW d \in Drains, NEW row \in drain[d].todo \cup drain[d].hand,
            DeleteCopy(d, row)
         PROVE  DoneIsGone'
    BY <1>13 DEF DeleteCopy, DrainStates, ListedRows, Rows
  <1>14. ASSUME NEW d \in Drains, NEW row \in drain[d].todo \cup drain[d].hand,
            MarkDone(d, row)
         PROVE  DoneIsGone'
    BY <1>14 DEF MarkDone, DrainStates
  <1>15. ASSUME NEW d \in Drains, NEW row \in drain[d].todo \cup drain[d].hand,
            MarkFailed(d, row)
         PROVE  DoneIsGone'
    BY <1>15 DEF MarkFailed, Counted, DrainStates
  <1>16. ASSUME NEW d \in Drains, ThrowInDrain(d)
         PROVE  DoneIsGone'
    BY <1>16 DEF ThrowInDrain, Fault, DrainStates
  <1>17. ASSUME NEW d \in Drains, CrashDrain(d)
         PROVE  DoneIsGone'
    BY <1>17 DEF CrashDrain, IdleDrain, Fault, DrainStates
  <1>18. ASSUME UNCHANGED vars
         PROVE  DoneIsGone'
    BY <1>18 DEF vars
  <1> HIDE DEF DoneIsGone
  <1> QED BY <1>1, <1>2, <1>3, <1>4, <1>5, <1>6, <1>7, <1>8, <1>9, <1>10,
             <1>11, <1>12, <1>13, <1>14, <1>15, <1>16, <1>17, <1>18 DEF Next,
             SyncStep, DrainStep

(* A row is given up after MaxAttempts counted attempts. *)
LEMMA GivenUpStep ==
  ASSUME Typed, RowsAfterErasure, GivenUpWasTried, [Next]_vars
  PROVE  GivenUpWasTried'
  <1> USE DEF GivenUpWasTried
  <1>a. /\ outbox \in [Rows -> OutboxRows]
        /\ drain \in [Drains -> DrainStates]
    BY DEF Typed
  <1> USE <1>a
  <1>1. ASSUME NEW i \in Items, Edit(i)
        PROVE  GivenUpWasTried'
    BY <1>1 DEF Edit
  <1>2. ASSUME NEW s \in Syncs, List(s)
        PROVE  GivenUpWasTried'
    BY <1>2 DEF List
  <1>3. ASSUME NEW s \in Syncs, NEW i \in Items, NEW v \in Versions,
            Take(s, i, v)
        PROVE  GivenUpWasTried'
    BY <1>3 DEF Take
  <1>4. ASSUME NEW s \in Syncs, NEW i \in Items, NEW v \in Versions,
            Intake(s, i, v)
        PROVE  GivenUpWasTried'
    BY <1>4 DEF Intake
  <1>5. ASSUME NEW s \in Syncs, NEW i \in Items, NEW v \in Versions,
            RecordSuccess(s, i, v)
        PROVE  GivenUpWasTried'
    BY <1>5 DEF RecordSuccess
  <1>6. ASSUME NEW s \in Syncs, NEW i \in Items, NEW v \in Versions,
            RecordFailure(s, i, v)
        PROVE  GivenUpWasTried'
    BY <1>6 DEF RecordFailure
  <1>7. ASSUME NEW s \in Syncs, ThrowInSync(s)
        PROVE  GivenUpWasTried'
    BY <1>7 DEF ThrowInSync
  <1>8. ASSUME NEW s \in Syncs, CrashSync(s)
        PROVE  GivenUpWasTried'
    BY <1>8 DEF CrashSync
  <1>9. ASSUME NEW e \in Erasures, Capture(e)
        PROVE  GivenUpWasTried'
    BY <1>9 DEF Capture
  <1>10. ASSUME NEW e \in Erasures, Delete(e)
         PROVE  GivenUpWasTried'
    BY <1>10 DEF Delete, IdleErasure, OutboxRows
  <1>11. ASSUME NEW e \in Erasures, RollBack(e)
         PROVE  GivenUpWasTried'
    BY <1>11 DEF RollBack
  <1>12. ASSUME NEW d \in Drains, ListPending(d)
         PROVE  GivenUpWasTried'
    BY <1>12 DEF ListPending
  <1>13. ASSUME NEW d \in Drains, NEW row \in drain[d].todo \cup drain[d].hand,
            DeleteCopy(d, row)
         PROVE  GivenUpWasTried'
    BY <1>13 DEF DeleteCopy
  <1>14. ASSUME NEW d \in Drains, NEW row \in drain[d].todo \cup drain[d].hand,
            MarkDone(d, row)
         PROVE  GivenUpWasTried'
    <2>1. row[1] \in Rows /\ row[2] \in Nat
      BY DEF Typed, DrainStates, ListedRows
    <2>2. outbox'[row[1]].status = "done" /\ \A k \in Rows \ {row[1]} : outbox'[k] = outbox[k]
      BY <1>14, <2>1 DEF MarkDone, OutboxRows
    <2> QED BY <2>2
  <1>15. ASSUME NEW d \in Drains, NEW row \in drain[d].todo \cup drain[d].hand,
            MarkFailed(d, row)
         PROVE  GivenUpWasTried'
    <2>1. row[1] \in Rows /\ row[2] \in Nat
      BY DEF Typed, DrainStates, ListedRows
    <2>2. /\ outbox'[row[1]].status = (IF Exhausted(row[2]) THEN "failed" ELSE "pending")
          /\ outbox'[row[1]].attempts = outbox[row[1]].attempts + 1
          /\ \A k \in Rows \ {row[1]} : outbox'[k] = outbox[k]
      BY <1>15, <2>1 DEF MarkFailed, OutboxRows, Counted
    <2>3. row[2] <= outbox[row[1]].attempts /\ outbox[row[1]].attempts \in Nat
      BY <2>1 DEF RowsAfterErasure, OutboxRows
    <2>4. Exhausted(row[2]) => row[2] + 1 >= MaxAttempts
      BY DEF Exhausted
    <2> QED BY <2>1, <2>2, <2>3, <2>4, CopiesAssumption
  <1>16. ASSUME NEW d \in Drains, ThrowInDrain(d)
         PROVE  GivenUpWasTried'
    BY <1>16 DEF ThrowInDrain
  <1>17. ASSUME NEW d \in Drains, CrashDrain(d)
         PROVE  GivenUpWasTried'
    BY <1>17 DEF CrashDrain
  <1>18. ASSUME UNCHANGED vars
         PROVE  GivenUpWasTried'
    BY <1>18 DEF vars
  <1> HIDE DEF GivenUpWasTried
  <1> QED BY <1>1, <1>2, <1>3, <1>4, <1>5, <1>6, <1>7, <1>8, <1>9, <1>10,
             <1>11, <1>12, <1>13, <1>14, <1>15, <1>16, <1>17, <1>18 DEF Next,
             SyncStep, DrainStep

(* The invariant holds in every state, whatever the constants. *)
THEOREM Invariance == Spec => []IInv
  <1>1. Init => IInv
    <2> SUFFICES ASSUME Init
                 PROVE  IInv
      OBVIOUS
    <2>1. NoRecord \in Records /\ IdleSync \in SyncStates
      BY CopiesAssumption DEF NoRecord, Records, Versions, IdleSync, SyncStates, JobSets
    <2>2. IdleErasure \in ErasureStates /\ NoRow \in OutboxRows /\ IdleDrain \in DrainStates
      BY DEF IdleErasure, ErasureStates, NoRow, OutboxRows, IdleDrain, DrainStates, ListedRows
    <2>3. Typed
      BY <2>1, <2>2, CopiesAssumption DEF Init, Typed, Versions
    <2>4. RowsAfterErasure /\ GivenUpWasTried
      BY DEF Init, RowsAfterErasure, GivenUpWasTried, NoRow, IdleDrain
    <2>5. InsertedOnce /\ CaptureIsCurrent
      BY DEF Init, InsertedOnce, CaptureIsCurrent, IdleErasure
    <2>6. RacesAreSeen
      BY DEF Init, RacesAreSeen, Erasing, IdleErasure
    <2>7. SyncedHasRef /\ DoneIsGone
      BY DEF Init, SyncedHasRef, DoneIsGone, NoRecord, IdleDrain
    <2> QED BY <2>3, <2>4, <2>5, <2>6, <2>7, TypedIsTypeOK DEF IInv
  <1>2. IInv /\ [Next]_vars => IInv'
    <2> SUFFICES ASSUME IInv, [Next]_vars
                 PROVE  IInv'
      OBVIOUS
    <2>1. Typed
      BY TypedIsTypeOK DEF IInv
    <2>2. Typed' => TypeOK'
      BY DEF Typed, TypeOK, SyncStates, ErasureStates, OutboxRows, DrainStates
    <2> QED BY <2>1, <2>2, TypeStep, RowsStep, InsertedStep, RacesStep, CaptureStep,
               RefStep, DoneStep, GivenUpStep DEF IInv
  <1> QED BY <1>1, <1>2, PTL DEF Spec

(* No interleaving of drains gives a row up early. *)
THEOREM RowsAreTried == Spec => []GivenUpWasTried
  <1>1. IInv => GivenUpWasTried
    BY DEF IInv
  <1> QED BY <1>1, Invariance, PTL

(* A race that was seen stays seen. *)
LEMMA RacedGrows ==
  ASSUME [Next]_vars
  PROVE  raced \subseteq raced'
  <1>1. ASSUME NEW i \in Items, Edit(i)
        PROVE  raced \subseteq raced'
    BY <1>1 DEF Edit
  <1>2. ASSUME NEW s \in Syncs, List(s)
        PROVE  raced \subseteq raced'
    BY <1>2 DEF List, IdleSync
  <1>3. ASSUME NEW s \in Syncs, NEW i \in Items, NEW v \in Versions,
            Take(s, i, v)
        PROVE  raced \subseteq raced'
    BY <1>3 DEF Take
  <1>4. ASSUME NEW s \in Syncs, NEW i \in Items, NEW v \in Versions,
            Intake(s, i, v)
        PROVE  raced \subseteq raced'
    BY <1>4 DEF Intake
  <1>5. ASSUME NEW s \in Syncs, NEW i \in Items, NEW v \in Versions,
            RecordSuccess(s, i, v)
        PROVE  raced \subseteq raced'
    BY <1>5 DEF RecordSuccess
  <1>6. ASSUME NEW s \in Syncs, NEW i \in Items, NEW v \in Versions,
            RecordFailure(s, i, v)
        PROVE  raced \subseteq raced'
    BY <1>6 DEF RecordFailure
  <1>7. ASSUME NEW s \in Syncs, ThrowInSync(s)
        PROVE  raced \subseteq raced'
    BY <1>7 DEF ThrowInSync
  <1>8. ASSUME NEW s \in Syncs, CrashSync(s)
        PROVE  raced \subseteq raced'
    BY <1>8 DEF CrashSync
  <1>9. ASSUME NEW e \in Erasures, Capture(e)
        PROVE  raced \subseteq raced'
    BY <1>9 DEF Capture, IdleErasure
  <1>10. ASSUME NEW e \in Erasures, Delete(e)
         PROVE  raced \subseteq raced'
    BY <1>10 DEF Delete
  <1>11. ASSUME NEW e \in Erasures, RollBack(e)
         PROVE  raced \subseteq raced'
    BY <1>11 DEF RollBack
  <1>12. ASSUME NEW d \in Drains, ListPending(d)
         PROVE  raced \subseteq raced'
    BY <1>12 DEF ListPending
  <1>13. ASSUME NEW d \in Drains, NEW row \in drain[d].todo \cup drain[d].hand,
            DeleteCopy(d, row)
         PROVE  raced \subseteq raced'
    BY <1>13 DEF DeleteCopy
  <1>14. ASSUME NEW d \in Drains, NEW row \in drain[d].todo \cup drain[d].hand,
            MarkDone(d, row)
         PROVE  raced \subseteq raced'
    BY <1>14 DEF MarkDone
  <1>15. ASSUME NEW d \in Drains, NEW row \in drain[d].todo \cup drain[d].hand,
            MarkFailed(d, row)
         PROVE  raced \subseteq raced'
    BY <1>15 DEF MarkFailed
  <1>16. ASSUME NEW d \in Drains, ThrowInDrain(d)
         PROVE  raced \subseteq raced'
    BY <1>16 DEF ThrowInDrain
  <1>17. ASSUME NEW d \in Drains, CrashDrain(d)
         PROVE  raced \subseteq raced'
    BY <1>17 DEF CrashDrain
  <1>18. ASSUME UNCHANGED vars
         PROVE  raced \subseteq raced'
    BY <1>18 DEF vars
  <1> QED BY <1>1, <1>2, <1>3, <1>4, <1>5, <1>6, <1>7, <1>8, <1>9, <1>10,
             <1>11, <1>12, <1>13, <1>14, <1>15, <1>16, <1>17, <1>18 DEF Next,
             SyncStep, DrainStep

(* One step of anybody keeps a tracked copy in sight. *)
LEMMA SightStep ==
  ASSUME IInv, Next, NEW i \in Items, i \notin raced', Tracked(i), remote'[i] # NoCopy
  PROVE  Tracked(i)'
  <1> DEFINE Listed == \E e \in Erasures : outbox[<<i, e>>].status \in {"pending", "failed"}
  <1>a. Typed
    BY TypedIsTypeOK DEF IInv
  <1>b. i \notin raced
    BY RacedGrows
  <1>1. CASE UNCHANGED <<tenant, record, outbox>>
    BY <1>1 DEF Tracked, HasCopy
  <1>2. ASSUME NEW s \in Syncs, NEW j \in Items, NEW v \in Versions,
               RecordSuccess(s, j, v) \/ RecordFailure(s, j, v)
        PROVE  Tracked(i)'
    <2>1. tenant' = tenant /\ outbox' = outbox
      BY <1>2 DEF RecordSuccess, RecordFailure
    <2>2. HasCopy(i) => HasCopy(i)'
      <3>1. SyncedHasRef /\ record \in [Items -> Records]
        BY <1>a DEF IInv, Typed
      <3>2. HasCopy(i) => record[i].ref
        BY <3>1 DEF SyncedHasRef, HasCopy
      <3>3. record[i].ref => record'[i].ref
        BY <1>2, <3>1 DEF RecordSuccess, RecordFailure
      <3> QED BY <3>2, <3>3 DEF HasCopy
    <2> QED BY <2>1, <2>2 DEF Tracked
  <1>3. ASSUME NEW e \in Erasures, Delete(e)
        PROVE  Tracked(i)'
    <2>1. CASE tenant = "live" /\ HasCopy(i)
      <3>1. i \in erasure[e].captured
        BY <1>3, <1>b, <2>1 DEF Delete, IInv, CaptureIsCurrent
      <3>2. outbox'[<<i, e>>].status = "pending"
        BY <1>3, <3>1 DEF Delete, Rows
      <3> QED BY <3>2 DEF Tracked
    <2>2. CASE Listed
      <3>1. PICK f \in Erasures : outbox[<<i, f>>].status \in {"pending", "failed"}
        BY <2>2
      <3>2. outbox'[<<i, f>>].status \in {"pending", "failed"}
        BY <1>3, <3>1 DEF Delete, Rows
      <3> QED BY <3>2 DEF Tracked
    <2> QED BY <2>1, <2>2 DEF Tracked
  <1>4. ASSUME NEW d \in Drains, NEW row \in drain[d].todo \cup drain[d].hand,
               MarkDone(d, row) \/ MarkFailed(d, row)
        PROVE  Tracked(i)'
    <2>1. /\ row[1] \in Rows /\ row[1][1] \in Items
          /\ outbox \in [Rows -> OutboxRows]
      BY <1>a DEF Typed, DrainStates, ListedRows, Rows
    <2>2. record' = record /\ tenant' = tenant /\ remote' = remote
      BY <1>4 DEF MarkDone, MarkFailed
    <2>3. CASE tenant = "live" /\ HasCopy(i)
      BY <2>2, <2>3 DEF Tracked, HasCopy
    <2>4. CASE Listed
      <3>1. PICK f \in Erasures : outbox[<<i, f>>].status \in {"pending", "failed"}
        BY <2>4
      <3>2. CASE row[1] # <<i, f>>
        <4>1. outbox'[<<i, f>>] = outbox[<<i, f>>]
          BY <1>4, <2>1, <3>2 DEF MarkDone, MarkFailed, Rows
        <4> QED BY <3>1, <4>1 DEF Tracked
      <3>3. CASE row[1] = <<i, f>> /\ MarkFailed(d, row)
        <4>1. outbox'[<<i, f>>].status \in {"pending", "failed"}
          BY <2>1, <3>3 DEF MarkFailed
        <4> QED BY <4>1 DEF Tracked
      <3>4. CASE row[1] = <<i, f>> /\ MarkDone(d, row)
        <4>1. remote[i] = NoCopy
          BY <1>b, <2>1, <3>4 DEF MarkDone, IInv, DoneIsGone
        <4> QED BY <2>2, <4>1
      <3> QED BY <1>4, <3>2, <3>3, <3>4
    <2> QED BY <2>3, <2>4 DEF Tracked
  <1>5. ASSUME NEW j \in Items, Edit(j)
        PROVE  UNCHANGED <<tenant, record, outbox>>
    BY <1>5 DEF Edit
  <1>6. ASSUME NEW s \in Syncs, List(s)
        PROVE  UNCHANGED <<tenant, record, outbox>>
    BY <1>6 DEF List
  <1>7. ASSUME NEW s \in Syncs, NEW j \in Items, NEW v \in Versions,
            Take(s, j, v)
        PROVE  UNCHANGED <<tenant, record, outbox>>
    BY <1>7 DEF Take
  <1>8. ASSUME NEW s \in Syncs, NEW j \in Items, NEW v \in Versions,
            Intake(s, j, v)
        PROVE  UNCHANGED <<tenant, record, outbox>>
    BY <1>8 DEF Intake
  <1>9. ASSUME NEW s \in Syncs, ThrowInSync(s)
        PROVE  UNCHANGED <<tenant, record, outbox>>
    BY <1>9 DEF ThrowInSync
  <1>10. ASSUME NEW s \in Syncs, CrashSync(s)
         PROVE  UNCHANGED <<tenant, record, outbox>>
    BY <1>10 DEF CrashSync
  <1>11. ASSUME NEW e \in Erasures, Capture(e)
         PROVE  UNCHANGED <<tenant, record, outbox>>
    BY <1>11 DEF Capture
  <1>12. ASSUME NEW e \in Erasures, RollBack(e)
         PROVE  UNCHANGED <<tenant, record, outbox>>
    BY <1>12 DEF RollBack
  <1>13. ASSUME NEW d \in Drains, ListPending(d)
         PROVE  UNCHANGED <<tenant, record, outbox>>
    BY <1>13 DEF ListPending
  <1>14. ASSUME NEW d \in Drains, NEW row \in drain[d].todo \cup drain[d].hand,
            DeleteCopy(d, row)
         PROVE  UNCHANGED <<tenant, record, outbox>>
    BY <1>14 DEF DeleteCopy
  <1>15. ASSUME NEW d \in Drains, ThrowInDrain(d)
         PROVE  UNCHANGED <<tenant, record, outbox>>
    BY <1>15 DEF ThrowInDrain
  <1>16. ASSUME NEW d \in Drains, CrashDrain(d)
         PROVE  UNCHANGED <<tenant, record, outbox>>
    BY <1>16 DEF CrashDrain
  <1> QED BY <1>1, <1>2, <1>3, <1>4, <1>5, <1>6, <1>7, <1>8, <1>9, <1>10,
             <1>11, <1>12, <1>13, <1>14, <1>15, <1>16 DEF Next, SyncStep,
             DrainStep

(* A copy the platform knows of stays on one of its lists while it exists. *)
THEOREM NeverLostSight == Spec => KeptInSight
  <1>1. IInv /\ [Next]_vars =>
          [\A i \in Items \ raced' :
             Tracked(i) /\ remote'[i] # NoCopy => Tracked(i)']_vars
    BY SightStep
  <1> QED BY <1>1, Invariance, PTL DEF Spec, KeptInSight
-----------------------------------------------------------------------------
(* The inductive strengthening of SkippedIsCurrent, for syncs that do not
   overlap. *)

JobsOf(s) == sync[s].todo \cup sync[s].hand

(* No record and no listed job is ahead of the content, and no record of a job
   that is yet to be written. *)
VersionsGrow ==
  /\ \A i \in Items : record[i].hash <= content[i]
  /\ \A s \in Syncs : \A job \in JobsOf(s) :
       record[job[1]].hash <= job[2] /\ job[2] <= content[job[1]]

(* A sync has an item listed at one version only. *)
OneJobPerItem ==
  \A s \in Syncs :
    /\ \A job, other \in JobsOf(s) : job[1] = other[1] => job = other
    /\ sync[s].at = "next" => sync[s].hand = {}

(* What a sync works on was not up to date, and OneBrain has it once the intake
   has been accepted. *)
InHandIsNew ==
  \A s \in Syncs : \A job \in sync[s].hand :
    /\ record[job[1]].status = "synced" => record[job[1]].hash # job[2]
    /\ sync[s].at = "record" /\ tenant = "live" => remote[job[1]] = job[2]

(* A record that claims the version the content has is right, also while a sync
   is working on the item. *)
ClaimIsTrue ==
  tenant = "live" => \A i \in Items :
    record[i].status = "synced" /\ record[i].hash = content[i] => remote[i] = content[i]

SkipInv == VersionsGrow /\ OneJobPerItem /\ InHandIsNew /\ ClaimIsTrue

(* What such a step has to leave alone to keep all of it. *)
LEMMA SkipUnchanged ==
  ASSUME SkipInv, content' = content, remote' = remote, tenant' = tenant, record' = record,
         \A s \in Syncs : /\ JobsOf(s)' \subseteq JobsOf(s)
                          /\ sync'[s].hand \subseteq sync[s].hand
                          /\ sync'[s].at \in {"next", "record"} =>
                               sync'[s].hand = {} \/ sync'[s].at = sync[s].at
  PROVE  SkipInv'
  <1>1. VersionsGrow'
    BY DEF SkipInv, VersionsGrow
  <1>2. OneJobPerItem'
    BY DEF SkipInv, OneJobPerItem
  <1>3. InHandIsNew'
    BY DEF SkipInv, InHandIsNew
  <1>4. ClaimIsTrue'
    BY DEF SkipInv, ClaimIsTrue
  <1> QED BY <1>1, <1>2, <1>3, <1>4 DEF SkipInv

(* Nobody else's steps change what a sync relies on while the tenant lives. *)
LEMMA SkipElsewhere ==
  ASSUME SkipInv, content' = content, sync' = sync,
         \A i \in Items : record'[i] = record[i] \/ record'[i] = NoRecord,
         tenant' = "live" => tenant = "live" /\ record' = record /\ remote' = remote,
         Typed
  PROVE  SkipInv'
  <1>1. \A s \in Syncs : JobsOf(s)' = JobsOf(s)
    BY DEF JobsOf
  <1>2. /\ content \in [Items -> Nat]
        /\ \A s \in Syncs : JobsOf(s) \subseteq Items \X Nat
    BY CopiesAssumption DEF Typed, Versions, JobsOf, SyncStates, JobSets, Jobs
  <1>3. NoRecord.hash = 0 /\ NoRecord.status = "none"
    BY DEF NoRecord
  <1>4. VersionsGrow'
    BY <1>1, <1>2, <1>3 DEF SkipInv, VersionsGrow
  <1>5. OneJobPerItem'
    BY <1>1 DEF SkipInv, OneJobPerItem
  <1>6. InHandIsNew'
    <2> SUFFICES ASSUME NEW s \in Syncs, NEW job \in sync'[s].hand
                 PROVE  /\ record'[job[1]].status = "synced" => record'[job[1]].hash # job[2]
                        /\ sync'[s].at = "record" /\ tenant' = "live" =>
                             remote'[job[1]] = job[2]
      BY DEF InHandIsNew
    <2>1. job \in sync[s].hand /\ job[1] \in Items
      BY <1>2 DEF JobsOf
    <2> QED BY <1>3, <2>1 DEF SkipInv, InHandIsNew
  <1>7. ClaimIsTrue'
    BY DEF SkipInv, ClaimIsTrue
  <1> QED BY <1>4, <1>5, <1>6, <1>7 DEF SkipInv

(* An edit makes every record of the item out of date. *)
LEMMA SkipEdit ==
  ASSUME Typed, SkipInv, NEW i \in Items, Edit(i)
  PROVE  SkipInv'
  <1>1. /\ content \in [Items -> Nat]
        /\ record \in [Items -> Records]
        /\ \A j \in Items : record[j].hash \in Nat
        /\ \A s \in Syncs : JobsOf(s) \subseteq Items \X Nat
    BY CopiesAssumption DEF Typed, Versions, Records, JobsOf, SyncStates, JobSets, Jobs
  <1>2. /\ content' = [content EXCEPT ![i] = @ + 1]
        /\ UNCHANGED <<tenant, record, remote, sync>>
    BY DEF Edit
  <1>3. /\ content'[i] = content[i] + 1
        /\ \A j \in Items \ {i} : content'[j] = content[j]
    BY <1>1, <1>2
  <1>4. \A s \in Syncs : JobsOf(s)' = JobsOf(s)
    BY <1>2 DEF JobsOf
  <1>5. VersionsGrow'
    <2>1. \A j \in Items : content[j] <= content'[j] /\ content'[j] \in Nat
      BY <1>1, <1>3
    <2>2. \A j \in Items : record'[j].hash <= content'[j]
      BY <1>1, <1>2, <2>1 DEF SkipInv, VersionsGrow
    <2>3. ASSUME NEW s \in Syncs, NEW job \in JobsOf(s)'
          PROVE  record'[job[1]].hash <= job[2] /\ job[2] <= content'[job[1]]
      <3>1. job \in JobsOf(s) /\ job[1] \in Items /\ job[2] \in Nat
        BY <1>1, <1>4
      <3>2. record[job[1]].hash <= job[2] /\ job[2] <= content[job[1]]
        BY <3>1 DEF SkipInv, VersionsGrow
      <3> QED BY <1>1, <1>2, <2>1, <3>1, <3>2
    <2> QED BY <2>2, <2>3 DEF VersionsGrow
  <1>6. OneJobPerItem'
    BY <1>2, <1>4 DEF SkipInv, OneJobPerItem
  <1>7. InHandIsNew'
    BY <1>2 DEF SkipInv, InHandIsNew
  <1>8. ClaimIsTrue'
    <2>1. record[i].hash # content'[i]
      BY <1>1, <1>3 DEF SkipInv, VersionsGrow
    <2> QED BY <1>2, <1>3, <2>1 DEF SkipInv, ClaimIsTrue
  <1> QED BY <1>5, <1>6, <1>7, <1>8 DEF SkipInv

(* A listing takes every item at the version it has. *)
LEMMA SkipList ==
  ASSUME Typed, SkipInv, NEW s \in Syncs, List(s)
  PROVE  SkipInv'
  <1>1. PICK some \in SUBSET Items :
          sync' = [sync EXCEPT ![s].todo = {<<i, content[i]>> : i \in some}]
    BY DEF List
  <1>2. /\ sync \in [Syncs -> SyncStates]
        /\ content \in [Items -> Nat]
        /\ sync[s] = IdleSync
        /\ UNCHANGED <<tenant, content, record, remote>>
    BY CopiesAssumption DEF List, Typed, Versions
  <1>3. /\ sync'[s].todo = {<<i, content[i]>> : i \in some}
        /\ sync'[s].hand = {}
        /\ \A t \in Syncs \ {s} : sync'[t] = sync[t]
    BY <1>1, <1>2 DEF SyncStates, IdleSync
  <1>4. /\ JobsOf(s)' = {<<i, content[i]>> : i \in some}
        /\ \A t \in Syncs \ {s} : JobsOf(t)' = JobsOf(t)
    BY <1>3 DEF JobsOf
  <1>5. \A job \in JobsOf(s)' : job[1] \in Items /\ job = <<job[1], content[job[1]]>>
    BY <1>4
  <1>6. VersionsGrow'
    <2>1. \A t \in Syncs \ {s} : \A job \in JobsOf(t)' :
            record'[job[1]].hash <= job[2] /\ job[2] <= content'[job[1]]
      BY <1>2, <1>4 DEF SkipInv, VersionsGrow
    <2>2. \A job \in JobsOf(s)' :
            record'[job[1]].hash <= job[2] /\ job[2] <= content'[job[1]]
      BY <1>2, <1>5 DEF SkipInv, VersionsGrow
    <2>3. \A i \in Items : record'[i].hash <= content'[i]
      BY <1>2 DEF SkipInv, VersionsGrow
    <2> QED BY <2>1, <2>2, <2>3 DEF VersionsGrow
  <1>7. OneJobPerItem'
    BY <1>3, <1>4, <1>5 DEF SkipInv, OneJobPerItem
  <1>8. InHandIsNew'
    BY <1>2, <1>3 DEF SkipInv, InHandIsNew
  <1>9. ClaimIsTrue'
    BY <1>2 DEF SkipInv, ClaimIsTrue
  <1> QED BY <1>6, <1>7, <1>8, <1>9 DEF SkipInv

(* The next item is taken in hand unless its record says it is up to date. *)
LEMMA SkipTake ==
  ASSUME Typed, SkipInv, NEW s \in Syncs, NEW i \in Items, NEW v \in Versions, Take(s, i, v)
  PROVE  SkipInv'
  <1> DEFINE new == [at   |-> IF UpToDate(i, v) THEN "next" ELSE "intake",
                     todo |-> sync[s].todo \ {<<i, v>>},
                     hand |-> IF UpToDate(i, v) THEN {} ELSE {<<i, v>>}]
  <1>1. /\ <<i, v>> \in sync[s].todo
        /\ sync \in [Syncs -> SyncStates]
        /\ UNCHANGED <<tenant, content, record, remote>>
        /\ sync' = [sync EXCEPT ![s] = new]
    BY DEF Take, Typed
  <1>2. /\ sync'[s] = new
        /\ \A t \in Syncs \ {s} : sync'[t] = sync[t]
    BY <1>1
  <1>3. /\ \A t \in Syncs \ {s} : JobsOf(t)' = JobsOf(t)
        /\ JobsOf(s)' \subseteq JobsOf(s)
    BY <1>1, <1>2 DEF JobsOf
  <1>4. VersionsGrow'
    BY <1>1, <1>3 DEF SkipInv, VersionsGrow
  <1>5. OneJobPerItem'
    BY <1>2, <1>3 DEF SkipInv, OneJobPerItem
  <1>6. InHandIsNew'
    BY <1>1, <1>2 DEF SkipInv, InHandIsNew, UpToDate
  <1>7. ClaimIsTrue'
    BY <1>1 DEF SkipInv, ClaimIsTrue
  <1> QED BY <1>4, <1>5, <1>6, <1>7 DEF SkipInv

(* An intake, answered or not, leaves a version that the record does not claim. *)
LEMMA SkipIntake ==
  ASSUME Typed, SkipInv, \A t, u \in Syncs : t = u,
         NEW s \in Syncs, NEW i \in Items, NEW v \in Versions, Intake(s, i, v)
  PROVE  SkipInv'
  <1>1. /\ sync[s].at = "intake"
        /\ sync[s].hand = {<<i, v>>}
        /\ sync \in [Syncs -> SyncStates]
        /\ remote \in [Items -> Versions \cup {NoCopy}]
        /\ UNCHANGED <<tenant, content, record>>
    BY DEF Intake, Typed
  <1>2. /\ content \in [Items -> Nat]
        /\ \A j \in Items : record[j].hash \in Nat
        /\ v \in Nat
    BY CopiesAssumption DEF Typed, Versions, Records
  <1>3. /\ sync'[s].at \in {"record", "fail"}
        /\ sync'[s].at = "record" => remote'[i] = v
        /\ sync'[s].hand = sync[s].hand
        /\ sync'[s].todo = sync[s].todo
    BY <1>1 DEF Intake, SyncStates
  <1>4. \A j \in Items \ {i} : remote'[j] = remote[j]
    BY <1>1 DEF Intake
  <1>5. JobsOf(s)' = JobsOf(s)
    BY <1>3 DEF JobsOf
  <1>6. VersionsGrow'
    BY <1>1, <1>5 DEF SkipInv, VersionsGrow
  <1>7. OneJobPerItem'
    BY <1>3, <1>5 DEF SkipInv, OneJobPerItem
  <1>8. InHandIsNew'
    BY <1>1, <1>3 DEF SkipInv, InHandIsNew
  <1>9. record[i].status = "synced" => record[i].hash # content[i]
    <2>1. <<i, v>> \in JobsOf(s) /\ <<i, v>> \in sync[s].hand
      BY <1>1 DEF JobsOf
    <2>2. record[i].hash <= v /\ v <= content[i]
      BY <2>1 DEF SkipInv, VersionsGrow
    <2>3. record[i].status = "synced" => record[i].hash # v
      BY <2>1 DEF SkipInv, InHandIsNew
    <2> QED BY <1>2, <2>2, <2>3
  <1>10. ClaimIsTrue'
    BY <1>1, <1>4, <1>9 DEF SkipInv, ClaimIsTrue
  <1> QED BY <1>6, <1>7, <1>8, <1>10 DEF SkipInv

(* The write that ends the work on an item claims no more than OneBrain has. *)
LEMMA SkipRecord ==
  ASSUME Typed, SkipInv, \A t, u \in Syncs : t = u,
         NEW s \in Syncs, NEW i \in Items, NEW v \in Versions,
         sync[s].hand = {<<i, v>>}, tenant = "live",
         UNCHANGED <<tenant, content, remote>>,
         \A j \in Items \ {i} : record'[j] = record[j],
         record'[i].hash = v,
         record'[i].status = "synced" => sync[s].at = "record",
         sync'[s].hand = {}, sync'[s].todo \subseteq sync[s].todo
  PROVE  SkipInv'
  <1>1. <<i, v>> \in JobsOf(s) /\ JobsOf(s)' \subseteq JobsOf(s)
    BY DEF JobsOf
  <1>2. /\ content \in [Items -> Nat]
        /\ JobsOf(s) \subseteq Items \X Nat
        /\ v \in Nat
    BY CopiesAssumption DEF Typed, Versions, JobsOf, SyncStates, JobSets, Jobs
  <1>3. VersionsGrow'
    <2>1. v <= content[i]
      BY <1>1 DEF SkipInv, VersionsGrow
    <2>2. \A j \in Items : record'[j].hash <= content'[j]
      BY <2>1 DEF SkipInv, VersionsGrow
    <2>3. ASSUME NEW job \in JobsOf(s)'
          PROVE  record'[job[1]].hash <= job[2] /\ job[2] <= content'[job[1]]
      <3>1. job \in JobsOf(s) /\ job[1] \in Items
        BY <1>1, <1>2
      <3>2. CASE job[1] = i
        <4>1. job = <<i, v>>
          BY <1>1, <3>1, <3>2 DEF SkipInv, OneJobPerItem
        <4> QED BY <1>2, <2>1, <4>1
      <3>3. CASE job[1] # i
        BY <3>1, <3>3 DEF SkipInv, VersionsGrow
      <3> QED BY <3>2, <3>3
    <2> QED BY <2>2, <2>3 DEF VersionsGrow
  <1>4. OneJobPerItem'
    BY <1>1 DEF SkipInv, OneJobPerItem
  <1>5. InHandIsNew'
    BY DEF InHandIsNew
  <1>6. ClaimIsTrue'
    <2>a. <<i, v>> \in sync[s].hand /\ <<i, v>>[1] = i /\ <<i, v>>[2] = v
      OBVIOUS
    <2>1. sync[s].at = "record" => remote[i] = v
      BY <2>a DEF SkipInv, InHandIsNew
    <2> QED BY <2>1 DEF SkipInv, ClaimIsTrue
  <1> QED BY <1>3, <1>4, <1>5, <1>6 DEF SkipInv

LEMMA SkipStep ==
  ASSUME IInv, SkipInv, \A s, t \in Syncs : s = t, [Next]_vars
  PROVE  SkipInv'
  <1>a. Typed
    BY TypedIsTypeOK DEF IInv
  <1>b. sync \in [Syncs -> SyncStates] /\ record \in [Items -> Records]
    BY <1>a DEF Typed
  <1>1. ASSUME NEW i \in Items, Edit(i)
        PROVE  SkipInv'
    BY <1>1, <1>a, SkipEdit
  <1>2. ASSUME NEW s \in Syncs, List(s)
        PROVE  SkipInv'
    BY <1>2, <1>a, SkipList
  <1>3. ASSUME NEW s \in Syncs, NEW i \in Items, NEW v \in Versions, Take(s, i, v)
        PROVE  SkipInv'
    BY <1>3, <1>a, SkipTake
  <1>4. ASSUME NEW s \in Syncs, NEW i \in Items, NEW v \in Versions, Intake(s, i, v)
        PROVE  SkipInv'
    BY <1>4, <1>a, SkipIntake
  <1>5. ASSUME NEW s \in Syncs, NEW i \in Items, NEW v \in Versions, RecordSuccess(s, i, v)
        PROVE  SkipInv'
    <2>1. CASE tenant = "live"
      <3>1. /\ sync[s].at = "record" /\ sync[s].hand = {<<i, v>>}
            /\ UNCHANGED <<tenant, content, remote>>
            /\ record' = [record EXCEPT ![i] =
                            [status |-> "synced", ref |-> TRUE, hash |-> v]]
            /\ sync' = [sync EXCEPT ![s].at = "next", ![s].hand = {}]
        BY <1>5, <2>1 DEF RecordSuccess, HashSent
      <3>2. sync'[s].hand = {} /\ sync'[s].todo = sync[s].todo
        BY <1>b, <3>1 DEF SyncStates
      <3>3. record'[i].hash = v /\ \A j \in Items \ {i} : record'[j] = record[j]
        BY <1>b, <3>1
      <3> QED BY <1>a, <2>1, <3>1, <3>2, <3>3, SkipRecord
    <2>2. CASE tenant # "live"
      <3>1. /\ UNCHANGED <<tenant, content, remote, record>>
            /\ sync' = [sync EXCEPT ![s].at = "fail"]
        BY <1>5, <2>2 DEF RecordSuccess
      <3>2. \A t \in Syncs : /\ sync'[t].hand = sync[t].hand
                             /\ sync'[t].todo = sync[t].todo
                             /\ sync'[t].at = sync[t].at \/ sync'[t].at = "fail"
        BY <1>b, <3>1 DEF SyncStates
      <3> QED BY <3>1, <3>2, SkipUnchanged DEF JobsOf
    <2> QED BY <2>1, <2>2
  <1>6. ASSUME NEW s \in Syncs, NEW i \in Items, NEW v \in Versions, RecordFailure(s, i, v)
        PROVE  SkipInv'
    <2>1. /\ sync[s].hand = {<<i, v>>}
          /\ UNCHANGED <<tenant, content, remote>>
          /\ sync' = [sync EXCEPT ![s] = IdleSync]
      BY <1>6 DEF RecordFailure
    <2>2. /\ sync'[s].hand = {} /\ sync'[s].todo = {}
          /\ \A t \in Syncs \ {s} : sync'[t] = sync[t]
      BY <1>b, <2>1 DEF IdleSync
    <2>3. CASE tenant = "live"
      <3>1. record' = [record EXCEPT ![i] =
                         [status |-> "failed", ref |-> @.ref, hash |-> v]]
        BY <1>6, <2>3 DEF RecordFailure
      <3>2. /\ record'[i].hash = v /\ record'[i].status = "failed"
            /\ \A j \in Items \ {i} : record'[j] = record[j]
        BY <1>b, <3>1
      <3> QED BY <1>a, <2>1, <2>2, <2>3, <3>2, SkipRecord
    <2>4. CASE tenant # "live"
      <3>1. record' = record
        BY <1>6, <2>4 DEF RecordFailure
      <3> QED BY <2>1, <2>2, <3>1, SkipUnchanged DEF JobsOf
    <2> QED BY <2>3, <2>4
  <1>7. ASSUME NEW s \in Syncs, ThrowInSync(s)
        PROVE  SkipInv'
    <2>1. /\ UNCHANGED <<tenant, content, remote, record>>
          /\ sync' = [sync EXCEPT ![s].at = "fail"]
      BY <1>7 DEF ThrowInSync
    <2>2. \A t \in Syncs : /\ sync'[t].hand = sync[t].hand
                           /\ sync'[t].todo = sync[t].todo
                           /\ sync'[t].at = sync[t].at \/ sync'[t].at = "fail"
      BY <1>b, <2>1 DEF SyncStates
    <2> QED BY <2>1, <2>2, SkipUnchanged DEF JobsOf
  <1>8. ASSUME NEW s \in Syncs, CrashSync(s)
        PROVE  SkipInv'
    <2>1. /\ UNCHANGED <<tenant, content, remote, record>>
          /\ sync' = [sync EXCEPT ![s] = IdleSync]
      BY <1>8 DEF CrashSync
    <2>2. /\ sync'[s].hand = {} /\ sync'[s].todo = {}
          /\ \A t \in Syncs \ {s} : sync'[t] = sync[t]
      BY <1>b, <2>1 DEF IdleSync
    <2> QED BY <2>1, <2>2, SkipUnchanged DEF JobsOf
  <1>9. ASSUME NEW e \in Erasures, Delete(e)
        PROVE  SkipInv'
    <2>1. /\ content' = content /\ sync' = sync /\ tenant' = "erased"
          /\ record' = [i \in Items |-> NoRecord]
      BY <1>9 DEF Delete
    <2> QED BY <1>a, <2>1, SkipElsewhere
  <1>10. ASSUME NEW d \in Drains, NEW row \in drain[d].todo \cup drain[d].hand,
                DeleteCopy(d, row)
         PROVE  SkipInv'
    <2>1. outbox[row[1]].status # "none" /\ row[1] \in Rows
      BY <1>a DEF IInv, RowsAfterErasure, Typed, DrainStates, ListedRows
    <2>2. tenant = "erased"
      BY <2>1 DEF IInv, RowsAfterErasure
    <2>3. UNCHANGED <<tenant, content, record, sync>>
      BY <1>10 DEF DeleteCopy
    <2> QED BY <1>a, <2>2, <2>3, SkipElsewhere
  <1>11. ASSUME UNCHANGED <<tenant, content, record, remote, sync>>
         PROVE  SkipInv'
    BY <1>11, <1>a, SkipElsewhere
  <1>12. ASSUME NEW e \in Erasures, Capture(e) \/ RollBack(e)
         PROVE  UNCHANGED <<tenant, content, record, remote, sync>>
    BY <1>12 DEF Capture, RollBack
  <1>13. ASSUME NEW d \in Drains, ListPending(d) \/ ThrowInDrain(d) \/ CrashDrain(d)
         PROVE  UNCHANGED <<tenant, content, record, remote, sync>>
    BY <1>13 DEF ListPending, ThrowInDrain, CrashDrain
  <1>14. ASSUME NEW d \in Drains, NEW row \in drain[d].todo \cup drain[d].hand,
                MarkDone(d, row) \/ MarkFailed(d, row)
         PROVE  UNCHANGED <<tenant, content, record, remote, sync>>
    BY <1>14 DEF MarkDone, MarkFailed
  <1>15. ASSUME UNCHANGED vars
         PROVE  UNCHANGED <<tenant, content, record, remote, sync>>
    BY <1>15 DEF vars
  <1> QED BY <1>1, <1>2, <1>3, <1>4, <1>5, <1>6, <1>7, <1>8, <1>9, <1>10, <1>11, <1>12,
             <1>13, <1>14, <1>15 DEF Next, SyncStep, DrainStep

(* With one sync at a time a record the next sync would skip tells the truth,
   whatever timed out, failed or died, and however edits come in between.  Two
   overlapping syncs can break it, and the code does not keep them apart. *)
THEOREM SkippedStaysCurrent ==
  ASSUME \A s, t \in Syncs : s = t
  PROVE  Spec => []SkippedIsCurrent
  <1>1. Init => SkipInv
    BY DEF Init, SkipInv, VersionsGrow, OneJobPerItem, InHandIsNew, ClaimIsTrue, JobsOf,
           IdleSync, NoRecord
  <1>2. IInv /\ SkipInv /\ [Next]_vars => SkipInv'
    BY SkipStep
  <1>3. SkipInv => SkippedIsCurrent
    BY DEF SkipInv, ClaimIsTrue, SkippedIsCurrent
  <1> QED BY <1>1, <1>2, <1>3, Invariance, PTL DEF Spec
=============================================================================
