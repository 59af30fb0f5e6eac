------------------------- MODULE TombstoneFeedProofs -------------------------
(***************************************************************************)
(* Proofs about TombstoneFeed for every set of tenants, every feed and any *)
(* number of overlapping runs and owners' calls.                           *)
(***************************************************************************)
EXTENDS TombstoneFeed, TLAPS

(* Every step keeps the types. *)
LEMMA TypeStep ==
  ASSUME TypeOK, RunCovers, [Next]_vars
  PROVE  TypeOK'
  <1> USE FeedAssumption
  <1> USE DEF TypeOK, Seqs
  <1>1. ASSUME Publish
        PROVE  TypeOK'
    BY <1>1 DEF Publish
  <1>2. ASSUME NEW t \in Tenants, SetHold(t)
        PROVE  TypeOK'
    BY <1>2 DEF SetHold
  <1>3. ASSUME NEW t \in Tenants, ReleaseHold(t)
        PROVE  TypeOK'
    BY <1>3 DEF ReleaseHold
  <1>4. ASSUME NEW c \in Consumers, Start(c)
        PROVE  TypeOK'
    BY <1>4 DEF Start, Runs
  <1>5. ASSUME NEW c \in Consumers, Fetch(c)
        PROVE  TypeOK'
    <2>0. run[c] \in Runs /\ run[c].since \in 0 .. MaxSeq /\ run[c].upto \in 0 .. MaxSeq
      BY DEF Runs
    <2>1. PICK upto : /\ upto \in IF published > run[c].since
                                  THEN run[c].since + 1 .. published
                                  ELSE {run[c].since}
                      /\ run' = [run EXCEPT ![c].at = "next", ![c].upto = upto]
      BY <1>5 DEF Fetch
    <2>2. upto \in 0 .. MaxSeq
      BY <2>0, <2>1
    <2>3. [run[c] EXCEPT !.at = "next", !.upto = upto] \in Runs
      BY <2>0, <2>2 DEF Runs
    <2>4. run' \in [Consumers -> Runs]
      BY <2>1, <2>3
    <2> QED BY <1>5, <2>4 DEF Fetch
  <1>6. ASSUME NEW c \in Consumers, Resolve(c)
        PROVE  TypeOK'
    <2>0. run[c] \in Runs /\ run[c].done \in 0 .. MaxSeq /\ run[c].upto \in 0 .. MaxSeq
      BY DEF Runs
    <2>1. CASE ForManualReview(Current(c))
      <3>1. run[c].done + 1 \in 0 .. MaxSeq
        BY <1>6, <2>0 DEF Resolve
      <3>2. [run[c] EXCEPT !.done = @ + 1] \in Runs
        BY <2>0, <3>1 DEF Runs
      <3>3. run' = [run EXCEPT ![c].done = @ + 1]
        BY <1>6, <2>1 DEF Resolve
      <3>4. run' \in [Consumers -> Runs]
        BY <3>2, <3>3
      <3> QED BY <1>6, <3>4 DEF Resolve
    <2>2. CASE ~ForManualReview(Current(c))
      <3>1. PICK at \in {"ack", "check"} : run' = [run EXCEPT ![c].at = at]
        BY <1>6, <2>2 DEF Resolve
      <3> QED BY <1>6, <3>1 DEF Resolve, Runs
    <2> QED BY <2>1, <2>2
  <1>7. ASSUME NEW c \in Consumers, CheckHold(c)
        PROVE  TypeOK'
    <2>0. run[c] \in Runs
      OBVIOUS
    <2>1. IdleRun \in Runs
      BY FeedAssumption DEF IdleRun, Runs
    <2>a. [run[c] EXCEPT !.at = "delete"] \in Runs
      BY <2>0 DEF Runs
    <2>2. Checked(c) \in Runs
      BY <2>1, <2>a DEF Checked
    <2> QED BY <1>7, <2>2 DEF CheckHold
  <1>8. ASSUME NEW c \in Consumers, Delete(c)
        PROVE  TypeOK'
    BY <1>8 DEF Delete, Runs
  <1>9. ASSUME NEW c \in Consumers, Ack(c)
        PROVE  TypeOK'
    <2>0. run[c] \in Runs /\ run[c].done \in 0 .. MaxSeq /\ run[c].upto \in 0 .. MaxSeq
      BY DEF Runs
    <2>1. run[c].done + 1 \in 1 .. MaxSeq
      BY <1>9, <2>0 DEF Ack, Covers, RunCovers
    <2>b. run[c].done + 1 \in 0 .. MaxSeq
      BY <2>0, <2>1
    <2>a. [run[c] EXCEPT !.done = run[c].done + 1] \in Runs
      BY <2>0, <2>b DEF Runs
    <2>2. [run[c] EXCEPT !.at = "next", !.done = run[c].done + 1] \in Runs
      BY <2>a DEF Runs
    <2>3. run' \in [Consumers -> Runs]
      BY <1>9, <2>2 DEF Ack
    <2> QED BY <1>9, <2>1, <2>3 DEF Ack
  <1>10. ASSUME NEW c \in Consumers, Finish(c)
         PROVE  TypeOK'
    BY <1>10 DEF Finish, Reached, IdleRun, Runs
  <1>11. ASSUME NEW c \in Consumers, Fail(c)
         PROVE  TypeOK'
    <2>1. IdleRun \in Runs
      BY DEF IdleRun, Runs
    <2>2. run[c].at = "ack" => run[c].done + 1 \in 1 .. MaxSeq
      BY DEF Covers, RunCovers, Runs
    <2>3. run' \in [Consumers -> Runs]
      BY <1>11, <2>1 DEF Fail
    <2>4. acked' \subseteq 1 .. MaxSeq
      BY <1>11, <2>2 DEF Fail
    <2>5. tenant' \in [Tenants -> {"live", "held", "erased"}]
      BY <1>11 DEF Fail
    <2>6. faults' \in 0 .. MaxFaults
      BY <1>11 DEF Fail
    <2> QED BY <1>11, <2>3, <2>4, <2>5, <2>6 DEF Fail
  <1>12. ASSUME NEW o \in Owners, NEW t \in Tenants, OwnerCheck(o, t)
         PROVE  TypeOK'
    BY <1>12 DEF OwnerCheck
  <1>13. ASSUME NEW o \in Owners, NEW t \in Tenants, OwnerDelete(o, t)
         PROVE  TypeOK'
    BY <1>13 DEF OwnerDelete
  <1>14. ASSUME UNCHANGED vars
          PROVE  TypeOK'
    BY <1>14 DEF vars
  <1> HIDE DEF TypeOK, Seqs
  <1> QED BY <1>1, <1>2, <1>3, <1>4, <1>5, <1>6, <1>7, <1>8, <1>9, <1>10,
             <1>11, <1>12, <1>13, <1>14 DEF Next, Consume

(* What is gone stays gone. *)
LEMMA GoneStep ==
  ASSUME TypeOK, [Next]_vars
  PROVE  \A a \in Accounts : Gone(a) => Gone(a)'
  <1> USE DEF TypeOK, Gone
  <1>1. ASSUME Publish
        PROVE  \A a \in Accounts : Gone(a) => Gone(a)'
    BY <1>1 DEF Publish
  <1>2. ASSUME NEW t \in Tenants, SetHold(t)
        PROVE  \A a \in Accounts : Gone(a) => Gone(a)'
    BY <1>2 DEF SetHold
  <1>3. ASSUME NEW t \in Tenants, ReleaseHold(t)
        PROVE  \A a \in Accounts : Gone(a) => Gone(a)'
    BY <1>3 DEF ReleaseHold
  <1>4. ASSUME NEW c \in Consumers, Start(c)
        PROVE  \A a \in Accounts : Gone(a) => Gone(a)'
    BY <1>4 DEF Start
  <1>5. ASSUME NEW c \in Consumers, Fetch(c)
        PROVE  \A a \in Accounts : Gone(a) => Gone(a)'
    BY <1>5 DEF Fetch
  <1>6. ASSUME NEW c \in Consumers, Resolve(c)
        PROVE  \A a \in Accounts : Gone(a) => Gone(a)'
    BY <1>6 DEF Resolve
  <1>7. ASSUME NEW c \in Consumers, CheckHold(c)
        PROVE  \A a \in Accounts : Gone(a) => Gone(a)'
    BY <1>7 DEF CheckHold
  <1>8. ASSUME NEW c \in Consumers, Delete(c)
        PROVE  \A a \in Accounts : Gone(a) => Gone(a)'
    BY <1>8 DEF Delete
  <1>9. ASSUME NEW c \in Consumers, Ack(c)
        PROVE  \A a \in Accounts : Gone(a) => Gone(a)'
    BY <1>9 DEF Ack
  <1>10. ASSUME NEW c \in Consumers, Finish(c)
         PROVE  \A a \in Accounts : Gone(a) => Gone(a)'
    BY <1>10 DEF Finish
  <1>11. ASSUME NEW c \in Consumers, Fail(c)
         PROVE  \A a \in Accounts : Gone(a) => Gone(a)'
    BY <1>11 DEF Fail
  <1>12. ASSUME NEW o \in Owners, NEW t \in Tenants, OwnerCheck(o, t)
         PROVE  \A a \in Accounts : Gone(a) => Gone(a)'
    BY <1>12 DEF OwnerCheck
  <1>13. ASSUME NEW o \in Owners, NEW t \in Tenants, OwnerDelete(o, t)
         PROVE  \A a \in Accounts : Gone(a) => Gone(a)'
    BY <1>13 DEF OwnerDelete
  <1>14. ASSUME UNCHANGED vars
          PROVE  \A a \in Accounts : Gone(a) => Gone(a)'
    BY <1>14 DEF vars
  <1> HIDE DEF TypeOK, Gone
  <1> QED BY <1>1, <1>2, <1>3, <1>4, <1>5, <1>6, <1>7, <1>8, <1>9, <1>10,
             <1>11, <1>12, <1>13, <1>14 DEF Next, Consume

(* The feed is not rewritten and no acknowledgement is taken back. *)
LEMMA FeedIsFixed ==
  ASSUME [Next]_vars
  PROVE  feed' = feed /\ acked \subseteq acked'
  <1>1. ASSUME Publish
        PROVE  feed' = feed /\ acked \subseteq acked'
    BY <1>1 DEF Publish
  <1>2. ASSUME NEW t \in Tenants, SetHold(t)
        PROVE  feed' = feed /\ acked \subseteq acked'
    BY <1>2 DEF SetHold
  <1>3. ASSUME NEW t \in Tenants, ReleaseHold(t)
        PROVE  feed' = feed /\ acked \subseteq acked'
    BY <1>3 DEF ReleaseHold
  <1>4. ASSUME NEW c \in Consumers, Start(c)
        PROVE  feed' = feed /\ acked \subseteq acked'
    BY <1>4 DEF Start
  <1>5. ASSUME NEW c \in Consumers, Fetch(c)
        PROVE  feed' = feed /\ acked \subseteq acked'
    BY <1>5 DEF Fetch
  <1>6. ASSUME NEW c \in Consumers, Resolve(c)
        PROVE  feed' = feed /\ acked \subseteq acked'
    BY <1>6 DEF Resolve
  <1>7. ASSUME NEW c \in Consumers, CheckHold(c)
        PROVE  feed' = feed /\ acked \subseteq acked'
    BY <1>7 DEF CheckHold
  <1>8. ASSUME NEW c \in Consumers, Delete(c)
        PROVE  feed' = feed /\ acked \subseteq acked'
    BY <1>8 DEF Delete
  <1>9. ASSUME NEW c \in Consumers, Ack(c)
        PROVE  feed' = feed /\ acked \subseteq acked'
    BY <1>9 DEF Ack
  <1>10. ASSUME NEW c \in Consumers, Finish(c)
         PROVE  feed' = feed /\ acked \subseteq acked'
    BY <1>10 DEF Finish
  <1>11. ASSUME NEW c \in Consumers, Fail(c)
         PROVE  feed' = feed /\ acked \subseteq acked'
    BY <1>11 DEF Fail
  <1>12. ASSUME NEW o \in Owners, NEW t \in Tenants, OwnerCheck(o, t)
         PROVE  feed' = feed /\ acked \subseteq acked'
    BY <1>12 DEF OwnerCheck
  <1>13. ASSUME NEW o \in Owners, NEW t \in Tenants, OwnerDelete(o, t)
         PROVE  feed' = feed /\ acked \subseteq acked'
    BY <1>13 DEF OwnerDelete
  <1>14. ASSUME UNCHANGED vars
          PROVE  feed' = feed /\ acked \subseteq acked'
    BY <1>14 DEF vars
  <1> QED BY <1>1, <1>2, <1>3, <1>4, <1>5, <1>6, <1>7, <1>8, <1>9, <1>10,
             <1>11, <1>12, <1>13, <1>14 DEF Next, Consume

(* The tombstone a run is at. *)
LEMMA CurrentIsTombstone ==
  ASSUME TypeOK, NEW c \in Consumers, run[c].done < run[c].upto
  PROVE  run[c].done + 1 \in 1 .. MaxSeq /\ Current(c) \in Tombstones
  <1>1. run[c].done \in 0 .. MaxSeq /\ run[c].upto \in 0 .. MaxSeq
    BY DEF TypeOK, Runs, Seqs
  <1>2. run[c].done + 1 \in 1 .. MaxSeq
    BY <1>1, FeedAssumption
  <1> QED BY <1>2 DEF TypeOK, Current

(* Only what is gone is acknowledged. *)
LEMMA AckedStep ==
  ASSUME TypeOK, AckedIsErased, RunCovers, [Next]_vars
  PROVE  AckedIsErased'
  <1>a. \A a \in Accounts : Gone(a) => Gone(a)'
    BY GoneStep
  <1>b. feed' = feed /\ \A n \in 1 .. MaxSeq : feed[n].account \in Accounts
    BY FeedIsFixed DEF TypeOK, Tombstones
  <1>c. acked \subseteq 1 .. MaxSeq
    BY DEF TypeOK
  <1> USE <1>a, <1>b, <1>c
  <1> USE DEF AckedIsErased
  <1>1. ASSUME Publish
        PROVE  AckedIsErased'
    BY <1>1 DEF Publish
  <1>2. ASSUME NEW t \in Tenants, SetHold(t)
        PROVE  AckedIsErased'
    BY <1>2 DEF SetHold
  <1>3. ASSUME NEW t \in Tenants, ReleaseHold(t)
        PROVE  AckedIsErased'
    BY <1>3 DEF ReleaseHold
  <1>4. ASSUME NEW c \in Consumers, Start(c)
        PROVE  AckedIsErased'
    BY <1>4 DEF Start
  <1>5. ASSUME NEW c \in Consumers, Fetch(c)
        PROVE  AckedIsErased'
    BY <1>5 DEF Fetch
  <1>6. ASSUME NEW c \in Consumers, Resolve(c)
        PROVE  AckedIsErased'
    BY <1>6 DEF Resolve
  <1>7. ASSUME NEW c \in Consumers, CheckHold(c)
        PROVE  AckedIsErased'
    BY <1>7 DEF CheckHold
  <1>8. ASSUME NEW c \in Consumers, Delete(c)
        PROVE  AckedIsErased'
    BY <1>8 DEF Delete
  <1>9. ASSUME NEW c \in Consumers, Ack(c)
        PROVE  AckedIsErased'
    <2>1. run[c].done + 1 \in 1 .. MaxSeq /\ Gone(feed[run[c].done + 1].account)
      BY <1>9, CurrentIsTombstone DEF Ack, RunCovers, Covers
    <2>2. acked' = acked \cup {run[c].done + 1}
      BY <1>9 DEF Ack
    <2> QED BY <2>1, <2>2
  <1>10. ASSUME NEW c \in Consumers, Finish(c)
         PROVE  AckedIsErased'
    BY <1>10 DEF Finish
  <1>11. ASSUME NEW c \in Consumers, Fail(c)
         PROVE  AckedIsErased'
    <2>1. CASE acked' = acked
      BY <2>1
    <2>2. CASE run[c].at = "ack" /\ acked' = acked \cup {run[c].done + 1}
      <3>1. run[c].done + 1 \in 1 .. MaxSeq /\ Gone(feed[run[c].done + 1].account)
        BY <2>2, CurrentIsTombstone DEF RunCovers, Covers
      <3> QED BY <2>2, <3>1
    <2> QED BY <1>11, <2>1, <2>2 DEF Fail
  <1>12. ASSUME NEW o \in Owners, NEW t \in Tenants, OwnerCheck(o, t)
         PROVE  AckedIsErased'
    BY <1>12 DEF OwnerCheck
  <1>13. ASSUME NEW o \in Owners, NEW t \in Tenants, OwnerDelete(o, t)
         PROVE  AckedIsErased'
    BY <1>13 DEF OwnerDelete
  <1>14. ASSUME UNCHANGED vars
          PROVE  AckedIsErased'
    BY <1>14 DEF vars
  <1> HIDE DEF AckedIsErased
  <1> QED BY <1>1, <1>2, <1>3, <1>4, <1>5, <1>6, <1>7, <1>8, <1>9, <1>10,
             <1>11, <1>12, <1>13, <1>14 DEF Next, Consume

(* The cursor moves to what a run has dealt with. *)
LEMMA CursorStep ==
  ASSUME TypeOK, CursorCovers, RunCovers, [Next]_vars
  PROVE  CursorCovers'
  <1> USE DEF CursorCovers, Automatic
  <1>1. ASSUME Publish
        PROVE  CursorCovers'
    BY <1>1 DEF Publish
  <1>2. ASSUME NEW t \in Tenants, SetHold(t)
        PROVE  CursorCovers'
    BY <1>2 DEF SetHold
  <1>3. ASSUME NEW t \in Tenants, ReleaseHold(t)
        PROVE  CursorCovers'
    BY <1>3 DEF ReleaseHold
  <1>4. ASSUME NEW c \in Consumers, Start(c)
        PROVE  CursorCovers'
    BY <1>4 DEF Start
  <1>5. ASSUME NEW c \in Consumers, Fetch(c)
        PROVE  CursorCovers'
    BY <1>5 DEF Fetch
  <1>6. ASSUME NEW c \in Consumers, Resolve(c)
        PROVE  CursorCovers'
    BY <1>6 DEF Resolve
  <1>7. ASSUME NEW c \in Consumers, CheckHold(c)
        PROVE  CursorCovers'
    BY <1>7 DEF CheckHold
  <1>8. ASSUME NEW c \in Consumers, Delete(c)
        PROVE  CursorCovers'
    BY <1>8 DEF Delete
  <1>9. ASSUME NEW c \in Consumers, Ack(c)
        PROVE  CursorCovers'
    BY <1>9 DEF Ack
  <1>10. ASSUME NEW c \in Consumers, Finish(c)
         PROVE  CursorCovers'
    <2>1. feed' = feed /\ acked' = acked
      BY <1>10, FeedIsFixed DEF Finish
    <2>2. CASE cursor' = cursor
      BY <2>1, <2>2
    <2>3. CASE cursor' = run[c].done
      <3>1. \A n \in 1 .. run[c].done : Automatic(n) => n \in acked
        BY DEF RunCovers, Covers
      <3> QED BY <2>1, <2>3, <3>1
    <2> QED BY <1>10, <2>2, <2>3 DEF Finish, Reached
  <1>11. ASSUME NEW c \in Consumers, Fail(c)
         PROVE  CursorCovers'
    BY <1>11 DEF Fail
  <1>12. ASSUME NEW o \in Owners, NEW t \in Tenants, OwnerCheck(o, t)
         PROVE  CursorCovers'
    BY <1>12 DEF OwnerCheck
  <1>13. ASSUME NEW o \in Owners, NEW t \in Tenants, OwnerDelete(o, t)
         PROVE  CursorCovers'
    BY <1>13 DEF OwnerDelete
  <1>14. ASSUME UNCHANGED vars
          PROVE  CursorCovers'
    BY <1>14 DEF vars
  <1> HIDE DEF CursorCovers, Automatic
  <1> QED BY <1>1, <1>2, <1>3, <1>4, <1>5, <1>6, <1>7, <1>8, <1>9, <1>10,
             <1>11, <1>12, <1>13, <1>14 DEF Next, Consume

(* What a run has dealt with stays dealt with. *)
LEMMA CoversStays ==
  ASSUME TypeOK, [Next]_vars
  PROVE  \A r \in Runs : Covers(r) => Covers(r)'
  <1>1. feed' = feed /\ acked \subseteq acked'
    BY FeedIsFixed
  <1>2. \A a \in Accounts : Gone(a) => Gone(a)'
    BY GoneStep
  <1>3. SUFFICES ASSUME NEW r \in Runs, Covers(r)
                 PROVE  Covers(r)'
    OBVIOUS
  <1>4. r.at = "ack" => feed[r.done + 1].account \in Accounts
    <2>1. r.done \in 0 .. MaxSeq /\ r.upto \in 0 .. MaxSeq
      BY DEF Runs, Seqs
    <2>2. r.at = "ack" => r.done + 1 \in 1 .. MaxSeq
      BY <2>1, <1>3, FeedAssumption DEF Covers
    <2> QED BY <2>2 DEF TypeOK, Tombstones
  <1>5. r.at = "ack" => Gone(feed[r.done + 1].account)'
    BY <1>1, <1>2, <1>3, <1>4 DEF Covers
  <1> QED BY <1>1, <1>3, <1>5 DEF Covers, Automatic

(* A run deals with one tombstone after the other. *)
LEMMA RunStep ==
  ASSUME TypeOK, CursorCovers, RunCovers, [Next]_vars
  PROVE  RunCovers'
  <1>a. \A r \in Runs : Covers(r) => Covers(r)'
    BY CoversStays
  <1>b. run \in [Consumers -> Runs] /\ \A x \in Consumers : Covers(run[x])
    BY DEF TypeOK, RunCovers
  <1>c. feed' = feed /\ acked \subseteq acked'
    BY FeedIsFixed
  <1>d. MaxSeq \in Nat /\ published \in 0 .. MaxSeq /\ cursor \in 0 .. MaxSeq
    BY FeedAssumption DEF TypeOK, Seqs
  <1> USE <1>a, <1>b, <1>c, <1>d DEF RunCovers
  <1>1. ASSUME Publish
        PROVE  RunCovers'
    BY <1>1 DEF Publish
  <1>2. ASSUME NEW t \in Tenants, SetHold(t)
        PROVE  RunCovers'
    BY <1>2 DEF SetHold
  <1>3. ASSUME NEW t \in Tenants, ReleaseHold(t)
        PROVE  RunCovers'
    BY <1>3 DEF ReleaseHold
  <1>4. ASSUME NEW c \in Consumers, Start(c)
        PROVE  RunCovers'
    <2>1. \A x \in Consumers \ {c} : run'[x] = run[x]
      BY <1>4 DEF Start
    <2>2. run'[c] = [at |-> "fetch", since |-> cursor, done |-> cursor, upto |-> cursor]
      BY <1>4 DEF Start
    <2>3. Covers(run[c])'
      BY <2>2 DEF Covers, CursorCovers, Automatic
    <2> QED BY <2>1, <2>3
  <1>5. ASSUME NEW c \in Consumers, Fetch(c)
        PROVE  RunCovers'
    <2>1. \A x \in Consumers \ {c} : run'[x] = run[x]
      BY <1>5 DEF Fetch
    <2>a. run[c] \in Runs /\ run[c].since \in 0 .. MaxSeq
      BY DEF Runs, Seqs
    <2>b. PICK upto : /\ upto \in IF published > run[c].since
                                  THEN run[c].since + 1 .. published
                                  ELSE {run[c].since}
                      /\ run' = [run EXCEPT ![c].at = "next", ![c].upto = upto]
      BY <1>5 DEF Fetch
    <2>2. /\ upto \in 0 .. MaxSeq /\ upto >= run[c].since
          /\ run'[c] = [run[c] EXCEPT !.at = "next", !.upto = upto]
      BY <2>a, <2>b
    <2>3. run[c].done = run[c].since /\ Covers(run[c])
      BY <1>5 DEF Fetch, Covers
    <2>4. Covers(run[c])'
      BY <2>2, <2>3 DEF Covers, Automatic, Runs, Seqs
    <2> QED BY <2>1, <2>4
  <1>6. ASSUME NEW c \in Consumers, Resolve(c)
        PROVE  RunCovers'
    <2>1. \A x \in Consumers \ {c} : run'[x] = run[x]
      BY <1>6 DEF Resolve
    <2>2. run[c].done + 1 \in 1 .. MaxSeq /\ Current(c) \in Tombstones
      BY <1>6, CurrentIsTombstone DEF Resolve
    <2>3. Covers(run[c]) /\ run[c] \in Runs /\ acked' = acked /\ tenant' = tenant
      BY <1>6 DEF Resolve
    <2>4. CASE ForManualReview(Current(c))
      <3>1. ~Automatic(run[c].done + 1) \/ Gone(Current(c).account)
        BY <2>4 DEF ForManualReview, Automatic, Current
      <3>2. ~Automatic(run[c].done + 1)
        BY <2>4, <3>1 DEF ForManualReview, Automatic
      <3>3. run'[c] = [run[c] EXCEPT !.done = @ + 1]
        BY <1>6, <2>4 DEF Resolve
      <3>a. run[c].at = "next" /\ run[c].done < run[c].upto
        BY <1>6 DEF Resolve
      <3>b. run'[c].at = "next" /\ run'[c].done = run[c].done + 1 /\ run'[c].upto = run[c].upto
            /\ run'[c].since = run[c].since
        BY <2>3, <3>3, <3>a DEF Runs
      <3>c. run[c].done \in Nat /\ run[c].since \in Nat /\ run[c].upto \in Nat
        BY <2>3 DEF Runs, Seqs
      <3>d. \A n \in 1 .. run[c].done + 1 : Automatic(n) => n \in acked
        BY <2>3, <3>2, <3>c DEF Covers
      <3>4. Covers(run[c])'
        BY <2>3, <3>a, <3>b, <3>c, <3>d DEF Covers, Automatic
      <3> QED BY <2>1, <3>4
    <2>5. CASE ~ForManualReview(Current(c))
      <3>1. CASE Gone(Current(c).account)
        <4>1. run'[c] = [run[c] EXCEPT !.at = "ack"]
          BY <1>6, <2>5, <3>1 DEF Resolve
        <4>2. Covers(run[c])'
          BY <1>6, <2>3, <3>1, <4>1 DEF Resolve, Covers, Automatic, Runs, Seqs, Current, Gone
        <4> QED BY <2>1, <4>2
      <3>2. CASE ~Gone(Current(c).account)
        <4>1. run'[c] = [run[c] EXCEPT !.at = "check"]
          BY <1>6, <2>5, <3>2 DEF Resolve
        <4>2. Current(c).account \in Tenants
          BY <3>2 DEF Gone
        <4>3. Covers(run[c])'
          BY <1>6, <2>3, <4>1, <4>2 DEF Resolve, Covers, Automatic, Runs, Seqs, Current
        <4> QED BY <2>1, <4>3
      <3> QED BY <3>1, <3>2
    <2> QED BY <2>4, <2>5
  <1>7. ASSUME NEW c \in Consumers, CheckHold(c)
        PROVE  RunCovers'
    <2>0. Covers(IdleRun)'
      BY DEF Covers, IdleRun
    <2>1. \A x \in Consumers \ {c} : run'[x] = run[x]
      BY <1>7 DEF CheckHold
    <2>2. Covers(run[c]) /\ run[c] \in Runs /\ acked' = acked
      BY <1>7 DEF CheckHold
    <2>3. CASE run'[c] = IdleRun
      BY <2>0, <2>1, <2>3
    <2>4. CASE run'[c] = [run[c] EXCEPT !.at = "delete"]
      <3>1. Covers(run[c])'
        BY <1>7, <2>2, <2>4 DEF CheckHold, Covers, Automatic, Runs, Seqs
      <3> QED BY <2>1, <3>1
    <2> QED BY <1>7, <2>3, <2>4 DEF CheckHold, Checked
  <1>8. ASSUME NEW c \in Consumers, Delete(c)
        PROVE  RunCovers'
    <2>1. \A x \in Consumers \ {c} : run'[x] = run[x]
      BY <1>8 DEF Delete
    <2>2. Covers(run[c]) /\ run[c] \in Runs /\ acked' = acked
      BY <1>8 DEF Delete
    <2>3. run'[c] = [run[c] EXCEPT !.at = "ack"]
      BY <1>8 DEF Delete
    <2>4. Gone(feed[run[c].done + 1].account)'
      <3>1. feed[run[c].done + 1].account \in Tenants
        BY <1>8, <2>2 DEF Delete, Covers
      <3>2. tenant'[feed[run[c].done + 1].account] = "erased"
        BY <1>8, <3>1 DEF Delete, Current, TypeOK
      <3>3. run[c].done' = run[c].done
        BY <2>2, <2>3 DEF Runs
      <3> QED BY <3>2, <3>3 DEF Gone
    <2>5. Covers(run[c])'
      BY <1>8, <2>2, <2>3, <2>4 DEF Delete, Covers, Automatic, Runs, Seqs
    <2> QED BY <2>1, <2>5
  <1>9. ASSUME NEW c \in Consumers, Ack(c)
        PROVE  RunCovers'
    <2>1. \A x \in Consumers \ {c} : run'[x] = run[x]
      BY <1>9 DEF Ack
    <2>2. Covers(run[c]) /\ run[c] \in Runs
      BY <1>9 DEF Ack
    <2>3. run'[c] = [run[c] EXCEPT !.at = "next", !.done = @ + 1]
      BY <1>9 DEF Ack
    <2>4. run[c].done + 1 \in acked'
      BY <1>9 DEF Ack
    <2>5. Covers(run[c])'
      BY <1>9, <2>2, <2>3, <2>4 DEF Ack, Covers, Automatic, Runs, Seqs
    <2> QED BY <2>1, <2>5
  <1>10. ASSUME NEW c \in Consumers, Finish(c)
         PROVE  RunCovers'
    <2>0. Covers(IdleRun)'
      BY DEF Covers, IdleRun
    <2>1. \A x \in Consumers \ {c} : run'[x] = run[x]
      BY <1>10 DEF Finish
    <2>2. run'[c] = IdleRun
      BY <1>10 DEF Finish
    <2> QED BY <2>0, <2>1, <2>2
  <1>11. ASSUME NEW c \in Consumers, Fail(c)
         PROVE  RunCovers'
    <2>0. Covers(IdleRun)'
      BY DEF Covers, IdleRun
    <2>1. \A x \in Consumers \ {c} : run'[x] = run[x]
      BY <1>11 DEF Fail
    <2>2. run'[c] = IdleRun
      BY <1>11 DEF Fail
    <2> QED BY <2>0, <2>1, <2>2
  <1>12. ASSUME NEW o \in Owners, NEW t \in Tenants, OwnerCheck(o, t)
         PROVE  RunCovers'
    BY <1>12 DEF OwnerCheck
  <1>13. ASSUME NEW o \in Owners, NEW t \in Tenants, OwnerDelete(o, t)
         PROVE  RunCovers'
    BY <1>13 DEF OwnerDelete
  <1>14. ASSUME UNCHANGED vars
          PROVE  RunCovers'
    BY <1>14 DEF vars
  <1> QED BY <1>1, <1>2, <1>3, <1>4, <1>5, <1>6, <1>7, <1>8, <1>9, <1>10,
             <1>11, <1>12, <1>13, <1>14 DEF Next, Consume

(* The inductive invariant of any number of overlapping runs. *)
THEOREM Invariance == Spec => []IInv
  <1>1. Init => IInv
    <2> SUFFICES ASSUME Init
                 PROVE  IInv
      OBVIOUS
    <2>1. TypeOK
      BY FeedAssumption DEF Init, TypeOK, Seqs, Runs, IdleRun
    <2>2. AckedIsErased /\ CursorCovers
      BY DEF Init, AckedIsErased, CursorCovers
    <2>3. RunCovers
      BY DEF Init, RunCovers, Covers, IdleRun
    <2> QED BY <2>1, <2>2, <2>3 DEF IInv
  <1>2. IInv /\ [Next]_vars => IInv'
    BY TypeStep, AckedStep, CursorStep, RunStep DEF IInv
  <1> QED BY <1>1, <1>2, PTL DEF Spec

(* No erasure is acknowledged that was not carried out. *)
THEOREM AcknowledgedIsErased == Spec => []AckedIsErased
  <1>1. IInv => AckedIsErased
    BY DEF IInv
  <1> QED BY <1>1, Invariance, PTL

(* The cursor passes no erasure that is still to be carried out. *)
THEOREM CursorLosesNothing == Spec => []CursorCovers
  <1>1. IInv => CursorCovers
    BY DEF IInv
  <1> QED BY <1>1, Invariance, PTL

(* Both at once: nothing is acknowledged or passed by that is still to be done. *)
THEOREM TombstonesAreCovered == Spec => []TombstonesCovered
  <1>1. AckedIsErased /\ CursorCovers => TombstonesCovered
    BY DEF TombstonesCovered
  <1> QED BY <1>1, AcknowledgedIsErased, CursorLosesNothing, PTL
==============================================================================
