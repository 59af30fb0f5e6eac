-------------------------- MODULE KnowledgeProofs ---------------------------
(***************************************************************************)
(* Proofs about a tenant's knowledge, for any number of suggestions, entries, *)
(* questions, uploads and applications of the playbook: how suggestions are *)
(* reviewed, onboarding answers kept, questions settled, and playbooks and *)
(* documents imported.                                                     *)
(***************************************************************************)
EXTENDS KnowledgeReview, OnboardingAnswers, AnswerEngine, KnowledgeImport, TLAPS,
        SequenceTheorems, FiniteSetTheorems

-----------------------------------------------------------------------------
(* Suggestions and their review (KnowledgeReview) *)

SuggestionRows == [status : {"none", "pending", "approved", "rejected"}, answer : Nat]

ScanRows == [at : {"idle", "reading", "done"}, read : SUBSET Questions, new : SUBSET Questions]

RequestRows ==
    [at : {"idle", "approve", "reject", "draft", "record", "apply", "publish", "drafting",
           "save", "saving", "done"},
     kind : {"none", "approve", "reject", "draft"}, types : BOOLEAN,
     todo : Seq(Suggestion), answer : Nat]

ReviewTypes ==
    /\ suggestion \in [Suggestion -> SuggestionRows]
    /\ scan \in [1..Scans -> ScanRows]
    /\ reviewing \in [Request -> RequestRows]
    /\ \A c \in live : c.of \in Suggestion

(* A scan adds rows of its own, and unless scans overlapped, rows of questions
   that nobody asked before. *)
ScansHold ==
    /\ \A k \in 1..Scans :
          /\ scan[k].at \in {"idle", "reading"} => \A q \in Questions : ~Exists(<<q, k>>)
          /\ scan[k].at = "idle" => scan[k].new = {}
    /\ "scans" \notin overlap =>
          /\ \A j, k \in 1..Scans :
                (scan[j].at = "reading" /\ scan[k].at = "reading") => j = k
          /\ \A k \in 1..Scans : scan[k].at = "reading" =>
                \A q \in scan[k].new : ~Asked(q)
          /\ \A q \in Questions : \A j, k \in 1..Scans :
                (Exists(<<q, j>>) /\ Exists(<<q, k>>)) => j = k

Drafting(r) == reviewing[r].at \in {"drafting", "save", "saving"}

(* What a request under way carries: suggestions that exist, and behind the
   record the decision that OneBrain took. *)
RequestHolds(r) ==
    /\ reviewing[r].at \notin {"idle", "done"} => reviewing[r].todo # <<>>
    /\ \A i \in 1..Len(reviewing[r].todo) : Exists(reviewing[r].todo[i])
    /\ reviewing[r].at \in {"approve", "reject", "draft"} => reviewing[r].at = reviewing[r].kind
    /\ reviewing[r].at \in {"record", "apply"} => reviewing[r].kind \in {"approve", "reject"}
    /\ Drafting(r) => reviewing[r].kind = "draft"
    /\ reviewing[r].at = "publish" => reviewing[r].kind = "approve"
    /\ reviewing[r].kind = "reject" => reviewing[r].answer = 0
    /\ reviewing[r].at = "apply" =>
          [on |-> CurrentOne(r), as |-> reviewing[r].kind, answer |-> reviewing[r].answer] \in decided
    /\ (/\ reviewing[r].at \in {"record", "apply"} /\ reviewing[r].kind = "approve"
        /\ Typed(r)) => reviewing[r].answer = r

OneDraft ==
    "drafts" \notin overlap => \A o, p \in Request : (Drafting(o) /\ Drafting(p)) => o = p

(* While drafts do not overlap, the answer of a pending suggestion is the one
   an approval has read, and one that is being drafted has none. *)
DraftHolds(r) ==
    "drafts" \notin overlap =>
        /\ (Drafting(r) /\ suggestion[CurrentOne(r)].status = "pending") =>
              suggestion[CurrentOne(r)].answer = 0
        /\ (/\ reviewing[r].at \in {"record", "apply"} /\ reviewing[r].kind = "approve"
            /\ ~Typed(r) /\ suggestion[CurrentOne(r)].status = "pending")
           => /\ suggestion[CurrentOne(r)].answer = reviewing[r].answer
              /\ reviewing[r].answer # 0
        /\ reviewing[r].at = "publish" =>
              [on |-> CurrentOne(r), as |-> "approve", answer |-> reviewing[r].answer] \in decided

(* The invariant. *)
ReviewInv ==
    /\ ReviewTypes
    /\ ScansHold
    /\ \A r \in Request : RequestHolds(r) /\ DraftHolds(r)
    /\ OneDraft
    /\ RejectedNeverLive
    /\ DecisionsAreRecorded

-----------------------------------------------------------------------------
(* Scans *)

(* At first there are no suggestions, and nobody reviews. *)
LEMMA ReviewStarts == ReviewInit => ReviewInv
  <1> SUFFICES ASSUME ReviewInit PROVE ReviewInv
    OBVIOUS
  <1>1. /\ suggestion \in [Suggestion -> SuggestionRows]
        /\ \A t \in Suggestion : suggestion[t].status = "none"
    BY DEF ReviewInit, SuggestionRows
  <1>2. /\ scan \in [1..Scans -> ScanRows]
        /\ \A k \in 1..Scans : scan[k].at = "idle" /\ scan[k].new = {}
    BY DEF ReviewInit, ScanRows
  <1>3. <<>> \in Seq(Suggestion) /\ Len(<<>>) = 0
    OBVIOUS
  <1>4. /\ reviewing \in [Request -> RequestRows]
        /\ \A r \in Request : /\ reviewing[r].at = "idle" /\ reviewing[r].kind = "none"
                              /\ reviewing[r].todo = <<>>
    BY <1>3 DEF ReviewInit, RequestRows
  <1>5. live = {}
    BY DEF ReviewInit
  <1>6. \A q \in Questions : \A k \in 1..Scans : ~Exists(<<q, k>>)
    BY <1>1 DEF Exists, Suggestion
  <1>7. ReviewTypes
    BY <1>1, <1>2, <1>4, <1>5 DEF ReviewTypes
  <1>8. ScansHold
    BY <1>2, <1>6 DEF ScansHold
  <1>9. \A r \in Request : RequestHolds(r) /\ DraftHolds(r)
    BY <1>3, <1>4 DEF RequestHolds, DraftHolds, Drafting
  <1>10. OneDraft
    BY <1>4 DEF OneDraft, Drafting
  <1>11. RejectedNeverLive /\ DecisionsAreRecorded
    BY <1>1, <1>5 DEF RejectedNeverLive, DecisionsAreRecorded
  <1> QED BY <1>7, <1>8, <1>9, <1>10, <1>11 DEF ReviewInv

(* A request that a step leaves alone keeps what it holds, when decisions and
   overlaps only grow and the suggestions it may name keep their answers. *)
LEMMA OthersKept ==
  ASSUME ReviewTypes, NEW o \in Request, RequestHolds(o), DraftHolds(o),
         reviewing'[o] = reviewing[o], decided \subseteq decided', overlap \subseteq overlap',
         \A t \in Suggestion : Exists(t) => Exists(t)',
         \A t \in Suggestion : (Exists(t) /\ suggestion'[t].status = "pending") =>
             suggestion[t].status = "pending" /\ suggestion'[t].answer = suggestion[t].answer
  PROVE  RequestHolds(o)' /\ DraftHolds(o)'
  <1>1. reviewing[o].todo \in Seq(Suggestion)
    BY DEF ReviewTypes, RequestRows
  <1>2. \A i \in 1..Len(reviewing[o].todo) : reviewing[o].todo[i] \in Suggestion
    BY <1>1
  <1>3. RequestHolds(o)'
    BY <1>2 DEF RequestHolds, CurrentOne, Typed, Drafting
  <1>4. reviewing[o].at \notin {"idle", "done"} =>
            CurrentOne(o) \in Suggestion /\ Exists(CurrentOne(o))
    <2> SUFFICES ASSUME reviewing[o].at \notin {"idle", "done"}
                 PROVE  CurrentOne(o) \in Suggestion /\ Exists(CurrentOne(o))
      OBVIOUS
    <2>1. reviewing[o].todo # <<>>
      BY DEF RequestHolds
    <2>2. Len(reviewing[o].todo) \in Nat /\ Len(reviewing[o].todo) >= 1
      BY <1>1, <2>1, EmptySeq
    <2>3. CurrentOne(o) = reviewing[o].todo[1]
      BY DEF CurrentOne
    <2> QED BY <1>2, <2>2, <2>3 DEF RequestHolds
  <1>5. DraftHolds(o)'
    <2> SUFFICES ASSUME "drafts" \notin overlap'
                 PROVE  DraftHolds(o)'
      BY DEF DraftHolds
    <2>1. "drafts" \notin overlap /\ CurrentOne(o)' = CurrentOne(o) /\ Typed(o)' = Typed(o)
          /\ Drafting(o)' = Drafting(o)
      BY DEF CurrentOne, Typed, Drafting
    <2>2. (reviewing[o].at \notin {"idle", "done"} /\ suggestion'[CurrentOne(o)].status = "pending") =>
             /\ suggestion[CurrentOne(o)].status = "pending"
             /\ suggestion'[CurrentOne(o)].answer = suggestion[CurrentOne(o)].answer
      BY <1>4
    <2> QED BY <2>1, <2>2 DEF DraftHolds, Drafting
  <1> QED BY <1>3, <1>5

(* The request that a step takes: what it names exists. *)
LEMMA CurrentExists ==
  ASSUME ReviewTypes, NEW r \in Request, RequestHolds(r),
         reviewing[r].at \notin {"idle", "done"}
  PROVE  /\ CurrentOne(r) \in Suggestion /\ Exists(CurrentOne(r))
         /\ reviewing[r].todo \in Seq(Suggestion) /\ Len(reviewing[r].todo) \in Nat \ {0}
  <1>1. reviewing[r].todo \in Seq(Suggestion) /\ reviewing[r].todo # <<>>
    BY DEF ReviewTypes, RequestRows, RequestHolds
  <1>2. Len(reviewing[r].todo) \in Nat /\ Len(reviewing[r].todo) >= 1
    BY <1>1, EmptySeq
  <1>3. CurrentOne(r) = reviewing[r].todo[1]
    BY DEF CurrentOne
  <1>4. Exists(reviewing[r].todo[1])
    BY <1>2 DEF RequestHolds
  <1>5. reviewing[r].todo[1] \in Suggestion
    BY <1>1, <1>2
  <1> QED BY <1>1, <1>2, <1>3, <1>4, <1>5

(* Steps that change the scans only. *)
LEMMA ReviewScanSteps ==
  ASSUME ReviewInv, NEW k \in 1..Scans,
         StartScan(k) \/ CommitScan(k) \/ \E q \in Questions : ScanQuestion(k, q)
  PROVE  ReviewInv'
  <1>1. /\ ReviewTypes /\ ScansHold /\ OneDraft /\ RejectedNeverLive /\ DecisionsAreRecorded
        /\ \A r \in Request : RequestHolds(r) /\ DraftHolds(r)
    BY DEF ReviewInv
  <1>2. /\ suggestion \in [Suggestion -> SuggestionRows] /\ scan \in [1..Scans -> ScanRows]
        /\ \A c \in live : c.of \in Suggestion
    BY <1>1 DEF ReviewTypes
  <1>3. live' = live /\ decided' = decided /\ reviewing' = reviewing
        /\ overlap' \in {overlap, overlap \cup {"scans"}}
    BY DEF StartScan, CommitScan, ScanQuestion
  <1>4. /\ suggestion' \in [Suggestion -> SuggestionRows]
        /\ \A t \in Suggestion : Exists(t) => suggestion'[t] = suggestion[t]
        /\ \A t \in Suggestion : suggestion'[t] # suggestion[t] => suggestion'[t].status = "pending"
    <2>1. CASE UNCHANGED suggestion
      BY <1>2, <2>1
    <2>2. CASE CommitScan(k)
      <3> DEFINE reviewRow == [status |-> "pending", answer |-> 0]
      <3>1. reviewRow \in SuggestionRows /\ reviewRow.status = "pending"
        BY DEF SuggestionRows
      <3>2. /\ scan[k].at = "reading"
            /\ suggestion' = [t \in Suggestion |->
                  IF t[2] = k /\ t[1] \in scan[k].new THEN reviewRow ELSE suggestion[t]]
        BY <2>2 DEF CommitScan
      <3> HIDE DEF reviewRow
      <3>3. \A t \in Suggestion : t = <<t[1], t[2]>> /\ t[1] \in Questions
        BY DEF Suggestion
      <3>4. \A t \in Suggestion : t[2] = k => ~Exists(t)
        BY <1>1, <3>2, <3>3 DEF ScansHold
      <3> QED BY <1>2, <3>1, <3>2, <3>4
    <2> QED BY <2>1, <2>2 DEF StartScan, ScanQuestion
  <1>5. \A t \in Suggestion : Exists(t) => Exists(t)'
    BY <1>4 DEF Exists
  <1>6. \A r \in Request : RequestHolds(r)' /\ DraftHolds(r)'
    <2>1. \A t \in Suggestion : (Exists(t) /\ suggestion'[t].status = "pending") =>
             suggestion[t].status = "pending" /\ suggestion'[t].answer = suggestion[t].answer
      BY <1>4
    <2>2. \A r \in Request : reviewing'[r] = reviewing[r]
      BY <1>3
    <2>3. decided \subseteq decided' /\ overlap \subseteq overlap'
      BY <1>3
    <2> QED BY <1>1, <1>5, <2>1, <2>2, <2>3, OthersKept
  <1>7. OneDraft'
    BY <1>1, <1>3 DEF OneDraft, Drafting
  <1>8. RejectedNeverLive'
    BY <1>1, <1>2, <1>3, <1>4 DEF RejectedNeverLive, Exists
  <1>9. DecisionsAreRecorded'
    BY <1>1, <1>3, <1>4 DEF DecisionsAreRecorded
  <1>10. scan' \in [1..Scans -> ScanRows]
    <2>1. CASE StartScan(k)
      BY <1>2, <2>1 DEF StartScan, ScanRows
    <2>2. CASE CommitScan(k)
      BY <1>2, <2>2 DEF CommitScan, ScanRows
    <2>3. ASSUME NEW q \in Questions, ScanQuestion(k, q) PROVE scan' \in [1..Scans -> ScanRows]
      <3> DEFINE reviewRow == [scan[k] EXCEPT !.read = scan[k].read \cup {q},
                                        !.new = IF Asked(q) THEN scan[k].new ELSE scan[k].new \cup {q}]
      <3>1. scan' = [scan EXCEPT ![k] = reviewRow]
        BY <2>3 DEF ScanQuestion
      <3>2. reviewRow \in ScanRows
        BY <1>2 DEF ScanRows
      <3> HIDE DEF reviewRow
      <3> QED BY <1>2, <3>1, <3>2
    <2> QED BY <2>1, <2>2, <2>3
  <1>11. ReviewTypes'
    BY <1>1, <1>2, <1>3, <1>4, <1>10 DEF ReviewTypes
  <1>12. ScansHold'
    <2>1. CASE StartScan(k)
      <3>1. /\ scan[k].at = "idle" /\ suggestion' = suggestion
            /\ scan' = [scan EXCEPT ![k].at = "reading"]
            /\ (\E j \in 1..Scans : scan[j].at = "reading") => "scans" \in overlap'
        BY <2>1 DEF StartScan
      <3>2. \A j \in 1..Scans : /\ scan'[j].at = IF j = k THEN "reading" ELSE scan[j].at
                                /\ scan'[j].new = scan[j].new
        BY <1>2, <3>1 DEF ScanRows
      <3>3. \A t : Exists(t)' <=> Exists(t)
        BY <3>1 DEF Exists
      <3>4. scan[k].new = {} /\ \A q : Asked(q)' <=> Asked(q)
        BY <1>1, <3>1 DEF ScansHold, Asked, Exists
      <3> QED BY <1>1, <1>3, <3>1, <3>2, <3>3, <3>4 DEF ScansHold
    <2>2. CASE CommitScan(k)
      <3>1. /\ scan[k].at = "reading" /\ overlap' = overlap
            /\ scan' = [scan EXCEPT ![k].at = "done"]
            /\ suggestion' = [t \in Suggestion |->
                  IF t[2] = k /\ t[1] \in scan[k].new THEN [status |-> "pending", answer |-> 0]
                  ELSE suggestion[t]]
        BY <2>2 DEF CommitScan
      <3>2. \A j \in 1..Scans : /\ scan'[j].at = IF j = k THEN "done" ELSE scan[j].at
                                /\ scan'[j].new = scan[j].new
        BY <1>2, <3>1 DEF ScanRows
      <3>3. \A q \in Questions : \A j \in 1..Scans :
               Exists(<<q, j>>)' => (Exists(<<q, j>>) \/ (j = k /\ q \in scan[k].new))
        <4> SUFFICES ASSUME NEW q \in Questions, NEW j \in 1..Scans, Exists(<<q, j>>)',
                            ~(j = k /\ q \in scan[k].new)
                     PROVE  Exists(<<q, j>>)
          OBVIOUS
        <4>1. <<q, j>> \in Suggestion /\ <<q, j>>[1] = q /\ <<q, j>>[2] = j
          BY DEF Suggestion
        <4>2. suggestion'[<<q, j>>] = suggestion[<<q, j>>]
          BY <3>1, <4>1
        <4> QED BY <4>2 DEF Exists
      <3>4. ASSUME "scans" \notin overlap, NEW q \in Questions, q \in scan[k].new, NEW j \in 1..Scans
            PROVE  ~Exists(<<q, j>>)
        BY <1>1, <3>1, <3>4 DEF ScansHold, Asked
      <3>5. ASSUME NEW j \in 1..Scans
            PROVE  /\ scan'[j].at \in {"idle", "reading"} => \A q \in Questions : ~Exists(<<q, j>>)'
                   /\ scan'[j].at = "idle" => scan'[j].new = {}
        BY <1>1, <3>2, <3>3 DEF ScansHold
      <3>6. ASSUME "scans" \notin overlap'
            PROVE  \A j \in 1..Scans : scan'[j].at # "reading"
        BY <1>1, <3>1, <3>2, <3>6 DEF ScansHold
      <3>7. ASSUME "scans" \notin overlap', NEW q \in Questions, NEW j \in 1..Scans, NEW l \in 1..Scans,
                   Exists(<<q, j>>)', Exists(<<q, l>>)'
            PROVE  j = l
        BY <1>1, <3>1, <3>3, <3>4, <3>7 DEF ScansHold
      <3> QED BY <3>5, <3>6, <3>7 DEF ScansHold
    <2>3. ASSUME NEW q \in Questions, ScanQuestion(k, q) PROVE ScansHold'
      <3>1. /\ scan[k].at = "reading" /\ overlap' = overlap /\ suggestion' = suggestion
            /\ scan' = [scan EXCEPT ![k] = [scan[k] EXCEPT !.read = scan[k].read \cup {q},
                           !.new = IF Asked(q) THEN scan[k].new ELSE scan[k].new \cup {q}]]
        BY <2>3 DEF ScanQuestion
      <3>2. \A j \in 1..Scans :
               /\ scan'[j].at = scan[j].at
               /\ j # k => scan'[j].new = scan[j].new
               /\ j = k => \A p \in scan'[j].new : p \in scan[j].new \/ ~Asked(p)
        BY <1>2, <3>1 DEF ScanRows
      <3>3. \A p : Asked(p)' <=> Asked(p)
        BY <3>1 DEF Asked, Exists
      <3>4. \A t : Exists(t)' <=> Exists(t)
        BY <3>1 DEF Exists
      <3>5. ASSUME NEW j \in 1..Scans
            PROVE  /\ scan'[j].at \in {"idle", "reading"} => \A p \in Questions : ~Exists(<<p, j>>)'
                   /\ scan'[j].at = "idle" => scan'[j].new = {}
        BY <1>1, <3>1, <3>2, <3>4 DEF ScansHold
      <3>6. ASSUME "scans" \notin overlap', NEW j \in 1..Scans, scan'[j].at = "reading",
                   NEW p \in scan'[j].new
            PROVE  ~Asked(p)'
        BY <1>1, <3>1, <3>2, <3>3, <3>6 DEF ScansHold
      <3> QED BY <1>1, <3>1, <3>2, <3>4, <3>5, <3>6 DEF ScansHold
    <2> QED BY <2>1, <2>2, <2>3
  <1> QED BY <1>1, <1>6, <1>7, <1>8, <1>9, <1>11, <1>12 DEF ReviewInv

-----------------------------------------------------------------------------
(* Requests *)

(* The steps of a request, in what they may do to the shared state: decisions
   and overlaps grow, a suggestion's status changes as it may, and the request
   they belong to is the only one that moves. *)
MovesOnly(r, reviewRow) ==
    /\ reviewing' = [reviewing EXCEPT ![r] = reviewRow]
    /\ scan' = scan
    /\ decided \subseteq decided' /\ overlap \subseteq overlap'
    /\ "scans" \in overlap' => "scans" \in overlap

(* A request moves alone. *)
LEMMA Moved ==
  ASSUME ReviewTypes, NEW r \in Request, NEW reviewRow \in RequestRows, MovesOnly(r, reviewRow)
  PROVE  /\ reviewing' \in [Request -> RequestRows] /\ reviewing'[r] = reviewRow
         /\ \A o \in Request : o # r => reviewing'[o] = reviewing[o]
  BY DEF ReviewTypes, MovesOnly

(* GoOn leaves the request with the rest of its suggestions, or done. *)
Rest(r) == [reviewing[r] EXCEPT !.todo = Tail(reviewing[r].todo), !.answer = 0,
                !.at = IF Len(reviewing[r].todo) = 1 THEN "done" ELSE reviewing[r].kind]

(* What is left of a request that is through with a suggestion. *)
LEMMA GoOnRow ==
  ASSUME ReviewTypes, NEW r \in Request, RequestHolds(r), GoOn(r),
         reviewing[r].at \notin {"idle", "done"}
  PROVE  /\ Rest(r) \in RequestRows
         /\ reviewing' = [reviewing EXCEPT ![r] = Rest(r)]
         /\ Rest(r).at \in {"done", reviewing[r].kind} /\ Rest(r).kind = reviewing[r].kind
         /\ Rest(r).answer = 0
         /\ Rest(r).at # "done" => Rest(r).todo # <<>>
         /\ \A i \in 1..Len(Rest(r).todo) : Exists(Rest(r).todo[i]) /\ Rest(r).todo[i] \in Suggestion
  <1>1. reviewing[r] \in RequestRows /\ reviewing[r].kind \in {"approve", "reject", "draft"}
    BY DEF ReviewTypes, RequestRows, RequestHolds, Drafting
  <1>2. reviewing[r].todo \in Seq(Suggestion) /\ Len(reviewing[r].todo) \in Nat \ {0}
    BY CurrentExists
  <1>3. reviewing[r].todo # <<>>
    BY <1>2
  <1>4. /\ Tail(reviewing[r].todo) \in Seq(Suggestion)
        /\ Len(Tail(reviewing[r].todo)) = Len(reviewing[r].todo) - 1
        /\ \A i \in 1..Len(Tail(reviewing[r].todo)) :
              Tail(reviewing[r].todo)[i] = reviewing[r].todo[i + 1]
    BY <1>2, <1>3, HeadTailProperties
  <1>5. /\ Rest(r).todo = Tail(reviewing[r].todo) /\ Rest(r).answer = 0
        /\ Rest(r).kind = reviewing[r].kind
        /\ Rest(r).at = IF Len(reviewing[r].todo) = 1 THEN "done" ELSE reviewing[r].kind
        /\ Rest(r) \in RequestRows
    BY <1>1, <1>4 DEF Rest, RequestRows
  <1>6. reviewing' = [reviewing EXCEPT ![r] = Rest(r)]
    BY DEF GoOn, Rest, ReviewTypes, RequestRows
  <1>7. Rest(r).at # "done" => Rest(r).todo # <<>>
    <2> SUFFICES ASSUME Rest(r).at # "done" PROVE Rest(r).todo # <<>>
      OBVIOUS
    <2>1. Len(reviewing[r].todo) # 1
      BY <1>5
    <2>2. Len(Rest(r).todo) # 0
      BY <1>2, <1>4, <1>5, <2>1
    <2> QED BY <2>2
  <1>8. \A i \in 1..Len(Rest(r).todo) : Exists(Rest(r).todo[i]) /\ Rest(r).todo[i] \in Suggestion
    <2>1. \A i \in 1..Len(Rest(r).todo) : i + 1 \in 1..Len(reviewing[r].todo)
      BY <1>2, <1>4, <1>5
    <2>2. \A i \in 1..Len(reviewing[r].todo) : reviewing[r].todo[i] \in Suggestion
      BY <1>2
    <2> QED BY <1>4, <1>5, <2>1, <2>2 DEF RequestHolds
  <1> QED BY <1>5, <1>6, <1>7, <1>8

(* A step of request r that puts the row down and leaves the suggestions of the
   others as they read them. *)
LEMMA RequestStep ==
  ASSUME ReviewInv, NEW r \in Request, NEW reviewRow \in RequestRows, MovesOnly(r, reviewRow),
         suggestion' \in [Suggestion -> SuggestionRows],
         \A t \in Suggestion : suggestion'[t].status = "none" <=> suggestion[t].status = "none",
         \A o \in Request : o # r => DraftHolds(o)',
         \A o \in Request : o # r => RequestHolds(o)',
         RequestHolds(r)', DraftHolds(r)', OneDraft',
         \A c \in live' : c.of \in Suggestion,
         RejectedNeverLive', DecisionsAreRecorded'
  PROVE  ReviewInv'
  <1>1. ReviewTypes'
    BY Moved DEF ReviewInv, ReviewTypes, MovesOnly
  <1>2. ScansHold'
    <2>1. \A q \in Questions : \A k \in 1..Scans : Exists(<<q, k>>)' <=> Exists(<<q, k>>)
      BY DEF Exists, Suggestion
    <2>2. ScansHold /\ scan' = scan /\ ("scans" \in overlap <=> "scans" \in overlap')
      BY DEF ReviewInv, MovesOnly
    <2>3. \A q \in Questions : Asked(q)' <=> Asked(q)
      BY <2>1 DEF Asked
    <2>4. \A k \in 1..Scans : scan[k].new \subseteq Questions
      BY DEF ReviewInv, ReviewTypes, ScanRows
    <2> QED BY <2>1, <2>2, <2>3, <2>4 DEF ScansHold
  <1> QED BY <1>1, <1>2 DEF ReviewInv

(* Every step that writes no suggestion. *)
LEMMA ReadingStep ==
  ASSUME ReviewInv, NEW r \in Request, NEW reviewRow \in RequestRows, MovesOnly(r, reviewRow),
         suggestion' = suggestion, live' = live,
         RequestHolds(r)', DraftHolds(r)', OneDraft'
  PROVE  ReviewInv'
  <1>1. \A o \in Request : o # r => RequestHolds(o)' /\ DraftHolds(o)'
    <2>1. \A o \in Request : o # r => reviewing'[o] = reviewing[o]
      BY Moved DEF ReviewInv
    <2>2. \A t \in Suggestion : Exists(t) => Exists(t)'
      BY DEF Exists
    <2>3. decided \subseteq decided' /\ overlap \subseteq overlap'
      BY DEF MovesOnly
    <2> QED BY <2>1, <2>2, <2>3, OthersKept DEF ReviewInv
  <1>2. RejectedNeverLive' /\ \A c \in live' : c.of \in Suggestion
    BY DEF ReviewInv, RejectedNeverLive, ReviewTypes
  <1>3. DecisionsAreRecorded'
    BY DEF ReviewInv, DecisionsAreRecorded, MovesOnly
  <1>4. suggestion' \in [Suggestion -> SuggestionRows]
    BY DEF ReviewInv, ReviewTypes
  <1> QED BY <1>1, <1>2, <1>3, <1>4, RequestStep

(* No second draft is begun by a step that leaves the request where it drafts,
   or puts it elsewhere. *)
LEMMA OneDraftKept ==
  ASSUME ReviewTypes, OneDraft, NEW r \in Request, NEW reviewRow \in RequestRows, MovesOnly(r, reviewRow),
         reviewRow.at \in {"drafting", "save", "saving"} => Drafting(r)
  PROVE  OneDraft'
  <1>1. \A o \in Request : Drafting(o)' => Drafting(o)
    BY Moved DEF Drafting
  <1> QED BY <1>1 DEF OneDraft, MovesOnly

(* A request that goes on to its next suggestion holds nothing of the last
   one. *)
LEMMA GoOnHolds ==
  ASSUME ReviewInv, NEW r \in Request, GoOn(r), reviewing[r].at \notin {"idle", "done"},
         \A t \in Suggestion : Exists(t) => Exists(t)',
         overlap \subseteq overlap', "scans" \in overlap' => "scans" \in overlap,
         decided \subseteq decided', scan' = scan
  PROVE  /\ RequestHolds(r)' /\ DraftHolds(r)' /\ OneDraft'
         /\ Rest(r) \in RequestRows /\ MovesOnly(r, Rest(r))
  <1>1. ReviewTypes /\ RequestHolds(r) /\ OneDraft
    BY DEF ReviewInv
  <1>2. /\ Rest(r) \in RequestRows
        /\ reviewing' = [reviewing EXCEPT ![r] = Rest(r)]
        /\ Rest(r).at \in {"done", reviewing[r].kind} /\ Rest(r).kind = reviewing[r].kind
        /\ Rest(r).answer = 0
        /\ Rest(r).at # "done" => Rest(r).todo # <<>>
        /\ \A i \in 1..Len(Rest(r).todo) : Exists(Rest(r).todo[i]) /\ Rest(r).todo[i] \in Suggestion
    BY <1>1, GoOnRow
  <1>3. MovesOnly(r, Rest(r))
    BY <1>2 DEF MovesOnly
  <1>4. reviewing'[r] = Rest(r)
    BY <1>1, <1>2, <1>3, Moved
  <1>5. Rest(r).at \in {"done", "approve", "reject", "draft"}
    BY <1>1, <1>2 DEF ReviewTypes, RequestRows, RequestHolds, Drafting
  <1>6. RequestHolds(r)'
    BY <1>2, <1>4, <1>5 DEF RequestHolds, Drafting
  <1>7. DraftHolds(r)'
    BY <1>4, <1>5 DEF DraftHolds, Drafting
  <1>8. OneDraft'
    BY <1>1, <1>2, <1>3, <1>5, OneDraftKept
  <1> QED BY <1>2, <1>3, <1>6, <1>7, <1>8

(* A request that gives up on its suggestion. *)
LEMMA GivesUp ==
  ASSUME ReviewInv, NEW r \in Request, GoOn(r), reviewing[r].at \notin {"idle", "done"},
         overlap \subseteq overlap', "scans" \in overlap' => "scans" \in overlap,
         UNCHANGED <<suggestion, live, decided, scan>>
  PROVE  ReviewInv'
  <1>1. \A t \in Suggestion : Exists(t) => Exists(t)'
    BY DEF Exists
  <1>2. /\ RequestHolds(r)' /\ DraftHolds(r)' /\ OneDraft'
        /\ Rest(r) \in RequestRows /\ MovesOnly(r, Rest(r))
    BY <1>1, GoOnHolds
  <1> QED BY <1>2, ReadingStep

(* A request that moves on within the same suggestion, holding no more than
   before but what the step shows. *)
LEMMA MovesOn ==
  ASSUME ReviewInv, NEW r \in Request, NEW at \in {"record", "apply", "publish", "drafting", "save", "saving"},
         NEW answer \in Nat,
         reviewing[r].at \notin {"idle", "done"},
         reviewing' = [reviewing EXCEPT ![r].at = at, ![r].answer = answer],
         suggestion' = suggestion, live' = live, scan' = scan,
         decided \subseteq decided', overlap \subseteq overlap',
         "scans" \in overlap' => "scans" \in overlap,
         at = "record" => reviewing[r].kind \in {"approve", "reject"},
         at = "apply" => reviewing[r].kind \in {"approve", "reject"},
         at = "apply" => [on |-> CurrentOne(r), as |-> reviewing[r].kind, answer |-> answer] \in decided',
         at = "publish" => reviewing[r].kind = "approve",
         (at = "publish" /\ "drafts" \notin overlap') =>
               [on |-> CurrentOne(r), as |-> "approve", answer |-> answer] \in decided',
         reviewing[r].kind = "reject" => answer = 0,
         at \in {"drafting", "save", "saving"} => reviewing[r].kind = "draft",
         (at \in {"drafting", "save", "saving"} /\ "drafts" \notin overlap') =>
            (\A o \in Request : Drafting(o) => o = r),
         (/\ at \in {"drafting", "save", "saving"} /\ "drafts" \notin overlap'
          /\ suggestion[CurrentOne(r)].status = "pending") => suggestion[CurrentOne(r)].answer = 0,
         (at \in {"record", "apply"} /\ reviewing[r].kind = "approve" /\ Typed(r)) => answer = r,
         (/\ at \in {"record", "apply"} /\ reviewing[r].kind = "approve" /\ ~Typed(r)
          /\ "drafts" \notin overlap' /\ suggestion[CurrentOne(r)].status = "pending") =>
             (suggestion[CurrentOne(r)].answer = answer /\ answer # 0)
  PROVE  ReviewInv'
  <1> DEFINE reviewRow == [reviewing[r] EXCEPT !.at = at, !.answer = answer]
  <1>1. ReviewTypes /\ RequestHolds(r) /\ OneDraft
    BY DEF ReviewInv
  <1>2. reviewing[r] \in RequestRows
    BY <1>1 DEF ReviewTypes
  <1>3. /\ reviewRow \in RequestRows /\ reviewRow.at = at /\ reviewRow.answer = answer /\ reviewRow.todo = reviewing[r].todo
        /\ reviewRow.kind = reviewing[r].kind /\ reviewRow.types = reviewing[r].types
    BY <1>2 DEF RequestRows
  <1>4. reviewing' = [reviewing EXCEPT ![r] = reviewRow]
    BY <1>1, <1>2 DEF ReviewTypes, RequestRows
  <1> HIDE DEF reviewRow
  <1>5. MovesOnly(r, reviewRow)
    BY <1>4 DEF MovesOnly
  <1>6. /\ reviewing'[r] = reviewRow
        /\ \A o \in Request : o # r => reviewing'[o] = reviewing[o]
    BY <1>1, <1>3, <1>5, Moved
  <1>7. \A i \in 1..Len(reviewing[r].todo) : suggestion'[reviewing[r].todo[i]].status # "none"
    BY <1>1 DEF RequestHolds, Exists
  <1>8. CurrentOne(r)' = CurrentOne(r) /\ Typed(r)' = Typed(r) /\ Drafting(r)' = (at \in {"drafting", "save", "saving"})
    BY <1>3, <1>6 DEF CurrentOne, Typed, Drafting
  <1>9. RequestHolds(r)'
    <2>1. at \notin {"idle", "done", "approve", "reject", "draft"} /\ reviewing[r].todo # <<>>
      BY <1>1 DEF RequestHolds
    <2>2. \A i \in 1..Len(reviewing'[r].todo) : suggestion'[reviewing'[r].todo[i]].status # "none"
      BY <1>3, <1>6, <1>7
    <2>3. at = "apply" =>
            [on |-> CurrentOne(r), as |-> reviewRow.kind, answer |-> reviewRow.answer] \in decided'
      BY <1>3
    <2>4. (reviewRow.at \in {"record", "apply"} /\ reviewRow.kind = "approve" /\ Typed(r)) => reviewRow.answer = r
      BY <1>3
    <2> QED BY <1>3, <1>6, <1>8, <2>1, <2>2, <2>3, <2>4 DEF RequestHolds, Exists
  <1>10. DraftHolds(r)'
    BY <1>3, <1>6, <1>8 DEF DraftHolds
  <1>11. OneDraft'
    BY <1>1, <1>6, <1>8 DEF OneDraft, Drafting
  <1> QED BY <1>3, <1>5, <1>9, <1>10, <1>11, ReadingStep

(* A request starts with suggestions that exist, and nothing decided. *)
LEMMA StartStep ==
  ASSUME ReviewInv, NEW r \in Request, NEW kind \in {"approve", "reject", "draft"},
         NEW types \in BOOLEAN, NEW todo \in Seq(Suggestion), todo # <<>>,
         StartRequest(r, kind, types, todo)
  PROVE  ReviewInv'
  <1> DEFINE reviewRow == [at |-> kind, kind |-> kind, types |-> types, todo |-> todo, answer |-> 0]
  <1>1. /\ reviewRow \in RequestRows /\ reviewRow.at = kind /\ reviewRow.kind = kind /\ reviewRow.todo = todo /\ reviewRow.answer = 0
    BY DEF RequestRows
  <1>2. /\ reviewing' = [reviewing EXCEPT ![r] = reviewRow]
        /\ UNCHANGED <<suggestion, live, decided, scan, overlap>>
        /\ \A i \in DOMAIN todo : Exists(todo[i])
    BY DEF StartRequest
  <1> HIDE DEF reviewRow
  <1>3. MovesOnly(r, reviewRow)
    BY <1>2 DEF MovesOnly
  <1>4. reviewing'[r] = reviewRow
    BY <1>1, <1>3, Moved DEF ReviewInv
  <1>5. \A i \in 1..Len(todo) : Exists(todo[i])
    BY <1>2
  <1>6. RequestHolds(r)' /\ DraftHolds(r)'
    BY <1>1, <1>2, <1>4, <1>5 DEF RequestHolds, DraftHolds, Drafting, Exists
  <1>7. OneDraft'
    BY <1>1, <1>3, OneDraftKept DEF ReviewInv
  <1> QED BY <1>1, <1>2, <1>3, <1>6, <1>7, ReadingStep

(* The checks before OneBrain, the record and the checks behind it. *)
LEMMA CheckSteps ==
  ASSUME ReviewInv, NEW r \in Request,
         \/ CheckApproval(r) \/ CheckRejection(r) \/ RecordDecision(r) \/ BeginApproval(r)
         \/ CheckDraft(r) \/ GenerateDraft(r) \/ BeginSaveDraft(r)
  PROVE  ReviewInv'
  <1>1. /\ ReviewTypes /\ RequestHolds(r) /\ DraftHolds(r) /\ OneDraft
    BY DEF ReviewInv
  <1>2. reviewing[r] \in RequestRows /\ reviewing \in [Request -> RequestRows]
    BY <1>1 DEF ReviewTypes
  <1>3. reviewing[r].at \notin {"idle", "done"}
    BY DEF CheckApproval, CheckRejection, RecordDecision, BeginApproval, CheckDraft, GenerateDraft,
           BeginSaveDraft, RequestAt
  <1>4. CurrentOne(r) \in Suggestion
    BY <1>1, <1>3, CurrentExists
  <1>5. suggestion[CurrentOne(r)].answer \in Nat /\ r \in Nat /\ reviewing[r].answer \in Nat
    BY <1>1, <1>2, <1>4 DEF ReviewTypes, SuggestionRows, RequestRows, Request
  <1>6. Resolved(r, CurrentOne(r)) \in Nat
    BY <1>5 DEF Resolved
  <1>7. suggestion' = suggestion /\ live' = live /\ scan' = scan
    BY DEF CheckApproval, CheckRejection, RecordDecision, BeginApproval, CheckDraft, GenerateDraft,
           BeginSaveDraft
  <1>8. \A at : [reviewing EXCEPT ![r].at = at] = [reviewing EXCEPT ![r].at = at, ![r].answer = reviewing[r].answer]
    BY <1>2 DEF RequestRows
  <1>9. CASE GoOn(r) /\ UNCHANGED <<decided, overlap>>
    BY <1>3, <1>7, <1>9, GivesUp
  <1>10. CASE CheckApproval(r) /\ ~GoOn(r)
    <2>1. /\ reviewing[r].at = "approve" /\ decided' = decided /\ overlap' = overlap
          /\ suggestion[CurrentOne(r)].status = "pending" /\ Resolved(r, CurrentOne(r)) # 0
          /\ reviewing' = [reviewing EXCEPT ![r].at = "record", ![r].answer = Resolved(r, CurrentOne(r))]
      BY <1>10 DEF CheckApproval, RequestAt
    <2>2. reviewing[r].kind = "approve"
      BY <1>1, <2>1 DEF RequestHolds
    <2> QED BY <1>3, <1>6, <1>7, <2>1, <2>2, MovesOn DEF Resolved
  <1>11. CASE CheckRejection(r) /\ ~GoOn(r)
    <2>1. /\ reviewing[r].at = "reject" /\ decided' = decided /\ overlap' = overlap
          /\ reviewing' = [reviewing EXCEPT ![r].at = "record"]
      BY <1>11 DEF CheckRejection, RequestAt
    <2>2. reviewing[r].kind = "reject" /\ reviewing[r].answer = 0
      BY <1>1, <2>1 DEF RequestHolds
    <2> QED BY <1>3, <1>5, <1>7, <1>8, <2>1, <2>2, MovesOn
  <1>12. CASE RecordDecision(r) /\ ~(GoOn(r) /\ UNCHANGED decided)
    <2>1. /\ reviewing[r].at = "record" /\ overlap' = overlap
          /\ decided' = decided \cup
                {[on |-> CurrentOne(r), as |-> reviewing[r].kind, answer |-> reviewing[r].answer]}
          /\ reviewing' = [reviewing EXCEPT ![r].at = "apply"]
      BY <1>12 DEF RecordDecision, RequestAt
    <2>2. reviewing[r].kind \in {"approve", "reject"}
      BY <1>1, <2>1 DEF RequestHolds
    <2>3. /\ reviewing[r].kind = "reject" => reviewing[r].answer = 0
          /\ (reviewing[r].kind = "approve" /\ Typed(r)) => reviewing[r].answer = r
      BY <1>1, <2>1 DEF RequestHolds
    <2>4. (/\ reviewing[r].kind = "approve" /\ ~Typed(r)
           /\ "drafts" \notin overlap /\ suggestion[CurrentOne(r)].status = "pending") =>
             (suggestion[CurrentOne(r)].answer = reviewing[r].answer /\ reviewing[r].answer # 0)
      BY <1>1, <2>1 DEF DraftHolds
    <2> QED BY <1>3, <1>5, <1>7, <1>8, <2>1, <2>2, <2>3, <2>4, MovesOn
  <1>13. CASE BeginApproval(r) /\ ~GoOn(r)
    <2>1. /\ reviewing[r].at = "apply" /\ reviewing[r].kind = "approve"
          /\ decided' = decided /\ overlap' = overlap
          /\ suggestion[CurrentOne(r)].status = "pending"
          /\ reviewing' = [reviewing EXCEPT ![r].at = "publish", ![r].answer = Resolved(r, CurrentOne(r))]
      BY <1>13 DEF BeginApproval, RequestAt
    <2>2. "drafts" \notin overlap => Resolved(r, CurrentOne(r)) = reviewing[r].answer
      BY <1>1, <2>1 DEF RequestHolds, DraftHolds, Resolved
    <2>3. [on |-> CurrentOne(r), as |-> "approve", answer |-> reviewing[r].answer] \in decided
      BY <1>1, <2>1 DEF RequestHolds
    <2>4. "drafts" \notin overlap =>
            [on |-> CurrentOne(r), as |-> "approve", answer |-> Resolved(r, CurrentOne(r))] \in decided
      BY <2>2, <2>3
    <2> QED BY <1>3, <1>6, <1>7, <2>1, <2>4, MovesOn
  <1>14. CASE CheckDraft(r)
    <2>1. /\ reviewing[r].at = "draft" /\ decided' = decided
          /\ overlap \subseteq overlap'
          /\ "scans" \in overlap' => "scans" \in overlap
          /\ (\E o \in Request : Drafting(o)) => "drafts" \in overlap'
      BY <1>14 DEF CheckDraft, RequestAt, Drafting
    <2>2. reviewing[r].kind = "draft"
      BY <1>1, <2>1 DEF RequestHolds
    <2>3. CASE Draftable(CurrentOne(r))
      <3>1. reviewing' = [reviewing EXCEPT ![r].at = "drafting"]
        BY <1>14, <2>3 DEF CheckDraft
      <3>2. suggestion[CurrentOne(r)].answer = 0
        BY <2>3 DEF Draftable
      <3> QED BY <1>3, <1>5, <1>7, <1>8, <2>1, <2>2, <3>1, <3>2, MovesOn
    <2>4. CASE ~Draftable(CurrentOne(r))
      <3>1. GoOn(r)
        BY <1>14, <2>4 DEF CheckDraft
      <3> QED BY <1>3, <1>7, <2>1, <3>1, GivesUp
    <2> QED BY <2>3, <2>4
  <1>15. ASSUME NEW at \in {"save", "saving"}, Drafting(r), decided' = decided, overlap' = overlap,
                reviewing' = [reviewing EXCEPT ![r].at = at]
         PROVE  ReviewInv'
    <2>1. reviewing[r].kind = "draft"
      BY <1>1, <1>15 DEF RequestHolds
    <2>2. "drafts" \notin overlap => \A o \in Request : Drafting(o) => o = r
      BY <1>1, <1>15 DEF OneDraft
    <2>3. ("drafts" \notin overlap /\ suggestion[CurrentOne(r)].status = "pending") =>
             suggestion[CurrentOne(r)].answer = 0
      BY <1>1, <1>15 DEF DraftHolds
    <2> QED BY <1>3, <1>5, <1>7, <1>8, <1>15, <2>1, <2>2, <2>3, MovesOn
  <1>16. CASE GenerateDraft(r)
    BY <1>9, <1>15, <1>16 DEF GenerateDraft, RequestAt, Drafting
  <1>17. CASE BeginSaveDraft(r)
    BY <1>9, <1>15, <1>17 DEF BeginSaveDraft, RequestAt, Drafting
  <1> QED BY <1>9, <1>10, <1>11, <1>12, <1>13, <1>14, <1>16, <1>17
          DEF CheckApproval, CheckRejection, RecordDecision, BeginApproval

(* The three steps that write a suggestion. *)
LEMMA CommitApprovalStep ==
  ASSUME ReviewInv, NEW r \in Request, CommitApproval(r)
  PROVE  ReviewInv'
  <1> DEFINE s == CurrentOne(r)
             new == [status |-> "approved", answer |-> reviewing[r].answer]
             chunk == [of |-> s, answer |-> reviewing[r].answer, by |-> r]
  <1>1. /\ ReviewTypes /\ RequestHolds(r) /\ DraftHolds(r) /\ OneDraft /\ RejectedNeverLive
        /\ DecisionsAreRecorded
    BY DEF ReviewInv
  <1>2. /\ reviewing[r].at = "publish" /\ suggestion' = [suggestion EXCEPT ![s] = new]
        /\ live' = live \cup {chunk} /\ GoOn(r)
        /\ decided' = decided /\ scan' = scan /\ overlap' = overlap
    BY DEF CommitApproval, RequestAt
  <1>3. s \in Suggestion /\ Exists(s)
    BY <1>1, <1>2, CurrentExists
  <1>4. /\ suggestion \in [Suggestion -> SuggestionRows] /\ reviewing[r].answer \in Nat
        /\ \A c \in live : c.of \in Suggestion
    BY <1>1 DEF ReviewTypes, RequestRows
  <1>5. new \in SuggestionRows /\ new.status = "approved"
    BY <1>4 DEF SuggestionRows
  <1>6. chunk.of = s /\ chunk.answer = reviewing[r].answer
    OBVIOUS
  <1> HIDE DEF new, chunk, s
  <1>7. /\ suggestion' \in [Suggestion -> SuggestionRows]
        /\ \A t \in Suggestion : suggestion'[t] = IF t = s THEN new ELSE suggestion[t]
    BY <1>2, <1>3, <1>4, <1>5
  <1>8. \A t \in Suggestion : suggestion'[t].status = "none" <=> suggestion[t].status = "none"
    BY <1>3, <1>5, <1>7 DEF Exists
  <1>9. \A t \in Suggestion : Exists(t) => Exists(t)'
    BY <1>8 DEF Exists
  <1>10. /\ RequestHolds(r)' /\ DraftHolds(r)' /\ OneDraft'
         /\ Rest(r) \in RequestRows /\ MovesOnly(r, Rest(r))
    BY <1>2, <1>9, GoOnHolds
  <1>11. \A o \in Request : o # r => RequestHolds(o)' /\ DraftHolds(o)'
    <2>1. \A o \in Request : o # r => reviewing'[o] = reviewing[o]
      BY <1>1, <1>10, Moved
    <2>2. \A t \in Suggestion : (Exists(t) /\ suggestion'[t].status = "pending") =>
             suggestion[t].status = "pending" /\ suggestion'[t].answer = suggestion[t].answer
      BY <1>5, <1>7
    <2>3. decided \subseteq decided' /\ overlap \subseteq overlap'
      BY <1>2
    <2> QED BY <1>9, <2>1, <2>2, <2>3, OthersKept DEF ReviewInv
  <1>12. (\A c \in live' : c.of \in Suggestion) /\ RejectedNeverLive'
    BY <1>1, <1>2, <1>3, <1>4, <1>5, <1>6, <1>7 DEF RejectedNeverLive
  <1>13. DecisionsAreRecorded'
    <2>1. ASSUME "drafts" \notin overlap', NEW c \in live'
          PROVE  [on |-> c.of, as |-> "approve", answer |-> c.answer] \in decided'
      <3>1. CASE c \in live
        BY <1>1, <1>2, <2>1, <3>1 DEF DecisionsAreRecorded
      <3>2. CASE c = chunk
        BY <1>1, <1>2, <1>6, <2>1, <3>2 DEF DraftHolds, s
      <3> QED BY <1>2, <3>1, <3>2
    <2>2. \A t \in Suggestion : suggestion'[t].status = "rejected" =>
             [on |-> t, as |-> "reject", answer |-> 0] \in decided'
      BY <1>1, <1>2, <1>5, <1>7 DEF DecisionsAreRecorded
    <2> QED BY <2>1, <2>2 DEF DecisionsAreRecorded
  <1> QED BY <1>7, <1>8, <1>10, <1>11, <1>12, <1>13, RequestStep

(* A rejection writes the status it recorded, and no entry. *)
LEMMA ApplyRejectionStep ==
  ASSUME ReviewInv, NEW r \in Request, ApplyRejection(r)
  PROVE  ReviewInv'
  <1> DEFINE s == CurrentOne(r)
  <1>1. /\ ReviewTypes /\ RequestHolds(r) /\ DraftHolds(r) /\ OneDraft /\ RejectedNeverLive
        /\ DecisionsAreRecorded
    BY DEF ReviewInv
  <1>2. /\ reviewing[r].at = "apply" /\ reviewing[r].kind = "reject" /\ GoOn(r)
        /\ suggestion' = IF suggestion[s].status = "pending"
                         THEN [suggestion EXCEPT ![s].status = "rejected"] ELSE suggestion
        /\ live' = live /\ decided' = decided /\ scan' = scan /\ overlap' = overlap
    BY DEF ApplyRejection, RequestAt
  <1>3. s \in Suggestion /\ Exists(s)
    BY <1>1, <1>2, CurrentExists
  <1>4. suggestion \in [Suggestion -> SuggestionRows] /\ \A c \in live : c.of \in Suggestion
    BY <1>1 DEF ReviewTypes
  <1>5. [on |-> s, as |-> "reject", answer |-> 0] \in decided
    BY <1>1, <1>2 DEF RequestHolds
  <1> HIDE DEF s
  <1>6. /\ suggestion' \in [Suggestion -> SuggestionRows]
        /\ \A t \in Suggestion : suggestion'[t] # suggestion[t] =>
              /\ t = s /\ suggestion[t].status = "pending" /\ suggestion'[t].status = "rejected"
    BY <1>2, <1>3, <1>4 DEF SuggestionRows
  <1>7. \A t \in Suggestion : suggestion'[t].status = "none" <=> suggestion[t].status = "none"
    BY <1>6
  <1>8. \A t \in Suggestion : Exists(t) => Exists(t)'
    BY <1>7 DEF Exists
  <1>9. /\ RequestHolds(r)' /\ DraftHolds(r)' /\ OneDraft'
        /\ Rest(r) \in RequestRows /\ MovesOnly(r, Rest(r))
    BY <1>2, <1>8, GoOnHolds
  <1>10. \A o \in Request : o # r => RequestHolds(o)' /\ DraftHolds(o)'
    <2>1. \A o \in Request : o # r => reviewing'[o] = reviewing[o]
      BY <1>1, <1>9, Moved
    <2>2. \A t \in Suggestion : (Exists(t) /\ suggestion'[t].status = "pending") =>
             suggestion[t].status = "pending" /\ suggestion'[t].answer = suggestion[t].answer
      BY <1>6
    <2>3. decided \subseteq decided' /\ overlap \subseteq overlap'
      BY <1>2
    <2> QED BY <1>8, <2>1, <2>2, <2>3, OthersKept DEF ReviewInv
  <1>11. (\A c \in live' : c.of \in Suggestion) /\ RejectedNeverLive'
    BY <1>1, <1>2, <1>4, <1>6 DEF RejectedNeverLive
  <1>12. DecisionsAreRecorded'
    BY <1>1, <1>2, <1>5, <1>6 DEF DecisionsAreRecorded
  <1> QED BY <1>6, <1>7, <1>9, <1>10, <1>11, <1>12, RequestStep

(* A draft is written where the suggestion is still pending. *)
LEMMA CommitSaveDraftStep ==
  ASSUME ReviewInv, NEW r \in Request, CommitSaveDraft(r)
  PROVE  ReviewInv'
  <1> DEFINE s == CurrentOne(r)
  <1>1. /\ ReviewTypes /\ RequestHolds(r) /\ DraftHolds(r) /\ OneDraft /\ RejectedNeverLive
        /\ DecisionsAreRecorded
    BY DEF ReviewInv
  <1>2. /\ reviewing[r].at = "saving" /\ GoOn(r)
        /\ suggestion' = [suggestion EXCEPT ![s].answer = r]
        /\ live' = live /\ decided' = decided /\ scan' = scan /\ overlap' = overlap
    BY DEF CommitSaveDraft, RequestAt
  <1>3. s \in Suggestion /\ Exists(s) /\ r \in Nat
    BY <1>1, <1>2, CurrentExists DEF Request
  <1>4. suggestion \in [Suggestion -> SuggestionRows] /\ \A c \in live : c.of \in Suggestion
    BY <1>1 DEF ReviewTypes
  <1>5. ("drafts" \notin overlap /\ suggestion[s].status = "pending") => suggestion[s].answer = 0
    BY <1>1, <1>2 DEF DraftHolds, Drafting
  <1> HIDE DEF s
  <1>6. /\ suggestion' \in [Suggestion -> SuggestionRows]
        /\ \A t \in Suggestion : /\ suggestion'[t].status = suggestion[t].status
                                 /\ t # s => suggestion'[t] = suggestion[t]
    BY <1>2, <1>3, <1>4 DEF SuggestionRows
  <1>7. \A t \in Suggestion : suggestion'[t].status = "none" <=> suggestion[t].status = "none"
    BY <1>6
  <1>8. \A t \in Suggestion : Exists(t) => Exists(t)'
    BY <1>7 DEF Exists
  <1>9. /\ RequestHolds(r)' /\ DraftHolds(r)' /\ OneDraft'
        /\ Rest(r) \in RequestRows /\ MovesOnly(r, Rest(r))
    BY <1>2, <1>8, GoOnHolds
  <1>10. ASSUME NEW o \in Request, o # r PROVE RequestHolds(o)' /\ DraftHolds(o)'
    <2>1. reviewing'[o] = reviewing[o] /\ RequestHolds(o) /\ DraftHolds(o)
      BY <1>1, <1>9, <1>10, Moved DEF ReviewInv
    <2>2. CurrentOne(o)' = CurrentOne(o) /\ Typed(o)' = Typed(o) /\ Drafting(o)' = Drafting(o)
      BY <2>1 DEF CurrentOne, Typed, Drafting
    <2>3. \A i \in 1..Len(reviewing[o].todo) : reviewing[o].todo[i] \in Suggestion
      BY <1>1 DEF ReviewTypes, RequestRows
    <2>4. RequestHolds(o)'
      BY <1>2, <1>6, <2>1, <2>2, <2>3 DEF RequestHolds, Exists
    <2>5. reviewing[o].at \notin {"idle", "done"} => CurrentOne(o) \in Suggestion
      BY <1>1, <2>1, CurrentExists
    <2>6. ASSUME "drafts" \notin overlap' PROVE DraftHolds(o)'
      <3>1. ~Drafting(o)
        BY <1>1, <1>2, <1>10, <2>6 DEF OneDraft, Drafting
      <3>2. CASE CurrentOne(o) # s
        BY <1>2, <1>6, <2>1, <2>2, <2>5, <2>6, <3>1, <3>2 DEF DraftHolds
      <3>3. CASE CurrentOne(o) = s
        BY <1>2, <1>3, <1>5, <1>6, <2>1, <2>2, <2>6, <3>1, <3>3 DEF DraftHolds
      <3> QED BY <3>2, <3>3
    <2> QED BY <2>4, <2>6 DEF DraftHolds
  <1>11. (\A c \in live' : c.of \in Suggestion) /\ RejectedNeverLive'
    BY <1>1, <1>2, <1>4, <1>6 DEF RejectedNeverLive
  <1>12. DecisionsAreRecorded'
    BY <1>1, <1>2, <1>6 DEF DecisionsAreRecorded
  <1> QED BY <1>6, <1>7, <1>9, <1>10, <1>11, <1>12, RequestStep

(* Every step of the reviews keeps the invariant. *)
LEMMA ReviewStep == ReviewInv /\ [ReviewNext]_reviewVars => ReviewInv'
  <1> SUFFICES ASSUME ReviewInv, [ReviewNext]_reviewVars PROVE ReviewInv'
    OBVIOUS
  <1>1. CASE UNCHANGED reviewVars
    <2>1. ReviewTypes' /\ RejectedNeverLive' /\ DecisionsAreRecorded'
      BY <1>1 DEF reviewVars, ReviewInv, ReviewTypes, RejectedNeverLive, DecisionsAreRecorded
    <2>2. ScansHold'
      BY <1>1 DEF reviewVars, ReviewInv, ScansHold, Exists, Asked
    <2>3. OneDraft' /\ \A r \in Request : RequestHolds(r)' /\ DraftHolds(r)'
      BY <1>1 DEF reviewVars, ReviewInv, RequestHolds, DraftHolds, OneDraft, Drafting, Exists,
                  CurrentOne, Typed
    <2> QED BY <2>1, <2>2, <2>3 DEF ReviewInv
  <1>2. ASSUME NEW r \in Request, NEW s \in Suggestion, NEW kind \in {"approve", "reject", "draft"},
               NEW types \in BOOLEAN, StartRequest(r, kind, types, <<s>>)
        PROVE  ReviewInv'
    <2>1. <<s>> \in Seq(Suggestion) /\ <<s>> # <<>>
      OBVIOUS
    <2> QED BY <1>2, <2>1, StartStep
  <1>3. ASSUME NEW r \in Request, NEW t \in Suggestion \X Suggestion,
               BulkApprove(r, t) \/ BulkReject(r, t) \/ BulkDraft(r, t)
        PROVE  ReviewInv'
    <2>1. PICK a \in Suggestion, b \in Suggestion : t = <<a, b>>
      OBVIOUS
    <2>2. t \in Seq(Suggestion) /\ t # <<>>
      BY <2>1
    <2> QED BY <1>3, <2>2, StartStep DEF BulkApprove, BulkReject, BulkDraft
  <1>4. ASSUME NEW c \in live, DeleteKnowledge(c) PROVE ReviewInv'
    <2>1. UNCHANGED <<suggestion, decided, scan, reviewing, overlap>> /\ live' \subseteq live
      BY <1>4 DEF DeleteKnowledge
    <2>2. ReviewTypes' /\ RejectedNeverLive' /\ DecisionsAreRecorded'
      BY <2>1 DEF ReviewInv, ReviewTypes, RejectedNeverLive, DecisionsAreRecorded
    <2>3. ScansHold'
      BY <2>1 DEF ReviewInv, ScansHold, Exists, Asked
    <2>4. OneDraft' /\ \A r \in Request : RequestHolds(r)' /\ DraftHolds(r)'
      BY <2>1 DEF ReviewInv, RequestHolds, DraftHolds, OneDraft, Drafting, Exists, CurrentOne, Typed
    <2> QED BY <2>2, <2>3, <2>4 DEF ReviewInv
  <1>5. CASE ReviewNext
    BY <1>2, <1>3, <1>4, <1>5, ReviewScanSteps, CheckSteps, CommitApprovalStep, ApplyRejectionStep,
       CommitSaveDraftStep
    DEF ReviewNext
  <1> QED BY <1>1, <1>5

(* A finite set whose elements are all the same has at most one. *)
LEMMA AtMostOne ==
  ASSUME NEW S, IsFiniteSet(S), \A x, y \in S : x = y PROVE Cardinality(S) <= 1
  <1>1. CASE S = {}
    BY <1>1, FS_EmptySet
  <1>2. CASE S # {}
    <2>1. PICK x : S = {x}
      BY <1>2
    <2> QED BY <2>1, FS_Singleton
  <1> QED BY <1>1, <1>2

(* server.ts, the suggestion routes; repository.ts,
   approveKnowledgeSuggestion: however approvals, rejections, drafts and
   scans overlap, a rejected suggestion is never among the entries, every
   decision stored was recorded with OneBrain (an approval with its answer,
   unless two drafts overlapped), and a question is put to the reviewers
   once, unless two scans overlapped. *)
THEOREM DecisionsOfReviewersHold == ReviewSpec => []DecisionsHold
  <1>1. ReviewInv => DecisionsHold
    <2> SUFFICES ASSUME ReviewInv PROVE DecisionsHold
      OBVIOUS
    <2>1. ASSUME "scans" \notin overlap, NEW q \in Questions
          PROVE  Cardinality({k \in 1..Scans : Exists(<<q, k>>)}) <= 1
      <3> DEFINE S == {k \in 1..Scans : Exists(<<q, k>>)}
      <3>1. IsFiniteSet(S)
        <4>1. IsFiniteSet(1..Scans)
          BY ReviewAssumption, FS_Interval
        <4> QED BY <4>1, FS_Subset
      <3>2. \A j, k \in S : j = k
        BY <2>1 DEF ReviewInv, ScansHold
      <3> HIDE DEF S
      <3>3. Cardinality(S) <= 1
        BY <3>1, <3>2, AtMostOne
      <3> QED BY <3>3 DEF S
    <2> QED BY <2>1 DEF ReviewInv, DecisionsHold, AskedOnce
  <1> QED BY <1>1, ReviewStarts, ReviewStep, PTL DEF ReviewSpec

-----------------------------------------------------------------------------
(* Onboarding answers and their entries (OnboardingAnswers) *)

EntryRows == [id : Nat, text : Answers, edited : BOOLEAN]
AnswerRows == [status : {"none", "draft", "approved"}, text : Answers \cup {"none"}, chunk : Nat]

(* The one entry there is, if any, is the one the answer's row is linked to. *)
OnboardingInv ==
    /\ entries \subseteq EntryRows /\ row \in AnswerRows /\ saved \in Nat
    /\ \A e \in entries : LinkedTo(e)
    /\ \A e, f \in entries : e = f
    /\ \A e \in entries : (row.status = "approved" /\ ~e.edited) => e.text = row.text

(* Saving an answer replaces the entry that the row is linked to, if it is
   there. *)
LEMMA SaveAnswerStep ==
  ASSUME OnboardingInv, NEW text \in Answers, SaveDraft(text) \/ SaveApproved(text)
  PROVE  OnboardingInv'
  <1>1. /\ entries \subseteq EntryRows /\ row \in AnswerRows /\ saved \in Nat
        /\ \A e \in entries : e.id = row.chunk
        /\ \A e, f \in entries : e = f
    BY DEF OnboardingInv, LinkedTo
  <1>2. saved' \in Nat
    BY <1>1 DEF SaveDraft, SaveApproved
  <1>3. CASE SaveDraft(text)
    <2>1. entries' = entries /\ row' = [row EXCEPT !.status = "draft", !.text = text]
      BY <1>3 DEF SaveDraft
    <2>2. row' \in AnswerRows /\ row'.chunk = row.chunk /\ row'.status = "draft"
      BY <1>1, <2>1 DEF AnswerRows
    <2> QED BY <1>1, <1>2, <2>1, <2>2 DEF OnboardingInv, LinkedTo
  <1>4. CASE SaveApproved(text) /\ AnswerLinked # {}
    <2>1. /\ entries' = (entries \ AnswerLinked) \cup {Entry(row.chunk, text)}
          /\ row' = [row EXCEPT !.status = "approved", !.text = text]
      BY <1>4 DEF SaveApproved, Publish
    <2>2. row' \in AnswerRows /\ row'.chunk = row.chunk /\ row'.text = text
      BY <1>1, <2>1 DEF AnswerRows
    <2>3. AnswerLinked = entries
      BY <1>1 DEF AnswerLinked, LinkedTo
    <2>4. entries' = {Entry(row.chunk, text)}
      BY <2>1, <2>3
    <2>5. /\ Entry(row.chunk, text) \in EntryRows /\ Entry(row.chunk, text).id = row.chunk
          /\ Entry(row.chunk, text).text = text
      BY <1>1 DEF Entry, EntryRows, AnswerRows
    <2> QED BY <1>2, <2>2, <2>4, <2>5 DEF OnboardingInv, LinkedTo
  <1>5. CASE SaveApproved(text) /\ AnswerLinked = {}
    <2>1. /\ entries' = entries \cup {Entry(saved', text)}
          /\ row' = [status |-> "approved", text |-> text, chunk |-> saved']
      BY <1>5 DEF SaveApproved, Publish, PublishAnew
    <2>2. entries = {}
      BY <1>1, <1>5 DEF AnswerLinked, LinkedTo
    <2>3. row' \in AnswerRows /\ row'.chunk = saved' /\ row'.text = text
      BY <1>2, <2>1 DEF AnswerRows
    <2>4. entries' = {Entry(saved', text)}
      BY <2>1, <2>2
    <2>5. /\ Entry(saved', text) \in EntryRows /\ Entry(saved', text).id = saved'
          /\ Entry(saved', text).text = text
      BY <1>2 DEF Entry, EntryRows
    <2> QED BY <1>2, <2>3, <2>4, <2>5 DEF OnboardingInv, LinkedTo
  <1> QED BY <1>3, <1>4, <1>5

(* Deleting or editing an entry leaves the others alone. *)
LEMMA EntryStep ==
  ASSUME OnboardingInv, NEW e \in entries,
         DeleteLinked(e) \/ \E text \in Answers : EditEntry(e, text)
  PROVE  OnboardingInv'
  <1>1. /\ entries \subseteq EntryRows /\ row \in AnswerRows /\ saved \in Nat
        /\ e.id = row.chunk /\ entries = {e} /\ e \in EntryRows
    BY DEF OnboardingInv, LinkedTo
  <1>2. CASE DeleteLinked(e)
    <2>1. entries' = {} /\ saved' = saved /\ row' = [row EXCEPT !.chunk = 0]
      BY <1>1, <1>2 DEF DeleteLinked, LinkedTo
    <2>2. row' \in AnswerRows
      BY <1>1, <2>1 DEF AnswerRows
    <2> QED BY <1>1, <2>1, <2>2 DEF OnboardingInv
  <1>3. ASSUME NEW text \in Answers, EditEntry(e, text) PROVE OnboardingInv'
    <2> DEFINE edit == [e EXCEPT !.text = text, !.edited = TRUE]
    <2>1. entries' = {edit} /\ row' = row /\ saved' = saved
      BY <1>1, <1>3 DEF EditEntry
    <2>2. edit \in EntryRows /\ edit.id = e.id
      BY <1>1 DEF EntryRows
    <2>3. edit.edited = TRUE
      BY <1>1 DEF EntryRows
    <2> HIDE DEF edit
    <2> QED BY <1>1, <2>1, <2>2, <2>3 DEF OnboardingInv, LinkedTo
  <1> QED BY <1>2, <1>3

(* repository.ts, publishOnboardingAnswer: however an answer is saved,
   published, edited and deleted, there is at most one entry for its
   question, and an approved answer's entry says what was saved until
   somebody edits it. *)
THEOREM AnswerHasOneEntry == OnboardingSpec => []OneEntryPerAnswer
  <1>1. OnboardingInit => OnboardingInv
    BY DEF OnboardingInit, OnboardingInv, AnswerRows
  <1>2. OnboardingInv /\ [OnboardingNext]_onboardingVars => OnboardingInv'
    <2>1. OnboardingInv /\ OnboardingNext => OnboardingInv'
      BY SaveAnswerStep, EntryStep DEF OnboardingNext
    <2>2. OnboardingInv /\ UNCHANGED onboardingVars => OnboardingInv'
      BY DEF OnboardingInv, onboardingVars, LinkedTo
    <2> QED BY <2>1, <2>2
  <1>3. OnboardingInv => OneEntryPerAnswer
    BY DEF OnboardingInv, OneEntryPerAnswer
  <1> QED BY <1>1, <1>2, <1>3, PTL DEF OnboardingSpec

-----------------------------------------------------------------------------
(* Questions and their answers (AnswerEngine) *)

EntryStates == [words : {"gone", "same", "near", "off"}, vector : {"none", "same", "near", "off"}]
Kept == Entries \X Fitting
Results == {"none", "onebrain", "unavailable", "handoff", "approved", "written"}
Exchanges ==
    [at : {"idle", "screen", "ask", "local", "refuse", "search", "write", "done", "failed"},
     kind : {"plain", "blocked", "long"}, rejected : BOOLEAN,
     words : [Entries -> Nat], meaning : [Entries -> Nat], searched : SUBSET {"words", "meaning"},
     result : Results, steady : SUBSET Kept, crowded : BOOLEAN, matched : SUBSET Entries]

AnswerTypes ==
    /\ mode \in {"off", "fallback", "required"}
    /\ entry \in [Entries -> EntryStates]
    /\ question \in [Inquiries -> Exchanges]
    /\ handoffs \in [Inquiries -> Nat]

Active(q) == question[q].at \notin {"idle", "done", "failed"}

(* An entry that stayed and that the word search cannot have passed over. *)
Findable(q) == \E kept \in question[q].steady : kept[2] = "same" \/ ~question[q].crowded

(* What a question under way remembers of the entries is true of them. *)
MemoryHolds(q) == Active(q) =>
    /\ question[q].result = "none" /\ handoffs[q] = 0
    /\ \A kept \in question[q].steady : entry[kept[1]].words = kept[2]
    /\ ~question[q].crowded => Cardinality(Approved) <= RowLimit
    /\ \A e \in Approved : Fits(entry[e]) => e \in question[q].matched

(* A word search found what could be found, and a search found only what fitted;
   the answer, or the refusal, follows from that. *)
SearchHolds(q) ==
    /\ ("words" \in question[q].searched /\ Findable(q)) =>
          \E e \in Entries : question[q].words[e] >= Threshold
    /\ \A e \in Entries : (question[q].words[e] >= Threshold \/ question[q].meaning[e] >= Threshold)
          => e \in question[q].matched
    /\ (question[q].at = "write" \/ question[q].result \in FromEntries) => question[q].matched # {}
    /\ (question[q].at = "refuse" \/ question[q].result = "handoff") =>
          question[q].kind # "plain" \/ ~Findable(q)

EndHolds(q) ==
    /\ question[q].at \in {"idle", "failed"} => question[q].result = "none"
    /\ question[q].at = "idle" => handoffs[q] = 0
    /\ question[q].at = "failed" => handoffs[q] <= 1
    /\ question[q].at = "done" =>
          \/ question[q].result \in FromEntries \cup {"onebrain", "unavailable"} /\ handoffs[q] = 0
          \/ question[q].result = "handoff" /\ handoffs[q] = 1

ExchangeHolds(q) == MemoryHolds(q) /\ SearchHolds(q) /\ EndHolds(q)

AnswerInv == AnswerTypes /\ \A q \in Inquiries : ExchangeHolds(q)

(* The two measures, written out. *)
LEMMA OverlapIs ==
  /\ Overlap["same"] = 100 /\ Overlap["near"] = 50 /\ Overlap["off"] = 0 /\ Overlap["gone"] = 0
  /\ Closeness["same"] = 90 /\ Closeness["near"] = 60 /\ Closeness["off"] = 25
  /\ Closeness["none"] = 0
  BY DEF Overlap, Closeness

(* At first nobody has asked. *)
LEMMA AnswerStarts == AnswerInit => AnswerInv
  <1> SUFFICES ASSUME AnswerInit PROVE AnswerInv
    OBVIOUS
  <1>1. Waits \in Exchanges
    BY DEF Waits, Nothing, Exchanges, Results
  <1>2. entry \in [Entries -> EntryStates]
    BY DEF AnswerInit, EntryStates
  <1>3. AnswerTypes
    BY <1>1, <1>2 DEF AnswerInit, AnswerTypes
  <1>4. ASSUME NEW q \in Inquiries PROVE ExchangeHolds(q)
    <2>1. question[q] = Waits /\ handoffs[q] = 0
      BY <1>4 DEF AnswerInit
    <2>2. MemoryHolds(q) /\ EndHolds(q)
      BY <2>1 DEF MemoryHolds, EndHolds, Active, Waits
    <2>3. SearchHolds(q)
      BY <2>1 DEF SearchHolds, Waits, Nothing, Threshold, FromEntries, Findable
    <2> QED BY <2>2, <2>3 DEF ExchangeHolds
  <1> QED BY <1>3, <1>4 DEF AnswerInv

(* A step of one exchange, with the entries as they are. *)
LEMMA ExchangeStep ==
  ASSUME AnswerInv, NEW q \in Inquiries, UNCHANGED <<mode, entry>>,
         question' \in [Inquiries -> Exchanges], handoffs' \in [Inquiries -> Nat],
         \A p \in Inquiries : p # q => question'[p] = question[p] /\ handoffs'[p] = handoffs[p],
         ExchangeHolds(q)'
  PROVE  AnswerInv'
  <1>1. AnswerTypes'
    BY DEF AnswerInv, AnswerTypes
  <1>2. ASSUME NEW p \in Inquiries, p # q PROVE ExchangeHolds(p)'
    <2>1. question'[p] = question[p] /\ handoffs'[p] = handoffs[p] /\ Approved' = Approved
      BY <1>2 DEF Approved
    <2>2. MemoryHolds(p) => MemoryHolds(p)'
      BY <2>1 DEF MemoryHolds, Active, Fits
    <2>3. SearchHolds(p) => SearchHolds(p)'
      BY <2>1 DEF SearchHolds, Findable
    <2>4. EndHolds(p) => EndHolds(p)'
      BY <2>1 DEF EndHolds
    <2> QED BY <2>2, <2>3, <2>4 DEF AnswerInv, ExchangeHolds
  <1> QED BY <1>1, <1>2 DEF AnswerInv

(* Exchange q goes on to a place and a result, and is otherwise as it was. *)
GoesTo(q, place, outcome) ==
    /\ question' \in [Inquiries -> Exchanges]
    /\ \A p \in Inquiries : p # q => question'[p] = question[p]
    /\ question'[q].at = place /\ question'[q].result = outcome
    /\ question'[q].kind = question[q].kind
    /\ question'[q].words = question[q].words /\ question'[q].meaning = question[q].meaning
    /\ question'[q].steady = question[q].steady
    /\ question'[q].crowded = question[q].crowded
    /\ question'[q].matched = question[q].matched

Places == {"idle", "screen", "ask", "local", "refuse", "search", "write", "done", "failed"}

(* An exchange that is moved on. *)
LEMMA MoveGoes ==
  ASSUME AnswerTypes, NEW q \in Inquiries, NEW place \in Places,
         question' = [question EXCEPT ![q].at = place]
  PROVE  GoesTo(q, place, question[q].result) /\ question'[q].searched = question[q].searched
  <1> DEFINE entryRow == [question[q] EXCEPT !.at = place]
  <1>1. question[q] \in Exchanges
    BY DEF AnswerTypes
  <1>2. entryRow \in Exchanges
    BY <1>1 DEF Exchanges, Places
  <1>3. /\ entryRow.at = place /\ entryRow.result = question[q].result /\ entryRow.kind = question[q].kind
        /\ entryRow.words = question[q].words /\ entryRow.meaning = question[q].meaning
        /\ entryRow.steady = question[q].steady /\ entryRow.matched = question[q].matched
        /\ entryRow.searched = question[q].searched
    BY <1>1 DEF Exchanges
  <1>4. entryRow.crowded = question[q].crowded
    BY <1>1 DEF Exchanges
  <1>5. question' = [question EXCEPT ![q] = entryRow]
    OBVIOUS
  <1> HIDE DEF entryRow
  <1> QED BY <1>2, <1>3, <1>4, <1>5 DEF GoesTo, AnswerTypes

(* An exchange that is given its result. *)
LEMMA FinishGoes ==
  ASSUME AnswerTypes, NEW q \in Inquiries, NEW outcome \in Results, Finish(q, outcome)
  PROVE  GoesTo(q, "done", outcome) /\ question'[q].searched = question[q].searched
  <1> DEFINE entryRow == [question[q] EXCEPT !.at = "done", !.result = outcome]
  <1>1. question[q] \in Exchanges
    BY DEF AnswerTypes
  <1>2. entryRow \in Exchanges
    BY <1>1 DEF Exchanges
  <1>3. /\ entryRow.at = "done" /\ entryRow.result = outcome /\ entryRow.kind = question[q].kind
        /\ entryRow.words = question[q].words /\ entryRow.meaning = question[q].meaning
        /\ entryRow.steady = question[q].steady /\ entryRow.matched = question[q].matched
        /\ entryRow.searched = question[q].searched
    BY <1>1 DEF Exchanges
  <1>4. entryRow.crowded = question[q].crowded
    BY <1>1 DEF Exchanges
  <1>5. question' = [question EXCEPT ![q] = entryRow]
    BY <1>1 DEF Finish, AnswerTypes
  <1> HIDE DEF entryRow
  <1> QED BY <1>2, <1>3, <1>4, <1>5 DEF GoesTo, AnswerTypes

(* An exchange that goes on without OneBrain. *)
LEMMA LocalGoes ==
  ASSUME AnswerTypes, NEW q \in Inquiries, NEW rejected \in BOOLEAN,
         question' = [question EXCEPT ![q].at = "local", ![q].rejected = rejected]
  PROVE  GoesTo(q, "local", question[q].result) /\ question'[q].searched = question[q].searched
  <1> DEFINE entryRow == [question[q] EXCEPT !.at = "local", !.rejected = rejected]
  <1>1. question[q] \in Exchanges
    BY DEF AnswerTypes
  <1>2. entryRow \in Exchanges
    BY <1>1 DEF Exchanges
  <1>3. /\ entryRow.at = "local" /\ entryRow.result = question[q].result /\ entryRow.kind = question[q].kind
        /\ entryRow.words = question[q].words /\ entryRow.meaning = question[q].meaning
        /\ entryRow.steady = question[q].steady /\ entryRow.matched = question[q].matched
        /\ entryRow.searched = question[q].searched
    BY <1>1 DEF Exchanges
  <1>4. entryRow.crowded = question[q].crowded
    BY <1>1 DEF Exchanges
  <1>5. question' = [question EXCEPT ![q] = entryRow]
    BY <1>1 DEF AnswerTypes
  <1> HIDE DEF entryRow
  <1> QED BY <1>2, <1>3, <1>4, <1>5 DEF GoesTo, AnswerTypes

(* An exchange that passed the screen, or did not, has searched nothing. *)
LEMMA ScreenGoes ==
  ASSUME AnswerTypes, NEW q \in Inquiries, NEW place \in Places,
         question' = [question EXCEPT ![q].at = place, ![q].searched = {}]
  PROVE  GoesTo(q, place, question[q].result) /\ question'[q].searched = {}
  <1> DEFINE entryRow == [question[q] EXCEPT !.at = place, !.searched = {}]
  <1>1. question[q] \in Exchanges
    BY DEF AnswerTypes
  <1>2. entryRow \in Exchanges
    BY <1>1 DEF Exchanges, Places
  <1>3. /\ entryRow.at = place /\ entryRow.result = question[q].result /\ entryRow.kind = question[q].kind
        /\ entryRow.words = question[q].words /\ entryRow.meaning = question[q].meaning
        /\ entryRow.steady = question[q].steady /\ entryRow.matched = question[q].matched
        /\ entryRow.searched = {}
    BY <1>1 DEF Exchanges
  <1>4. entryRow.crowded = question[q].crowded
    BY <1>1 DEF Exchanges
  <1>5. question' = [question EXCEPT ![q] = entryRow]
    BY <1>1 DEF AnswerTypes
  <1> HIDE DEF entryRow
  <1> QED BY <1>2, <1>3, <1>4, <1>5 DEF GoesTo, AnswerTypes

(* Where an exchange that is under way may go. *)
LEMMA GoesStep ==
  ASSUME AnswerInv, NEW q \in Inquiries, UNCHANGED <<mode, entry>>, Active(q),
         NEW place \in Places, NEW outcome \in Results, GoesTo(q, place, outcome),
         question'[q].searched \in {question[q].searched, {}},
         handoffs' \in [Inquiries -> Nat], \A p \in Inquiries : p # q => handoffs'[p] = handoffs[p],
         place # "idle",
         (place \notin {"done", "failed"}) => (outcome = "none" /\ handoffs'[q] = 0),
         place = "failed" => (outcome = "none" /\ handoffs'[q] <= 1),
         place = "done" =>
            ((outcome \in FromEntries \cup {"onebrain", "unavailable"} /\ handoffs'[q] = 0)
             \/ (outcome = "handoff" /\ handoffs'[q] = 1)),
         (place = "write" \/ outcome \in FromEntries) => question[q].matched # {},
         (place = "refuse" \/ outcome = "handoff") => (question[q].kind # "plain" \/ ~Findable(q))
  PROVE  AnswerInv'
  <1>1. MemoryHolds(q) /\ SearchHolds(q)
    BY DEF AnswerInv, ExchangeHolds
  <1>2. /\ question' \in [Inquiries -> Exchanges]
        /\ question'[q].at = place /\ question'[q].result = outcome
        /\ question'[q].kind = question[q].kind
        /\ question'[q].words = question[q].words /\ question'[q].meaning = question[q].meaning
        /\ question'[q].steady = question[q].steady
        /\ question'[q].crowded = question[q].crowded
        /\ question'[q].matched = question[q].matched
        /\ \A p \in Inquiries : p # q => question'[p] = question[p]
    BY DEF GoesTo
  <1>3. Approved' = Approved
    BY DEF Approved
  <1>4. MemoryHolds(q)'
    BY <1>1, <1>2, <1>3 DEF MemoryHolds, Active, Fits
  <1>5. Findable(q)' <=> Findable(q)
    BY <1>2 DEF Findable
  <1>6. SearchHolds(q)'
    BY <1>1, <1>2, <1>5 DEF SearchHolds
  <1>7. EndHolds(q)'
    BY <1>2 DEF EndHolds
  <1> QED BY <1>2, <1>4, <1>6, <1>7, ExchangeStep DEF ExchangeHolds

(* The approved entries are finitely many. *)
LEMMA ApprovedIs == IsFiniteSet(Approved) /\ Cardinality(Approved) \in Nat /\ Approved \subseteq Entries
  <1>1. Approved \subseteq Entries
    BY DEF Approved
  <1> QED BY <1>1, AnswerAssumption, FS_Subset, FS_CardinalityType

(* A question that arrives remembers what is approved. *)
LEMMA ReceiveStep ==
  ASSUME AnswerInv, NEW q \in Inquiries, NEW kind \in {"plain", "blocked", "long"},
         ReceiveQuestion(q, kind)
  PROVE  AnswerInv'
  <1>1. AnswerTypes /\ EndHolds(q) /\ question[q].at = "idle"
    BY DEF AnswerInv, ExchangeHolds, ReceiveQuestion
  <1> DEFINE stay == {<<e, entry[e].words>> : e \in {f \in Approved : entry[f].words \in Fitting}}
             full == Cardinality(Approved) > RowLimit
             fit == {e \in Approved : Fits(entry[e])}
             place == IF mode = "off" THEN "local" ELSE "screen"
             entryRow == [Waits EXCEPT !.at = place, !.kind = kind, !.steady = stay, !.crowded = full,
                                  !.matched = fit]
  <1>2. /\ question' = [question EXCEPT ![q] = entryRow]
        /\ UNCHANGED <<mode, entry, handoffs, changes>>
    BY DEF ReceiveQuestion
  <1>3. /\ stay \in SUBSET Kept /\ \A kept \in stay : entry[kept[1]].words = kept[2]
    <2>1. \A e \in Approved : e \in Entries
      BY DEF Approved
    <2> QED BY <2>1 DEF Kept
  <1>4. full \in BOOLEAN /\ (~full => Cardinality(Approved) <= RowLimit)
    BY ApprovedIs, AnswerAssumption
  <1>5. fit \in SUBSET Entries /\ place \in {"local", "screen"}
        /\ \A e \in Approved : Fits(entry[e]) => e \in fit
    BY ApprovedIs
  <1> HIDE DEF stay, full, fit, place
  <1>6. Waits \in Exchanges
    BY DEF Waits, Nothing, Exchanges, Results
  <1>7. /\ entryRow \in Exchanges
    BY <1>3, <1>4, <1>5, <1>6 DEF Exchanges
  <1>8. /\ entryRow.at = place /\ entryRow.result = "none" /\ entryRow.steady = stay /\ entryRow.matched = fit
        /\ entryRow.searched = {} /\ entryRow.words = Nothing /\ entryRow.meaning = Nothing
    BY DEF Waits
  <1>9. entryRow.crowded = full
    BY DEF Waits
  <1> HIDE DEF entryRow
  <1>10. /\ question' \in [Inquiries -> Exchanges] /\ question'[q] = entryRow
         /\ \A p \in Inquiries : p # q => question'[p] = question[p]
    BY <1>1, <1>2, <1>7 DEF AnswerTypes
  <1>11. Approved' = Approved
    BY <1>2 DEF Approved
  <1>12. MemoryHolds(q)'
    BY <1>1, <1>2, <1>3, <1>4, <1>5, <1>8, <1>9, <1>10, <1>11 DEF MemoryHolds, EndHolds, Fits
  <1>13. SearchHolds(q)'
    BY <1>5, <1>8, <1>10 DEF SearchHolds, Nothing, Threshold, FromEntries
  <1>14. EndHolds(q)'
    BY <1>1, <1>2, <1>5, <1>8, <1>10 DEF EndHolds
  <1> QED BY <1>1, <1>2, <1>10, <1>12, <1>13, <1>14, ExchangeStep DEF ExchangeHolds, AnswerTypes

(* The steps that screen, ask, decide and end an exchange. *)
LEMMA GoingSteps ==
  ASSUME AnswerInv, NEW q \in Inquiries,
         \/ Screen(q) \/ ScreenLocally(q) \/ Decide(q) \/ LookupFails(q)
         \/ \E result \in FromEntries : Write(q, result)
         \/ \E reply \in {"good", "unusable", "error"} : AskOneBrain(q, reply)
         \/ \E stored, reported \in BOOLEAN : Refuse(q, stored, reported)
  PROVE  AnswerInv'
  <1>1. AnswerTypes /\ MemoryHolds(q) /\ SearchHolds(q)
    BY DEF AnswerInv, ExchangeHolds
  <1>2. UNCHANGED <<mode, entry>>
    BY DEF Screen, ScreenLocally, Decide, LookupFails, Write, AskOneBrain, Refuse
  <1>3. Active(q)
    BY DEF Active, Screen, ScreenLocally, Decide, LookupFails, Write, AskOneBrain, Refuse
  <1>4. question[q].result = "none" /\ handoffs[q] = 0 /\ handoffs \in [Inquiries -> Nat]
    BY <1>1, <1>3 DEF MemoryHolds, AnswerTypes
  <1>5. CASE Screen(q)
    <2> DEFINE place == IF Passes(question[q].kind) THEN "ask" ELSE "refuse"
    <2>1. /\ question' = [question EXCEPT ![q].at = place] /\ handoffs' = handoffs
          /\ place \in Places /\ place \in {"ask", "refuse"}
          /\ place = "refuse" => question[q].kind # "plain"
      BY <1>5 DEF Screen, Move, Places, Passes
    <2> HIDE DEF place
    <2>2. GoesTo(q, place, "none") /\ question'[q].searched = question[q].searched
      BY <1>1, <1>4, <2>1, MoveGoes
    <2> QED BY <1>2, <1>3, <1>4, <2>1, <2>2, GoesStep DEF Results, FromEntries
  <1>6. CASE ScreenLocally(q)
    <2> DEFINE place == IF Passes(question[q].kind) THEN "search" ELSE "refuse"
    <2>1. /\ question' = [question EXCEPT ![q].at = place, ![q].searched = {}] /\ handoffs' = handoffs
          /\ place \in Places /\ place \in {"search", "refuse"}
          /\ place = "refuse" => question[q].kind # "plain"
      BY <1>6 DEF ScreenLocally, Places, Passes
    <2> HIDE DEF place
    <2>2. GoesTo(q, place, "none") /\ question'[q].searched = {}
      BY <1>1, <1>4, <2>1, ScreenGoes
    <2> QED BY <1>2, <1>3, <1>4, <2>1, <2>2, GoesStep DEF Results, FromEntries
  <1>7. CASE Decide(q)
    <2>1. /\ question[q].searched = {"words", "meaning"} /\ handoffs' = handoffs
          /\ question[q] \in Exchanges
      BY <1>1, <1>7 DEF Decide, AnswerTypes
    <2>2. \A e \in Entries : question[q].words[e] \in Nat /\ question[q].meaning[e] \in Nat
      BY <2>1 DEF Exchanges
    <2>3. \A e \in Entries : Scores(question[q])[e] =
             IF question[q].words[e] >= question[q].meaning[e] THEN question[q].words[e]
             ELSE question[q].meaning[e]
      BY DEF Scores
    <2>4. CASE \E e \in Entries : Scores(question[q])[e] >= Threshold
      <3>1. question' = [question EXCEPT ![q].at = "write"]
        BY <1>7, <2>4 DEF Decide, Move
      <3>2. question[q].matched # {}
        BY <1>1, <2>2, <2>3, <2>4 DEF SearchHolds
      <3>3. GoesTo(q, "write", "none") /\ question'[q].searched = question[q].searched
        BY <1>1, <1>4, <3>1, MoveGoes DEF Places
      <3> QED BY <1>2, <1>3, <1>4, <2>1, <3>2, <3>3, GoesStep DEF Results, FromEntries, Places
    <2>5. CASE ~\E e \in Entries : Scores(question[q])[e] >= Threshold
      <3>1. question' = [question EXCEPT ![q].at = "refuse"]
        BY <1>7, <2>5 DEF Decide, Move
      <3>2. \A e \in Entries : ~(question[q].words[e] >= Threshold)
        BY <2>2, <2>3, <2>5 DEF Threshold
      <3>3. ~Findable(q)
        BY <1>1, <2>1, <3>2 DEF SearchHolds
      <3>4. GoesTo(q, "refuse", "none") /\ question'[q].searched = question[q].searched
        BY <1>1, <1>4, <3>1, MoveGoes DEF Places
      <3> QED BY <1>2, <1>3, <1>4, <2>1, <3>3, <3>4, GoesStep DEF Results, FromEntries, Places
    <2> QED BY <2>4, <2>5
  <1>8. CASE LookupFails(q)
    <2>1. question' = [question EXCEPT ![q].at = "failed"] /\ handoffs' = handoffs
      BY <1>1, <1>8 DEF LookupFails, AfterError
    <2>2. GoesTo(q, "failed", "none") /\ question'[q].searched = question[q].searched
      BY <1>1, <1>4, <2>1, MoveGoes DEF Places
    <2> QED BY <1>2, <1>3, <1>4, <2>1, <2>2, GoesStep DEF Results, FromEntries, Places
  <1>9. ASSUME NEW result \in FromEntries, Write(q, result) PROVE AnswerInv'
    <2>1. Finish(q, result) /\ handoffs' = handoffs /\ question[q].at = "write" /\ result \in Results
      BY <1>9 DEF Write, FromEntries, Results
    <2>2. GoesTo(q, "done", result) /\ question'[q].searched = question[q].searched
      BY <1>1, <2>1, FinishGoes
    <2>3. question[q].matched # {} /\ result # "handoff"
      BY <1>1, <2>1, <1>9 DEF SearchHolds, FromEntries
    <2> QED BY <1>2, <1>3, <1>4, <2>1, <2>2, <2>3, GoesStep DEF Places
  <1>10. ASSUME NEW reply \in {"good", "unusable", "error"}, AskOneBrain(q, reply) PROVE AnswerInv'
    <2>1. handoffs' = handoffs
      BY <1>10 DEF AskOneBrain
    <2>2. ASSUME NEW result \in {"onebrain", "unavailable"}, Finish(q, result) PROVE AnswerInv'
      <3>1. GoesTo(q, "done", result) /\ question'[q].searched = question[q].searched
        BY <1>1, <2>2, FinishGoes DEF Results
      <3> QED BY <1>2, <1>3, <1>4, <2>1, <3>1, GoesStep DEF Places, Results, FromEntries
    <2>3. CASE reply = "good"
      BY <1>10, <2>2, <2>3 DEF AskOneBrain
    <2>4. CASE reply # "good" /\ mode = "required"
      BY <1>10, <2>2, <2>4 DEF AskOneBrain
    <2>5. CASE reply # "good" /\ mode # "required"
      <3>1. question' = [question EXCEPT ![q].at = "local", ![q].rejected = (reply = "unusable")]
        BY <1>10, <2>5 DEF AskOneBrain
      <3> DEFINE rejected == reply = "unusable"
      <3>2. rejected \in BOOLEAN /\ question' = [question EXCEPT ![q].at = "local", ![q].rejected = rejected]
        BY <3>1
      <3> HIDE DEF rejected
      <3>3. GoesTo(q, "local", "none") /\ question'[q].searched = question[q].searched
        BY <1>1, <1>4, <3>2, LocalGoes
      <3> QED BY <1>2, <1>3, <1>4, <2>1, <3>3, GoesStep DEF Places, Results, FromEntries
    <2> QED BY <2>3, <2>4, <2>5
  <1>11. ASSUME NEW stored \in BOOLEAN, NEW reported \in BOOLEAN, Refuse(q, stored, reported)
         PROVE  AnswerInv'
    <2>1. /\ question[q].at = "refuse" /\ (reported => stored)
          /\ handoffs' = [handoffs EXCEPT ![q] = IF stored THEN handoffs[q] + 1 ELSE handoffs[q]]
      BY <1>11 DEF Refuse
    <2>2. /\ handoffs' \in [Inquiries -> Nat] /\ handoffs'[q] = IF stored THEN 1 ELSE 0
          /\ \A p \in Inquiries : p # q => handoffs'[p] = handoffs[p]
      BY <1>4, <2>1
    <2>3. question[q].kind # "plain" \/ ~Findable(q)
      BY <1>1, <2>1 DEF SearchHolds
    <2>4. CASE reported
      <3>1. Finish(q, "handoff") /\ handoffs'[q] = 1
        BY <1>11, <2>1, <2>2, <2>4 DEF Refuse
      <3>2. GoesTo(q, "done", "handoff") /\ question'[q].searched = question[q].searched
        BY <1>1, <3>1, FinishGoes DEF Results
      <3> QED BY <1>2, <1>3, <2>2, <2>3, <3>1, <3>2, GoesStep DEF Places, Results, FromEntries
    <2>5. CASE ~reported
      <3>1. question' = [question EXCEPT ![q].at = "failed"] /\ handoffs'[q] <= 1
        BY <1>11, <2>2, <2>5 DEF Refuse, AfterError
      <3>2. GoesTo(q, "failed", "none") /\ question'[q].searched = question[q].searched
        BY <1>1, <1>4, <3>1, MoveGoes DEF Places
      <3> QED BY <1>2, <1>3, <2>2, <3>1, <3>2, GoesStep DEF Places, Results, FromEntries
    <2> QED BY <2>4, <2>5
  <1> QED BY <1>5, <1>6, <1>7, <1>8, <1>9, <1>10, <1>11

(* The word search finds an entry that stayed and could not be passed over, or
   one that has more of the words. *)
LEMMA WordsFound ==
  ASSUME AnswerInv, NEW q \in Inquiries, NEW rows \in SUBSET Entries, Active(q), RowsRead(rows),
         Findable(q)
  PROVE  \E e \in rows : entry[e].words \in Fitting
  <1> DEFINE full == {e \in Approved : entry[e].words = "same"}
             from == IF full # {} THEN full ELSE Approved
  <1>1. MemoryHolds(q) /\ entry \in [Entries -> EntryStates] /\ question[q].steady \subseteq Kept
    BY DEF AnswerInv, ExchangeHolds, AnswerTypes, Exchanges
  <1>2. PICK kept \in question[q].steady : kept[2] = "same" \/ ~question[q].crowded
    BY DEF Findable
  <1>3. kept[1] \in Approved /\ entry[kept[1]].words = kept[2] /\ kept[2] \in Fitting
    BY <1>1, <1>2 DEF MemoryHolds, Kept, Fitting, Approved
  <1>4. rows \subseteq from
        /\ Cardinality(rows) = IF Cardinality(from) < RowLimit THEN Cardinality(from) ELSE RowLimit
    BY DEF RowsRead
  <1>5. from \subseteq Approved /\ kept[1] \in Approved
    BY <1>3
  <1>6. IsFiniteSet(from) /\ Cardinality(from) \in Nat
    BY <1>5, ApprovedIs, FS_Subset, FS_CardinalityType
  <1>7. IsFiniteSet(rows) /\ Cardinality(rows) \in Nat
    BY <1>4, <1>6, FS_Subset, FS_CardinalityType
  <1>8. CASE full # {}
    <2>1. from = full
      BY <1>8
    <2>2. rows # {}
      <3>1. Cardinality(from) # 0
        BY <1>6, <1>8, <2>1, FS_EmptySet
      <3>2. Cardinality(rows) # 0
        BY <1>4, <1>6, <3>1, AnswerAssumption
      <3> QED BY <3>2, FS_EmptySet
    <2> QED BY <1>4, <2>1, <2>2 DEF Fitting
  <1>9. CASE full = {}
    <2>1. from = Approved /\ ~question[q].crowded
      BY <1>2, <1>3, <1>9
    <2>2. Cardinality(Approved) <= RowLimit
      BY <1>1, <2>1 DEF MemoryHolds
    <2>3. Cardinality(from) <= RowLimit
      BY <2>1, <2>2
    <2> HIDE DEF from
    <2>4. Cardinality(rows) = Cardinality(from)
      BY <1>4, <1>6, <2>3, AnswerAssumption
    <2>5. rows = from
      BY <1>4, <1>6, <2>4, FS_Subset
    <2> QED BY <1>3, <2>1, <2>5
  <1> QED BY <1>8, <1>9

(* The search by words finds what could not be passed over, and nothing that
   did not fit. *)
LEMMA SearchWordsStep ==
  ASSUME AnswerInv, NEW q \in Inquiries, NEW rows \in SUBSET Entries, SearchWords(q, rows)
  PROVE  AnswerInv'
  <1>1. AnswerTypes /\ MemoryHolds(q) /\ SearchHolds(q) /\ question[q].at = "search" /\ Active(q)
    BY DEF AnswerInv, ExchangeHolds, SearchWords, Active
  <1> DEFINE found == [e \in Entries |-> IF e \in rows THEN Overlap[entry[e].words] ELSE 0]
             entryRow == [question[q] EXCEPT !.searched = question[q].searched \cup {"words"}, !.words = found]
  <1>2. RowsRead(rows) /\ UNCHANGED <<mode, entry, handoffs>>
    BY DEF SearchWords
  <1>3. \A e \in Entries : entry[e].words \in {"gone", "same", "near", "off"}
    BY <1>1 DEF AnswerTypes, EntryStates
  <1>4. found \in [Entries -> Nat]
        /\ \A e \in Entries : found[e] >= Threshold <=> (e \in rows /\ entry[e].words \in Fitting)
    <2>1. \A e \in Entries : found[e] = IF e \in rows THEN Overlap[entry[e].words] ELSE 0
      OBVIOUS
    <2>2. \A e \in Entries : found[e] \in Nat
                             /\ (found[e] >= Threshold <=> (e \in rows /\ entry[e].words \in Fitting))
      BY <1>3, <2>1, OverlapIs DEF Threshold, Fitting
    <2> QED BY <2>2
  <1> HIDE DEF found
  <1>5. question[q] \in Exchanges
    BY <1>1 DEF AnswerTypes
  <1>6. entryRow \in Exchanges
    BY <1>4, <1>5 DEF Exchanges
  <1>7. /\ entryRow.at = "search" /\ entryRow.result = question[q].result /\ entryRow.kind = question[q].kind
        /\ entryRow.words = found /\ entryRow.meaning = question[q].meaning
        /\ entryRow.steady = question[q].steady /\ entryRow.matched = question[q].matched
    BY <1>1, <1>5 DEF Exchanges
  <1>8. entryRow.crowded = question[q].crowded
    BY <1>5 DEF Exchanges
  <1>9. question' = [question EXCEPT ![q] = entryRow]
    <2>1. question' = [question EXCEPT ![q].searched = question[q].searched \cup {"words"},
                                       ![q].words = found]
      BY DEF SearchWords, found
    <2> QED BY <1>1, <2>1 DEF AnswerTypes
  <1> HIDE DEF entryRow
  <1>10. /\ question' \in [Inquiries -> Exchanges] /\ question'[q] = entryRow
         /\ \A p \in Inquiries : p # q => question'[p] = question[p]
    BY <1>1, <1>6, <1>9 DEF AnswerTypes
  <1>11. Approved' = Approved
    BY <1>2 DEF Approved
  <1>12. MemoryHolds(q)'
    BY <1>1, <1>2, <1>7, <1>8, <1>10, <1>11 DEF MemoryHolds, Active, Fits
  <1>13. Findable(q)' <=> Findable(q)
    BY <1>7, <1>8, <1>10 DEF Findable
  <1>14. Findable(q) => \E e \in Entries : found[e] >= Threshold
    BY <1>1, <1>2, <1>4, WordsFound
  <1>15. \A e \in Entries : found[e] >= Threshold => e \in question[q].matched
    BY <1>1, <1>2, <1>4 DEF MemoryHolds, RowsRead, Fits, Approved, Fitting
  <1>16. question[q].result = "none"
    BY <1>1 DEF MemoryHolds
  <1>17. SearchHolds(q)'
    BY <1>1, <1>7, <1>10, <1>13, <1>14, <1>15, <1>16 DEF SearchHolds, FromEntries
  <1>18. EndHolds(q)'
    BY <1>7, <1>10 DEF EndHolds
  <1> QED BY <1>1, <1>2, <1>10, <1>12, <1>17, <1>18, ExchangeStep DEF ExchangeHolds, AnswerTypes

(* The search by meaning finds nothing that did not fit. *)
LEMMA SearchMeaningStep ==
  ASSUME AnswerInv, NEW q \in Inquiries, NEW works \in BOOLEAN, SearchMeaning(q, works)
  PROVE  AnswerInv'
  <1>1. AnswerTypes /\ MemoryHolds(q) /\ SearchHolds(q) /\ question[q].at = "search" /\ Active(q)
    BY DEF AnswerInv, ExchangeHolds, SearchMeaning, Active
  <1> DEFINE near == {e \in Approved : Closeness[entry[e].vector] >= Floor}
             found == [e \in Entries |-> IF works /\ e \in near
                                             THEN Closeness[entry[e].vector] ELSE 0]
             entryRow == [question[q] EXCEPT !.searched = question[q].searched \cup {"meaning"}, !.meaning = found]
  <1>2. UNCHANGED <<mode, entry, handoffs>>
    BY DEF SearchMeaning
  <1>3. \A e \in Entries : entry[e].vector \in {"none", "same", "near", "off"}
    BY <1>1 DEF AnswerTypes, EntryStates
  <1>4. found \in [Entries -> Nat]
        /\ \A e \in Entries : found[e] >= Threshold => (e \in Approved /\ entry[e].vector \in Fitting)
    <2>1. \A e \in Entries : found[e] = IF works /\ e \in near
                                             THEN Closeness[entry[e].vector] ELSE 0
      OBVIOUS
    <2>2. \A e \in Entries : Closeness[entry[e].vector] \in Nat
                             /\ (Closeness[entry[e].vector] >= Floor => entry[e].vector \in Fitting)
      BY <1>3, OverlapIs DEF Floor, Fitting
    <2>3. \A e \in Entries : found[e] \in Nat
                             /\ (found[e] >= Threshold => (e \in Approved /\ entry[e].vector \in Fitting))
      BY <2>1, <2>2 DEF Threshold
    <2> HIDE DEF near
    <2> QED BY <2>3
  <1>5. question' = [question EXCEPT ![q].searched = question[q].searched \cup {"meaning"},
                                     ![q].meaning = found]
    BY DEF SearchMeaning
  <1> HIDE DEF found
  <1>6. question[q] \in Exchanges
    BY <1>1 DEF AnswerTypes
  <1>7. entryRow \in Exchanges
    BY <1>4, <1>6 DEF Exchanges
  <1>8. /\ entryRow.at = "search" /\ entryRow.result = question[q].result /\ entryRow.kind = question[q].kind
        /\ entryRow.words = question[q].words /\ entryRow.meaning = found
        /\ entryRow.searched = question[q].searched \cup {"meaning"}
        /\ entryRow.steady = question[q].steady /\ entryRow.matched = question[q].matched
    BY <1>1, <1>6 DEF Exchanges
  <1>9. entryRow.crowded = question[q].crowded
    BY <1>6 DEF Exchanges
  <1>10. question' = [question EXCEPT ![q] = entryRow]
    BY <1>1, <1>5 DEF AnswerTypes
  <1> HIDE DEF entryRow
  <1>11. /\ question' \in [Inquiries -> Exchanges] /\ question'[q] = entryRow
         /\ \A p \in Inquiries : p # q => question'[p] = question[p]
    BY <1>1, <1>7, <1>10 DEF AnswerTypes
  <1>12. Approved' = Approved
    BY <1>2 DEF Approved
  <1>13. MemoryHolds(q)'
    BY <1>1, <1>2, <1>8, <1>9, <1>11, <1>12 DEF MemoryHolds, Active, Fits
  <1>14. Findable(q)' <=> Findable(q)
    BY <1>8, <1>9, <1>11 DEF Findable
  <1>15. \A e \in Entries : found[e] >= Threshold => e \in question[q].matched
    BY <1>1, <1>4 DEF MemoryHolds, Fits
  <1>16. question[q].result = "none"
    BY <1>1 DEF MemoryHolds
  <1>17. SearchHolds(q)'
    BY <1>1, <1>8, <1>11, <1>14, <1>15, <1>16 DEF SearchHolds, FromEntries
  <1>18. EndHolds(q)'
    BY <1>8, <1>11 DEF EndHolds
  <1> QED BY <1>1, <1>2, <1>11, <1>13, <1>17, <1>18, ExchangeStep DEF ExchangeHolds, AnswerTypes

(* A change of an entry: every exchange under way remembers it. *)
LEMMA ChangeStep ==
  ASSUME AnswerInv, NEW e \in Entries, NEW entryRow \in EntryStates, Change(e, entryRow)
  PROVE  AnswerInv'
  <1>1. AnswerTypes /\ entry[e] \in EntryStates
    BY DEF AnswerInv, AnswerTypes
  <1>2. /\ entry' = [entry EXCEPT ![e] = entryRow]
        /\ Watch(e, entryRow, Cardinality({f \in Entries : entry'[f].words # "gone"}))
        /\ UNCHANGED <<mode, handoffs>>
    BY DEF Change
  <1>3. /\ entry' \in [Entries -> EntryStates] /\ entry'[e] = entryRow
        /\ \A f \in Entries : f # e => entry'[f] = entry[f]
    BY <1>1, <1>2 DEF AnswerTypes
  <1>4. Approved' = {f \in Entries : entry'[f].words # "gone"}
    BY DEF Approved
  <1> DEFINE size == Cardinality(Approved')
             many == size > RowLimit
  <1>5. size \in Nat /\ (~many => size <= RowLimit)
    <2>1. Approved' \subseteq Entries
      BY <1>4
    <2>2. size \in Nat
      BY <2>1, AnswerAssumption, FS_Subset, FS_CardinalityType
    <2> QED BY <2>2, AnswerAssumption
  <1>6. ASSUME NEW q \in Inquiries
        PROVE  question'[q] \in Exchanges /\ ExchangeHolds(q)'
    <2>1. ExchangeHolds(q) /\ question[q] \in Exchanges
      BY <1>1 DEF AnswerInv, AnswerTypes
    <2>2. CASE ~Active(q)
      <3>1. question'[q] = question[q] /\ handoffs'[q] = handoffs[q]
        BY <1>2, <2>2 DEF Watch, Active
      <3>2. MemoryHolds(q)'
        BY <2>2, <3>1 DEF MemoryHolds, Active
      <3>3. SearchHolds(q)'
        BY <2>1, <3>1 DEF ExchangeHolds, SearchHolds, Findable
      <3>4. EndHolds(q)'
        BY <2>1, <3>1 DEF ExchangeHolds, EndHolds
      <3> QED BY <2>1, <3>1, <3>2, <3>3, <3>4 DEF ExchangeHolds
    <2>3. CASE Active(q)
      <3> DEFINE x == question[q]
                 stay == IF entryRow.words = entry[e].words THEN x.steady
                         ELSE x.steady \ {<<e, entry[e].words>>}
                 crowd == x.crowded \/ many
                 fit == IF Fits(entryRow) THEN x.matched \cup {e} ELSE x.matched
                 new == [x EXCEPT !.steady = stay, !.crowded = crowd, !.matched = fit]
      <3>1. question'[q] = new
        BY <1>2, <1>4, <2>3 DEF Watch, Active
      <3>2. /\ stay \in SUBSET Kept /\ stay \subseteq x.steady
            /\ \A kept \in stay : entry'[kept[1]].words = kept[2]
        <4>1. x.steady \subseteq Kept /\ \A kept \in x.steady : entry[kept[1]].words = kept[2]
          BY <2>1, <2>3 DEF Exchanges, ExchangeHolds, MemoryHolds
        <4>2. ASSUME NEW kept \in stay PROVE entry'[kept[1]].words = kept[2]
          <5>1. PICK f \in Entries, w \in Fitting : kept = <<f, w>>
            BY <4>1 DEF Kept
          <5>2. entry[f].words = w
            BY <4>1, <5>1
          <5>3. f # e => entry'[f] = entry[f]
            BY <1>3
          <5>4. f = e => entryRow.words = entry[e].words
            BY <5>1, <5>2
          <5> QED BY <1>3, <5>1, <5>2, <5>3, <5>4
        <4> QED BY <4>1, <4>2
      <3>3. crowd \in BOOLEAN /\ (~crowd => ~x.crowded /\ size <= RowLimit)
        BY <1>5, <2>1 DEF Exchanges
      <3>4. fit \in SUBSET Entries /\ x.matched \subseteq fit /\ (Fits(entryRow) => e \in fit)
        BY <2>1 DEF Exchanges
      <3> HIDE DEF stay, crowd, fit
      <3>5. new \in Exchanges
        BY <2>1, <3>2, <3>3, <3>4 DEF Exchanges
      <3>6. /\ new.at = x.at /\ new.result = x.result /\ new.kind = x.kind
            /\ new.words = x.words /\ new.meaning = x.meaning /\ new.searched = x.searched
            /\ new.steady = stay /\ new.matched = fit
        BY <2>1 DEF Exchanges
      <3>7. new.crowded = crowd
        BY <2>1 DEF Exchanges
      <3> HIDE DEF new
      <3>8. MemoryHolds(q) /\ SearchHolds(q) /\ EndHolds(q)
        BY <2>1 DEF ExchangeHolds
      <3>9. MemoryHolds(q)'
        <4>1. \A f \in Approved' : Fits(entry'[f]) => f \in fit
          <5> SUFFICES ASSUME NEW f \in Approved', Fits(entry'[f]) PROVE f \in fit
            OBVIOUS
          <5>1. f \in Entries /\ entry'[f].words # "gone"
            BY DEF Approved
          <5>2. CASE f = e
            BY <1>3, <3>4, <5>2
          <5>3. CASE f # e
            <6>1. f \in Approved /\ Fits(entry[f])
              BY <1>3, <5>1, <5>3 DEF Approved
            <6> QED BY <2>3, <3>4, <3>8, <6>1 DEF MemoryHolds
          <5> QED BY <5>2, <5>3
        <4>2. /\ x.result = "none" /\ handoffs[q] = 0
          BY <2>3, <3>8 DEF MemoryHolds
        <4>3. ~new.crowded => Cardinality(Approved') <= RowLimit
          BY <3>3, <3>7
        <4>4. \A f : Fits(f)' <=> Fits(f)
          BY DEF Fits
        <4>5. /\ question'[q].result = "none" /\ handoffs'[q] = 0
              /\ \A kept \in question'[q].steady : entry'[kept[1]].words = kept[2]
              /\ ~question'[q].crowded => Cardinality(Approved') <= RowLimit
              /\ \A f \in Approved' : Fits(entry'[f]) => f \in question'[q].matched
          BY <1>2, <3>1, <3>2, <3>6, <4>1, <4>2, <4>3
        <4> QED BY <4>5 DEF MemoryHolds, Fits
      <3>10. Findable(q)' => Findable(q)
        BY <3>1, <3>2, <3>3, <3>6, <3>7 DEF Findable
      <3>11. SearchHolds(q)'
        <4>1. question'[q].matched # {} \/ question[q].matched = {}
          BY <3>1, <3>4, <3>6
        <4> QED BY <3>1, <3>4, <3>6, <3>8, <3>10, <4>1 DEF SearchHolds
      <3>12. EndHolds(q)'
        BY <1>2, <3>1, <3>6, <3>8 DEF EndHolds
      <3> QED BY <3>1, <3>5, <3>9, <3>11, <3>12 DEF ExchangeHolds
    <2> QED BY <2>2, <2>3
  <1>7. question' \in [Inquiries -> Exchanges]
    <2>1. question' = [q \in Inquiries |-> question'[q]]
      BY <1>2 DEF Watch
    <2> QED BY <1>6, <2>1
  <1> QED BY <1>1, <1>2, <1>3, <1>6, <1>7 DEF AnswerInv, AnswerTypes

(* The four ways entries change are such changes. *)
LEMMA EntrySteps ==
  ASSUME AnswerInv, NEW e \in Entries,
         \/ \E w \in {"same", "near", "off"} : AddEntry(e, w) \/ UpdateEntry(e, w)
         \/ RemoveEntry(e) \/ EmbedEntry(e)
  PROVE  AnswerInv'
  <1>1. entry[e] \in EntryStates
    BY DEF AnswerInv, AnswerTypes
  <1>2. ASSUME NEW w \in {"same", "near", "off", "gone"}
        PROVE  [words |-> w, vector |-> "none"] \in EntryStates /\ [entry[e] EXCEPT !.words = w] \in EntryStates
    BY <1>1 DEF EntryStates
  <1>3. entry[e].words # "gone" => [entry[e] EXCEPT !.vector = entry[e].words] \in EntryStates
    BY <1>1 DEF EntryStates
  <1>4. ASSUME NEW w \in {"same", "near", "off"}, AddEntry(e, w) PROVE AnswerInv'
    BY <1>2, <1>4, ChangeStep DEF AddEntry
  <1>5. ASSUME NEW w \in {"same", "near", "off"}, UpdateEntry(e, w) PROVE AnswerInv'
    BY <1>2, <1>5, ChangeStep DEF UpdateEntry
  <1>6. CASE RemoveEntry(e)
    BY <1>2, <1>6, ChangeStep DEF RemoveEntry
  <1>7. CASE EmbedEntry(e)
    BY <1>3, <1>7, ChangeStep DEF EmbedEntry
  <1> QED BY <1>4, <1>5, <1>6, <1>7

(* The invariant is strong enough. *)
LEMMA AnswerInvSettles == AnswerInv => QuestionsAreSettled
  <1> SUFFICES ASSUME AnswerInv, NEW q \in Inquiries
               PROVE  /\ (/\ question[q].at = "done" /\ question[q].kind = "plain"
                          /\ question[q].result # "unavailable"
                          /\ \E kept \in question[q].steady : kept[2] = "same" \/ ~question[q].crowded)
                         => question[q].result \in FromEntries \cup {"onebrain"}
                      /\ question[q].result \in FromEntries => question[q].matched # {}
                      /\ handoffs[q] <= 1
                      /\ question[q].result = "handoff" => handoffs[q] = 1
                      /\ question[q].result \in FromEntries \cup {"onebrain", "unavailable"}
                            => handoffs[q] = 0
    BY DEF QuestionsAreSettled, KnownIsAnswered, UnknownIsRefused, OneHandoffPerQuestion
  <1>1. /\ MemoryHolds(q) /\ SearchHolds(q) /\ EndHolds(q) /\ question[q] \in Exchanges
        /\ handoffs[q] \in Nat
    BY DEF AnswerInv, ExchangeHolds, AnswerTypes
  <1>2. CASE question[q].at = "done"
    BY <1>1, <1>2 DEF SearchHolds, EndHolds, Findable, FromEntries
  <1>3. CASE question[q].at # "done"
    <2>1. question[q].result = "none" /\ handoffs[q] <= 1
      BY <1>1, <1>3 DEF MemoryHolds, EndHolds, Active
    <2> QED BY <1>3, <2>1 DEF FromEntries
  <1> QED BY <1>2, <1>3

(* engine.ts, onebrain-runtime.ts: whichever entries change under the
   question and whatever fails, a question that an entry which stayed can
   answer is answered, one that no entry fits is not answered from the
   entries, and a question leaves one handoff when it was told of one and
   none when it was answered. *)
THEOREM QuestionsStaySettled == AnswerSpec => []QuestionsAreSettled
  <1>1. AnswerInit => AnswerInv
    BY AnswerStarts
  <1>2. AnswerInv /\ [AnswerNext]_answerVars => AnswerInv'
    <2> SUFFICES ASSUME AnswerInv, [AnswerNext]_answerVars PROVE AnswerInv'
      OBVIOUS
    <2>1. CASE AnswerNext
      BY <2>1, ReceiveStep, GoingSteps, SearchWordsStep, SearchMeaningStep, EntrySteps DEF AnswerNext
    <2>2. CASE UNCHANGED answerVars
      <3>1. UNCHANGED <<mode, entry, question, handoffs>> /\ Approved' = Approved
        BY <2>2 DEF answerVars, Approved
      <3>2. AnswerTypes'
        BY <3>1 DEF AnswerInv, AnswerTypes
      <3>3. ASSUME NEW q \in Inquiries PROVE ExchangeHolds(q)'
        <4>1. MemoryHolds(q) => MemoryHolds(q)'
          BY <3>1 DEF MemoryHolds, Active, Fits
        <4>2. (SearchHolds(q) => SearchHolds(q)') /\ (EndHolds(q) => EndHolds(q)')
          BY <3>1 DEF SearchHolds, Findable, EndHolds
        <4> QED BY <4>1, <4>2 DEF AnswerInv, ExchangeHolds
      <3> QED BY <3>2, <3>3 DEF AnswerInv
    <2> QED BY <2>1, <2>2
  <1>3. AnswerInv => QuestionsAreSettled
    BY AnswerInvSettles
  <1> QED BY <1>1, <1>2, <1>3, PTL DEF AnswerSpec

-----------------------------------------------------------------------------
(* Playbooks and documents (KnowledgeImport) *)

PlaybookQuestions == Faqs \cup OtherFaqs
ApplyRows == [at : {"idle", "recording", "creating", "done"}, create : SUBSET Parts]
Files == [at : {"idle", "decoded", "checked", "done", "refused"},
          checksum : Checksums \cup {"none"}, duplicate : BOOLEAN]
Documents == [checksum : Checksums, by : Upload]

PlaybookTypes ==
    /\ knowledge \in Seq(PlaybookQuestions) /\ theme \in BOOLEAN
    /\ apply \in [Application -> ApplyRows]

UploadTypes ==
    /\ document \subseteq Documents
    /\ upload \in [Upload -> Files]

Applying(a) == apply[a].at \in {"recording", "creating"}
Pending(u) == upload[u].at \in {"decoded", "checked"}

(* What an undisturbed application will still create is not there yet. *)
OneApplies ==
    met \cap {"applications", "unlisted"} = {} =>
        /\ IsInjective(knowledge)
        /\ \A a, b \in Application : Applying(a) /\ Applying(b) => a = b
        /\ \A a \in Application : Applying(a) =>
              (apply[a].create \ {"theme"}) \cap ToSet(knowledge) = {}

RecordsFirst ==
    /\ PlaybookRecordedFirst
    /\ \A a \in Application : apply[a].at = "creating" => apply[a].create \subseteq recorded

(* An upload that found no document with its checksum still would not. *)
OneUploads ==
    "uploads" \notin met =>
        /\ \A u, v \in Upload : Pending(u) /\ Pending(v) => u = v
        /\ \A u \in Upload : upload[u].at = "checked" /\ ~upload[u].duplicate =>
              ~KnownSum(upload[u].checksum)

UploadsHold ==
    /\ \A u \in Upload : Pending(u) => upload[u].checksum \in Checksums
    /\ OneUploads
    /\ UploadedOnce

(* The invariant. *)
ImportInv == PlaybookTypes /\ OneApplies /\ RecordsFirst /\ UploadTypes /\ UploadsHold

(* The elements of a sequence to which one is added, and from which one is
   taken, and that neither makes one of them appear twice. *)
LEMMA AppendKeeps ==
  ASSUME NEW S, NEW s \in Seq(S), NEW e \in S
  PROVE  /\ ToSet(Append(s, e)) = ToSet(s) \cup {e}
         /\ IsInjective(s) /\ e \notin ToSet(s) => IsInjective(Append(s, e))
  <1>1. /\ DOMAIN s = 1..Len(s) /\ DOMAIN Append(s, e) = 1..(Len(s) + 1) /\ Len(s) \in Nat
        /\ \A i \in 1..Len(s) : Append(s, e)[i] = s[i]
        /\ Append(s, e)[Len(s) + 1] = e
    BY AppendProperties, LenProperties
  <1>2. \A i \in 1..(Len(s) + 1) : i \in 1..Len(s) \/ i = Len(s) + 1
    BY <1>1
  <1>3. \A i \in 1..Len(s) : i \in 1..(Len(s) + 1)
    BY <1>1
  <1>4. Len(s) + 1 \in 1..(Len(s) + 1)
    BY <1>1
  <1> QED BY <1>1, <1>2, <1>3, <1>4 DEF ToSet, IsInjective

(* A sequence without one of its elements. *)
LEMMA RemoveKeeps ==
  ASSUME NEW S, NEW s \in Seq(S), NEW i \in DOMAIN s
  PROVE  /\ RemoveAt(s, i) \in Seq(S)
         /\ ToSet(RemoveAt(s, i)) \subseteq ToSet(s)
         /\ IsInjective(s) => IsInjective(RemoveAt(s, i))
  <1> DEFINE before == SubSeq(s, 1, i - 1)
             after == SubSeq(s, i + 1, Len(s))
             From(j) == IF j < i THEN j ELSE j + 1
  <1>1. Len(s) \in Nat /\ DOMAIN s = 1..Len(s) /\ i \in 1..Len(s)
        /\ \A j \in 1..Len(s) : s[j] \in S
    BY LenProperties, ElementOfSeq
  <1>2. before \in Seq(S) /\ Len(before) = i - 1 /\ \A j \in 1..(i - 1) : before[j] = s[j]
    <2>1. i - 1 \in Int /\ 1 \in Int /\ \A j \in 1..(i - 1) : s[j] \in S
      BY <1>1
    <2>2. /\ before \in Seq(S)
          /\ Len(before) = IF 1 <= i - 1 THEN (i - 1) - 1 + 1 ELSE 0
          /\ \A j \in 1..((i - 1) - 1 + 1) : before[j] = s[1 + j - 1]
      BY <2>1, SubSeqProperties
    <2> HIDE DEF before
    <2>3. Len(before) = i - 1
      BY <1>1, <2>2
    <2>4. \A j \in 1..(i - 1) : j \in 1..((i - 1) - 1 + 1) /\ 1 + j - 1 = j
      BY <1>1
    <2> QED BY <2>2, <2>3, <2>4
  <1>3. after \in Seq(S) /\ Len(after) = Len(s) - i
        /\ \A j \in 1..(Len(s) - i) : after[j] = s[i + j]
    <2>1. i + 1 \in Int /\ Len(s) \in Int /\ \A j \in (i + 1)..Len(s) : s[j] \in S
      BY <1>1
    <2>2. /\ after \in Seq(S)
          /\ Len(after) = IF i + 1 <= Len(s) THEN Len(s) - (i + 1) + 1 ELSE 0
          /\ \A j \in 1..(Len(s) - (i + 1) + 1) : after[j] = s[(i + 1) + j - 1]
      BY <2>1, SubSeqProperties
    <2> HIDE DEF after
    <2>3. Len(after) = Len(s) - i
      BY <1>1, <2>2
    <2>4. \A j \in 1..(Len(s) - i) : j \in 1..(Len(s) - (i + 1) + 1) /\ (i + 1) + j - 1 = i + j
      BY <1>1
    <2> QED BY <2>2, <2>3, <2>4
  <1> HIDE DEF before, after
  <1>4. RemoveAt(s, i) = before \o after
    BY DEF RemoveAt, before, after
  <1>5. /\ RemoveAt(s, i) \in Seq(S)
        /\ Len(RemoveAt(s, i)) = Len(before) + Len(after)
        /\ \A j \in 1..(Len(before) + Len(after)) :
              RemoveAt(s, i)[j] = IF j <= Len(before) THEN before[j] ELSE after[j - Len(before)]
    <2>1. before \in Seq(S) /\ after \in Seq(S)
      BY <1>2, <1>3
    <2>2. /\ before \o after \in Seq(S)
          /\ Len(before \o after) = Len(before) + Len(after)
          /\ \A j \in 1..(Len(before) + Len(after)) :
                (before \o after)[j] = IF j <= Len(before) THEN before[j] ELSE after[j - Len(before)]
      BY <2>1, ConcatProperties
    <2> QED BY <1>4, <2>2
  <1>6. DOMAIN RemoveAt(s, i) = 1..(Len(s) - 1)
    <2>1. Len(RemoveAt(s, i)) = Len(s) - 1
      BY <1>1, <1>2, <1>3, <1>5
    <2> QED BY <1>5, <2>1, LenProperties
  <1>7. \A j \in 1..(Len(s) - 1) : From(j) \in 1..Len(s) /\ RemoveAt(s, i)[j] = s[From(j)]
    <2> SUFFICES ASSUME NEW j \in 1..(Len(s) - 1)
                 PROVE  From(j) \in 1..Len(s) /\ RemoveAt(s, i)[j] = s[From(j)]
      OBVIOUS
    <2>1. j \in 1..(Len(before) + Len(after)) /\ Len(before) = i - 1
      BY <1>1, <1>2, <1>3
    <2>2. CASE j < i
      <3>1. j \in 1..(i - 1) /\ j <= Len(before) /\ From(j) = j
        BY <1>1, <2>1, <2>2
      <3> QED BY <1>1, <1>2, <1>5, <2>1, <3>1
    <2>3. CASE ~(j < i)
      <3>1. /\ j - Len(before) \in 1..(Len(s) - i) /\ ~(j <= Len(before)) /\ From(j) = j + 1
            /\ i + (j - Len(before)) = j + 1
        BY <1>1, <2>1, <2>3
      <3>2. RemoveAt(s, i)[j] = after[j - Len(before)]
        BY <1>5, <2>1, <3>1
      <3>3. after[j - Len(before)] = s[j + 1]
        BY <1>3, <3>1
      <3> QED BY <1>1, <3>1, <3>2, <3>3
    <2> QED BY <2>2, <2>3
  <1>8. \A j, k \in 1..(Len(s) - 1) : From(j) = From(k) => j = k
    BY <1>1
  <1> HIDE DEF From
  <1>9. ToSet(RemoveAt(s, i)) \subseteq ToSet(s)
    BY <1>1, <1>6, <1>7 DEF ToSet
  <1>10. IsInjective(s) => IsInjective(RemoveAt(s, i))
    BY <1>1, <1>6, <1>7, <1>8 DEF IsInjective
  <1> QED BY <1>5, <1>9, <1>10

(* At first nothing is imported. *)
LEMMA ImportStarts == ImportInit => ImportInv
  <1> SUFFICES ASSUME ImportInit PROVE ImportInv
    OBVIOUS
  <1>1. knowledge = <<>> /\ knowledge \in Seq(PlaybookQuestions) /\ DOMAIN knowledge = {}
    <2>1. knowledge = <<>> /\ knowledge \in Seq(PlaybookQuestions) /\ Len(knowledge) = 0
      BY EmptySeq DEF ImportInit
    <2>2. DOMAIN knowledge = 1..0
      BY <2>1, LenProperties
    <2> QED BY <2>1, <2>2
  <1>2. ToSet(knowledge) = {} /\ IsInjective(knowledge)
    BY <1>1 DEF ToSet, IsInjective
  <1>3. \A a \in Application : apply[a].at = "idle" /\ apply[a].create = {}
    BY DEF ImportInit
  <1>4. PlaybookTypes
    BY <1>1 DEF PlaybookTypes, ImportInit, ApplyRows
  <1>5. OneApplies /\ RecordsFirst
    BY <1>2, <1>3 DEF OneApplies, RecordsFirst, Applying, PlaybookRecordedFirst, ImportInit
  <1>6. \A u \in Upload : upload[u].at = "idle"
    BY DEF ImportInit
  <1>7. UploadTypes
    BY DEF UploadTypes, ImportInit, Files
  <1>8. UploadsHold
    BY <1>6 DEF UploadsHold, OneUploads, UploadedOnce, Pending, KnownSum, ImportInit
  <1> QED BY <1>4, <1>5, <1>7, <1>8 DEF ImportInv

(* A step of the uploads leaves the playbook's part true, and the other way
   round, when it notes no overlap of the other. *)
LEMMA PlaybookKept ==
  ASSUME PlaybookTypes, OneApplies, RecordsFirst, UNCHANGED playbookVars, met \subseteq met'
  PROVE  PlaybookTypes' /\ OneApplies' /\ RecordsFirst'
  <1>1. UNCHANGED <<knowledge, theme, apply, recorded>>
    BY DEF playbookVars
  <1>2. PlaybookTypes'
    BY <1>1 DEF PlaybookTypes
  <1>3. met' \cap {"applications", "unlisted"} = {} => met \cap {"applications", "unlisted"} = {}
    OBVIOUS
  <1>4. OneApplies'
    BY <1>1, <1>3 DEF OneApplies, Applying
  <1> QED BY <1>1, <1>2, <1>4 DEF RecordsFirst, PlaybookRecordedFirst

(* A step of the playbook leaves the uploads' part true. *)
LEMMA UploadsKept ==
  ASSUME UploadTypes, UploadsHold, UNCHANGED uploadVars, met \subseteq met'
  PROVE  UploadTypes' /\ UploadsHold'
  <1>1. UNCHANGED <<document, upload, jobs>>
    BY DEF uploadVars
  <1>2. "uploads" \notin met' => "uploads" \notin met
    OBVIOUS
  <1> QED BY <1>1, <1>2 DEF UploadTypes, UploadsHold, OneUploads, UploadedOnce, Pending, KnownSum

(* An application that moves on, or finishes one of its changes. *)
LEMMA ApplicationStep ==
  ASSUME PlaybookTypes, OneApplies, RecordsFirst, NEW a \in Application, Applying(a), met' = met,
         NEW at \in {"recording", "creating", "done"}, NEW create \in SUBSET apply[a].create,
         apply' = [apply EXCEPT ![a] = [at |-> at, create |-> create]],
         at = "creating" => create \subseteq recorded,
         recorded' = recorded, theme' \in BOOLEAN, theme' => theme \/ "theme" \in recorded,
         knowledge' \in Seq(PlaybookQuestions),
         ToSet(knowledge') \cap Faqs \subseteq recorded,
         met \cap {"applications", "unlisted"} = {} =>
            /\ IsInjective(knowledge')
            /\ (at # "done" => (create \ {"theme"}) \cap ToSet(knowledge') = {})
  PROVE  PlaybookTypes' /\ OneApplies' /\ RecordsFirst'
  <1>1. /\ apply \in [Application -> ApplyRows] /\ apply[a].create \in SUBSET Parts
        /\ apply'[a].at = at /\ apply'[a].create = create
        /\ \A b \in Application : b # a => apply'[b] = apply[b]
    BY DEF PlaybookTypes, ApplyRows
  <1>2. [at |-> at, create |-> create] \in ApplyRows
    BY <1>1 DEF ApplyRows
  <1>3. PlaybookTypes'
    BY <1>1, <1>2 DEF PlaybookTypes
  <1>4. OneApplies'
    <2> SUFFICES ASSUME met \cap {"applications", "unlisted"} = {}
                 PROVE  /\ IsInjective(knowledge')
                        /\ \A b, c \in Application : Applying(b)' /\ Applying(c)' => b = c
                        /\ \A b \in Application : Applying(b)' =>
                              (apply'[b].create \ {"theme"}) \cap ToSet(knowledge') = {}
      BY DEF OneApplies
    <2>1. \A b \in Application : Applying(b) => b = a
      BY DEF OneApplies
    <2>2. \A b \in Application : Applying(b)' => b = a
      BY <1>1, <2>1 DEF Applying
    <2>3. Applying(a)' => at # "done"
      BY <1>1 DEF Applying
    <2> QED BY <1>1, <2>2, <2>3
  <1>5. RecordsFirst'
    BY <1>1 DEF RecordsFirst, PlaybookRecordedFirst
  <1> QED BY <1>3, <1>4, <1>5

(* An application begins with what the listing did not show. *)
LEMMA PreviewStep ==
  ASSUME ImportInv, NEW a \in Application, NEW overwrite \in BOOLEAN, Preview(a, overwrite)
  PROVE  ImportInv'
  <1>1. /\ UNCHANGED <<knowledge, theme, recorded, uploadVars>> /\ met \subseteq met'
        /\ apply' = [apply EXCEPT ![a] = [at |-> "recording", create |-> Changes(overwrite)]]
    BY DEF Preview
  <1>2. PlaybookTypes /\ OneApplies /\ RecordsFirst
    BY DEF ImportInv
  <1>3. Changes(overwrite) \subseteq Parts /\ Changes(overwrite) \ {"theme"} \subseteq Faqs \ Listed
    BY DEF Changes, Parts
  <1>4. [at |-> "recording", create |-> Changes(overwrite)] \in ApplyRows
    BY <1>3 DEF ApplyRows
  <1>5. /\ apply'[a].at = "recording" /\ apply'[a].create = Changes(overwrite)
        /\ \A b \in Application : b # a => apply'[b] = apply[b]
    BY <1>1, <1>2 DEF PlaybookTypes
  <1>6. PlaybookTypes'
    BY <1>1, <1>2, <1>4 DEF PlaybookTypes
  <1>7. OneApplies'
    <2> SUFFICES ASSUME met' \cap {"applications", "unlisted"} = {}
                 PROVE  /\ IsInjective(knowledge)
                        /\ \A b, c \in Application : Applying(b)' /\ Applying(c)' => b = c
                        /\ \A b \in Application : Applying(b)' =>
                              (apply'[b].create \ {"theme"}) \cap ToSet(knowledge) = {}
      BY <1>1 DEF OneApplies
    <2>1. \A b \in Application : ~Applying(b)
      BY DEF Preview, Applying
    <2>2. Faqs \cap ToSet(knowledge) \subseteq Listed
      BY DEF Preview
    <2>3. \A b \in Application : Applying(b)' => b = a
      BY <1>5, <2>1 DEF Applying
    <2>4. IsInjective(knowledge)
      BY <1>1, <1>2 DEF OneApplies
    <2> QED BY <1>3, <1>5, <2>2, <2>3, <2>4
  <1>8. RecordsFirst'
    BY <1>1, <1>2, <1>5 DEF RecordsFirst, PlaybookRecordedFirst
  <1> QED BY <1>1, <1>6, <1>7, <1>8, UploadsKept DEF ImportInv

(* A change that is told to OneBrain is recorded. *)
LEMMA RecordStep ==
  ASSUME ImportInv, NEW a \in Application, NEW c \in Parts, RecordChange(a, c)
  PROVE  ImportInv'
  <1>1. /\ UNCHANGED <<knowledge, theme, apply, uploadVars, met>> /\ recorded \subseteq recorded'
    BY DEF RecordChange
  <1>2. PlaybookTypes' /\ OneApplies'
    BY <1>1 DEF ImportInv, PlaybookTypes, OneApplies, Applying
  <1>3. RecordsFirst'
    BY <1>1 DEF ImportInv, RecordsFirst, PlaybookRecordedFirst
  <1> QED BY <1>1, <1>2, <1>3, UploadsKept DEF ImportInv

(* The local changes begin once every change is recorded; a failure ends the
   application. *)
LEMMA BeginStep ==
  ASSUME ImportInv, NEW a \in Application, BeginCreating(a) \/ StopApplying(a)
  PROVE  ImportInv'
  <1>1. UNCHANGED <<knowledge, theme, recorded, uploadVars, met>> /\ Applying(a)
    BY DEF BeginCreating, StopApplying, RecordedAll, Applying
  <1>2. PlaybookTypes /\ OneApplies /\ RecordsFirst /\ apply[a] \in ApplyRows
    BY DEF ImportInv, PlaybookTypes
  <1> DEFINE at == IF BeginCreating(a) THEN "creating" ELSE "done"
  <1>3. apply' = [apply EXCEPT ![a].at = at]
    BY DEF BeginCreating, StopApplying
  <1>4. at \in {"recording", "creating", "done"} /\ (at = "creating" => apply[a].create \subseteq recorded)
    BY DEF BeginCreating, RecordedAll
  <1> HIDE DEF at
  <1>5. [apply[a] EXCEPT !.at = at] = [at |-> at, create |-> apply[a].create]
    BY <1>2 DEF ApplyRows
  <1>6. apply' = [apply EXCEPT ![a] = [at |-> at, create |-> apply[a].create]]
    BY <1>2, <1>3, <1>5 DEF PlaybookTypes
  <1>7. /\ theme \in BOOLEAN /\ knowledge \in Seq(PlaybookQuestions) /\ ToSet(knowledge) \cap Faqs \subseteq recorded
        /\ (met \cap {"applications", "unlisted"} = {} =>
              IsInjective(knowledge) /\ (apply[a].create \ {"theme"}) \cap ToSet(knowledge) = {})
    BY <1>1, <1>2 DEF PlaybookTypes, OneApplies, RecordsFirst, PlaybookRecordedFirst
  <1>8. PlaybookTypes' /\ OneApplies' /\ RecordsFirst'
    BY <1>1, <1>2, <1>4, <1>6, <1>7, ApplicationStep
  <1> QED BY <1>1, <1>8, UploadsKept DEF ImportInv

(* The theme is a change like the entries. *)
LEMMA ThemeStep ==
  ASSUME ImportInv, NEW a \in Application, ApplyTheme(a)
  PROVE  ImportInv'
  <1>1. UNCHANGED <<knowledge, recorded, uploadVars, met>> /\ Applying(a) /\ theme' = TRUE
        /\ apply[a].at = "creating" /\ "theme" \in apply[a].create
    BY DEF ApplyTheme, Applying
  <1>2. PlaybookTypes /\ OneApplies /\ RecordsFirst /\ apply[a] \in ApplyRows
    BY DEF ImportInv, PlaybookTypes
  <1> DEFINE left == apply[a].create \ {"theme"}
  <1>3. apply' = [apply EXCEPT ![a] = [at |-> "creating", create |-> left]]
    <2>1. apply' = [apply EXCEPT ![a].create = left]
      BY DEF ApplyTheme
    <2> HIDE DEF left
    <2>2. [apply[a] EXCEPT !.create = left] = [at |-> "creating", create |-> left]
      BY <1>1, <1>2 DEF ApplyRows
    <2> QED BY <1>2, <2>1, <2>2 DEF PlaybookTypes
  <1>4. /\ theme' \in BOOLEAN /\ knowledge' \in Seq(PlaybookQuestions) /\ ToSet(knowledge') \cap Faqs \subseteq recorded
        /\ left \in SUBSET apply[a].create /\ left \subseteq recorded /\ "theme" \in recorded
        /\ (met \cap {"applications", "unlisted"} = {} =>
              IsInjective(knowledge') /\ (left \ {"theme"}) \cap ToSet(knowledge') = {})
    BY <1>1, <1>2 DEF PlaybookTypes, OneApplies, RecordsFirst, PlaybookRecordedFirst
  <1> HIDE DEF left
  <1>5. PlaybookTypes' /\ OneApplies' /\ RecordsFirst'
    BY <1>1, <1>2, <1>3, <1>4, ApplicationStep
  <1> QED BY <1>1, <1>5, UploadsKept DEF ImportInv

(* An entry that is added was recorded and was not there. *)
LEMMA FaqStep ==
  ASSUME ImportInv, NEW a \in Application, NEW f \in Faqs, AddFaq(a, f)
  PROVE  ImportInv'
  <1>1. /\ UNCHANGED <<theme, recorded, uploadVars, met>> /\ Applying(a)
        /\ apply[a].at = "creating" /\ f \in apply[a].create \ {"theme"}
        /\ knowledge' = Append(knowledge, f)
    BY DEF AddFaq, Applying
  <1>2. PlaybookTypes /\ OneApplies /\ RecordsFirst /\ apply[a] \in ApplyRows
    BY DEF ImportInv, PlaybookTypes
  <1> DEFINE left == apply[a].create \ {f}
  <1>3. apply' = [apply EXCEPT ![a] = [at |-> "creating", create |-> left]]
    <2>1. apply' = [apply EXCEPT ![a].create = left]
      BY DEF AddFaq
    <2> HIDE DEF left
    <2>2. [apply[a] EXCEPT !.create = left] = [at |-> "creating", create |-> left]
      BY <1>1, <1>2 DEF ApplyRows
    <2> QED BY <1>2, <2>1, <2>2 DEF PlaybookTypes
  <1>4. knowledge \in Seq(PlaybookQuestions) /\ f \in PlaybookQuestions
    BY <1>2 DEF PlaybookTypes, PlaybookQuestions
  <1>5. /\ knowledge' \in Seq(PlaybookQuestions) /\ ToSet(knowledge') = ToSet(knowledge) \cup {f}
        /\ (IsInjective(knowledge) /\ f \notin ToSet(knowledge) => IsInjective(knowledge'))
    BY <1>1, <1>4, AppendKeeps, AppendProperties
  <1>6. /\ theme' \in BOOLEAN /\ ToSet(knowledge') \cap Faqs \subseteq recorded
        /\ left \in SUBSET apply[a].create /\ left \subseteq recorded
    BY <1>1, <1>2, <1>5 DEF PlaybookTypes, RecordsFirst, PlaybookRecordedFirst
  <1>7. met \cap {"applications", "unlisted"} = {} =>
          IsInjective(knowledge') /\ (left \ {"theme"}) \cap ToSet(knowledge') = {}
    BY <1>1, <1>2, <1>5 DEF OneApplies
  <1> HIDE DEF left
  <1>8. PlaybookTypes' /\ OneApplies' /\ RecordsFirst'
    BY <1>1, <1>2, <1>3, <1>5, <1>6, <1>7, ApplicationStep
  <1> QED BY <1>1, <1>8, UploadsKept DEF ImportInv

(* The entries that administrators add and delete. *)
LEMMA OtherStep ==
  ASSUME ImportInv, NEW f \in OtherFaqs, AddOther(f)
  PROVE  ImportInv'
  <1>1. UNCHANGED <<theme, apply, recorded, uploadVars, met>> /\ f \notin ToSet(knowledge)
        /\ knowledge' = Append(knowledge, f) /\ f \notin Faqs
    BY ImportAssumption DEF AddOther
  <1>2. knowledge \in Seq(PlaybookQuestions) /\ f \in PlaybookQuestions
    BY DEF ImportInv, PlaybookTypes, PlaybookQuestions
  <1>3. /\ knowledge' \in Seq(PlaybookQuestions) /\ ToSet(knowledge') = ToSet(knowledge) \cup {f}
        /\ (IsInjective(knowledge) => IsInjective(knowledge'))
    BY <1>1, <1>2, AppendKeeps, AppendProperties
  <1>4. PlaybookTypes'
    BY <1>1, <1>3 DEF ImportInv, PlaybookTypes
  <1>5. \A a \in Application : apply[a].create \subseteq Faqs \cup {"theme"}
    BY DEF ImportInv, PlaybookTypes, ApplyRows, Parts
  <1>6. OneApplies'
    BY <1>1, <1>3, <1>5 DEF ImportInv, OneApplies, Applying
  <1>7. RecordsFirst'
    BY <1>1, <1>3 DEF ImportInv, RecordsFirst, PlaybookRecordedFirst
  <1> QED BY <1>1, <1>4, <1>6, <1>7, UploadsKept DEF ImportInv

(* Deleting an entry makes none appear twice. *)
LEMMA DeleteStep ==
  ASSUME ImportInv, NEW i \in DOMAIN knowledge, DeleteEntry(i)
  PROVE  ImportInv'
  <1>1. UNCHANGED <<theme, apply, recorded, uploadVars, met>> /\ knowledge' = RemoveAt(knowledge, i)
    BY DEF DeleteEntry
  <1>2. knowledge \in Seq(PlaybookQuestions)
    BY DEF ImportInv, PlaybookTypes
  <1>3. /\ knowledge' \in Seq(PlaybookQuestions) /\ ToSet(knowledge') \subseteq ToSet(knowledge)
        /\ (IsInjective(knowledge) => IsInjective(knowledge'))
    BY <1>1, <1>2, RemoveKeeps
  <1>4. PlaybookTypes'
    BY <1>1, <1>3 DEF ImportInv, PlaybookTypes
  <1>5. OneApplies'
    BY <1>1, <1>3 DEF ImportInv, OneApplies, Applying
  <1>6. RecordsFirst'
    BY <1>1, <1>3 DEF ImportInv, RecordsFirst, PlaybookRecordedFirst
  <1> QED BY <1>1, <1>4, <1>5, <1>6, UploadsKept DEF ImportInv

(* A file that is decoded is looked up next. *)
LEMMA DecodeStep ==
  ASSUME ImportInv, NEW u \in Upload, NEW sum \in Checksums, Decode(u, sum)
  PROVE  ImportInv'
  <1>1. UNCHANGED <<playbookVars, document, jobs>> /\ met \subseteq met' /\ upload[u].at = "idle"
        /\ ("uploads" \notin met' => \A v \in Upload : ~Pending(v))
    BY DEF Decode, Pending
  <1>2. upload \in [Upload -> Files] /\ document \subseteq Documents
    BY DEF ImportInv, UploadTypes
  <1>3. PICK new \in Files : /\ upload' = [upload EXCEPT ![u] = new]
                             /\ new.at \in {"decoded", "refused"}
                             /\ (new.at = "decoded" => new.checksum \in Checksums)
    <2>1. CASE upload' = [upload EXCEPT ![u] = [at |-> "decoded", checksum |-> sum, duplicate |-> FALSE]]
      <3> DEFINE fileRow == [at |-> "decoded", checksum |-> sum, duplicate |-> FALSE]
      <3>1. fileRow \in Files
        BY DEF Files
      <3>2. fileRow.at = "decoded" /\ fileRow.checksum = sum
        OBVIOUS
      <3>3. upload' = [upload EXCEPT ![u] = fileRow]
        BY <2>1
      <3> HIDE DEF fileRow
      <3> QED BY <3>1, <3>2, <3>3
    <2>2. CASE upload' = [upload EXCEPT ![u].at = "refused"]
      <3>1. [upload[u] EXCEPT !.at = "refused"] \in Files
        BY <1>2 DEF Files
      <3>2. [upload[u] EXCEPT !.at = "refused"].at = "refused"
        BY <1>2 DEF Files
      <3> QED BY <1>2, <2>2, <3>1, <3>2
    <2> QED BY <2>1, <2>2 DEF Decode
  <1>4. upload'[u] = new /\ \A v \in Upload : v # u => upload'[v] = upload[v]
    BY <1>2, <1>3
  <1>5. UploadTypes'
    BY <1>1, <1>2, <1>3 DEF UploadTypes
  <1>6. \A v \in Upload : Pending(v)' => upload'[v].checksum \in Checksums
    BY <1>3, <1>4 DEF ImportInv, UploadsHold, Pending
  <1>7. OneUploads'
    <2>1. "uploads" \notin met' => \A v \in Upload : Pending(v)' => v = u
      BY <1>1, <1>4 DEF Pending
    <2>2. upload'[u].at # "checked"
      BY <1>3, <1>4
    <2>3. \A v \in Upload : upload'[v].at = "checked" => Pending(v)'
      BY DEF Pending
    <2> QED BY <2>1, <2>2, <2>3 DEF OneUploads
  <1>8. UploadedOnce'
    BY <1>1 DEF ImportInv, UploadsHold, UploadedOnce
  <1> QED BY <1>1, <1>5, <1>6, <1>7, <1>8, PlaybookKept DEF ImportInv, UploadsHold

(* A failure leaves no document, and the look-up reads what is there. *)
LEMMA FailureStep ==
  ASSUME ImportInv, NEW u \in Upload, RecordFailure(u) \/ CheckDuplicate(u)
  PROVE  ImportInv'
  <1>1. UNCHANGED <<playbookVars, document, met>> /\ upload[u].at = "decoded"
    BY DEF RecordFailure, CheckDuplicate
  <1>2. upload \in [Upload -> Files] /\ document \subseteq Documents /\ upload[u] \in Files
    BY DEF ImportInv, UploadTypes
  <1>3. PICK new \in Files : /\ upload' = [upload EXCEPT ![u] = new]
                             /\ new.at \in {"checked", "refused"} /\ new.checksum = upload[u].checksum
                             /\ (new.at = "checked" /\ ~new.duplicate => ~KnownSum(new.checksum))
    <2>1. CASE RecordFailure(u)
      <3> DEFINE fileRow == [upload[u] EXCEPT !.at = "refused"]
      <3>1. fileRow \in Files
        BY <1>2 DEF Files
      <3>2. fileRow.at = "refused" /\ fileRow.checksum = upload[u].checksum
        BY <1>2 DEF Files
      <3>3. upload' = [upload EXCEPT ![u] = fileRow]
        BY <1>2, <2>1 DEF RecordFailure
      <3> HIDE DEF fileRow
      <3> QED BY <3>1, <3>2, <3>3
    <2>2. CASE CheckDuplicate(u)
      <3> DEFINE known == KnownSum(upload[u].checksum)
                 fileRow == [upload[u] EXCEPT !.at = "checked", !.duplicate = known]
      <3>1. known \in BOOLEAN
        BY DEF KnownSum
      <3>2. upload' = [upload EXCEPT ![u] = fileRow]
        <4>1. upload' = [upload EXCEPT ![u].at = "checked", ![u].duplicate = known]
          BY <2>2 DEF CheckDuplicate
        <4> QED BY <1>2, <4>1
      <3> HIDE DEF known
      <3>3. fileRow \in Files
        BY <1>2, <3>1 DEF Files
      <3>4. fileRow.at = "checked" /\ fileRow.checksum = upload[u].checksum
        BY <1>2 DEF Files
      <3>5. fileRow.duplicate = known
        BY <1>2 DEF Files
      <3> HIDE DEF fileRow
      <3> QED BY <3>2, <3>3, <3>4, <3>5 DEF known
    <2> QED BY <2>1, <2>2
  <1>4. upload'[u] = new /\ \A v \in Upload : v # u => upload'[v] = upload[v]
    BY <1>2, <1>3
  <1>5. UploadTypes'
    BY <1>1, <1>2, <1>3 DEF UploadTypes
  <1>6. Pending(u) /\ \A v \in Upload : Pending(v)' => Pending(v)
    BY <1>1, <1>4 DEF Pending
  <1>7. \A v \in Upload : Pending(v)' => upload'[v].checksum \in Checksums
    BY <1>3, <1>4, <1>6 DEF ImportInv, UploadsHold
  <1>8. OneUploads'
    BY <1>1, <1>3, <1>4, <1>6 DEF ImportInv, UploadsHold, OneUploads, KnownSum
  <1>9. UploadedOnce'
    BY <1>1 DEF ImportInv, UploadsHold, UploadedOnce
  <1> QED BY <1>1, <1>5, <1>7, <1>8, <1>9, PlaybookKept DEF ImportInv, UploadsHold

(* A document is stored for a file that was not known. *)
LEMMA IngestStep ==
  ASSUME ImportInv, NEW u \in Upload, Ingest(u)
  PROVE  ImportInv'
  <1>1. UNCHANGED <<playbookVars, met>> /\ upload[u].at = "checked" /\ Pending(u)
        /\ upload' = [upload EXCEPT ![u].at = "done"]
        /\ document' = IF upload[u].duplicate THEN document
                       ELSE document \cup {[checksum |-> upload[u].checksum, by |-> u]}
    BY DEF Ingest, Pending
  <1>2. upload \in [Upload -> Files] /\ document \subseteq Documents /\ upload[u] \in Files
        /\ upload[u].checksum \in Checksums
    BY <1>1 DEF ImportInv, UploadTypes, UploadsHold
  <1>3. upload'[u].at = "done" /\ \A v \in Upload : v # u => upload'[v] = upload[v]
    BY <1>1, <1>2
  <1>4. UploadTypes'
    <2>1. [upload[u] EXCEPT !.at = "done"] \in Files
      BY <1>2 DEF Files
    <2>2. upload' \in [Upload -> Files]
      BY <1>1, <1>2, <2>1
    <2>3. [checksum |-> upload[u].checksum, by |-> u] \in Documents
      BY <1>2 DEF Documents
    <2> QED BY <1>1, <1>2, <2>2, <2>3 DEF UploadTypes
  <1>5. \A v \in Upload : Pending(v)' => v # u /\ Pending(v)
    BY <1>3 DEF Pending
  <1>6. \A v \in Upload : Pending(v)' => upload'[v].checksum \in Checksums
    BY <1>3, <1>5 DEF ImportInv, UploadsHold
  <1>7. OneUploads'
    <2>1. "uploads" \notin met => \A v \in Upload : ~Pending(v)'
      BY <1>1, <1>5 DEF ImportInv, UploadsHold, OneUploads
    <2>2. \A v \in Upload : upload'[v].at = "checked" => Pending(v)'
      BY DEF Pending
    <2> QED BY <1>1, <2>1, <2>2 DEF OneUploads
  <1>8. UploadedOnce'
    <2>1. CASE upload[u].duplicate
      BY <1>1, <2>1 DEF ImportInv, UploadsHold, UploadedOnce
    <2>2. CASE ~upload[u].duplicate
      <3> DEFINE new == [checksum |-> upload[u].checksum, by |-> u]
      <3>1. document' = document \cup {new} /\ new.checksum = upload[u].checksum
        BY <1>1, <2>2
      <3>2. "uploads" \notin met => \A d \in document : d.checksum # new.checksum
        BY <1>1, <2>2, <3>1 DEF ImportInv, UploadsHold, OneUploads, KnownSum
      <3> HIDE DEF new
      <3> QED BY <1>1, <3>1, <3>2 DEF ImportInv, UploadsHold, UploadedOnce
    <2> QED BY <2>1, <2>2
  <1> QED BY <1>1, <1>4, <1>6, <1>7, <1>8, PlaybookKept DEF ImportInv, UploadsHold

(* server.ts, POST .../playbooks/apply; repository.ts,
   ingestKnowledgeDocument: each entry of the playbook is there once however
   often it is applied and stopped half way, unless two applications
   overlapped or the preview was cut short; nothing of it is in the tenant's
   database before OneBrain has it; and a file is stored once, unless two
   uploads of it overlapped. *)
THEOREM ImportsHappenOnce == ImportSpec => []ImportedOnce
  <1>1. ImportInit => ImportInv
    BY ImportStarts
  <1>2. ImportInv /\ [ImportNext]_importVars => ImportInv'
    <2> SUFFICES ASSUME ImportInv, [ImportNext]_importVars PROVE ImportInv'
      OBVIOUS
    <2>1. CASE \E a \in Application : BeginCreating(a) \/ StopApplying(a)
      BY <2>1, BeginStep
    <2>2. CASE \E a \in Application : ApplyTheme(a)
      BY <2>2, ThemeStep
    <2>3. CASE \E a \in Application, overwrite \in BOOLEAN : Preview(a, overwrite)
      BY <2>3, PreviewStep
    <2>4. CASE \E a \in Application, c \in Parts : RecordChange(a, c)
      BY <2>4, RecordStep
    <2>5. CASE \E a \in Application, f \in Faqs : AddFaq(a, f)
      BY <2>5, FaqStep
    <2>6. CASE \E f \in OtherFaqs : AddOther(f)
      BY <2>6, OtherStep
    <2>7. CASE \E i \in DOMAIN knowledge : DeleteEntry(i)
      BY <2>7, DeleteStep
    <2>8. CASE \E u \in Upload : RecordFailure(u) \/ CheckDuplicate(u)
      BY <2>8, FailureStep
    <2>9. CASE \E u \in Upload : Ingest(u)
      BY <2>9, IngestStep
    <2>10. CASE \E u \in Upload, sum \in Checksums : Decode(u, sum)
      BY <2>10, DecodeStep
    <2>11. CASE UNCHANGED importVars
      <3>1. UNCHANGED <<playbookVars, uploadVars, met>>
        BY <2>11 DEF importVars, playbookVars, uploadVars
      <3> QED BY <3>1, PlaybookKept, UploadsKept DEF ImportInv
    <2> QED BY <2>1, <2>2, <2>3, <2>4, <2>5, <2>6, <2>7, <2>8, <2>9, <2>10, <2>11 DEF ImportNext
  <1>3. ImportInv => ImportedOnce
    BY DEF ImportInv, ImportedOnce, OneApplies, RecordsFirst, UploadsHold, PlaybookEntriesOnce
  <1> QED BY <1>1, <1>2, <1>3, PTL DEF ImportSpec
=============================================================================
