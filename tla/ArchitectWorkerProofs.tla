----------------------- MODULE ArchitectWorkerProofs ------------------------
(***************************************************************************)
(* Proofs about ArchitectWorker, for any number of overlapping reviews.    *)
(* The invariant says of a review under way that the score it compares     *)
(* with is still in the history, where it was, and which of its events are *)
(* out.                                                                    *)
(***************************************************************************)
EXTENDS ArchitectWorker, SequenceTheorems, FiniteSetTheorems, TLAPS

\* The review has been saved and announces itself.
Announcing(c) == apc[c] \in {"reviewed", "spec", "drift"}

Said(kind, k, i) == [kind |-> kind, key |-> k, index |-> i] \in emitted

\* Before it is saved, a review has no place. The history it measured drift
\* against grows and does not change.
BeforeSave(c) ==
  /\ ~Announcing(c) => aindex[c] = 0
  /\ apc[c] \in {"completing", "saving"} => abase[c] <= Len(history[akey[c]])
  /\ apc[c] = "saving" =>
       LET r == aresult[c]
       IN /\ r.base = abase[c]
          /\ r.drift <=>
               /\ r.served /\ abase[c] > 0
               /\ history[akey[c]][abase[c]].score - r.score >= DriftThreshold

\* After that its place holds it, and the events before its position are out.
AfterSave(c) ==
  Announcing(c) =>
    LET k == akey[c]
        i == aindex[c]
    IN /\ i \in 1..Len(history[k])
       /\ history[k][i] = aresult[c]
       /\ aresult[c].served
       /\ apc[c] # "reviewed" => Said("reviewed", k, i)
       /\ apc[c] = "spec" => k.kind = "spec_generation"
       /\ apc[c] = "drift" =>
            /\ aresult[c].drift
            /\ k.kind = "spec_generation" => Said("spec", k, i)

Calls == \A c \in Callers : BeforeSave(c) /\ AfterSave(c)

\* Every review of k that is saved or may yet be saved was begun.
Unsaved(k) ==
  {c \in Callers : akey[c] = k /\ apc[c] \in {"reading", "completing", "saving"}}

Counted ==
  /\ begun <= MaxReviews
  /\ \A k \in Keys : Len(history[k]) + Cardinality(Unsaved(k)) <= begun

\* The saved reviews nobody announces any more, though they should be.
Silent ==
  {place \in Places :
     /\ history[place[1]][place[2]].served
     /\ ~(/\ Said("reviewed", place[1], place[2])
          /\ history[place[1]][place[2]].drift => Said("drift", place[1], place[2]))
     /\ \A c \in Callers : <<akey[c], aindex[c]>> # place}

SilentCounted == IsFiniteSet(Silent) /\ Cardinality(Silent) <= raises

IInv ==
  /\ TypeOK /\ Calls /\ Counted
  /\ DriftMatchesHistory /\ EventsMatchReviews /\ SilentCounted

-----------------------------------------------------------------------------
(* The operators of the model.                                              *)

\* Whatever number a model answers, the score is one of 0..100.
LEMMA ScoreInRange ==
  ASSUME NEW answer \in Answers
  PROVE  ParseScore(answer) \in 0..100
<1>1. ASSUME NEW v \in Int
      PROVE  Clamp(v, 0, 100) \in 0..100
  <2> DEFINE low == Min({100, v})
  <2>1. low \in {100, v} /\ \A y \in {100, v} : low <= y
    <3>1. \E x \in {100, v} : \A y \in {100, v} : x <= y
      BY <1>1
    <3> QED BY <3>1 DEF Min
  <2>2. low \in Int /\ low <= 100
    BY <1>1, <2>1
  <2> HIDE DEF low
  <2>3. Max({0, low}) \in {0, low} /\ \A y \in {0, low} : Max({0, low}) >= y
    <3>1. \E x \in {0, low} : \A y \in {0, low} : x >= y
      BY <2>2
    <3> QED BY <3>1 DEF Max
  <2>4. Max({0, low}) \in 0..100
    BY <2>2, <2>3
  <2> QED BY <2>4 DEF Clamp, low
<1>2. answer.score \in Int
  BY ArchitectAssumption DEF Answers
<1> QED BY <1>1, <1>2 DEF ParseScore

\* What is saved stays where it is.
Grows ==
  \A k \in Keys : /\ Len(history'[k]) >= Len(history[k])
                  /\ \A i \in 1..Len(history[k]) : history'[k][i] = history[k][i]

\* Saving appends to one history.
LEMMA StoreAppends ==
  ASSUME TypeOK, NEW c \in Callers, Store(c), NEW k \in Keys, k = akey[c]
  PROVE  /\ history' \in [Keys -> Seq(Review)]
         /\ Len(history'[k]) = Len(history[k]) + 1
         /\ history'[k][Len(history[k]) + 1] = aresult[c]
         /\ \A q \in Keys \ {k} : history'[q] = history[q]
         /\ Grows
<1>1. history[k] \in Seq(Review) /\ aresult[c] \in Review
  BY DEF TypeOK
<1>2. history' = [history EXCEPT ![k] = Append(history[k], aresult[c])]
  BY DEF Store
<1>3. history'[k] = Append(history[k], aresult[c]) /\ \A q \in Keys \ {k} : history'[q] = history[q]
  BY <1>2 DEF TypeOK
<1>4. /\ Append(history[k], aresult[c]) \in Seq(Review)
      /\ Len(Append(history[k], aresult[c])) = Len(history[k]) + 1
      /\ \A i \in 1..Len(history[k]) : Append(history[k], aresult[c])[i] = history[k][i]
      /\ Append(history[k], aresult[c])[Len(history[k]) + 1] = aresult[c]
  BY <1>1, AppendProperties
<1>5. history' \in [Keys -> Seq(Review)]
  BY <1>2, <1>4 DEF TypeOK
<1>6. Grows
  <2> SUFFICES ASSUME NEW q \in Keys
               PROVE  /\ Len(history'[q]) >= Len(history[q])
                      /\ \A i \in 1..Len(history[q]) : history'[q][i] = history[q][i]
    BY DEF Grows
  <2>1. Len(history[q]) \in Nat
    BY LenProperties DEF TypeOK
  <2> QED BY <1>3, <1>4, <2>1
<1> QED BY <1>3, <1>4, <1>5, <1>6

LEMMA UnchangedGrows ==
  ASSUME TypeOK, history' = history
  PROVE  Grows
<1>1. \A k \in Keys : Len(history[k]) \in Nat
  BY LenProperties DEF TypeOK
<1> QED BY <1>1 DEF Grows

-----------------------------------------------------------------------------

LEMMA InitIInv == Init => IInv
<1> SUFFICES ASSUME Init PROVE IInv
  OBVIOUS
<1>1. TypeOK
  <2>1. NoReview \in Review
    BY DEF NoReview, Review
  <2>2. history \in [Keys -> Seq(Review)]
    BY DEF Init
  <2>3. NoKey \notin Keys
    BY ArchitectAssumption
  <2> QED BY <2>1, <2>2, <2>3 DEF Init, TypeOK, ReviewPc
<1>2. Calls
  BY DEF Init, Calls, BeforeSave, AfterSave, Announcing
<1>3. Counted
  <2>1. \A k \in Keys : Unsaved(k) = {}
    BY DEF Init, Unsaved
  <2>2. \A k \in Keys : Len(history[k]) = 0
    BY DEF Init
  <2>3. \A k \in Keys : Cardinality(Unsaved(k)) = 0
    BY <2>1, FS_EmptySet
  <2>4. begun = 0 /\ MaxReviews \in Nat
    BY ArchitectAssumption DEF Init
  <2> QED BY <2>2, <2>3, <2>4 DEF Counted
<1>4. Places = {}
  <2>1. \A k \in Keys : Len(history[k]) = 0
    BY DEF Init
  <2> QED BY <2>1, ArchitectAssumption DEF Places
<1>5. DriftMatchesHistory /\ EventsMatchReviews
  BY <1>4 DEF Init, DriftMatchesHistory, EventsMatchReviews
<1>6. SilentCounted
  <2>1. Silent = {}
    BY <1>4 DEF Silent
  <2> QED BY <2>1, FS_EmptySet DEF Init, SilentCounted
<1> QED BY <1>1, <1>2, <1>3, <1>5, <1>6 DEF IInv

\* A step of c leaves the variables of the other calls alone.
Local(c) ==
  \A d \in Callers \ {c} :
    /\ apc'[d] = apc[d] /\ akey'[d] = akey[d] /\ abase'[d] = abase[d]
    /\ aresult'[d] = aresult[d] /\ aindex'[d] = aindex[d]

\* Saving a review and publishing an event keep what the other calls rest on.
LEMMA OthersKept ==
  ASSUME IInv, NEW c \in Callers, Local(c), Grows, emitted \subseteq emitted',
         NEW d \in Callers, d # c
  PROVE  (BeforeSave(d) /\ AfterSave(d))'
<1>1. /\ apc'[d] = apc[d] /\ akey'[d] = akey[d] /\ abase'[d] = abase[d]
      /\ aresult'[d] = aresult[d] /\ aindex'[d] = aindex[d]
  BY DEF Local
<1>2. BeforeSave(d) /\ AfterSave(d)
  BY DEF IInv, Calls
<1>3. apc[d] # "idle" =>
        /\ akey[d] \in Keys
        /\ Len(history[akey[d]]) \in Nat /\ Len(history'[akey[d]]) >= Len(history[akey[d]])
        /\ \A i \in 1..Len(history[akey[d]]) : history'[akey[d]][i] = history[akey[d]][i]
  BY LenProperties DEF IInv, TypeOK, Grows
<1>4. BeforeSave(d)'
  <2>1. Announcing(d)' = Announcing(d)
    BY <1>1 DEF Announcing
  <2> QED BY <1>1, <1>2, <1>3, <2>1 DEF BeforeSave, IInv, TypeOK
<1>5. AfterSave(d)'
  <2>1. Announcing(d)' = Announcing(d) /\ (Announcing(d) => apc[d] # "idle")
    BY <1>1 DEF Announcing
  <2> QED BY <1>1, <1>2, <1>3, <2>1 DEF AfterSave, Said
<1> QED BY <1>4, <1>5

-----------------------------------------------------------------------------
(* How each part of the invariant is kept, by the kind of step.             *)

\* No review is saved: fewer may yet be.
LEMMA CountedWithoutSave ==
  ASSUME IInv, UNCHANGED <<history, begun>>,
         \A k \in Keys : Unsaved(k)' \subseteq Unsaved(k)
  PROVE  Counted'
<1> SUFFICES ASSUME NEW k \in Keys
             PROVE  Len(history'[k]) + Cardinality(Unsaved(k)') <= begun'
  BY DEF IInv, Counted
<1>1. IsFiniteSet(Unsaved(k))
  BY FS_Subset, ArchitectAssumption DEF Unsaved
<1>2. /\ Cardinality(Unsaved(k)') \in Nat /\ Cardinality(Unsaved(k)) \in Nat
      /\ Cardinality(Unsaved(k)') <= Cardinality(Unsaved(k))
  BY <1>1, FS_Subset, FS_CardinalityType
<1>3. Len(history[k]) \in Nat /\ begun \in Nat
  BY LenProperties DEF IInv, TypeOK
<1>4. Len(history[k]) + Cardinality(Unsaved(k)) <= begun
  BY DEF IInv, Counted
<1> QED BY <1>2, <1>3, <1>4

\* A review is saved: it is one of those that might be.
LEMMA CountedAfterSave ==
  ASSUME IInv, NEW c \in Callers, apc[c] = "saving", Store(c), begun' = begun,
         \A k \in Keys : Unsaved(k)' \subseteq Unsaved(k) \ {c}
  PROVE  Counted'
<1> SUFFICES ASSUME NEW k \in Keys
             PROVE  Len(history'[k]) + Cardinality(Unsaved(k)') <= begun'
  BY DEF IInv, Counted
<1>1. IsFiniteSet(Unsaved(k))
  BY FS_Subset, ArchitectAssumption DEF Unsaved
<1>2. /\ Cardinality(Unsaved(k)') \in Nat /\ Cardinality(Unsaved(k)) \in Nat
      /\ Cardinality(Unsaved(k) \ {c}) =
           IF c \in Unsaved(k) THEN Cardinality(Unsaved(k)) - 1 ELSE Cardinality(Unsaved(k))
      /\ Cardinality(Unsaved(k)') <= Cardinality(Unsaved(k) \ {c})
  <2>1. IsFiniteSet(Unsaved(k) \ {c})
    BY <1>1, FS_Subset
  <2> QED BY <1>1, <2>1, FS_Subset, FS_CardinalityType, FS_RemoveElement
<1>3. Len(history[k]) \in Nat /\ begun \in Nat
  BY LenProperties DEF IInv, TypeOK
<1>4. Len(history[k]) + Cardinality(Unsaved(k)) <= begun
  BY DEF IInv, Counted
<1>5. akey[c] \in Keys /\ TypeOK
  BY DEF IInv, TypeOK
<1>6. Len(history'[k]) = IF k = akey[c] THEN Len(history[k]) + 1 ELSE Len(history[k])
  BY <1>5, StoreAppends
<1>7. c \in Unsaved(k) <=> k = akey[c]
  BY DEF Unsaved
<1> QED BY <1>2, <1>3, <1>4, <1>6, <1>7

\* The history is short enough for all of it to be a place.
LEMMA AllArePlaces ==
  ASSUME TypeOK, Counted, NEW k \in Keys, NEW i \in 1..Len(history[k])
  PROVE  <<k, i>> \in Places
<1>1. IsFiniteSet(Unsaved(k))
  BY FS_Subset, ArchitectAssumption DEF Unsaved
<1>2. Cardinality(Unsaved(k)) \in Nat /\ Len(history[k]) \in Nat /\ begun \in Nat
  BY <1>1, FS_CardinalityType, LenProperties DEF TypeOK
<1>3. Len(history[k]) <= MaxReviews /\ MaxReviews \in Nat
  BY <1>2, ArchitectAssumption DEF Counted
<1>4. i \in 1..MaxReviews /\ i <= Len(history[k])
  BY <1>2, <1>3
<1> QED BY <1>4 DEF Places

\* A place is a review of the history.
LEMMA PlacesAreReviews ==
  ASSUME TypeOK, NEW place \in Places
  PROVE  /\ place[1] \in Keys /\ place[2] \in 1..Len(history[place[1]])
         /\ place = <<place[1], place[2]>>
         /\ history[place[1]][place[2]] \in Review
<1>1. /\ place[1] \in Keys /\ place[2] \in Nat /\ place[2] >= 1
      /\ place[2] <= Len(history[place[1]])
      /\ place = <<place[1], place[2]>>
  BY ArchitectAssumption DEF Places
<1>2. history[place[1]] \in Seq(Review)
  BY <1>1 DEF TypeOK
<1>3. place[2] \in 1..Len(history[place[1]])
  BY <1>1, <1>2, LenProperties
<1> QED BY <1>1, <1>2, <1>3, ElementOfSeq

\* Saving keeps the places there are.
LEMMA PlacesGrow ==
  ASSUME TypeOK, TypeOK', Grows, NEW place \in Places
  PROVE  /\ place \in Places'
         /\ history'[place[1]][place[2]] = history[place[1]][place[2]]
<1>1. /\ place[1] \in Keys /\ place[2] \in 1..Len(history[place[1]])
  BY PlacesAreReviews
<1>2. /\ Len(history[place[1]]) \in Nat /\ Len(history'[place[1]]) \in Nat
      /\ Len(history'[place[1]]) >= Len(history[place[1]])
      /\ history'[place[1]][place[2]] = history[place[1]][place[2]]
  BY <1>1, LenProperties DEF TypeOK, Grows
<1>3. place[2] <= Len(history'[place[1]])
  BY <1>1, <1>2
<1> QED BY <1>2, <1>3 DEF Places

\* DriftMatchesHistory, of one review.
DriftAt(k, j) ==
  LET r == history[k][j]
  IN /\ r.base < j
     /\ r.drift => r.base > 0 /\ Dropped(k, r.base, j)
     /\ j > 1 /\ Dropped(k, j - 1, j) /\ ~r.drift => r.base < j - 1 \/ ~r.served

\* A review saved now compares with the one that was the latest when its call
\* read the score, wherever that one is by now.
LEMMA DriftAfterSave ==
  ASSUME IInv, TypeOK', NEW c \in Callers, apc[c] = "saving", Store(c)
  PROVE  DriftMatchesHistory'
<1>1. PICK k \in Keys : k = akey[c]
  BY DEF IInv, TypeOK
<1>2. /\ Len(history'[k]) = Len(history[k]) + 1
      /\ history'[k][Len(history[k]) + 1] = aresult[c]
      /\ \A q \in Keys \ {k} : history'[q] = history[q]
      /\ Grows
  BY <1>1, StoreAppends DEF IInv
<1>3. Len(history[k]) \in Nat /\ aresult[c] \in Review /\ abase[c] \in Nat
  BY LenProperties DEF IInv, TypeOK
<1>4. ASSUME NEW q \in Keys, NEW j \in 1..Len(history[q])
      PROVE  DriftAt(q, j)'
  <2>1. <<q, j>> \in Places
    BY AllArePlaces DEF IInv
  <2>2. DriftAt(q, j)
    BY <2>1 DEF IInv, DriftMatchesHistory, DriftAt
  <2>3. history[q] \in Seq(Review)
    BY DEF IInv, TypeOK
  <2>4. Len(history[q]) \in Nat /\ j \in Nat /\ j >= 1 /\ j <= Len(history[q])
    BY <2>3, LenProperties
  <2>5. PICK r \in Review : r = history[q][j] /\ r = history'[q][j]
    BY <1>2, <2>3, ElementOfSeq DEF Grows
  <2>6. PICK b \in Nat : b = r.base
    BY DEF Review
  <2>7. ASSUME NEW i \in 1..Len(history[q])
        PROVE  Dropped(q, i, j)' <=> Dropped(q, i, j)
    BY <1>2 DEF Dropped, Grows
  <2>8. /\ b < j
        /\ r.drift => b > 0 /\ Dropped(q, b, j)
        /\ j > 1 /\ Dropped(q, j - 1, j) /\ ~r.drift => b < j - 1 \/ ~r.served
    BY <2>2, <2>5, <2>6 DEF DriftAt
  <2>9. r.drift => b > 0 /\ Dropped(q, b, j)'
    <3> SUFFICES ASSUME r.drift PROVE b > 0 /\ Dropped(q, b, j)'
      OBVIOUS
    <3>1. b \in 1..Len(history[q])
      BY <2>4, <2>8
    <3> QED BY <2>7, <2>8, <3>1
  <2>10. j > 1 => (Dropped(q, j - 1, j)' <=> Dropped(q, j - 1, j))
    <3> SUFFICES ASSUME j > 1 PROVE Dropped(q, j - 1, j)' <=> Dropped(q, j - 1, j)
      OBVIOUS
    <3>1. j - 1 \in 1..Len(history[q])
      BY <2>4
    <3> QED BY <2>7, <3>1
  <2> QED BY <2>5, <2>6, <2>8, <2>9, <2>10 DEF DriftAt, Dropped
<1>5. PICK j : j = Len(history[k]) + 1
  OBVIOUS
<1>6. DriftAt(k, j)'
  <2>1. PICK r \in Review : r = aresult[c] /\ r = history'[k][j]
    BY <1>2, <1>3, <1>5
  <2>2. PICK b \in Nat : b = abase[c]
    BY <1>3
  <2>3. /\ r.base = b /\ b <= Len(history[k])
        /\ r.drift <=>
             /\ r.served /\ b > 0
             /\ history[k][b].score - r.score >= DriftThreshold
    BY <1>1, <2>1, <2>2 DEF IInv, Calls, BeforeSave
  <2>4. \A i \in 1..Len(history[k]) :
          Dropped(k, i, j)' <=> history[k][i].score - r.score >= DriftThreshold
    BY <1>2, <2>1 DEF Dropped, Grows
  <2>5. b < j
    BY <1>3, <1>5, <2>3
  <2>6. r.drift => b > 0 /\ Dropped(k, b, j)'
    <3> SUFFICES ASSUME r.drift PROVE b > 0 /\ Dropped(k, b, j)'
      OBVIOUS
    <3>1. b \in 1..Len(history[k])
      BY <1>3, <2>3
    <3> QED BY <2>3, <2>4, <3>1
  <2>7. ASSUME j > 1, Dropped(k, j - 1, j)', ~r.drift, r.served
        PROVE  b < j - 1
    <3>1. j - 1 = Len(history[k]) /\ j - 1 \in 1..Len(history[k])
      BY <1>3, <1>5, <2>7
    <3>2. history[k][j - 1].score - r.score >= DriftThreshold
      BY <2>4, <2>7, <3>1
    <3>3. b # j - 1
      BY <1>3, <2>3, <2>7, <3>1, <3>2
    <3> QED BY <1>3, <2>3, <3>1, <3>3
  <2> QED BY <2>1, <2>3, <2>5, <2>6, <2>7 DEF DriftAt, Dropped
<1>7. \A q \in Keys : \A i \in 1..Len(history'[q]) : DriftAt(q, i)'
  <2> SUFFICES ASSUME NEW q \in Keys, NEW i \in 1..Len(history'[q])
               PROVE  DriftAt(q, i)'
    OBVIOUS
  <2>1. CASE i \in 1..Len(history[q])
    BY <1>4, <2>1
  <2>2. CASE i \notin 1..Len(history[q])
    <3>1. q = k
      BY <1>2, <2>2
    <3>2. i = j
      BY <1>2, <1>3, <1>5, <2>2, <3>1
    <3> QED BY <1>6, <3>1, <3>2
  <2> QED BY <2>1, <2>2
<1> SUFFICES ASSUME NEW place \in Places'
             PROVE  \E q \in Keys : \E i \in 1..Len(history'[q]) :
                      place = <<q, i>>
  BY <1>7 DEF DriftMatchesHistory, DriftAt
<1>8. /\ place[1] \in Keys /\ place[2] \in Nat /\ place[2] >= 1
      /\ place[2] <= Len(history'[place[1]])
      /\ place = <<place[1], place[2]>>
  BY ArchitectAssumption DEF Places
<1>9. Len(history'[place[1]]) \in Nat
  BY <1>8, LenProperties DEF TypeOK
<1> QED BY <1>8, <1>9

\* Events about saved reviews stay true of them.
LEMMA EventsKept ==
  ASSUME IInv, TypeOK', Grows, emitted' = emitted
  PROVE  EventsMatchReviews'
<1> SUFFICES ASSUME NEW e \in emitted
             PROVE  /\ <<e.key, e.index>> \in Places'
                    /\ history'[e.key][e.index] = history[e.key][e.index]
  BY DEF IInv, EventsMatchReviews
<1>1. PICK place \in Places : place = <<e.key, e.index>>
  BY DEF IInv, EventsMatchReviews
<1>2. place \in Places' /\ history'[place[1]][place[2]] = history[place[1]][place[2]]
  BY PlacesGrow DEF IInv
<1> QED BY <1>1, <1>2

\* The event at a call's position is about its review, and the ones that go
\* before it are out.
LEMMA EventsAfterPublish ==
  ASSUME IInv, NEW c \in Callers, Announcing(c), Publish(c, apc[c]), history' = history
  PROVE  EventsMatchReviews' /\ emitted' \subseteq Event /\ emitted \subseteq emitted'
<1>1. PICK k \in Keys : k = akey[c]
  BY DEF IInv, TypeOK, Announcing
<1>2. PICK i \in 1..Len(history[k]) : i = aindex[c]
  BY <1>1 DEF IInv, Calls, AfterSave
<1>3. PICK new : new = [kind |-> apc[c], key |-> k, index |-> i]
  OBVIOUS
<1>4. emitted' = emitted \cup {new}
  BY <1>1, <1>2, <1>3 DEF Publish
<1>5. /\ new.kind = apc[c] /\ new.key = k /\ new.index = i
      /\ [new EXCEPT !.kind = "reviewed"] = [kind |-> "reviewed", key |-> k, index |-> i]
      /\ [new EXCEPT !.kind = "spec"] = [kind |-> "spec", key |-> k, index |-> i]
  BY <1>3
<1>6. i \in Nat /\ apc[c] \in {"reviewed", "spec", "drift"}
  BY <1>2, LenProperties DEF IInv, TypeOK, Announcing
<1>7. new \in Event
  BY <1>3, <1>6 DEF Event
<1>8. /\ <<k, i>> \in Places' /\ history'[k][i] = aresult[c] /\ aresult[c].served
      /\ apc[c] # "reviewed" => [kind |-> "reviewed", key |-> k, index |-> i] \in emitted
      /\ apc[c] = "spec" => k.kind = "spec_generation"
      /\ apc[c] = "drift" =>
           /\ aresult[c].drift
           /\ k.kind = "spec_generation" =>
                [kind |-> "spec", key |-> k, index |-> i] \in emitted
  <2>1. <<k, i>> \in Places
    BY AllArePlaces DEF IInv
  <2>2. Places' = Places
    BY DEF Places
  <2> QED BY <1>1, <1>2, <2>1, <2>2 DEF IInv, Calls, AfterSave, Said
<1>9. [new EXCEPT !.kind = "reviewed"] \in emitted'
  <2>1. CASE apc[c] = "reviewed"
    BY <1>3, <1>4, <1>5, <2>1
  <2>2. CASE apc[c] # "reviewed"
    BY <1>4, <1>5, <1>8, <2>2
  <2> QED BY <2>1, <2>2
<1>10. ASSUME NEW e \in emitted'
       PROVE  /\ <<e.key, e.index>> \in Places' /\ history'[e.key][e.index].served
              /\ [e EXCEPT !.kind = "reviewed"] \in emitted'
              /\ e.kind = "spec" => e.key.kind = "spec_generation"
              /\ e.kind = "drift" =>
                   /\ history'[e.key][e.index].drift
                   /\ e.key.kind = "spec_generation" =>
                        [e EXCEPT !.kind = "spec"] \in emitted'
  <2>1. CASE e = new
    BY <1>4, <1>5, <1>8, <1>9, <2>1
  <2>2. CASE e \in emitted
    <3>1. Places' = Places
      BY DEF Places
    <3> QED BY <1>4, <2>2, <3>1 DEF IInv, EventsMatchReviews
  <2> QED BY <1>4, <2>1, <2>2
<1>11. EventsMatchReviews'
  BY <1>10 DEF EventsMatchReviews
<1> QED BY <1>4, <1>7, <1>11 DEF IInv, TypeOK

\* Among the places there were, only the one a call leaves can fall silent.
LEMMA OthersNotSilenced ==
  ASSUME IInv, TypeOK', NEW c \in Callers, Local(c), Grows, emitted \subseteq emitted',
         NEW place \in Silent', place \in Places, place # <<akey[c], aindex[c]>>
  PROVE  place \in Silent
<1>1. history'[place[1]][place[2]] = history[place[1]][place[2]]
  BY PlacesGrow DEF IInv
<1>2. /\ history'[place[1]][place[2]].served
      /\ ~(/\ [kind |-> "reviewed", key |-> place[1], index |-> place[2]] \in emitted'
           /\ history'[place[1]][place[2]].drift =>
                [kind |-> "drift", key |-> place[1], index |-> place[2]] \in emitted')
      /\ \A d \in Callers : <<akey'[d], aindex'[d]>> # place
  BY DEF Silent, Said
<1>3. /\ history[place[1]][place[2]].served
      /\ ~(/\ Said("reviewed", place[1], place[2])
           /\ history[place[1]][place[2]].drift => Said("drift", place[1], place[2]))
  BY <1>1, <1>2 DEF Said
<1>4. \A d \in Callers : <<akey[d], aindex[d]>> # place
  BY <1>2 DEF Local
<1> QED BY <1>3, <1>4 DEF Silent

\* One more silent review for one more raise, or none, keeps the count.
LEMMA SilentStep ==
  ASSUME IInv
  PROVE  /\ Silent' \subseteq Silent /\ raises' = raises => SilentCounted'
         /\ \A x : Silent' \subseteq Silent \cup {x} /\ raises' = raises + 1
                     => SilentCounted'
<1>1. /\ IsFiniteSet(Silent) /\ Cardinality(Silent) \in Nat /\ raises \in Nat
      /\ Cardinality(Silent) <= raises
  BY FS_CardinalityType DEF IInv, TypeOK, SilentCounted
<1>2. ASSUME Silent' \subseteq Silent, raises' = raises
      PROVE  SilentCounted'
  <2>1. /\ IsFiniteSet(Silent') /\ Cardinality(Silent') \in Nat
        /\ Cardinality(Silent') <= Cardinality(Silent)
    BY <1>1, <1>2, FS_Subset, FS_CardinalityType
  <2> QED BY <1>1, <1>2, <2>1 DEF SilentCounted
<1>3. ASSUME NEW x, Silent' \subseteq Silent \cup {x}, raises' = raises + 1
      PROVE  SilentCounted'
  <2>1. /\ IsFiniteSet(Silent \cup {x})
        /\ Cardinality(Silent \cup {x}) \in {Cardinality(Silent), Cardinality(Silent) + 1}
    BY <1>1, FS_AddElement
  <2>2. /\ IsFiniteSet(Silent') /\ Cardinality(Silent') \in Nat
        /\ Cardinality(Silent') <= Cardinality(Silent \cup {x})
    BY <1>3, <2>1, FS_Subset, FS_CardinalityType
  <2> QED BY <1>1, <1>3, <2>1, <2>2 DEF SilentCounted
<1> QED BY <1>2, <1>3

\* Saving adds one place.
LEMMA PlaceAdded ==
  ASSUME TypeOK, TypeOK', Counted, NEW c \in Callers, Store(c), NEW k \in Keys, k = akey[c],
         NEW place \in Places'
  PROVE  place \in Places \/ place = <<k, Len(history[k]) + 1>>
<1>1. /\ place[1] \in Keys /\ place[2] \in Nat /\ place[2] >= 1
      /\ place[2] <= Len(history'[place[1]])
      /\ place = <<place[1], place[2]>>
  BY ArchitectAssumption DEF Places
<1>2. /\ Len(history'[k]) = Len(history[k]) + 1
      /\ \A q \in Keys \ {k} : history'[q] = history[q]
      /\ Len(history[k]) \in Nat /\ Len(history[place[1]]) \in Nat
  BY <1>1, StoreAppends, LenProperties DEF TypeOK
<1>3. CASE place[2] \in 1..Len(history[place[1]])
  BY <1>1, <1>3, AllArePlaces
<1>4. CASE place[2] \notin 1..Len(history[place[1]])
  <2>1. place[1] = k
    BY <1>1, <1>2, <1>4
  <2>2. place[2] = Len(history[k]) + 1
    BY <1>1, <1>2, <1>4, <2>1
  <2> QED BY <1>1, <2>1, <2>2
<1> QED BY <1>3, <1>4

-----------------------------------------------------------------------------
(* One lemma per step.                                                      *)

\* A step before the review is saved that saves and publishes nothing.
LEMMA QuietStep ==
  ASSUME IInv, TypeOK', NEW c \in Callers, Local(c), ~Announcing(c), ~Announcing(c)',
         UNCHANGED <<history, emitted, raises>>, BeforeSave(c)', Counted'
  PROVE  IInv'
<1>1. Grows
  BY UnchangedGrows DEF IInv
<1>2. Calls'
  BY <1>1, OthersKept DEF Calls, AfterSave
<1>3. DriftMatchesHistory'
  BY DEF IInv, DriftMatchesHistory, Places, Dropped
<1>4. EventsMatchReviews'
  BY <1>1, EventsKept
<1>5. Silent' \subseteq Silent
  <2> SUFFICES ASSUME NEW place \in Silent' PROVE place \in Silent
    OBVIOUS
  <2>1. place \in Places
    BY DEF Silent, Places
  <2>2. aindex[c] = 0
    BY DEF IInv, Calls, BeforeSave
  <2>3. place # <<akey[c], aindex[c]>>
    BY <2>1, <2>2, PlacesAreReviews DEF IInv
  <2> QED BY <1>1, <2>1, <2>3, OthersNotSilenced
<1>6. SilentCounted'
  BY <1>5, SilentStep
<1> QED BY <1>2, <1>3, <1>4, <1>6 DEF IInv

LEMMA BeginStep ==
  ASSUME IInv, NEW c \in Callers, NEW k \in Keys, Begin(c, k)
  PROVE  IInv'
<1>1. /\ apc[c] = "idle" /\ begun < MaxReviews /\ begun' = begun + 1
      /\ akey' = [akey EXCEPT ![c] = k] /\ apc' = [apc EXCEPT ![c] = "reading"]
      /\ UNCHANGED <<history, abase, aresult, aindex, emitted, raises>>
  BY DEF Begin, Goto
<1>2. TypeOK'
  BY <1>1, ArchitectAssumption DEF IInv, TypeOK, ReviewPc
<1>3. apc'[c] = "reading" /\ Local(c)
  BY <1>1 DEF IInv, TypeOK, Local
<1>4. ~Announcing(c) /\ ~Announcing(c)'
  BY <1>1, <1>3 DEF Announcing
<1>5. BeforeSave(c)'
  BY <1>1, <1>3, <1>4 DEF IInv, Calls, BeforeSave
<1>6. Counted'
  <2>1. begun' <= MaxReviews
    BY <1>1, ArchitectAssumption DEF IInv, TypeOK
  <2>2. ASSUME NEW q \in Keys
        PROVE  Len(history'[q]) + Cardinality(Unsaved(q)') <= begun'
    <3>1. Unsaved(q)' \subseteq Unsaved(q) \cup {c}
      BY <1>1 DEF Unsaved, IInv, TypeOK
    <3>2. IsFiniteSet(Unsaved(q)) /\ IsFiniteSet(Unsaved(q) \cup {c})
      BY FS_Subset, FS_AddElement, ArchitectAssumption DEF Unsaved
    <3>3. /\ Cardinality(Unsaved(q)) \in Nat /\ Cardinality(Unsaved(q)') \in Nat
          /\ Cardinality(Unsaved(q)') <= Cardinality(Unsaved(q) \cup {c})
          /\ Cardinality(Unsaved(q) \cup {c})
               \in {Cardinality(Unsaved(q)), Cardinality(Unsaved(q)) + 1}
      BY <3>1, <3>2, FS_Subset, FS_AddElement, FS_CardinalityType
    <3>4. /\ Len(history[q]) \in Nat /\ begun \in Nat
          /\ Len(history[q]) + Cardinality(Unsaved(q)) <= begun
      BY LenProperties DEF IInv, TypeOK, Counted
    <3> QED BY <1>1, <3>3, <3>4
  <2> QED BY <2>1, <2>2 DEF Counted
<1> QED BY <1>1, <1>2, <1>3, <1>4, <1>5, <1>6, QuietStep

LEMMA ReadPreviousStep ==
  ASSUME IInv, NEW c \in Callers, ReadPrevious(c)
  PROVE  IInv'
<1>1. /\ apc[c] = "reading" /\ apc' = [apc EXCEPT ![c] = "completing"]
      /\ abase' = [abase EXCEPT ![c] = Len(history[akey[c]])]
      /\ UNCHANGED <<history, akey, aresult, aindex, emitted, begun, raises>>
  BY DEF ReadPrevious, Goto
<1>2. Len(history[akey[c]]) \in Nat
  BY <1>1, LenProperties DEF IInv, TypeOK
<1>3. TypeOK'
  BY <1>1, <1>2 DEF IInv, TypeOK, ReviewPc
<1>4. /\ apc'[c] = "completing" /\ Local(c)
      /\ abase'[c] = Len(history[akey[c]]) /\ akey'[c] = akey[c]
  BY <1>1 DEF IInv, TypeOK, Local
<1>5. ~Announcing(c) /\ ~Announcing(c)'
  BY <1>1, <1>4 DEF Announcing
<1>6. BeforeSave(c)'
  BY <1>1, <1>2, <1>4, <1>5 DEF IInv, Calls, BeforeSave
<1>7. Counted'
  <2>1. \A k \in Keys : Unsaved(k)' \subseteq Unsaved(k)
    BY <1>1 DEF Unsaved, IInv, TypeOK
  <2> QED BY <1>1, <2>1, CountedWithoutSave
<1> QED BY <1>1, <1>3, <1>4, <1>5, <1>6, <1>7, QuietStep

\* The result of a call, whichever way it was made.
LEMMA ResultStep ==
  ASSUME IInv, NEW c \in Callers, apc[c] = "completing", NEW r \in Review,
         aresult' = [aresult EXCEPT ![c] = r],
         apc' = [apc EXCEPT ![c] = "saving"],
         UNCHANGED <<history, akey, abase, aindex, emitted, begun, raises>>,
         r.base = abase[c],
         r.drift <=> /\ r.served /\ abase[c] > 0
                     /\ history[akey[c]][abase[c]].score - r.score >= DriftThreshold
  PROVE  IInv'
<1>1. TypeOK'
  BY DEF IInv, TypeOK, ReviewPc
<1>2. apc'[c] = "saving" /\ Local(c) /\ aresult'[c] = r
  BY DEF IInv, TypeOK, Local
<1>3. ~Announcing(c) /\ ~Announcing(c)'
  BY <1>2 DEF Announcing
<1>4. BeforeSave(c)'
  BY <1>2, <1>3 DEF IInv, Calls, BeforeSave
<1>5. Counted'
  <2>1. \A k \in Keys : Unsaved(k)' \subseteq Unsaved(k)
    BY DEF Unsaved, IInv, TypeOK
  <2> QED BY <2>1, CountedWithoutSave
<1> QED BY <1>1, <1>2, <1>3, <1>4, <1>5, QuietStep

LEMMA AnsweredStep ==
  ASSUME IInv, NEW c \in Callers, Answered(c)
  PROVE  IInv'
<1>1. PICK answer \in Answers :
        aresult' = [aresult EXCEPT ![c] =
                      [score |-> ParseScore(answer),
                       drift |-> Drift(Previous(c), ParseScore(answer)),
                       degraded |-> ~answer.object,
                       served |-> TRUE,
                       base |-> abase[c]]]
  BY DEF Answered
<1>2. PICK score \in 0..100 : score = ParseScore(answer)
  BY ScoreInRange
<1>3. PICK drift \in BOOLEAN : drift = Drift(Previous(c), score)
  BY DEF Drift
<1>4. PICK r : r = [score |-> score, drift |-> drift, degraded |-> ~answer.object,
                    served |-> TRUE, base |-> abase[c]]
  OBVIOUS
<1>5. r \in Review /\ r.base = abase[c] /\ r.drift = drift /\ r.served = TRUE /\ r.score = score
  <2>1. abase[c] \in Nat /\ answer.object \in BOOLEAN
    BY DEF IInv, TypeOK, Answers
  <2> QED BY <1>4, <2>1 DEF Review
<1>6. drift <=> /\ abase[c] > 0
                /\ history[akey[c]][abase[c]].score - score >= DriftThreshold
  <2>1. abase[c] \in Nat
    BY DEF IInv, TypeOK
  <2> QED BY <1>3, <2>1 DEF Drift, Previous
<1>7. aresult' = [aresult EXCEPT ![c] = r]
  BY <1>1, <1>2, <1>3, <1>4
<1>8. /\ apc[c] = "completing" /\ apc' = [apc EXCEPT ![c] = "saving"]
      /\ UNCHANGED <<history, akey, abase, aindex, emitted, begun, raises>>
  BY DEF Answered, Goto
<1>9. r.drift <=> /\ r.served /\ abase[c] > 0
                  /\ history[akey[c]][abase[c]].score - r.score >= DriftThreshold
  BY <1>5, <1>6
<1> QED BY <1>5, <1>7, <1>8, <1>9, ResultStep

LEMMA UnavailableStep ==
  ASSUME IInv, NEW c \in Callers, Unavailable(c)
  PROVE  IInv'
<1>0. PICK b \in Nat : b = abase[c]
  BY DEF IInv, TypeOK
<1>1. PICK r : r = [NoReview EXCEPT !.base = b]
  OBVIOUS
<1>2. r \in Review /\ r.base = abase[c] /\ r.drift = FALSE /\ r.served = FALSE
  <2>1. /\ NoReview \in Review
        /\ NoReview.drift = FALSE /\ NoReview.served = FALSE
    BY DEF NoReview, Review
  <2>2. r \in Review
    BY <1>1, <2>1 DEF Review
  <2>3. r.base = b /\ r.drift = NoReview.drift /\ r.served = NoReview.served
    BY <1>1, <2>1 DEF Review
  <2> QED BY <1>0, <2>1, <2>2, <2>3
<1>3. /\ apc[c] = "completing" /\ apc' = [apc EXCEPT ![c] = "saving"]
      /\ aresult' = [aresult EXCEPT ![c] = r]
      /\ UNCHANGED <<history, akey, abase, aindex, emitted, begun, raises>>
  BY <1>0, <1>1 DEF Unavailable, Goto
<1>4. r.drift <=> /\ r.served /\ abase[c] > 0
                  /\ history[akey[c]][abase[c]].score - r.score >= DriftThreshold
  BY <1>2
<1> QED BY <1>2, <1>3, <1>4, ResultStep

\* _run is left.
LEMMA LeaveEffect ==
  ASSUME IInv, NEW c \in Callers, Leave(c)
  PROVE  /\ apc' \in [Callers -> ReviewPc]
         /\ akey' \in [Callers -> Keys \cup {NoKey}]
         /\ \A d \in Callers : akey'[d] = NoKey <=> apc'[d] = "idle"
         /\ abase' \in [Callers -> Nat]
         /\ aresult' \in [Callers -> Review]
         /\ aindex' \in [Callers -> Nat]
         /\ Local(c)
         /\ apc'[c] = "idle" /\ aindex'[c] = 0
         /\ (BeforeSave(c) /\ AfterSave(c))'
         /\ \A k \in Keys : Unsaved(k)' \subseteq Unsaved(k) \ {c}
<1>1. /\ apc' = [apc EXCEPT ![c] = "idle"]
      /\ abase' = [abase EXCEPT ![c] = 0]
      /\ aresult' = [aresult EXCEPT ![c] = NoReview]
      /\ aindex' = [aindex EXCEPT ![c] = 0]
      /\ akey' = [akey EXCEPT ![c] = NoKey]
  BY DEF Leave, Goto
<1>2. NoReview \in Review
  BY DEF NoReview, Review
<1>3. /\ apc' \in [Callers -> ReviewPc]
      /\ akey' \in [Callers -> Keys \cup {NoKey}]
      /\ \A d \in Callers : akey'[d] = NoKey <=> apc'[d] = "idle"
      /\ abase' \in [Callers -> Nat]
      /\ aresult' \in [Callers -> Review]
      /\ aindex' \in [Callers -> Nat]
  BY <1>1, <1>2 DEF IInv, TypeOK, ReviewPc
<1>4. Local(c) /\ apc'[c] = "idle" /\ aindex'[c] = 0
  BY <1>1 DEF IInv, TypeOK, Local
<1>5. (BeforeSave(c) /\ AfterSave(c))'
  BY <1>4 DEF BeforeSave, AfterSave, Announcing
<1>6. \A k \in Keys : Unsaved(k)' \subseteq Unsaved(k) \ {c}
  BY <1>4 DEF Unsaved, Local
<1> QED BY <1>3, <1>4, <1>5, <1>6

LEMMA SaveStep ==
  ASSUME IInv, NEW c \in Callers, Save(c)
  PROVE  IInv'
<1>1. PICK k \in Keys : k = akey[c]
  BY DEF Save, IInv, TypeOK
<1>2. PICK n \in Nat : n = Len(history[k]) + 1
  BY LenProperties DEF IInv, TypeOK
<1>3. /\ apc[c] = "saving" /\ Store(c)
      /\ UNCHANGED <<emitted, begun, raises>>
      /\ \/ /\ aresult[c].served
            /\ apc' = [apc EXCEPT ![c] = "reviewed"]
            /\ aindex' = [aindex EXCEPT ![c] = n]
            /\ UNCHANGED <<akey, abase, aresult>>
         \/ ~aresult[c].served /\ Leave(c)
  BY <1>1, <1>2 DEF Save, Goto
<1>4. /\ history' \in [Keys -> Seq(Review)]
      /\ Len(history'[k]) = n
      /\ history'[k][n] = aresult[c]
      /\ Grows
  BY <1>1, <1>2, <1>3, StoreAppends DEF IInv
<1>5. SUFFICES ASSUME TypeOK', Local(c), (BeforeSave(c) /\ AfterSave(c))',
                      \A q \in Keys : Unsaved(q)' \subseteq Unsaved(q) \ {c},
                      <<k, n>> \notin Silent'
               PROVE  IInv'
  <2>1. CASE ~aresult[c].served /\ Leave(c)
    <3>1. TypeOK'
      BY <1>3, <1>4, <2>1, LeaveEffect DEF IInv, TypeOK
    <3>2. <<k, n>> \notin Silent'
      BY <1>4, <2>1 DEF Silent
    <3> QED BY <2>1, <3>1, <3>2, LeaveEffect
  <2>2. CASE /\ aresult[c].served
             /\ apc' = [apc EXCEPT ![c] = "reviewed"]
             /\ aindex' = [aindex EXCEPT ![c] = n]
             /\ UNCHANGED <<akey, abase, aresult>>
    <3>1. TypeOK'
      BY <1>3, <1>4, <2>2 DEF IInv, TypeOK, ReviewPc
    <3>2. Local(c) /\ apc'[c] = "reviewed" /\ aindex'[c] = n /\ akey'[c] = k
      BY <1>1, <2>2 DEF IInv, TypeOK, Local
    <3>3. BeforeSave(c)'
      BY <3>2 DEF BeforeSave, Announcing
    <3>4. AfterSave(c)'
      <4>1. n \in 1..Len(history'[k])
        <5>1. Len(history[k]) \in Nat
          BY LenProperties DEF IInv, TypeOK
        <5> QED BY <1>2, <1>4, <5>1
      <4> QED BY <1>4, <2>2, <3>2, <4>1 DEF AfterSave
    <3>5. \A q \in Keys : Unsaved(q)' \subseteq Unsaved(q) \ {c}
      BY <3>2 DEF Unsaved, Local
    <3>6. <<k, n>> \notin Silent'
      BY <3>2 DEF Silent
    <3> QED BY <3>1, <3>2, <3>3, <3>4, <3>5, <3>6
  <2> QED BY <1>3, <2>1, <2>2
<1>6. Calls'
  BY <1>3, <1>4, <1>5, OthersKept DEF Calls
<1>7. Counted'
  BY <1>3, <1>5, CountedAfterSave
<1>8. DriftMatchesHistory' /\ EventsMatchReviews'
  BY <1>3, <1>4, <1>5, DriftAfterSave, EventsKept
<1>9. Silent' \subseteq Silent
  <2> SUFFICES ASSUME NEW place \in Silent' PROVE place \in Silent
    OBVIOUS
  <2>1. place \in Places
    <3>1. place \in Places'
      BY DEF Silent
    <3> QED BY <1>1, <1>2, <1>3, <1>5, <3>1, PlaceAdded DEF IInv
  <2>2. aindex[c] = 0
    BY <1>3 DEF IInv, Calls, BeforeSave, Announcing
  <2>3. place # <<akey[c], aindex[c]>>
    BY <2>1, <2>2, PlacesAreReviews DEF IInv
  <2> QED BY <1>3, <1>4, <1>5, <2>1, <2>3, OthersNotSilenced
<1>10. SilentCounted'
  BY <1>3, <1>9, SilentStep
<1> QED BY <1>5, <1>6, <1>7, <1>8, <1>10 DEF IInv

LEMMA EmitEventStep ==
  ASSUME IInv, NEW c \in Callers, EmitEvent(c)
  PROVE  IInv'
<1>1. /\ Announcing(c) /\ Publish(c, apc[c])
      /\ UNCHANGED <<history, begun, raises>>
  BY DEF EmitEvent, Announcing
<1>2. PICK k \in Keys : k = akey[c]
  BY <1>1 DEF IInv, TypeOK, Announcing
<1>3. PICK i \in 1..Len(history[k]) : i = aindex[c]
  BY <1>1, <1>2 DEF IInv, Calls, AfterSave
<1>4. /\ EventsMatchReviews' /\ emitted' \subseteq Event /\ emitted \subseteq emitted'
      /\ [kind |-> apc[c], key |-> k, index |-> i] \in emitted'
  BY <1>1, <1>2, <1>3, EventsAfterPublish DEF Publish
<1>5. /\ history[k][i] = aresult[c] /\ aresult[c].served
      /\ apc[c] # "reviewed" => Said("reviewed", k, i)
      /\ apc[c] = "drift" => aresult[c].drift /\ (k.kind = "spec_generation" => Said("spec", k, i))
  BY <1>1, <1>2, <1>3 DEF IInv, Calls, AfterSave
<1>6. [kind |-> "reviewed", key |-> k, index |-> i] \in emitted'
  <2>1. CASE apc[c] = "reviewed"
    BY <1>4, <2>1
  <2>2. CASE apc[c] # "reviewed"
    BY <1>4, <1>5, <2>2 DEF Said
  <2> QED BY <2>1, <2>2
<1>7. Grows
  BY <1>1, UnchangedGrows DEF IInv
<1>8. SUFFICES ASSUME TypeOK', Local(c), (BeforeSave(c) /\ AfterSave(c))',
                      \A q \in Keys : Unsaved(q)' \subseteq Unsaved(q),
                      <<k, i>> \notin Silent'
               PROVE  IInv'
  <2>1. CASE FollowedBy(c, apc[c]) = "idle"
    <3>1. Leave(c)
      BY <2>1 DEF EmitEvent
    <3>2. TypeOK'
      BY <1>1, <1>4, <3>1, LeaveEffect DEF IInv, TypeOK
    <3>3. aresult[c].drift => [kind |-> "drift", key |-> k, index |-> i] \in emitted'
      <4>1. aresult[c].drift => apc[c] = "drift"
        BY <1>2, <2>1 DEF FollowedBy
      <4> QED BY <1>4, <4>1
    <3>4. <<k, i>> \notin Silent'
      BY <1>1, <1>5, <1>6, <3>3 DEF Silent, Said
    <3> QED BY <3>1, <3>2, <3>4, LeaveEffect
  <2>2. CASE FollowedBy(c, apc[c]) # "idle"
    <3>1. PICK next : next = FollowedBy(c, apc[c])
      OBVIOUS
    <3>2. /\ next \in {"spec", "drift"}
          /\ next = "spec" => apc[c] = "reviewed" /\ k.kind = "spec_generation"
          /\ next = "drift" => aresult[c].drift /\ apc[c] # "drift"
          /\ next = "drift" /\ k.kind = "spec_generation" => apc[c] # "reviewed"
      BY <1>2, <2>2, <3>1 DEF FollowedBy
    <3>3. /\ apc' = [apc EXCEPT ![c] = next]
          /\ UNCHANGED <<akey, abase, aresult, aindex>>
      BY <2>2, <3>1 DEF EmitEvent, Goto
    <3>4. TypeOK'
      <4>1. apc[c] # "idle"
        BY <1>1 DEF Announcing
      <4> QED BY <1>1, <1>4, <3>2, <3>3, <4>1 DEF IInv, TypeOK, ReviewPc
    <3>5. Local(c) /\ apc'[c] = next
      BY <3>3 DEF IInv, TypeOK, Local
    <3>6. BeforeSave(c)'
      BY <3>2, <3>5 DEF BeforeSave, Announcing
    <3>7. AfterSave(c)'
      <4>1. next = "drift" /\ k.kind = "spec_generation" =>
              [kind |-> "spec", key |-> k, index |-> i] \in emitted'
        <5> SUFFICES ASSUME next = "drift", k.kind = "spec_generation"
                     PROVE  [kind |-> "spec", key |-> k, index |-> i] \in emitted'
          OBVIOUS
        <5>1. apc[c] = "spec"
          BY <1>1, <3>2 DEF Announcing
        <5> QED BY <1>4, <5>1
      <4> QED BY <1>1, <1>2, <1>3, <1>5, <1>6, <3>2, <3>3, <3>5, <4>1 DEF AfterSave, Said
    <3>8. \A q \in Keys : Unsaved(q)' \subseteq Unsaved(q)
      BY <3>2, <3>3, <3>5 DEF Unsaved, Local
    <3>9. <<k, i>> \notin Silent'
      BY <1>2, <1>3, <3>3 DEF Silent
    <3> QED BY <3>4, <3>5, <3>6, <3>7, <3>8, <3>9
  <2> QED BY <2>1, <2>2
<1>9. Calls'
  BY <1>4, <1>7, <1>8, OthersKept DEF Calls
<1>10. Counted'
  BY <1>1, <1>8, CountedWithoutSave
<1>11. DriftMatchesHistory'
  BY <1>1 DEF IInv, DriftMatchesHistory, Places, Dropped
<1>12. Silent' \subseteq Silent
  <2> SUFFICES ASSUME NEW place \in Silent' PROVE place \in Silent
    OBVIOUS
  <2>1. place \in Places
    BY <1>1 DEF Silent, Places
  <2> QED BY <1>2, <1>3, <1>4, <1>7, <1>8, <2>1, OthersNotSilenced
<1>13. SilentCounted'
  BY <1>1, <1>12, SilentStep
<1> QED BY <1>4, <1>8, <1>9, <1>10, <1>11, <1>13 DEF IInv

LEMMA RaiseStep ==
  ASSUME IInv, NEW c \in Callers, Raise(c)
  PROVE  IInv'
<1>1. apc[c] # "idle" /\ raises' = raises + 1 /\ Leave(c) /\ begun' = begun
  BY DEF Raise
<1>2. PICK k \in Keys : k = akey[c]
  BY <1>1 DEF IInv, TypeOK
<1>3. /\ Local(c) /\ (BeforeSave(c) /\ AfterSave(c))'
      /\ \A q \in Keys : Unsaved(q)' \subseteq Unsaved(q) \ {c}
  BY <1>1, LeaveEffect
<1>4. CASE apc[c] = "saving" /\ Store(c) /\ UNCHANGED emitted
  <2>1. PICK n : n = Len(history[k]) + 1
    OBVIOUS
  <2>2. history' \in [Keys -> Seq(Review)] /\ Grows
    BY <1>2, <1>4, StoreAppends DEF IInv
  <2>3. TypeOK'
    BY <1>1, <1>4, <2>2, LeaveEffect DEF IInv, TypeOK
  <2>4. Calls'
    BY <1>3, <1>4, <2>2, OthersKept DEF Calls
  <2>5. Counted'
    BY <1>1, <1>3, <1>4, CountedAfterSave
  <2>6. DriftMatchesHistory' /\ EventsMatchReviews'
    BY <1>4, <2>2, <2>3, DriftAfterSave, EventsKept
  <2>7. Silent' \subseteq Silent \cup {<<k, n>>}
    <3> SUFFICES ASSUME NEW place \in Silent', place # <<k, n>> PROVE place \in Silent
      OBVIOUS
    <3>1. place \in Places
      <4>1. place \in Places'
        BY DEF Silent
      <4> QED BY <1>2, <1>4, <2>1, <2>3, <4>1, PlaceAdded DEF IInv
    <3>2. aindex[c] = 0
      BY <1>4 DEF IInv, Calls, BeforeSave, Announcing
    <3>3. place # <<akey[c], aindex[c]>>
      BY <3>1, <3>2, PlacesAreReviews DEF IInv
    <3> QED BY <1>3, <1>4, <2>2, <2>3, <3>1, <3>3, OthersNotSilenced
  <2>8. SilentCounted'
    BY <1>1, <2>7, SilentStep
  <2> QED BY <2>3, <2>4, <2>5, <2>6, <2>8 DEF IInv
<1>5. CASE /\ UNCHANGED history
           /\ (UNCHANGED emitted \/ (Announcing(c) /\ Publish(c, apc[c])))
  <2>1. Grows
    BY <1>5, UnchangedGrows DEF IInv
  <2>2. emitted' \subseteq Event /\ emitted \subseteq emitted'
    BY <1>5, EventsAfterPublish DEF IInv, TypeOK
  <2>3. TypeOK'
    BY <1>1, <1>5, <2>2, LeaveEffect DEF IInv, TypeOK
  <2>4. Calls'
    BY <1>3, <2>1, <2>2, OthersKept DEF Calls
  <2>5. Counted'
    BY <1>1, <1>3, <1>5, CountedWithoutSave
  <2>6. EventsMatchReviews'
    BY <1>5, <2>1, <2>3, EventsKept, EventsAfterPublish
  <2>7. DriftMatchesHistory'
    BY <1>5 DEF IInv, DriftMatchesHistory, Places, Dropped
  <2>8. PICK x : x = <<akey[c], aindex[c]>>
    OBVIOUS
  <2>9. Silent' \subseteq Silent \cup {x}
    <3> SUFFICES ASSUME NEW place \in Silent', place # x PROVE place \in Silent
      OBVIOUS
    <3>1. place \in Places
      BY <1>5 DEF Silent, Places
    <3> QED BY <1>3, <2>1, <2>2, <2>3, <2>8, <3>1, OthersNotSilenced
  <2>10. SilentCounted'
    BY <1>1, <2>9, SilentStep
  <2> QED BY <2>3, <2>4, <2>5, <2>6, <2>7, <2>10 DEF IInv
<1>6. \/ apc[c] = "saving" /\ Store(c) /\ UNCHANGED emitted
      \/ /\ UNCHANGED history
         /\ (UNCHANGED emitted \/ (Announcing(c) /\ Publish(c, apc[c])))
  BY DEF Raise, Announcing
<1> QED BY <1>4, <1>5, <1>6

LEMMA NextIInv == IInv /\ [Next]_avars => IInv'
<1> SUFFICES ASSUME IInv, [Next]_avars PROVE IInv'
  OBVIOUS
<1>1. CASE UNCHANGED avars
  <2>1. UNCHANGED <<history, apc, akey, abase, aresult, aindex, emitted, begun, raises>>
    BY <1>1 DEF avars, callVars
  <2>2. TypeOK'
    BY <2>1 DEF IInv, TypeOK
  <2>3. Calls'
    BY <2>1 DEF IInv, Calls, BeforeSave, AfterSave, Announcing, Said
  <2>4. Counted'
    BY <2>1 DEF IInv, Counted, Unsaved
  <2>5. DriftMatchesHistory'
    BY <2>1 DEF IInv, DriftMatchesHistory, Places, Dropped
  <2>6. EventsMatchReviews'
    BY <2>1 DEF IInv, EventsMatchReviews, Places
  <2>7. SilentCounted'
    BY <2>1 DEF IInv, SilentCounted, Silent, Said, Places
  <2> QED BY <2>2, <2>3, <2>4, <2>5, <2>6, <2>7 DEF IInv
<1> QED BY <1>1, BeginStep, ReadPreviousStep, AnsweredStep, UnavailableStep, SaveStep,
           EmitEventStep, RaiseStep DEF Next, Step

LEMMA Invariance == Spec => []IInv
BY InitIInv, NextIInv, PTL DEF Spec

-----------------------------------------------------------------------------

\* The types; every saved score is one of 0..100 whatever numbers the models
\* answer.
THEOREM ArchitectTypeCorrect == Spec => []TypeOK
<1>1. IInv => TypeOK
  BY DEF IInv
<1> QED BY <1>1, Invariance, PTL

\* Drift is measured against the review that was the latest when the call read
\* its score, however many calls overlap and whatever was saved in between.
THEOREM DriftIsMeasured == Spec => []DriftMatchesHistory
<1>1. IInv => DriftMatchesHistory
  BY DEF IInv
<1> QED BY <1>1, Invariance, PTL

\* Events are about saved reviews of a provider, in the order of _emit_events.
THEOREM EventsFollowReviews == Spec => []EventsMatchReviews
<1>1. IInv => EventsMatchReviews
  BY DEF IInv
<1> QED BY <1>1, Invariance, PTL

\* Each call that raises keeps at most one saved review from being announced.
THEOREM SilenceIsBounded == Spec => []SilentBoundedByRaises
<1>1. IInv => SilentBoundedByRaises
  BY DEF IInv, SilentCounted, SilentBoundedByRaises, Silent, Said
<1> QED BY <1>1, Invariance, PTL
=============================================================================
