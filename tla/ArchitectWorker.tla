-------------------------- MODULE ArchitectWorker ---------------------------
(***************************************************************************)
(* ClaudeArchitectWorker._run of workers/architect.py, called              *)
(* concurrently: read the latest score, ask a provider, save the review,   *)
(* emit its events. Each awaited call is a step; the score drift is        *)
(* measured against was read before the provider was asked.                *)
(***************************************************************************)
EXTENDS Routing, Sequences

CONSTANTS
  Callers,     \* reviews that may overlap
  Keys,        \* what they review: [target, kind]
  RawScores,   \* numbers a model may answer as the score
  Registered,  \* providers in the registry
  MaxReviews,  \* bound on the reviews begun
  NoKey

\* ReviewKind.capability
KindCapability ==
  [architecture_review |-> "architecture", runtime_analysis |-> "analysis",
   spec_generation |-> "architecture", refactor_review |-> "review"]

ASSUME ArchitectAssumption ==
  /\ IsFiniteSet(Callers)
  /\ \A k \in Keys : k.kind \in DOMAIN KindCapability
  /\ RawScores \subseteq Int
  /\ Registered \subseteq ProviderNames
  /\ MaxReviews \in Nat
  /\ NoKey \notin Keys

VARIABLES
  history,   \* history[k]: the saved reviews of k, oldest first
  apc,       \* the call a review awaits, "idle" outside _run
  akey,      \* what it reviews
  abase,     \* how many reviews of it were saved when `previous` was read
  aresult,   \* the ReviewResult, once there is one
  aindex,    \* its place in the history, once it is saved
  emitted,   \* the events published
  begun,     \* reviews begun
  raises     \* awaited calls that raised

callVars == <<apc, akey, abase, aresult, aindex>>
avars == <<history, callVars, emitted, begun, raises>>

DriftThreshold == 15

Review == [score : 0..100, drift : BOOLEAN, degraded : BOOLEAN,
           served : BOOLEAN, base : Nat]
NoReview == [score |-> 0, drift |-> FALSE, degraded |-> TRUE, served |-> FALSE,
             base |-> 0]

Event == [kind : {"reviewed", "spec", "drift"}, key : Keys, index : Nat]

ReviewPc == {"idle", "reading", "completing", "saving", "reviewed", "spec", "drift"}

Init ==
  /\ history = [k \in Keys |-> <<>>]
  /\ apc = [c \in Callers |-> "idle"]
  /\ akey = [c \in Callers |-> NoKey]
  /\ abase = [c \in Callers |-> 0]
  /\ aresult = [c \in Callers |-> NoReview]
  /\ aindex = [c \in Callers |-> 0]
  /\ emitted = {}
  /\ begun = 0
  /\ raises = 0

Goto(c, pc) == apc' = [apc EXCEPT ![c] = pc]

\* One of the four handlers is called.
Begin(c, k) ==
  /\ apc[c] = "idle" /\ begun < MaxReviews
  /\ begun' = begun + 1
  /\ akey' = [akey EXCEPT ![c] = k]
  /\ Goto(c, "reading")
  /\ UNCHANGED <<history, abase, aresult, aindex, emitted, raises>>

\* latest_score: the score of the last saved review, if there is one.
ReadPrevious(c) ==
  /\ apc[c] = "reading"
  /\ abase' = [abase EXCEPT ![c] = Len(history[akey[c]])]
  /\ Goto(c, "completing")
  /\ UNCHANGED <<history, akey, aresult, aindex, emitted, begun, raises>>

\* What the model answers: no JSON object, or one with a score.
Answers == [object : BOOLEAN, score : RawScores]

\* Mutant of ParseScore: the score as the model gave it.
ParseScoreUnclamped(answer) == IF answer.object THEN answer.score ELSE 0

\* _parse: a score out of range is clamped, an answer that is no object counts
\* as 0.
ParseScore(answer) == IF answer.object THEN Clamp(answer.score, 0, 100) ELSE 0

\* Mutant of Drift: a drop of the threshold itself is none.
DriftBeyond(previous, score) ==
  \E p \in previous : p - score > DriftThreshold

Drift(previous, score) ==
  \E p \in previous : p - score >= DriftThreshold

\* The score read before the call, as a set of at most one.
Previous(c) ==
  {history[akey[c]][i].score : i \in {abase[c]} \ {0}}

\* A provider with the capability of the kind has answered.
Answered(c) ==
  /\ apc[c] = "completing"
  /\ Supporting(Registered, KindCapability[akey[c].kind]) # {}
  /\ \E answer \in Answers :
       aresult' = [aresult EXCEPT ![c] =
                     [score |-> ParseScore(answer),
                      drift |-> Drift(Previous(c), ParseScore(answer)),
                      degraded |-> ~answer.object,
                      served |-> TRUE,
                      base |-> abase[c]]]
  /\ Goto(c, "saving")
  /\ UNCHANGED <<history, akey, abase, aindex, emitted, begun, raises>>

\* NoProviderAvailable: a review with score 0 is saved, drift is not looked at.
Unavailable(c) ==
  /\ apc[c] = "completing"
  /\ aresult' = [aresult EXCEPT ![c] = [NoReview EXCEPT !.base = abase[c]]]
  /\ Goto(c, "saving")
  /\ UNCHANGED <<history, akey, abase, aindex, emitted, begun, raises>>

\* InMemoryReviewStore.save
Store(c) ==
  history' = [history EXCEPT ![akey[c]] = Append(@, aresult[c])]

\* _run returns or raises.
Leave(c) ==
  /\ Goto(c, "idle")
  /\ abase' = [abase EXCEPT ![c] = 0]
  /\ aresult' = [aresult EXCEPT ![c] = NoReview]
  /\ aindex' = [aindex EXCEPT ![c] = 0]
  /\ akey' = [akey EXCEPT ![c] = NoKey]

\* Mutant of Save: the outage is announced like a review.
SaveAndAnnounce(c) ==
  /\ apc[c] = "saving"
  /\ Store(c)
  /\ Goto(c, "reviewed")
  /\ aindex' = [aindex EXCEPT ![c] = Len(history[akey[c]]) + 1]
  /\ UNCHANGED <<akey, abase, aresult, emitted, begun, raises>>

\* The review is saved; without a provider that is all.
Save(c) ==
  /\ apc[c] = "saving"
  /\ Store(c)
  /\ IF aresult[c].served
     THEN /\ Goto(c, "reviewed")
          /\ aindex' = [aindex EXCEPT ![c] = Len(history[akey[c]]) + 1]
          /\ UNCHANGED <<akey, abase, aresult>>
     ELSE Leave(c)
  /\ UNCHANGED <<emitted, begun, raises>>

Publish(c, kind) ==
  emitted' = emitted \cup {[kind |-> kind, key |-> akey[c], index |-> aindex[c]]}

\* The event that follows the one of this kind, "idle" if there is none.
FollowedBy(c, kind) ==
  IF kind = "reviewed" /\ akey[c].kind = "spec_generation" THEN "spec"
  ELSE IF kind # "drift" /\ aresult[c].drift THEN "drift"
  ELSE "idle"

\* Mutant of EmitEvent: the first event is the last.
EmitOne(c) ==
  /\ apc[c] \in {"reviewed", "spec", "drift"}
  /\ Publish(c, apc[c])
  /\ Leave(c)
  /\ UNCHANGED <<history, begun, raises>>

\* _emit_events, one event at a time.
EmitEvent(c) ==
  /\ apc[c] \in {"reviewed", "spec", "drift"}
  /\ Publish(c, apc[c])
  /\ IF FollowedBy(c, apc[c]) = "idle" THEN Leave(c)
     ELSE /\ Goto(c, FollowedBy(c, apc[c]))
          /\ UNCHANGED <<akey, abase, aresult, aindex>>
  /\ UNCHANGED <<history, begun, raises>>

\* The awaited call raises, having taken effect or not, or int() rejects the
\* score NaN: the rest of the review does not happen.
Raise(c) ==
  /\ apc[c] # "idle"
  /\ raises' = raises + 1
  /\ Leave(c)
  /\ \/ UNCHANGED <<history, emitted>>
     \/ apc[c] = "saving" /\ Store(c) /\ UNCHANGED emitted
     \/ /\ apc[c] \in {"reviewed", "spec", "drift"}
        /\ Publish(c, apc[c])
        /\ UNCHANGED history
  /\ UNCHANGED begun

Step(c) ==
  ReadPrevious(c) \/ Answered(c) \/ Unavailable(c) \/ Save(c) \/ EmitEvent(c)

Next ==
  \E c \in Callers : (\E k \in Keys : Begin(c, k)) \/ Step(c) \/ Raise(c)

Spec == Init /\ [][Next]_avars

-----------------------------------------------------------------------------

\* The types, scores within 0..100 whatever the model answered among them.
TypeOK ==
  /\ history \in [Keys -> Seq(Review)]
  /\ apc \in [Callers -> ReviewPc]
  /\ akey \in [Callers -> Keys \cup {NoKey}]
  /\ \A c \in Callers : akey[c] = NoKey <=> apc[c] = "idle"
  /\ abase \in [Callers -> Nat]
  /\ aresult \in [Callers -> Review]
  /\ aindex \in [Callers -> Nat]
  /\ emitted \subseteq Event
  /\ begun \in Nat
  /\ raises \in Nat

Places == {place \in Keys \X (1..MaxReviews) : place[2] <= Len(history[place[1]])}

Dropped(k, i, j) == history[k][i].score - history[k][j].score >= DriftThreshold

\* Drift is flagged against a review that was the latest when the call began,
\* however many were saved in between; and a drop against the last review is
\* flagged unless that one was saved during the call or no provider answered.
DriftMatchesHistory ==
  \A place \in Places :
    LET k == place[1]
        j == place[2]
        r == history[k][j]
    IN /\ r.base < j
       /\ r.drift => r.base > 0 /\ Dropped(k, r.base, j)
       /\ j > 1 /\ Dropped(k, j - 1, j) /\ ~r.drift
            => r.base < j - 1 \/ ~r.served

\* An event is about a saved review of a provider; a drift event about one that
\* is flagged, after all other events of that review. Reviews without a
\* provider are never announced.
EventsMatchReviews ==
  \A e \in emitted :
    /\ <<e.key, e.index>> \in Places /\ history[e.key][e.index].served
    /\ [e EXCEPT !.kind = "reviewed"] \in emitted
    /\ e.kind = "spec" => e.key.kind = "spec_generation"
    /\ e.kind = "drift" =>
         /\ history[e.key][e.index].drift
         /\ e.key.kind = "spec_generation" => [e EXCEPT !.kind = "spec"] \in emitted

\* A saved review of a provider, or a drift it found, is silent for good only
\* if a call raised.
SilentBoundedByRaises ==
  Cardinality({place \in Places :
    LET r == history[place[1]][place[2]]
        Said(kind) == [kind |-> kind, key |-> place[1], index |-> place[2]] \in emitted
    IN /\ r.served /\ ~(Said("reviewed") /\ (r.drift => Said("drift")))
       /\ \A c \in Callers : <<akey[c], aindex[c]>> # place}) <= raises
=============================================================================
