------------------------- MODULE PresentationQueue -------------------------
(***************************************************************************)
(* src/packages/client/src/presentation-queue.ts: the queue from which a   *)
(* battle screen plays the events of a match, one step after the other.    *)
(*                                                                         *)
(* Pure operators.  An event is [seq, kind]; a kind stands for the events  *)
(* that are played alike.  Of a duration only whether it is positive is    *)
(* kept, and a step ends when the caller says that its time is up.         *)
(***************************************************************************)
EXTENDS Naturals, Sequences, SequencesExt, FiniteSetsExt

CONSTANT None

(* A step of a presentation: of which event, which of its stages, whether it  *)
(* is the last of them and whether it lasts.                                 *)
PresentationSteps == [seq : Nat, stage : Nat, last : BOOLEAN, lasts : BOOLEAN]

ASSUME NoneAssumption == None \notin Nat /\ None \notin PresentationSteps

(* CARD: the cards of a stack, shown one by one.  NOTICE: one stage.          *)
(* INSTANT: a stage of no duration, such as a change of connection or the    *)
(* second payment of one collection.  GRANT: a card that comes to the viewer *)
(* and has no stage of its own.  SECRET: what the viewer is not told.        *)
Kinds == {"CARD", "NOTICE", "INSTANT", "GRANT", "SECRET"}

(* Of each stage of an event, whether it lasts.                              *)
definitionsForEvent(kind) ==
  CASE kind = "CARD" -> <<TRUE, TRUE>>
    [] kind = "NOTICE" -> <<TRUE>>
    [] kind = "INSTANT" -> <<FALSE>>
    [] OTHER -> <<>>

presentationStepsForEvent(event) ==
  LET stages == definitionsForEvent(event.kind) IN
  [i \in DOMAIN stages |->
     [seq |-> event.seq, stage |-> i, last |-> i = Len(stages), lasts |-> stages[i]]]

(* The elements that are in the set, in their order.                         *)
Kept(seq, set) ==
  LET kept[n \in 0..Len(seq)] ==
        IF n = 0 THEN <<>>
        ELSE IF seq[n] \in set THEN Append(kept[n - 1], seq[n])
        ELSE kept[n - 1]
  IN kept[Len(seq)]

Later(n) == [seq : {m \in Nat : m > n}, kind : Kinds]

StepsOf(events) == FlattenSeq([i \in DOMAIN events |-> presentationStepsForEvent(events[i])])

(* "shown" is kept for the properties only: the steps that were completed.    *)
createPresentationQueue ==
  [active |-> None, pending |-> <<>>, concealed |-> {}, lastQueued |-> 0,
   lastCompleted |-> 0, shown |-> <<>>]

Steps(q) == (IF q.active = None THEN <<>> ELSE <<q.active>>) \o q.pending
isPresentationSettled(q) == q.active = None /\ q.pending = <<>>

Completed(q, steps) ==
  [q EXCEPT
     !.lastCompleted = Max({@} \cup {s.seq : s \in {x \in ToSet(steps) : x.last}}),
     !.shown = @ \o steps]

completeActiveStep(q) ==
  IF q.active = None THEN q ELSE [Completed(q, <<q.active>>) EXCEPT !.active = None]

(* Steps of no duration are completed on the way to the next one that lasts.  *)
startNextStep(q) ==
  LET n == Len(q.pending)
      next == CHOOSE i \in 1..(n + 1) :
                /\ \A j \in 1..(i - 1) : ~q.pending[j].lasts
                /\ i <= n => q.pending[i].lasts
  IN IF q.active # None \/ n = 0 THEN q
     ELSE [Completed(q, SubSeq(q.pending, 1, next - 1)) EXCEPT
             !.active = IF next > n THEN None ELSE q.pending[next],
             !.pending = SubSeq(q.pending, next + 1, n)]

(* Slip: concealed cards are turned with the last step that is played, not    *)
(* when nothing was left to play.                                            *)
revealAfterSteps(q) == q

revealConcealedCardsWhenSettled(q) ==
  IF isPresentationSettled(q) THEN [q EXCEPT !.concealed = {}] ELSE q

advancePresentationClock(q, timeIsUp) ==
  revealConcealedCardsWhenSettled(
    IF q.active = None THEN startNextStep(q)
    ELSE IF timeIsUp THEN startNextStep(completeActiveStep(q))
    ELSE q)

(* A card that is granted while something plays stays face down until the     *)
(* queue has come to rest.                                                   *)
enqueuePresentationEvents(q, events, timeIsUp) ==
  LET advanced == advancePresentationClock(q, timeIsUp)
      new == Kept(events, Later(advanced.lastQueued))
      pending == advanced.pending \o StepsOf(new)
      granted == {e.seq : e \in {x \in ToSet(new) : x.kind = "GRANT"}}
  IN revealConcealedCardsWhenSettled(startNextStep(
       [advanced EXCEPT
          !.pending = pending,
          !.concealed = @ \cup IF advanced.active # None \/ pending # <<>>
                               THEN granted ELSE {},
          !.lastQueued = IF new = <<>> THEN @ ELSE Last(new).seq]))

(* A match that is over is shown as its result at once.                      *)
replacePresentationFromSnapshot(recentEvents, ended, timeIsUp) ==
  LET last == Max({0} \cup {e.seq : e \in ToSet(recentEvents)}) IN
  IF ended
  THEN [createPresentationQueue EXCEPT !.lastQueued = last, !.lastCompleted = last]
  ELSE enqueuePresentationEvents(createPresentationQueue, recentEvents, timeIsUp)

(* A message is an EVENT_BATCH or a FULL_SNAPSHOT.                           *)
applyRealtimePresentationMessage(q, message, timeIsUp) ==
  IF message.type = "EVENT_BATCH"
  THEN enqueuePresentationEvents(q, message.events, timeIsUp)
  ELSE replacePresentationFromSnapshot(message.events, message.ended, timeIsUp)
=============================================================================
