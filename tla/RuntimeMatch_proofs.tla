-------------------------- MODULE RuntimeMatch_proofs --------------------------
(***************************************************************************)
(* Proofs about RuntimeMatch, for every number of players, commands,       *)
(* revisions and crashes.                                                  *)
(*                                                                         *)
(* The argument: whatever a handler makes of a match is Moved from it, a   *)
(* later revision of the right shape, so a refusal based on the revision,  *)
(* the deadline or the controls of the revision a command was made for can *)
(* never be overturned (StaysRefused); and the store only ever gains       *)
(* commands that were neither applied nor refused before.                  *)
(***************************************************************************)
EXTENDS RuntimeMatch, TLAPS

(* A match in the middle of a handler: its revision may be past the bound.   *)
Shapes ==
  [revision: Nat, asked: 1..MaxRevision,
   pending: Players \cup {Nobody}, deadline: {NoTimer} \cup 0..TurnTime,
   controller: [Players -> {"HUMAN", "CPU"}], disconnected: [Players -> BOOLEAN],
   processed: SUBSET [cmd: Commands, justNow: BOOLEAN]]

Sound(m) == m \in Matches /\ IsTimed(m) /\ StandInsMarked(m)

Moved(m, s) ==
  /\ Sound(s)
  /\ s.revision > m.revision
  /\ s.processed = m.processed

(* The commands of a match were made for revisions it has left, and have     *)
(* different ids and revisions.                                              *)
JournalSound(m) ==
  /\ \A e \in m.processed : e.cmd.expected < m.revision
  /\ \A e, f \in m.processed :
       e.cmd.id = f.cmd.id \/ e.cmd.expected = f.cmd.expected => e.cmd = f.cmd

StaysRefused(c, m) ==
  /\ c \notin Applied(m)
  /\ \/ c.expected < m.revision
     \/ c.expected = m.revision /\ Refusal(m, c) # "NONE"

Refusals == {"CONTROLLER_MISMATCH", "STALE_REVISION", "INPUT_DEADLINE_EXPIRED", "ILLEGAL"}

Answered ==
  /\ \A c \in requests : c.expected <= published
  /\ \A a \in answers : a.cmd \in requests
  /\ responses \subseteq answers
  /\ \A a \in answers : a.code = "OK" => a.cmd \in Applied(store)
  /\ \A a \in answers : a.code \in Refusals => StaysRefused(a.cmd, store)

IInv ==
  /\ TypeOK
  /\ PublishedIsDurable
  /\ Sound(store)
  /\ JournalSound(store)
  /\ Answered

USE PlayersAssumption, BoundsAssumption

-----------------------------------------------------------------------------
(* What handlers make of a match.                                            *)

LEMMA AskingLemma ==
  ASSUME NEW m \in Shapes, StandInsMarked(m),
         NEW p \in Players \cup {Nobody}, NEW n \in 1..MaxEvents,
         Fits(Asking(m, p, n))
  PROVE  Moved(m, Asking(m, p, n))
<1> DEFINE s == Asking(m, p, n)
<1>1. /\ s.revision = m.revision + n /\ s.asked = m.revision + n
      /\ s.pending = p /\ s.deadline = DeadlineFor(m, p)
      /\ s.controller = m.controller /\ s.disconnected = m.disconnected
      /\ s.processed = m.processed
  BY DEF Asking, Shapes
<1>2. DeadlineFor(m, p) \in {NoTimer} \cup 0..TurnTime
  BY DEF DeadlineFor, NoTimer
<1>3. s.revision \in 1..MaxRevision
  BY <1>1 DEF Fits, Shapes
<1>4. s \in Matches
  BY <1>1, <1>2, <1>3 DEF Asking, Shapes, Matches
<1>5. IsTimed(s)
  <2>1. CASE p = Nobody
    BY <2>1, <1>1 DEF IsTimed, Ended, DeadlineFor
  <2>2. CASE p # Nobody
    <3>1. m.controller[p] \in {"HUMAN", "CPU"}
      BY <2>2 DEF Shapes
    <3>2. TurnTime # NoTimer
      BY DEF NoTimer
    <3> QED BY <2>2, <3>1, <3>2, <1>1 DEF IsTimed, Ended, OwnedByCpu, DeadlineFor
  <2> QED BY <2>1, <2>2
<1>6. StandInsMarked(s)
  BY <1>1 DEF StandInsMarked
<1>7. s.revision > m.revision
  BY <1>1 DEF Shapes
<1> QED BY <1>1, <1>4, <1>5, <1>6, <1>7 DEF Moved, Sound

LEMMA MatchesAreShapes == ASSUME NEW m \in Matches PROVE m \in Shapes
  BY DEF Matches, Shapes

LEMMA ResolutionsMove ==
  ASSUME NEW m \in Shapes, StandInsMarked(m), NEW s \in Resolutions(m)
  PROVE  Moved(m, s)
<1>1. PICK p \in Players \cup {Nobody}, n \in 1..MaxEvents :
        s = Asking(m, p, n) /\ Fits(Asking(m, p, n))
  BY DEF Resolutions
<1> QED BY <1>1, AskingLemma

LEMMA CpuRunsMove ==
  ASSUME NEW m \in Shapes, StandInsMarked(m), NEW s \in CpuRuns(m)
  PROVE  s = m \/ Moved(m, s)
<1>1. CASE OwnedByCpu(m)
  <2>1. s \in Resolutions(m)
    BY <1>1 DEF CpuRuns
  <2> QED BY <2>1, ResolutionsMove
<1>2. CASE ~OwnedByCpu(m)
  BY <1>2 DEF CpuRuns
<1> QED BY <1>1, <1>2

LEMMA TimedOutLemma ==
  ASSUME NEW m \in Matches, StandInsMarked(m), IsDue(m)
  PROVE  /\ TimedOut(m) \in Shapes
         /\ StandInsMarked(TimedOut(m))
         /\ OwnedByCpu(TimedOut(m))
         /\ TimedOut(m).revision = m.revision + 1
         /\ TimedOut(m).processed = m.processed
<1> DEFINE s == TimedOut(m)
<1>1. m.pending \in Players
  BY DEF IsDue, Ended, Matches
<1>2. /\ s.revision = m.revision + 1 /\ s.asked = m.asked
      /\ s.pending = m.pending /\ s.deadline = NoTimer
      /\ s.controller = [m.controller EXCEPT ![m.pending] = "CPU"]
      /\ s.disconnected = [m.disconnected EXCEPT ![m.pending] = TRUE]
      /\ s.processed = m.processed
  BY DEF TimedOut, Matches
<1>3. /\ s.controller \in [Players -> {"HUMAN", "CPU"}]
      /\ s.disconnected \in [Players -> BOOLEAN]
  BY <1>1, <1>2 DEF Matches
<1>4. s \in Shapes
  <2>1. s = [m EXCEPT !.revision = s.revision, !.controller = s.controller,
                      !.disconnected = s.disconnected, !.deadline = s.deadline]
    BY DEF TimedOut, Matches
  <2>2. s.revision \in Nat /\ s.deadline \in {NoTimer} \cup 0..TurnTime
    BY <1>2 DEF Matches
  <2> HIDE DEF s
  <2> QED BY <1>3, <2>1, <2>2 DEF Shapes, Matches
<1>5. StandInsMarked(s)
  BY <1>1, <1>2 DEF StandInsMarked, Players, Matches
<1>6. OwnedByCpu(s)
  BY <1>1, <1>2 DEF OwnedByCpu, Ended, IsDue, Matches
<1> QED BY <1>2, <1>4, <1>5, <1>6

LEMMA DeadlineRunsMove ==
  ASSUME NEW m \in Matches, StandInsMarked(m), NEW s \in DeadlineRuns(m)
  PROVE  s = m \/ Moved(m, s)
<1>1. CASE IsDue(m)
  <2> DEFINE t == TimedOut(m)
  <2>1. /\ t \in Shapes /\ StandInsMarked(t) /\ OwnedByCpu(t)
        /\ t.revision = m.revision + 1 /\ t.processed = m.processed
    BY <1>1, TimedOutLemma
  <2>2. s \in Resolutions(t)
    BY <1>1, <2>1 DEF DeadlineRuns, CpuRuns
  <2>3. Moved(t, s)
    <3> HIDE DEF t
    <3> QED BY <2>1, <2>2, ResolutionsMove
  <2>4. s.revision > m.revision
    BY <2>1, <2>3 DEF Moved, Sound, Matches
  <2> QED BY <2>1, <2>3, <2>4 DEF Moved
<1>2. CASE ~IsDue(m)
  BY <1>2 DEF DeadlineRuns
<1> QED BY <1>1, <1>2

LEMMA MovedTwice ==
  ASSUME NEW m, m \in Matches, NEW a, NEW b, Moved(m, a), Moved(a, b)
  PROVE  Moved(m, b)
  BY DEF Moved, Sound, Matches

LEMMA ConnectionLemma ==
  ASSUME NEW m \in Matches, Sound(m), NEW p \in Humans, NEW connected \in BOOLEAN,
         Fits(ConnectionChanged(m, p, connected)), ConnectionChanged(m, p, connected) # m
  PROVE  Moved(m, ConnectionChanged(m, p, connected))
<1> DEFINE s == ConnectionChanged(m, p, connected)
<1>0. p \in Players /\ p # Nobody /\ p \notin Bots
  BY DEF Players
<1>1. CASE ~connected
  <2>1. s = [m EXCEPT !.revision = @ + 1, !.disconnected[p] = TRUE]
    BY <1>1 DEF ConnectionChanged
  <2>2. /\ s.revision = m.revision + 1 /\ s.asked = m.asked /\ s.pending = m.pending
        /\ s.deadline = m.deadline /\ s.controller = m.controller
        /\ s.disconnected = [m.disconnected EXCEPT ![p] = TRUE]
        /\ s.processed = m.processed
    BY <2>1 DEF Matches
  <2>3. s \in Matches
    <3>1. s.revision \in 1..MaxRevision
      BY <2>2 DEF Fits, Matches
    <3>2. s = [m EXCEPT !.revision = s.revision, !.disconnected = s.disconnected]
      BY <2>1 DEF Matches
    <3>3. s.disconnected \in [Players -> BOOLEAN]
      BY <1>0, <2>2 DEF Matches
    <3> HIDE DEF s
    <3> QED BY <3>1, <3>2, <3>3 DEF Matches
  <2>4. IsTimed(s) /\ StandInsMarked(s)
    BY <1>0, <2>2 DEF Sound, IsTimed, StandInsMarked, Ended, OwnedByCpu, Players, Matches
  <2> QED BY <2>2, <2>3, <2>4 DEF Moved, Sound, Matches
<1>2. CASE connected
  <2> DEFINE back == [m EXCEPT !.revision = @ + 1, !.disconnected[p] = FALSE,
                        !.controller[p] = IF TakenOver(m, p) THEN "HUMAN" ELSE @]
             timed == TakenOver(m, p) /\ m.deadline = NoTimer /\ IsPending(m, p)
  <2>1. s = IF timed THEN [back EXCEPT !.deadline = DeadlineFor(back, p)] ELSE back
    BY <1>2 DEF ConnectionChanged, Reconnected
  <2>2. /\ back.revision = m.revision + 1 /\ back.asked = m.asked
        /\ back.pending = m.pending /\ back.deadline = m.deadline
        /\ back.controller = [m.controller EXCEPT ![p] =
                                IF TakenOver(m, p) THEN "HUMAN" ELSE @]
        /\ back.disconnected = [m.disconnected EXCEPT ![p] = FALSE]
        /\ back.processed = m.processed
    BY DEF Matches
  <2>3. /\ s.revision = m.revision + 1 /\ s.asked = m.asked
        /\ s.pending = m.pending /\ s.processed = m.processed
        /\ s.controller = back.controller /\ s.disconnected = back.disconnected
        /\ s.deadline = IF timed THEN DeadlineFor(back, p) ELSE m.deadline
    <3>1. back \in Shapes
      <4>1. back = [m EXCEPT !.revision = back.revision, !.controller = back.controller,
                             !.disconnected = back.disconnected]
        BY DEF Matches
      <4>2. back.controller \in [Players -> {"HUMAN", "CPU"}]
        BY <1>0, <2>2 DEF Matches
      <4>3. back.disconnected \in [Players -> BOOLEAN]
        BY <1>0, <2>2 DEF Matches
      <4>4. back.revision \in Nat
        BY <2>2 DEF Matches
      <4> HIDE DEF back
      <4> QED BY <4>1, <4>2, <4>3, <4>4 DEF Shapes, Matches
    <3> HIDE DEF back
    <3> QED BY <2>1, <2>2, <3>1 DEF Shapes
  <2>4. TakenOver(m, p) => DeadlineFor(back, p) = TurnTime
    BY <1>0, <2>2 DEF DeadlineFor, Matches
  <2>5. m.disconnected[p] = TRUE
    <3>1. m.disconnected[p] # FALSE
      BY <1>2 DEF ConnectionChanged
    <3> QED BY <1>0, <3>1 DEF Matches
  <2>6. s \in Matches
    <3>1. s.revision \in 1..MaxRevision
      BY <2>3 DEF Fits, Matches
    <3>2. s.controller \in [Players -> {"HUMAN", "CPU"}]
      BY <1>0, <2>2, <2>3 DEF Matches
    <3>3. s.disconnected \in [Players -> BOOLEAN]
      BY <1>0, <2>2, <2>3 DEF Matches
    <3>4. s.deadline \in {NoTimer} \cup 0..TurnTime
      <4>1. CASE timed
        BY <4>1, <2>3, <2>4
      <4>2. CASE ~timed
        BY <4>2, <2>3 DEF Matches
      <4> QED BY <4>1, <4>2
    <3>5. s = [m EXCEPT !.revision = s.revision, !.controller = s.controller,
                        !.disconnected = s.disconnected, !.deadline = s.deadline]
      BY <2>1 DEF Matches
    <3> HIDE DEF s
    <3> QED BY <2>3, <3>1, <3>2, <3>3, <3>4, <3>5 DEF Matches
  <2>7. IsTimed(s)
    <3>1. CASE timed
      <4>1. s.deadline = TurnTime /\ TurnTime # NoTimer
        BY <3>1, <2>3, <2>4 DEF NoTimer
      <4>2. s.pending = p /\ s.controller[p] = "HUMAN"
        BY <3>1, <1>0, <2>2, <2>3 DEF IsPending, Matches
      <4> QED BY <1>0, <4>1, <4>2 DEF IsTimed, Ended, OwnedByCpu
    <3>2. CASE ~timed
      <4>1. s.deadline = m.deadline
        BY <3>2, <2>3
      <4>2. CASE Ended(m)
        BY <4>1, <4>2, <2>3 DEF Sound, IsTimed, Ended
      <4>3. CASE ~Ended(m)
        <5>1. s.controller[m.pending] = m.controller[m.pending]
          <6>1. CASE m.pending # p
            BY <6>1, <1>0, <2>2, <2>3, <4>3 DEF Ended, Matches
          <6>2. CASE m.pending = p /\ ~TakenOver(m, p)
            BY <6>2, <1>0, <2>2, <2>3, <4>3 DEF Ended, Matches
          <6>3. CASE m.pending = p /\ TakenOver(m, p)
            BY <6>3, <1>0, <3>2, <4>3 DEF TakenOver, IsPending, Sound, IsTimed, Ended, OwnedByCpu
          <6> QED BY <6>1, <6>2, <6>3
        <5> QED BY <4>1, <4>3, <5>1, <2>3 DEF Sound, IsTimed, Ended, OwnedByCpu
      <4> QED BY <4>2, <4>3
    <3> QED BY <3>1, <3>2
  <2>8. StandInsMarked(s)
    <3>1. \A q \in Humans : s.controller[q] = "CPU" => s.disconnected[q]
      <4> SUFFICES ASSUME NEW q \in Humans, s.controller[q] = "CPU" PROVE s.disconnected[q]
        OBVIOUS
      <4>1. q # p
        <5>1. s.controller[p] # "CPU"
          <6>1. m.controller[p] \in {"HUMAN", "CPU"}
            BY <1>0 DEF Matches
          <6> QED BY <1>0, <2>2, <2>3, <2>5, <6>1 DEF TakenOver, Matches
        <5> QED BY <5>1
      <4> QED BY <4>1, <1>0, <2>2, <2>3 DEF Sound, StandInsMarked, Players, Matches
    <3>2. \A q \in Bots : s.controller[q] = "CPU"
      BY <1>0, <2>2, <2>3 DEF Sound, StandInsMarked, Players, Matches
    <3> QED BY <3>1, <3>2 DEF StandInsMarked
  <2> QED BY <2>3, <2>6, <2>7, <2>8 DEF Moved, Sound, Matches
<1> QED BY <1>1, <1>2
(* Time passes for a match.                                                  *)
LEMMA OlderLemma ==
  ASSUME NEW m \in Matches
  PROVE  /\ Older(m) \in Matches
         /\ Older(m).revision = m.revision
         /\ Older(m).pending = m.pending
         /\ Older(m).controller = m.controller
         /\ Older(m).disconnected = m.disconnected
         /\ Older(m).deadline = IF m.deadline > 0 THEN m.deadline - 1 ELSE m.deadline
         /\ Applied(Older(m)) = Applied(m)
         /\ Older(m).processed = {[cmd |-> e.cmd, justNow |-> FALSE] : e \in m.processed}
         /\ Older(m).asked = m.asked
<1> DEFINE s == Older(m)
           aged == {[cmd |-> e.cmd, justNow |-> FALSE] : e \in m.processed}
           left == IF m.deadline > 0 THEN m.deadline - 1 ELSE m.deadline
<1>1. s = [m EXCEPT !.deadline = left, !.processed = aged]
  BY DEF Older, Matches
<1>2. aged \in SUBSET [cmd: Commands, justNow: BOOLEAN]
  <2>1. \A e \in m.processed : e.cmd \in Commands
    BY DEF Matches
  <2>2. ASSUME NEW x \in aged PROVE x \in [cmd: Commands, justNow: BOOLEAN]
    <3>1. PICK e \in m.processed : x = [cmd |-> e.cmd, justNow |-> FALSE]
      OBVIOUS
    <3> QED BY <2>1, <3>1
  <2> QED BY <2>2
<1>3. left \in {NoTimer} \cup 0..TurnTime
  BY DEF Matches, NoTimer
<1>4. /\ s.revision = m.revision /\ s.pending = m.pending /\ s.asked = m.asked
      /\ s.controller = m.controller /\ s.disconnected = m.disconnected
      /\ s.deadline = left /\ s.processed = aged
  BY <1>1 DEF Matches
<1>5. s \in Matches
  <2> HIDE DEF s, aged, left
  <2> QED BY <1>1, <1>2, <1>3 DEF Matches
<1>6. {e.cmd : e \in aged} = {e.cmd : e \in m.processed}
  <2>1. ASSUME NEW x \in {e.cmd : e \in aged} PROVE x \in {e.cmd : e \in m.processed}
    <3>1. PICK e \in m.processed : x = [cmd |-> e.cmd, justNow |-> FALSE].cmd
      OBVIOUS
    <3> QED BY <3>1
  <2>2. ASSUME NEW e \in m.processed PROVE e.cmd \in {f.cmd : f \in aged}
    <3>1. [cmd |-> e.cmd, justNow |-> FALSE] \in aged
      OBVIOUS
    <3>2. [cmd |-> e.cmd, justNow |-> FALSE].cmd = e.cmd
      OBVIOUS
    <3> HIDE DEF aged
    <3> QED BY <3>1, <3>2
  <2> HIDE DEF aged
  <2> QED BY <2>1, <2>2
<1>7. Applied(s) = Applied(m)
  BY <1>4, <1>6 DEF Applied
<1> QED BY <1>4, <1>5, <1>7

(* handleCommand *)
Accepted(m, c, s) ==
  /\ Sound(s)
  /\ s.revision > m.revision
  /\ s.processed = m.processed \cup {Processed(c)}
  /\ c.expected = m.revision
  /\ Refusal(m, c) = "NONE"
  /\ ~IsProcessed(m, c)

LEMMA HandleCommandLemma ==
  ASSUME NEW m \in Matches, StandInsMarked(m), NEW c \in Commands,
         NEW h \in HandleCommand(m, c)
  PROVE  \/ h.state = m /\ h.code = "OK" /\ c \in Applied(m)
         \/ h.state = m /\ h.code = "DUPLICATE_COMMAND_CONFLICT"
         \/ /\ h.state = m /\ h.code = Refusal(m, c) /\ h.code \in Refusals
            /\ c \notin Applied(m)
         \/ h.code = "OK" /\ Accepted(m, c, h.state)
<1>1. CASE IsProcessed(m, c)
  <2>1. /\ h.state = m
        /\ h.code = IF Processed(c) \in m.processed
                     THEN "OK" ELSE "DUPLICATE_COMMAND_CONFLICT"
    BY <1>1 DEF HandleCommand
  <2>2. Processed(c) \in m.processed => c \in Applied(m)
    BY DEF Processed, Applied
  <2> QED BY <2>1, <2>2
<1>2. CASE ~IsProcessed(m, c) /\ Refusal(m, c) # "NONE"
  <2>1. h.state = m /\ h.code = Refusal(m, c)
    BY <1>2 DEF HandleCommand
  <2>2. h.code \in Refusals
    BY <1>2, <2>1 DEF Refusal, Refusals
  <2>3. c \notin Applied(m)
    BY <1>2 DEF IsProcessed, Applied
  <2> QED BY <2>1, <2>2, <2>3
<1>3. CASE ~IsProcessed(m, c) /\ Refusal(m, c) = "NONE"
  <2>1. PICK s \in Resolutions(m) :
          h = [state |-> [s EXCEPT !.processed = @ \cup {Processed(c)}], code |-> "OK"]
    BY <1>3 DEF HandleCommand
  <2>2. Moved(m, s)
    BY ResolutionsMove, MatchesAreShapes
  <2> DEFINE t == [s EXCEPT !.processed = @ \cup {Processed(c)}]
  <2>3. /\ t.revision = s.revision /\ t.pending = s.pending /\ t.deadline = s.deadline
        /\ t.controller = s.controller /\ t.disconnected = s.disconnected
        /\ t.processed = s.processed \cup {Processed(c)}
        /\ t \in Matches
    <3>1. Processed(c) \in [cmd: Commands, justNow: BOOLEAN]
      BY DEF Processed
    <3> QED BY <2>2, <3>1 DEF Moved, Sound, Matches
  <2>4. IsTimed(t) /\ StandInsMarked(t)
    BY <2>2, <2>3 DEF Moved, Sound, IsTimed, StandInsMarked, Ended, OwnedByCpu
  <2>5. c.expected = m.revision
    BY <1>3 DEF Refusal
  <2>6. Accepted(m, c, t)
    BY <1>3, <2>2, <2>3, <2>4, <2>5 DEF Accepted, Moved, Sound
  <2> QED BY <2>1, <2>6
<1> QED BY <1>1, <1>2, <1>3

-----------------------------------------------------------------------------
(* What happens to the fates of commands.                                    *)

Keeps(m, s) ==
  /\ Sound(s)
  /\ JournalSound(s)
  /\ Applied(s) = Applied(m)
  /\ s.revision >= m.revision
  /\ \A c \in Commands : StaysRefused(c, m) => StaysRefused(c, s)

LEMMA SameKeeps ==
  ASSUME NEW m \in Matches, Sound(m), JournalSound(m) PROVE Keeps(m, m)
  BY DEF Keeps, Matches

LEMMA MovedKeeps ==
  ASSUME NEW m \in Matches, JournalSound(m), NEW s, Moved(m, s) PROVE Keeps(m, s)
<1>1. s \in Matches /\ s.revision > m.revision /\ s.processed = m.processed
  BY DEF Moved, Sound
<1>2. Applied(s) = Applied(m)
  BY <1>1 DEF Applied
<1>3. JournalSound(s)
  <2>1. \A e \in m.processed : e.cmd \in Commands
    BY DEF Matches
  <2> QED BY <1>1, <2>1 DEF JournalSound, Matches, Commands
<1>4. ASSUME NEW c \in Commands, StaysRefused(c, m) PROVE StaysRefused(c, s)
  BY <1>1, <1>2, <1>4 DEF StaysRefused, Matches, Commands
<1> QED BY <1>1, <1>2, <1>3, <1>4 DEF Keeps, Moved, Matches

LEMMA OlderKeeps ==
  ASSUME NEW m \in Matches, Sound(m), JournalSound(m) PROVE Keeps(m, Older(m))
<1> DEFINE s == Older(m)
<1>1. /\ s \in Matches /\ s.revision = m.revision /\ s.pending = m.pending
      /\ s.controller = m.controller /\ s.disconnected = m.disconnected
      /\ s.deadline = IF m.deadline > 0 THEN m.deadline - 1 ELSE m.deadline
      /\ Applied(s) = Applied(m)
      /\ s.processed = {[cmd |-> e.cmd, justNow |-> FALSE] : e \in m.processed}
  BY OlderLemma
<1> HIDE DEF s
<1>2. m.deadline \in {NoTimer} \cup 0..TurnTime
  BY DEF Matches
<1>3. s.deadline = NoTimer <=> m.deadline = NoTimer
  BY <1>1, <1>2 DEF NoTimer
<1>4. IsTimed(s) /\ StandInsMarked(s)
  BY <1>1, <1>3 DEF Sound, IsTimed, StandInsMarked, Ended, OwnedByCpu
<1>5. JournalSound(s)
  BY <1>1 DEF JournalSound
<1>6. ASSUME NEW c \in Commands, StaysRefused(c, m) PROVE StaysRefused(c, s)
  <2>1. m.deadline = 0 => s.deadline = 0
    BY <1>1
  <2>2. Refusal(m, c) # "NONE" => Refusal(s, c) # "NONE"
    BY <1>1, <2>1 DEF Refusal, IsPending
  <2> QED BY <1>1, <1>6, <2>2 DEF StaysRefused
<1>7. Keeps(m, s)
  BY <1>1, <1>4, <1>5, <1>6 DEF Keeps, Sound, Matches
<1> QED BY <1>7 DEF s

(* A command that is applied leaves the fate of every other one as it was.   *)
LEMMA AcceptedKeeps ==
  ASSUME NEW m \in Matches, JournalSound(m), NEW c \in Commands, NEW s, Accepted(m, c, s)
  PROVE  /\ JournalSound(s)
         /\ Applied(s) = Applied(m) \cup {c}
         /\ c \notin Applied(m)
         /\ ~StaysRefused(c, m)
         /\ \A d \in Commands : StaysRefused(d, m) => StaysRefused(d, s)
<1>1. /\ s \in Matches /\ s.revision > m.revision /\ c.expected = m.revision
      /\ s.processed = m.processed \cup {[cmd |-> c, justNow |-> TRUE]}
      /\ \A e \in m.processed : e.cmd.id # c.id
      /\ Refusal(m, c) = "NONE"
  BY DEF Accepted, Sound, IsProcessed, Processed
<1>2. Applied(s) = Applied(m) \cup {c}
  <2>1. [cmd |-> c, justNow |-> TRUE].cmd = c
    OBVIOUS
  <2>2. ASSUME NEW x \in Applied(s) PROVE x \in Applied(m) \cup {c}
    BY <1>1, <2>1 DEF Applied
  <2>3. ASSUME NEW x \in Applied(m) \cup {c} PROVE x \in Applied(s)
    BY <1>1, <2>1 DEF Applied
  <2> QED BY <2>2, <2>3
<1>3. c \notin Applied(m)
  BY <1>1 DEF Applied
<1>4. ~StaysRefused(c, m)
  BY <1>1 DEF StaysRefused, Matches
<1>5. JournalSound(s)
  <2>1. \A e \in m.processed : e.cmd \in Commands
    BY DEF Matches
  <2>2. \A e \in s.processed : e.cmd.expected < s.revision
    BY <1>1, <2>1 DEF JournalSound, Matches, Commands
  <2>3. \A e \in m.processed : e.cmd.expected # c.expected
    BY <1>1, <2>1 DEF JournalSound, Matches, Commands
  <2>4. \A e, f \in s.processed :
          e.cmd.id = f.cmd.id \/ e.cmd.expected = f.cmd.expected => e.cmd = f.cmd
    BY <1>1, <2>3 DEF JournalSound
  <2> QED BY <2>2, <2>4 DEF JournalSound
<1>6. ASSUME NEW d \in Commands, StaysRefused(d, m) PROVE StaysRefused(d, s)
  BY <1>1, <1>2, <1>4, <1>6 DEF StaysRefused, Matches, Commands
<1> QED BY <1>2, <1>3, <1>4, <1>5, <1>6
-----------------------------------------------------------------------------
(* The invariant.                                                            *)

LEMMA InitIInv == Init => IInv
<1> SUFFICES ASSUME Init PROVE IInv
  OBVIOUS
<1>1. PICK p \in Players :
        store = [revision |-> 1, pending |-> p, asked |-> 1,
                 deadline |-> IF p \in Humans THEN TurnTime ELSE NoTimer,
                 controller |-> [q \in Players |-> IF q \in Humans THEN "HUMAN" ELSE "CPU"],
                 disconnected |-> [q \in Players |-> FALSE],
                 processed |-> {}]
  BY DEF Init
<1>2. store \in Matches
  BY <1>1 DEF Matches, Players, NoTimer
<1>3. IsTimed(store) /\ StandInsMarked(store)
  BY <1>1 DEF IsTimed, StandInsMarked, Ended, OwnedByCpu, Players, NoTimer
<1>4. JournalSound(store)
  BY <1>1 DEF JournalSound
<1> QED BY <1>1, <1>2, <1>3, <1>4
         DEF Init, IInv, TypeOK, PublishedIsDurable, Sound, Answered

(* What a step does to the ledger.                                           *)
LedgerStep == Ledger!Next \/ UNCHANGED Ledger!ledger

(* A step after which the same commands have been answered in the same way.  *)
LEMMA KeepsStep ==
  ASSUME IInv, TypeOK', PublishedIsDurable', Keeps(store, store'),
         UNCHANGED <<requests, answers>>, responses' \subseteq responses,
         published' >= published
  PROVE  IInv' /\ LedgerStep
<1>1. \A c \in requests' : c.expected <= published'
  BY DEF IInv, TypeOK, Answered, Commands
<1>2. \A a \in answers' : a.cmd \in Commands
  BY DEF TypeOK, Answers
<1>3. Answered'
  BY <1>1, <1>2 DEF IInv, Answered, Keeps
<1>4. IInv'
  BY <1>3 DEF IInv, Keeps
<1>5. Applied(store)' = Applied(store) /\ Told' = Told
  BY DEF Keeps, Applied, Told
<1>6. store'.revision = store.revision \/ store'.revision \in (store.revision + 1)..MaxRevision
  BY DEF IInv, TypeOK, Keeps, Matches
<1>7. LedgerStep
  BY <1>5, <1>6 DEF LedgerStep, Ledger!Next, Ledger!Move, Ledger!ledger
<1> QED BY <1>4, <1>7

(* The store moves on, and the server is told about it or dies.              *)
LEMMA CommitStep ==
  ASSUME IInv, up, NEW s, Moved(mem, s), Commit(s),
         UNCHANGED <<responses, requests, answers>>, sockets' \in [Humans -> 0..MaxSockets]
  PROVE  IInv' /\ LedgerStep
<1>1. mem = store /\ store \in Matches /\ JournalSound(store)
  BY DEF IInv, PublishedIsDurable, TypeOK
<1>2. s \in Matches /\ s.revision > store.revision
  BY <1>1 DEF Moved, Sound
<1>3. TypeOK' /\ PublishedIsDurable' /\ published' >= published
  BY <1>1, <1>2 DEF IInv, TypeOK, PublishedIsDurable, Commit, SaveTransition, Matches
<1>4. Keeps(store, store')
  BY <1>1, MovedKeeps DEF Commit, SaveTransition
<1> QED BY <1>3, <1>4, KeepsStep

LEMMA DieStep ==
  ASSUME IInv, up, NEW s, s = mem \/ Moved(mem, s), NEW heard \in 1..MaxRevision,
         published <= heard, heard <= s.revision, Die(s, heard)
  PROVE  IInv' /\ LedgerStep
<1>1. mem = store /\ store \in Matches /\ JournalSound(store) /\ Sound(store)
  BY DEF IInv, PublishedIsDurable, TypeOK
<1>2. Keeps(store, s)
  BY <1>1, SameKeeps, MovedKeeps
<1>3. TypeOK'
  <2>1. crashes' \in 0..MaxCrashes
    BY DEF IInv, TypeOK, Die, Down
  <2>2. sockets' \in [Humans -> 0..MaxSockets] /\ responses' \subseteq Answers
    BY DEF Die, Down
  <2>3. store' \in Matches
    BY <1>2 DEF Keeps, Sound, Die
  <2>4. published' \in 1..MaxRevision
    BY DEF Die
  <2>5. mem' \in Matches /\ requests' \subseteq Commands /\ answers' \subseteq Answers
    BY DEF IInv, TypeOK, Die, Down
  <2> QED BY <2>1, <2>2, <2>3, <2>4, <2>5 DEF TypeOK, Die, Down
<1>4. PublishedIsDurable'
  BY DEF PublishedIsDurable, Die, Down
<1> QED BY <1>2, <1>3, <1>4, KeepsStep DEF Die, Down

LEMMA SendStep ==
  ASSUME IInv, NEW p \in Humans, NEW id \in CommandIds, NEW content \in Contents,
         Send(p, id, content)
  PROVE  IInv' /\ LedgerStep
<1>1. CommandOf(p, id, content) \in Commands
  BY DEF CommandOf, Commands, IInv, TypeOK
<1>2. CommandOf(p, id, content).expected <= published
  BY DEF CommandOf, IInv, TypeOK
<1>3. TypeOK'
  BY <1>1 DEF Send, IInv, TypeOK
<1>4. PublishedIsDurable' /\ Sound(store)' /\ JournalSound(store)'
  BY DEF Send, IInv, PublishedIsDurable, Sound, JournalSound, IsTimed, StandInsMarked,
         Ended, OwnedByCpu
<1>5. Answered'
  BY <1>2 DEF Send, IInv, Answered, StaysRefused, Refusal, Applied, IsPending
<1>6. UNCHANGED Ledger!ledger
  BY DEF Send, Ledger!ledger, Applied, Told
<1> QED BY <1>3, <1>4, <1>5, <1>6 DEF IInv, LedgerStep

LEMMA TellingLemma ==
  ASSUME NEW a, a.code # "DUPLICATE_COMMAND_CONFLICT", answers' = answers \cup {a}
  PROVE  Told' = Told \cup {Verdict(a)}
<1> DEFINE verdicts(S) == {Verdict(b) : b \in {d \in S : d.code # "DUPLICATE_COMMAND_CONFLICT"}}
<1>1. verdicts(answers \cup {a}) = verdicts(answers) \cup {Verdict(a)}
  OBVIOUS
<1> QED BY <1>1 DEF Told

(* An answer is recorded while the store stays as it is.                     *)
LEMMA ReplyStep ==
  ASSUME IInv, up, NEW a \in Answers, a.cmd \in requests, Reply(a),
         UNCHANGED <<store, mem, up, published, crashes>>,
         responses' \subseteq responses \cup {a},
         a.code = "OK" => a.cmd \in Applied(store),
         a.code \in Refusals => StaysRefused(a.cmd, store)
  PROVE  IInv' /\ LedgerStep
<1>1. TypeOK'
  BY DEF IInv, TypeOK, Reply
<1>2. PublishedIsDurable' /\ Sound(store') /\ JournalSound(store')
  BY DEF IInv, PublishedIsDurable
<1>3. Answered'
  BY DEF IInv, Answered, Reply
<1>4. IInv'
  BY <1>1, <1>2, <1>3 DEF IInv
<1>5. store' = store /\ answers' = answers \cup {a} /\ a.cmd \in Commands /\ a.code \in Codes
  BY DEF Reply, Answers
<1>6. CASE a.code = "DUPLICATE_COMMAND_CONFLICT"
  <2>1. Told' = Told
    BY <1>5, <1>6 DEF Told
  <2> QED BY <1>4, <1>5, <2>1 DEF LedgerStep, Ledger!ledger, Applied
<1>7. CASE a.code # "DUPLICATE_COMMAND_CONFLICT"
  <2>1. Told' = Told \cup {Verdict(a)}
    BY <1>5, <1>7, TellingLemma
  <2>2. CASE a.code = "OK"
    <3>1. Verdict(a) = <<a.cmd, "APPLIED">>
      BY <2>2 DEF Verdict
    <3>2. Ledger!Confirm(a.cmd)
      BY <1>5, <2>1, <2>2, <3>1 DEF Ledger!Confirm, Applied
    <3> QED BY <1>4, <1>5, <3>2 DEF LedgerStep, Ledger!Next
  <2>3. CASE a.code # "OK"
    <3>1. Verdict(a) = <<a.cmd, "REFUSED">>
      BY <2>3 DEF Verdict
    <3>2. a.cmd \notin Applied(store)
      BY <1>5, <1>7, <2>3 DEF Codes, Refusals, StaysRefused
    <3>3. Ledger!Refuse(a.cmd)
      BY <1>5, <2>1, <3>1, <3>2 DEF Ledger!Refuse, Applied
    <3> QED BY <1>4, <1>5, <3>3 DEF LedgerStep, Ledger!Next
  <2> QED BY <2>2, <2>3
<1> QED BY <1>6, <1>7

LEMMA AnswerFromCacheStep ==
  ASSUME IInv, up, NEW c \in requests, AnswerFromCache(c)
  PROVE  IInv' /\ LedgerStep
<1>1. PICK r \in responses :
        /\ SameKey(r.cmd, c)
        /\ Reply(IF r.cmd = c THEN r ELSE AnswerTo(c, "DUPLICATE_COMMAND_CONFLICT", mem))
        /\ UNCHANGED <<store, mem, up, responses, published, crashes>>
  BY DEF AnswerFromCache
<1>2. CASE r.cmd = c
  <2>1. r \in answers /\ r \in Answers
    BY DEF IInv, Answered, TypeOK
  <2>2. /\ r.code = "OK" => r.cmd \in Applied(store)
        /\ r.code \in Refusals => StaysRefused(r.cmd, store)
    BY <2>1 DEF IInv, Answered
  <2> QED BY <1>1, <1>2, <2>1, <2>2, ReplyStep
<1>3. CASE r.cmd # c
  <2> DEFINE a == AnswerTo(c, "DUPLICATE_COMMAND_CONFLICT", mem)
  <2>1. a \in Answers /\ a.cmd = c /\ a.code \notin Refusals /\ a.code # "OK"
    BY DEF IInv, TypeOK, Answers, AnswerTo, Codes, Refusals, Matches
  <2> HIDE DEF a
  <2>2. Reply(a)
    BY <1>1, <1>3 DEF a
  <2> QED BY <1>1, <2>1, <2>2, ReplyStep
<1> QED BY <1>2, <1>3

(* A command that takes effect: the server dies after saving it, or answers. *)
LEMMA AcceptedStep ==
  ASSUME IInv, up, NEW c \in requests, NEW s, Accepted(store, c, s), store' = s,
         TypeOK', PublishedIsDurable', published' >= published,
         UNCHANGED requests, responses' \subseteq answers',
         \/ answers' = answers
         \/ \E a : answers' = answers \cup {a} /\ a.cmd = c /\ a.code = "OK"
  PROVE  IInv' /\ LedgerStep
<1>1. store \in Matches /\ JournalSound(store) /\ c \in Commands
  BY DEF IInv, TypeOK
<1>2. /\ JournalSound(s) /\ Applied(s) = Applied(store) \cup {c}
      /\ \A d \in Commands : StaysRefused(d, store) => StaysRefused(d, s)
  BY <1>1, AcceptedKeeps
<1>3. Sound(s)
  BY DEF Accepted
<1>4. \A a \in answers : a.cmd \in Commands
  BY DEF IInv, TypeOK, Answers
<1>5. \A d \in requests' : d.expected <= published'
  BY DEF IInv, TypeOK, Answered, Commands
<1>6. "OK" \notin Refusals
  BY DEF Refusals
<1>7. Answered'
  BY <1>2, <1>4, <1>5, <1>6 DEF IInv, Answered
<1>8. IInv'
  BY <1>2, <1>3, <1>7 DEF IInv
<1>9. Ledger!Apply(c)
  <2>1. c.expected = store.revision /\ \A d \in Applied(store) : d.id # c.id
    BY DEF Accepted, IsProcessed, Applied
  <2>2. <<c, "REFUSED">> \notin Told
    <3> SUFFICES ASSUME NEW a \in answers, a.code # "DUPLICATE_COMMAND_CONFLICT",
                        Verdict(a) = <<c, "REFUSED">>
                 PROVE  FALSE
      BY DEF Told
    <3>1. a.cmd = c /\ a.code # "OK"
      BY DEF Verdict
    <3>2. a.code \in Refusals
      BY <3>1 DEF IInv, TypeOK, Answers, Codes, Refusals
    <3>3. StaysRefused(c, store)
      BY <3>1, <3>2 DEF IInv, Answered
    <3> QED BY <1>1, <3>3, AcceptedKeeps
  <2>3. store'.revision \in (store.revision + 1)..MaxRevision
    BY <1>1, <1>3 DEF Accepted, Sound, Matches
  <2>4. Applied(store)' = Applied(store) \cup {c}
    BY <1>2 DEF Applied
  <2>5. Told' \in {Told, Told \cup {<<c, "APPLIED">>}}
    <3>1. CASE answers' = answers
      BY <3>1 DEF Told
    <3>2. CASE \E a : answers' = answers \cup {a} /\ a.cmd = c /\ a.code = "OK"
      <4>1. PICK a : answers' = answers \cup {a} /\ a.cmd = c /\ a.code = "OK"
        BY <3>2
      <4>2. Verdict(a) = <<c, "APPLIED">>
        BY <4>1 DEF Verdict
      <4> QED BY <4>1, <4>2, TellingLemma
    <3> QED BY <3>1, <3>2
  <2> QED BY <2>1, <2>2, <2>3, <2>4, <2>5 DEF Ledger!Apply
<1> QED BY <1>1, <1>8, <1>9 DEF LedgerStep, Ledger!Next

LEMMA DecideStep ==
  ASSUME IInv, up, NEW c \in requests, Decide(c)
  PROVE  IInv' /\ LedgerStep
<1>0. /\ mem = store /\ store \in Matches /\ Sound(store) /\ JournalSound(store)
      /\ StandInsMarked(store) /\ c \in Commands /\ c.expected <= store.revision
  BY DEF IInv, PublishedIsDurable, TypeOK, Sound, Answered, Commands, Matches
<1>1. PICK h \in HandleCommand(mem, c) :
        LET answer == AnswerTo(c, h.code, h.state) IN
        \/ /\ IF h.state = mem
              THEN UNCHANGED <<store, mem, up, published, crashes>>
              ELSE Commit(h.state)
           /\ Remember(answer)
           /\ Reply(answer)
        \/ h.state # mem /\ Die(h.state, published)
  BY DEF Decide
<1> DEFINE a == AnswerTo(c, h.code, h.state)
<1>a. a.cmd = c /\ a.code = h.code /\ a.revision = h.state.revision
  BY DEF AnswerTo
<1>2. CASE h.state = mem
  <2>1. UNCHANGED <<store, mem, up, published, crashes>> /\ Remember(a) /\ Reply(a)
    BY <1>1, <1>2
  <2>2. \/ h.code = "OK" /\ c \in Applied(store)
        \/ h.code = "DUPLICATE_COMMAND_CONFLICT"
        \/ h.code = Refusal(store, c) /\ h.code \in Refusals /\ c \notin Applied(store)
    <3>1. ~Accepted(store, c, store)
      BY <1>0 DEF Accepted, Matches
    <3> QED BY <1>0, <1>2, <3>1, HandleCommandLemma
  <2>3. a \in Answers
    BY <1>0, <1>2, <2>2 DEF IInv, TypeOK, AnswerTo, Answers, Codes, Refusals, Matches
  <2>4. a.code = "OK" => a.cmd \in Applied(store)
    BY <1>a, <2>2 DEF Refusals
  <2>5. a.code \in Refusals => StaysRefused(a.cmd, store)
    BY <1>0, <1>a, <2>2 DEF Refusals, StaysRefused, Matches, Commands
  <2> HIDE DEF a
  <2> QED BY <1>a, <2>1, <2>3, <2>4, <2>5, ReplyStep DEF Remember
<1>3. CASE h.state # mem
  <2>1. Accepted(store, c, h.state) /\ h.code = "OK"
    BY <1>0, <1>3, HandleCommandLemma
  <2>2. h.state \in Matches /\ h.state.revision > store.revision
    BY <2>1 DEF Accepted, Sound
  <2>3. published <= store.revision /\ published \in 1..MaxRevision
    BY DEF IInv, TypeOK, PublishedIsDurable
  <2>4. CASE Commit(h.state) /\ Remember(a) /\ Reply(a)
    <3>1. a \in Answers
      BY <2>1, <2>2, <1>0 DEF IInv, TypeOK, AnswerTo, Answers, Codes, Matches
    <3> HIDE DEF a
    <3>2. TypeOK'
      BY <2>2, <2>4, <3>1 DEF IInv, TypeOK, Commit, SaveTransition, Remember, Reply, Matches
    <3>3. PublishedIsDurable' /\ published' >= published
      BY <2>2, <2>3, <2>4, <1>0 DEF PublishedIsDurable, Commit, SaveTransition, Matches
    <3>4. responses' \subseteq answers'
      BY <2>4 DEF IInv, Answered, Remember, Reply
    <3>5. store' = h.state /\ requests' = requests
      BY <2>4 DEF Commit, SaveTransition, Reply
    <3>6. \E b : answers' = answers \cup {b} /\ b.cmd = c /\ b.code = "OK"
      BY <1>a, <2>1, <2>4 DEF Reply
    <3> QED BY <2>1, <3>2, <3>3, <3>4, <3>5, <3>6, AcceptedStep
  <2>5. CASE Die(h.state, published)
    <3>1. TypeOK'
      <4>1. crashes' \in 0..MaxCrashes
        BY <2>5 DEF IInv, TypeOK, Die, Down
      <4>2. sockets' \in [Humans -> 0..MaxSockets] /\ responses' = {}
        BY <2>5 DEF Die, Down
      <4>3. /\ store' \in Matches /\ mem' \in Matches /\ published' \in 1..MaxRevision
            /\ requests' \subseteq Commands /\ answers' \subseteq Answers /\ up' = FALSE
        BY <2>2, <2>3, <2>5 DEF IInv, TypeOK, Die, Down
      <4> QED BY <4>1, <4>2, <4>3 DEF TypeOK
    <3>2. PublishedIsDurable' /\ published' >= published
      BY <2>2, <2>3, <2>5, <1>0 DEF PublishedIsDurable, Die, Down, Matches
    <3>3. /\ store' = h.state /\ requests' = requests /\ responses' = {}
          /\ answers' = answers
      BY <2>5 DEF Die, Down
    <3> QED BY <2>1, <3>1, <3>2, <3>3, AcceptedStep
  <2> QED BY <1>1, <1>3, <2>4, <2>5
<1> QED BY <1>2, <1>3

LEMMA AdvanceStep ==
  ASSUME IInv, Advance
  PROVE  IInv' /\ LedgerStep
<1>1. /\ up /\ mem = store /\ store \in Matches /\ Sound(store)
      /\ published <= store.revision /\ published \in 1..MaxRevision
  BY DEF Advance, IInv, PublishedIsDurable, TypeOK
<1>a. PICK a \in DeadlineRuns(mem) : \E b \in CpuRuns(a) :
        /\ b # mem
        /\ \/ Commit(b) /\ UNCHANGED <<responses, sockets, requests, answers>>
           \/ a # mem /\ Die(a, published)
           \/ b # a /\ Die(b, a.revision)
  BY DEF Advance
<1>2. PICK b \in CpuRuns(a) :
        /\ b # mem
        /\ \/ Commit(b) /\ UNCHANGED <<responses, sockets, requests, answers>>
           \/ a # mem /\ Die(a, published)
           \/ b # a /\ Die(b, a.revision)
  BY <1>a
<1>3. a = mem \/ Moved(mem, a)
  BY <1>1, DeadlineRunsMove DEF Sound
<1>4. a \in Matches /\ StandInsMarked(a) /\ a.revision >= store.revision
  BY <1>1, <1>3 DEF Moved, Sound, Matches
<1>5. b = a \/ Moved(a, b)
  BY <1>4, CpuRunsMove, MatchesAreShapes
<1>6. b = mem \/ Moved(mem, b)
  BY <1>1, <1>3, <1>5, MovedTwice
<1>7. CASE Commit(b) /\ UNCHANGED <<responses, sockets, requests, answers>>
  BY <1>1, <1>2, <1>6, <1>7, CommitStep DEF IInv, TypeOK
<1>8. CASE Die(a, published)
  BY <1>1, <1>3, <1>4, <1>8, DieStep DEF Matches
<1>9. CASE Die(b, a.revision)
  <2>1. a.revision \in 1..MaxRevision /\ published <= a.revision
    BY <1>1, <1>4 DEF Matches
  <2>2. a.revision <= b.revision
    BY <1>4, <1>5 DEF Moved, Sound, Matches
  <2> QED BY <1>1, <1>6, <1>9, <2>1, <2>2, DieStep
<1> QED BY <1>2, <1>7, <1>8, <1>9

LEMMA UnchangedStep ==
  ASSUME IInv, UNCHANGED <<store, mem, up, responses, published, requests, answers, crashes>>,
         sockets' \in [Humans -> 0..MaxSockets]
  PROVE  IInv' /\ LedgerStep
<1>1. TypeOK' /\ PublishedIsDurable' /\ published' >= published
  BY DEF IInv, TypeOK, PublishedIsDurable
<1>2. Keeps(store, store')
  BY SameKeeps DEF IInv, TypeOK
<1> QED BY <1>1, <1>2, KeepsStep

LEMMA ChangeConnectionStep ==
  ASSUME IInv, up, NEW p \in Humans, NEW connected \in BOOLEAN, NEW count \in 0..MaxSockets,
         ChangeConnection(p, connected, count)
  PROVE  IInv' /\ LedgerStep
<1> DEFINE m == ConnectionChanged(mem, p, connected)
<1>1. /\ mem = store /\ store \in Matches /\ Sound(store)
      /\ published <= store.revision /\ published \in 1..MaxRevision
  BY DEF IInv, PublishedIsDurable, TypeOK
<1>2. Fits(m)
  BY DEF ChangeConnection
<1>3. m # mem => Moved(mem, m)
  BY <1>1, <1>2, ConnectionLemma
<1>4. \/ /\ IF m = mem THEN UNCHANGED <<store, mem, up, published, crashes>>
                       ELSE Commit(m)
         /\ sockets' = [sockets EXCEPT ![p] = count]
         /\ UNCHANGED <<responses, requests, answers>>
      \/ m # mem /\ Die(m, published)
  BY DEF ChangeConnection
<1> HIDE DEF m
<1>5. CASE /\ IF m = mem THEN UNCHANGED <<store, mem, up, published, crashes>>
                         ELSE Commit(m)
           /\ sockets' = [sockets EXCEPT ![p] = count]
           /\ UNCHANGED <<responses, requests, answers>>
  <2>1. sockets' \in [Humans -> 0..MaxSockets]
    BY <1>5 DEF IInv, TypeOK
  <2>2. CASE m = mem
    BY <1>5, <2>1, <2>2, UnchangedStep
  <2>3. CASE m # mem
    BY <1>3, <1>5, <2>1, <2>3, CommitStep
  <2> QED BY <2>2, <2>3
<1>6. CASE m # mem /\ Die(m, published)
  <2>1. m.revision > store.revision /\ m \in Matches
    BY <1>1, <1>3, <1>6 DEF Moved, Sound
  <2>2. published <= m.revision
    BY <1>1, <2>1 DEF Matches
  <2> QED BY <1>1, <1>3, <1>6, <2>2, DieStep
<1> QED BY <1>4, <1>5, <1>6

LEMMA SocketStep ==
  ASSUME IInv, NEW p \in Humans, SocketOpen(p) \/ SocketClose(p)
  PROVE  IInv' /\ LedgerStep
<1>0. sockets \in [Humans -> 0..MaxSockets] /\ up
  BY DEF IInv, TypeOK, SocketOpen, SocketClose
<1>1. ASSUME NEW count \in 0..MaxSockets, OnlySocketsOf(p, count) PROVE IInv' /\ LedgerStep
  <2>1. sockets' \in [Humans -> 0..MaxSockets]
    BY <1>0, <1>1 DEF OnlySocketsOf
  <2> QED BY <1>1, <2>1, UnchangedStep DEF OnlySocketsOf
<1>2. CASE SocketOpen(p)
  <2>1. CASE sockets[p] = 0
    <3>1. ChangeConnection(p, TRUE, 1)
      BY <1>2, <2>1, Zenon DEF SocketOpen
    <3>2. 1 \in 0..MaxSockets
      OBVIOUS
    <3> QED BY <1>0, <3>1, <3>2, ChangeConnectionStep
  <2>2. CASE sockets[p] # 0
    BY <1>0, <1>1, <1>2, <2>2 DEF SocketOpen
  <2> QED BY <2>1, <2>2
<1>3. CASE SocketClose(p)
  <2>1. CASE sockets[p] = 1
    <3>1. ChangeConnection(p, FALSE, 0)
      BY <1>3, <2>1, Zenon DEF SocketClose
    <3>2. 0 \in 0..MaxSockets
      OBVIOUS
    <3> QED BY <1>0, <3>1, <3>2, ChangeConnectionStep
  <2>2. CASE sockets[p] # 1
    BY <1>0, <1>1, <1>3, <2>2 DEF SocketClose
  <2> QED BY <2>1, <2>2
<1> QED BY <1>2, <1>3

LEMMA RestartStep ==
  ASSUME IInv, Restart
  PROVE  IInv' /\ LedgerStep
<1>1. store \in Matches /\ published <= store.revision /\ published \in 1..MaxRevision
  BY DEF IInv, TypeOK, PublishedIsDurable
<1>2. TypeOK' /\ PublishedIsDurable' /\ published' >= published
  BY <1>1 DEF Restart, IInv, TypeOK, PublishedIsDurable, Matches
<1>3. Keeps(store, store')
  BY SameKeeps DEF Restart, IInv, TypeOK
<1> QED BY <1>2, <1>3, KeepsStep DEF Restart

LEMMA TickStep ==
  ASSUME IInv, Tick
  PROVE  IInv' /\ LedgerStep
<1>1. store \in Matches /\ mem \in Matches /\ Sound(store) /\ JournalSound(store)
  BY DEF IInv, TypeOK
<1>2. /\ Older(store) \in Matches /\ Older(mem) \in Matches
      /\ Older(store).revision = store.revision
  BY <1>1, OlderLemma
<1>3. TypeOK' /\ PublishedIsDurable' /\ published' >= published
  BY <1>2 DEF Tick, IInv, TypeOK, PublishedIsDurable
<1>4. Keeps(store, store')
  BY <1>1, OlderKeeps DEF Tick
<1> QED BY <1>3, <1>4, KeepsStep DEF Tick

LEMMA NextStep == IInv /\ [Next]_vars => IInv' /\ LedgerStep
<1> SUFFICES ASSUME IInv, [Next]_vars PROVE IInv' /\ LedgerStep
  OBVIOUS
<1>1. CASE \E p \in Humans, id \in CommandIds, content \in Contents : Send(p, id, content)
  BY <1>1, SendStep
<1>2. CASE \E c \in requests : Execute(c)
  BY <1>2, AnswerFromCacheStep, DecideStep DEF Execute
<1>3. CASE Advance
  BY <1>3, AdvanceStep
<1>4. CASE \E p \in Humans : SocketOpen(p) \/ SocketClose(p)
  BY <1>4, SocketStep
<1>5. CASE Crash
  <2>1. /\ up /\ mem = store /\ Die(store, published)
        /\ published \in 1..MaxRevision /\ published <= store.revision
    BY <1>5 DEF Crash, IInv, TypeOK, PublishedIsDurable
  <2> QED BY <2>1, DieStep
<1>6. CASE Restart
  BY <1>6, RestartStep
<1>7. CASE Tick
  BY <1>7, TickStep
<1>8. CASE UNCHANGED vars
  BY <1>8, UnchangedStep DEF vars, IInv, TypeOK
<1> QED BY <1>1, <1>2, <1>3, <1>4, <1>5, <1>6, <1>7, <1>8 DEF Next

-----------------------------------------------------------------------------
(* The invariant the other theorems rest on holds: of the match in the store, *)
(* of its journal of commands, and of what players were told about them      *)
(* (every handler of RuntimeMatch).                                          *)
THEOREM InvariantHolds == Spec => []IInv
<1>1. Init => IInv
  BY InitIInv
<1>2. IInv /\ [Next]_vars => IInv'
  BY NextStep
<1> QED BY <1>1, <1>2, PTL DEF Spec

(* Every variable keeps its type.                                            *)
THEOREM TypeCorrect == Spec => []TypeOK
<1>1. IInv => TypeOK
  BY DEF IInv
<1> QED BY <1>1, InvariantHolds, PTL

(* What was sent to anybody is in the store, and a running server has the     *)
(* store's match in memory (saveTransition before #matches.set before        *)
(* #notifyMatchEvents).                                                      *)
THEOREM PublishedSurvives == Spec => []PublishedIsDurable
<1>1. IInv => PublishedIsDurable
  BY DEF IInv
<1> QED BY <1>1, InvariantHolds, PTL

(* A person's input has a deadline and the CPU's has none, however the        *)
(* controls change hands (deadlineFor, applyEvent).                          *)
THEOREM InputsAreTimed == Spec => []HumanInputIsTimed
<1>1. IInv => HumanInputIsTimed
  BY DEF IInv, Sound, HumanInputIsTimed
<1> QED BY <1>1, InvariantHolds, PTL

(* The CPU stands in only for people marked disconnected, and keeps the seats *)
(* that were its own (INPUT_TIMED_OUT, PLAYER_CONNECTION_CHANGED).           *)
THEOREM StandInsStayMarked == Spec => []StandInsAreMarked
<1>1. IInv => StandInsAreMarked
  BY DEF IInv, Sound, StandInsAreMarked
<1> QED BY <1>1, InvariantHolds, PTL

(* A command takes effect at most once and only in the revision it was made   *)
(* for, and no verdict is ever taken back, whatever the order of retries,    *)
(* deaths of the process and restarts (execute, handleCommand,               *)
(* saveTransition, restorePersistedMatch).                                   *)
THEOREM LedgerImplemented == Spec => ImplementsLedger
<1>1. Init => Ledger!Init
  <2> SUFFICES ASSUME Init PROVE Ledger!Init
    OBVIOUS
  <2>0. IInv
    BY InitIInv
  <2>1. answers = {} /\ store.processed = {}
    BY DEF Init
  <2>2. Told = {} /\ Applied(store) = {}
    BY <2>1 DEF Told, Applied
  <2>3. store.revision \in 1..MaxRevision
    BY <2>0 DEF IInv, TypeOK, Matches
  <2> QED BY <2>2, <2>3 DEF Ledger!Init
<1>2. IInv /\ [Next]_vars => [Ledger!Next]_(Ledger!ledger)
  BY NextStep DEF LedgerStep
<1> QED BY <1>1, <1>2, InvariantHolds, PTL DEF Spec, ImplementsLedger, Ledger!Spec

(* No player is told of an effect that a restart forgets, nor of a refusal    *)
(* that a later retry turns into an effect.                                  *)
THEOREM VerdictsStayTrue == Spec => []VerdictsAreTrue
<1>1. IInv => VerdictsAreTrue
  <2> SUFFICES ASSUME IInv, NEW c \in Commands
               PROVE  /\ <<c, "APPLIED">> \in Told => c \in Applied(store)
                      /\ <<c, "REFUSED">> \in Told => c \notin Applied(store)
    BY DEF VerdictsAreTrue, Ledger!VerdictsAreTrue
  <2>1. ASSUME NEW a \in answers, a.code # "DUPLICATE_COMMAND_CONFLICT"
        PROVE  IF a.code = "OK" THEN a.cmd \in Applied(store) ELSE a.cmd \notin Applied(store)
    BY <2>1 DEF IInv, TypeOK, Answers, Codes, Answered, Refusals, StaysRefused
  <2> QED BY <2>1 DEF Told, Verdict
<1> QED BY <1>1, InvariantHolds, PTL

(* Of all the commands made for one revision, from any number of tabs, and of  *)
(* all those sent under one commandId, one takes effect at most.              *)
THEOREM CommandsAreExclusive == Spec => []OneCommandPerRevision
<1>1. IInv => OneCommandPerRevision
  BY DEF IInv, JournalSound, OneCommandPerRevision, Ledger!OneCommandPerRevision, Applied
<1> QED BY <1>1, InvariantHolds, PTL

-----------------------------------------------------------------------------
(* Deadlines.                                                                *)

AskedInPast(m) == m.asked <= m.revision

(* s asks for a later input than m, or for the same one with no later        *)
(* deadline.                                                                 *)
NotExtended(m, s) ==
  /\ AskedInPast(s)
  /\ s.asked = m.asked /\ m.deadline # NoTimer => s.deadline <= m.deadline

LEMMA ResolutionsAsk ==
  ASSUME NEW m \in Shapes, AskedInPast(m), NEW s \in Resolutions(m)
  PROVE  AskedInPast(s) /\ s.asked > m.asked
<1>1. PICK p \in Players \cup {Nobody}, n \in 1..MaxEvents : s = Asking(m, p, n)
  BY DEF Resolutions
<1>2. s.revision = m.revision + n /\ s.asked = m.revision + n
  BY <1>1 DEF Asking, Shapes
<1> QED BY <1>2 DEF AskedInPast, Shapes

LEMMA CpuRunsAsk ==
  ASSUME NEW m \in Shapes, AskedInPast(m), NEW s \in CpuRuns(m)
  PROVE  AskedInPast(s) /\ (s = m \/ s.asked > m.asked)
  BY ResolutionsAsk DEF CpuRuns

LEMMA DeadlineRunsAsk ==
  ASSUME NEW m \in Matches, StandInsMarked(m), AskedInPast(m), NEW s \in DeadlineRuns(m)
  PROVE  AskedInPast(s) /\ (s = m \/ s.asked > m.asked)
<1>1. CASE IsDue(m)
  <2> DEFINE t == TimedOut(m)
  <2>1. /\ t \in Shapes /\ OwnedByCpu(t) /\ t.revision = m.revision + 1
    BY <1>1, TimedOutLemma
  <2>2. t.asked = m.asked
    BY DEF TimedOut, Matches
  <2>3. s \in Resolutions(t)
    BY <1>1, <2>1 DEF DeadlineRuns, CpuRuns
  <2>4. AskedInPast(t)
    BY <2>1, <2>2 DEF AskedInPast, Matches
  <2> HIDE DEF t
  <2> QED BY <2>1, <2>2, <2>3, <2>4, ResolutionsAsk
<1>2. CASE ~IsDue(m)
  BY <1>2 DEF DeadlineRuns
<1> QED BY <1>1, <1>2

LEMMA HandleCommandAsks ==
  ASSUME NEW m \in Matches, StandInsMarked(m), AskedInPast(m), NEW c,
         NEW h \in HandleCommand(m, c)
  PROVE  AskedInPast(h.state) /\ (h.state = m \/ h.state.asked > m.asked)
<1>1. CASE h.state = m
  BY <1>1
<1>2. CASE h.state # m
  <2>1. PICK s \in Resolutions(m) :
          h = [state |-> [s EXCEPT !.processed = @ \cup {Processed(c)}], code |-> "OK"]
    BY <1>2 DEF HandleCommand
  <2>2. AskedInPast(s) /\ s.asked > m.asked
    BY ResolutionsAsk, MatchesAreShapes
  <2>3. s \in Matches
    BY ResolutionsMove, MatchesAreShapes DEF Moved, Sound
  <2>4. h.state.asked = s.asked /\ h.state.revision = s.revision
    BY <2>1, <2>3 DEF Matches
  <2> QED BY <2>2, <2>4 DEF AskedInPast
<1> QED BY <1>1, <1>2

LEMMA ConnectionChangedAsks ==
  ASSUME NEW m \in Matches, AskedInPast(m), NEW p \in Humans, NEW connected \in BOOLEAN
  PROVE  NotExtended(m, ConnectionChanged(m, p, connected))
<1> DEFINE s == ConnectionChanged(m, p, connected)
<1>1. /\ s.asked = m.asked
      /\ s.revision \in {m.revision, m.revision + 1}
      /\ m.deadline # NoTimer => s.deadline = m.deadline
  BY DEF ConnectionChanged, Reconnected, Matches
<1> QED BY <1>1 DEF NotExtended, AskedInPast, Matches

LEMMA NextNotExtends ==
  ASSUME IInv, AskedInPast(store), [Next]_vars
  PROVE  NotExtended(store, store')
<1>0. store \in Matches /\ StandInsMarked(store) /\ (up => mem = store)
  BY DEF IInv, TypeOK, Sound, PublishedIsDurable
<1>1. ASSUME NEW s, AskedInPast(s), s = store \/ s.asked > store.asked, store' = s
      PROVE  NotExtended(store, store')
  BY <1>0, <1>1 DEF NotExtended, Matches
<1>2. CASE \E p \in Humans, id \in CommandIds, content \in Contents : Send(p, id, content)
  BY <1>1, <1>2 DEF Send
<1>3. CASE \E c \in requests : Execute(c)
  <2>1. PICK c \in requests : Execute(c)
    BY <1>3
  <2>2. CASE AnswerFromCache(c)
    BY <1>1, <2>2 DEF AnswerFromCache
  <2>3. CASE Decide(c)
    <3>1. PICK h \in HandleCommand(mem, c) :
            store' = h.state \/ (h.state = mem /\ store' = store)
      BY <2>3 DEF Decide, Commit, SaveTransition, Die
    <3>2. mem = store
      BY <1>0, <2>1 DEF Execute
    <3> QED BY <1>0, <1>1, <3>1, <3>2, HandleCommandAsks
  <2> QED BY <2>1, <2>2, <2>3 DEF Execute
<1>4. CASE Advance
  <2>1. mem = store
    BY <1>0, <1>4 DEF Advance
  <2>2. PICK a \in DeadlineRuns(mem) : \E b \in CpuRuns(a) : store' \in {a, b}
    BY <1>4 DEF Advance, Commit, SaveTransition, Die
  <2>3. AskedInPast(a) /\ (a = store \/ a.asked > store.asked)
    BY <1>0, <2>1, DeadlineRunsAsk
  <2>4. a \in Matches
    BY <1>0, <2>1, DeadlineRunsMove DEF Moved, Sound
  <2>5. PICK b \in CpuRuns(a) : store' \in {a, b}
    BY <2>2
  <2>6. AskedInPast(b) /\ (b = a \/ b.asked > a.asked)
    BY <2>3, <2>4, CpuRunsAsk, MatchesAreShapes
  <2>7. b = a \/ b \in Matches
    <3>1. StandInsMarked(a)
      BY <1>0, <2>1, DeadlineRunsMove DEF Moved, Sound
    <3> QED BY <2>4, <3>1, CpuRunsMove, MatchesAreShapes DEF Moved, Sound
  <2>8. b = store \/ b.asked > store.asked
    BY <1>0, <2>3, <2>4, <2>6, <2>7 DEF Matches
  <2> QED BY <1>1, <2>3, <2>5, <2>6, <2>8
<1>5. CASE \E p \in Humans : SocketOpen(p) \/ SocketClose(p)
  <2>1. PICK p \in Humans : SocketOpen(p) \/ SocketClose(p)
    BY <1>5
  <2>2. ASSUME NEW connected \in BOOLEAN, NEW n, ChangeConnection(p, connected, n)
        PROVE  store' = store \/ store' = ConnectionChanged(mem, p, connected)
    BY <2>2 DEF ChangeConnection, Commit, SaveTransition, Die
  <2>3. \/ store' = store
        \/ store' = ConnectionChanged(mem, p, TRUE)
        \/ store' = ConnectionChanged(mem, p, FALSE)
    <3>1. CASE SocketOpen(p)
      BY <2>2, <3>1, Zenon DEF SocketOpen, OnlySocketsOf
    <3>2. CASE SocketClose(p)
      BY <2>2, <3>2, Zenon DEF SocketClose, OnlySocketsOf
    <3> QED BY <2>1, <3>1, <3>2
  <2>4. mem = store
    BY <1>0, <2>1 DEF SocketOpen, SocketClose
  <2>5. CASE store' = store
    BY <1>1, <2>5
  <2>6. CASE store' = ConnectionChanged(mem, p, TRUE)
    BY <1>0, <2>4, <2>6, ConnectionChangedAsks
  <2>7. CASE store' = ConnectionChanged(mem, p, FALSE)
    BY <1>0, <2>4, <2>7, ConnectionChangedAsks
  <2> QED BY <2>3, <2>5, <2>6, <2>7
<1>6. CASE Crash
  BY <1>1, <1>6 DEF Crash, Die
<1>7. CASE Restart
  BY <1>1, <1>7 DEF Restart
<1>8. CASE Tick
  <2>1. /\ store'.asked = store.asked /\ store'.revision = store.revision
        /\ store'.deadline = IF store.deadline > 0 THEN store.deadline - 1 ELSE store.deadline
    BY <1>0, <1>8, OlderLemma DEF Tick
  <2> QED BY <1>0, <2>1 DEF NotExtended, AskedInPast, Matches, NoTimer
<1>9. CASE UNCHANGED vars
  BY <1>1, <1>9 DEF vars
<1> QED BY <1>2, <1>3, <1>4, <1>5, <1>6, <1>7, <1>8, <1>9 DEF Next

(* While the same input is pending its deadline only comes closer: dropping   *)
(* and reopening the connection does not buy time (applyEvent).              *)
THEOREM DeadlinesOnlyApproach == Spec => DeadlineIsNeverExtended
<1>1. Init => AskedInPast(store)
  <2> SUFFICES ASSUME Init PROVE AskedInPast(store)
    OBVIOUS
  <2>1. store.asked = 1 /\ store.revision = 1
    BY DEF Init
  <2> QED BY <2>1 DEF AskedInPast
<1>2. IInv /\ AskedInPast(store) /\ [Next]_vars
        => /\ AskedInPast(store)'
           /\ [store'.asked = store.asked /\ store.deadline # NoTimer
                 => store'.deadline <= store.deadline]_vars
  BY NextNotExtends DEF NotExtended, AskedInPast
<1> QED BY <1>1, <1>2, InvariantHolds, PTL DEF Spec, DeadlineIsNeverExtended

-----------------------------------------------------------------------------
(* Repeated commands.                                                        *)

Conflict == "DUPLICATE_COMMAND_CONFLICT"

(* What this process answered is in its cache, under a key of its own, or is  *)
(* the conflict with what is there.                                          *)
CacheSound ==
  /\ \A r, s \in responses : SameKey(r.cmd, s.cmd) => r = s
  /\ \A b \in answers : b.life <= crashes
  /\ \A b \in answers : b.life = crashes =>
       \E r \in responses : /\ SameKey(r.cmd, b.cmd)
                            /\ IF r.cmd = b.cmd THEN b = r ELSE b.code = Conflict

OneLife == SameCommandSameAnswer /\ CacheSound

LEMMA DownOneLife ==
  ASSUME IInv, OneLife, Down
  PROVE  OneLife'
<1>1. crashes \in Nat /\ \A b \in answers : b.life \in Nat
  BY DEF IInv, TypeOK, Answers
<1>2. answers' = answers /\ responses' = {} /\ crashes' = crashes + 1
  BY DEF Down
<1>3. \A b \in answers' : b.life <= crashes' /\ b.life # crashes'
  BY <1>1, <1>2 DEF OneLife, CacheSound
<1> QED BY <1>2, <1>3 DEF OneLife, CacheSound, SameCommandSameAnswer

LEMMA QuietOneLife ==
  ASSUME OneLife, UNCHANGED <<responses, answers, crashes>>
  PROVE  OneLife'
  BY DEF OneLife, CacheSound, SameCommandSameAnswer

LEMMA FromCacheOneLife ==
  ASSUME IInv, OneLife, NEW c \in requests, AnswerFromCache(c)
  PROVE  OneLife'
<1>1. PICK r \in responses :
        /\ SameKey(r.cmd, c)
        /\ Reply(IF r.cmd = c THEN r ELSE AnswerTo(c, Conflict, mem))
        /\ UNCHANGED <<responses, crashes>>
  BY DEF AnswerFromCache, Conflict
<1>2. CASE r.cmd = c
  <2>1. answers' = answers
    BY <1>1, <1>2 DEF IInv, Answered, Reply
  <2> QED BY <1>1, <2>1, QuietOneLife
<1>3. CASE r.cmd # c
  <2> DEFINE b == AnswerTo(c, Conflict, mem)
  <2>1. b.cmd = c /\ b.code = Conflict /\ b.life = crashes
    BY DEF AnswerTo
  <2>2. answers' = answers \cup {b}
    BY <1>1, <1>3 DEF Reply
  <2> HIDE DEF b
  <2>3. CacheSound'
    <3>1. crashes \in Nat
      BY DEF IInv, TypeOK
    <3>2. b.life <= crashes
      BY <2>1, <3>1
    <3> QED BY <1>1, <1>3, <2>1, <2>2, <3>2 DEF OneLife, CacheSound
  <2>4. \A a \in answers : a.cmd = c /\ a.life = crashes => a.code = Conflict
    BY <1>1, <1>3 DEF OneLife, CacheSound, SameKey
  <2>5. SameCommandSameAnswer'
    BY <2>1, <2>2, <2>4 DEF OneLife, SameCommandSameAnswer, Conflict
  <2> QED BY <2>3, <2>5 DEF OneLife
<1> QED BY <1>2, <1>3

LEMMA DecideOneLife ==
  ASSUME IInv, OneLife, NEW c \in requests, Decide(c)
  PROVE  OneLife'
<1>1. PICK h \in HandleCommand(mem, c) :
        LET a == AnswerTo(c, h.code, h.state) IN
        \/ UNCHANGED crashes /\ Remember(a) /\ Reply(a)
        \/ Down
  BY DEF Decide, Commit, Die
<1> DEFINE a == AnswerTo(c, h.code, h.state)
<1>2. CASE UNCHANGED crashes /\ Remember(a) /\ Reply(a)
  <2>1. a.cmd = c /\ a.life = crashes
    BY DEF AnswerTo
  <2>2. /\ answers' = answers \cup {a} /\ responses' = responses \cup {a}
        /\ crashes' = crashes
    BY <1>2 DEF Remember, Reply
  <2>3. \A r \in responses : ~SameKey(r.cmd, c)
    BY DEF Decide
  <2> HIDE DEF a
  <2>4. \A b \in answers : b.life = crashes => ~SameKey(b.cmd, c)
    BY <2>3 DEF OneLife, CacheSound, SameKey
  <2>5. CacheSound'
    <3>1. crashes \in Nat
      BY DEF IInv, TypeOK
    <3>2. a.life <= crashes
      BY <2>1, <3>1
    <3>3. \A r, s \in responses' : SameKey(r.cmd, s.cmd) => r = s
      BY <2>1, <2>2, <2>3 DEF OneLife, CacheSound, SameKey
    <3>4. SameKey(a.cmd, a.cmd)
      BY DEF SameKey
    <3> QED BY <2>1, <2>2, <3>2, <3>3, <3>4 DEF OneLife, CacheSound
  <2>6. SameCommandSameAnswer'
    BY <2>1, <2>2, <2>4 DEF OneLife, SameCommandSameAnswer, SameKey
  <2> QED BY <2>5, <2>6 DEF OneLife
<1> QED BY <1>1, <1>2, DownOneLife

LEMMA NextOneLife ==
  ASSUME IInv, OneLife, [Next]_vars
  PROVE  OneLife'
<1>1. CASE \E p \in Humans, id \in CommandIds, content \in Contents : Send(p, id, content)
  BY <1>1, QuietOneLife DEF Send
<1>2. CASE \E c \in requests : Execute(c)
  BY <1>2, FromCacheOneLife, DecideOneLife DEF Execute
<1>3. CASE Advance
  <2>1. Down \/ UNCHANGED <<responses, answers, crashes>>
    BY <1>3 DEF Advance, Commit, Die
  <2> QED BY <2>1, DownOneLife, QuietOneLife
<1>4. CASE \E p \in Humans : SocketOpen(p) \/ SocketClose(p)
  <2>1. PICK p \in Humans : SocketOpen(p) \/ SocketClose(p)
    BY <1>4
  <2>2. ASSUME NEW connected \in BOOLEAN, NEW n, ChangeConnection(p, connected, n)
        PROVE  Down \/ UNCHANGED <<responses, answers, crashes>>
    BY <2>2 DEF ChangeConnection, Commit, Die
  <2>3. Down \/ UNCHANGED <<responses, answers, crashes>>
    BY <2>1, <2>2, Zenon DEF SocketOpen, SocketClose, OnlySocketsOf
  <2> QED BY <2>3, DownOneLife, QuietOneLife
<1>5. CASE Crash
  BY <1>5, DownOneLife DEF Crash, Die
<1>6. CASE Restart \/ Tick \/ UNCHANGED vars
  BY <1>6, QuietOneLife DEF Restart, Tick, vars
<1> QED BY <1>1, <1>2, <1>3, <1>4, <1>5, <1>6 DEF Next

(* As long as the process lives, a repeated command is answered as it was the *)
(* first time, whatever happened to the match in between (#responses).       *)
THEOREM RepeatedCommandsAgree == Spec => []SameCommandSameAnswer
<1>1. Init => OneLife
  BY DEF Init, OneLife, CacheSound, SameCommandSameAnswer
<1>2. IInv /\ OneLife /\ [Next]_vars => OneLife'
  BY NextOneLife
<1>3. OneLife => SameCommandSameAnswer
  BY DEF OneLife
<1> QED BY <1>1, <1>2, <1>3, InvariantHolds, PTL DEF Spec
=============================================================================
