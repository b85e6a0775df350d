--------------------------- MODULE Durability_proofs ---------------------------
(***************************************************************************)
(* Proofs about restarts, for any sets of rooms and matches, all dates and  *)
(* any number of crashes and failing writes.                                *)
(*                                                                         *)
(* The argument.  A started room is Covered: the record of its match does   *)
(* not expire before the room is deleted, because every save of a match     *)
(* renews it and a room is given its date of deletion when its match is     *)
(* first saved.  What was answered is Kept: it is in the stored checkpoint  *)
(* and, while the process runs, in memory, and neither is dropped before    *)
(* the dates that were answered; the same holds of what the process         *)
(* remembers to have saved, which is why it may skip a checkpoint.          *)
(***************************************************************************)
EXTENDS Durability, TLAPS

(* The match of a started room is in the store for as long as the room is.   *)
Covered(r, js, t) ==
  r.status = "STARTED" =>
    /\ r.match \in Matches
    /\ js[r.match].expires >= r.deleteAt
    /\ js[r.match].revision > 0 \/ js[r.match].expires <= t

Dated(r, t) ==
  /\ r.expires <= t + Retention /\ r.expires <= r.deleteAt
  /\ r.status = "EXPIRED" => r.deleteAt <= t + Retention

(* Edits of room i up to e are safe until u.                                 *)
Kept(i, e, u) ==
  e > 0 /\ now < u =>
    /\ online.version > 0 /\ online.expires >= u
    /\ online.checkpoint.rooms[i].edits >= e /\ online.checkpoint.rooms[i].deleteAt >= u
    /\ Running => rooms[i].edits >= e /\ rooms[i].deleteAt >= u

JournalsDated == \A m \in Matches : journals[m].expires <= now + Retention

RoomSound(i) ==
  /\ Covered(rooms[i], journals, now) /\ Dated(rooms[i], now)
  /\ i \notin used => rooms[i] = NoRoom

StoredSound(i) ==
  /\ Covered(online.checkpoint.rooms[i], journals, now)
  /\ Dated(online.checkpoint.rooms[i], now)
  /\ online.checkpoint.rooms[i].expires <= online.expires
  /\ i \notin used => online.checkpoint.rooms[i] = NoRoom

RememberedSound(i) ==
  \A c \in last :
    /\ i \notin used => c.rooms[i].edits = 0
    /\ rooms[i].status # "NONE" => c.rooms[i].edits <= rooms[i].edits
    /\ c.rooms[i].status \in {"OPEN", "STARTED"} =>
         c.rooms[i].expires <= now + Retention /\ Kept(i, c.rooms[i].edits, c.rooms[i].expires)

AnswerSound(i) ==
  /\ answered[i].until <= now + Retention
  /\ i \notin used => answered[i].edits = 0
  /\ Kept(i, answered[i].edits, answered[i].until)

(* A room that was edited is open or started, or it expired by this edit.    *)
EditSound ==
  busy = "REQUEST" =>
    \A i \in edited : \/ rooms[i].status \in {"OPEN", "STARTED"}
                      \/ \A c \in last : c.rooms[i].edits < rooms[i].edits

IInv ==
  /\ TypeOK /\ AlwaysStarts /\ JournalsDated /\ EditSound
  /\ busy # "NONE" => Running
  /\ \A i \in Rooms : RoomSound(i) /\ StoredSound(i) /\ RememberedSound(i) /\ AnswerSound(i)

---------------------------------------------------------------------------
(* Types                                                                     *)

Checkpoints == [rooms: [Rooms -> Room], cursors: [Matches -> Nat]]

LEMMA NoRoomIsRoom == NoRoom \in Room
BY DEF NoRoom, Room

LEMMA CheckpointType ==
  ASSUME NEW rs \in [Rooms -> Room], NEW ms \in [Matches -> Nat]
  PROVE  Checkpoint(rs, ms) \in Checkpoints
BY DEF Checkpoint, Checkpoints

LEMMA SweptType ==
  ASSUME now \in Nat
  PROVE  /\ \A r \in Room : SweptRoom(r) \in Room
         /\ \A rs \in [Rooms -> Room] : Swept(rs) \in [Rooms -> Room]
<1>1. ASSUME NEW r \in Room PROVE SweptRoom(r) \in Room
  <2>1. Expired(r) \in Room
    <3>1. now + Retention \in Nat /\ r.edits + 1 \in Nat
      BY TimesAssumption DEF Room
    <3> QED
      BY <3>1 DEF Expired, Room
  <2> QED
    BY <2>1, NoRoomIsRoom DEF SweptRoom
<1> QED
  BY <1>1 DEF Swept

LEMMA FingerprintType == TypeOK => Fingerprint \in Checkpoints
BY CheckpointType DEF TypeOK, Fingerprint

LEMMA InitType == Init => TypeOK
<1> SUFFICES ASSUME Init PROVE TypeOK
  OBVIOUS
<1>1. rooms \in [Rooms -> Room] /\ matches \in [Matches -> Nat]
  BY NoRoomIsRoom DEF Init
<1>2. Checkpoint(rooms, matches) \in Checkpoints
  BY <1>1, CheckpointType
<1> QED
  BY <1>1, <1>2 DEF Init, TypeOK, Checkpoints

(* What a checkpoint writes has its type.                                    *)
LEMMA WriteType ==
  ASSUME TypeOK, CheckpointDone \/ CheckpointThrows
  PROVE  /\ online' \in [version: Nat, expires: Nat, checkpoint: Checkpoints]
         /\ version' \in Nat /\ last' \in SUBSET Checkpoints
         /\ healthy' \in BOOLEAN /\ faults' \in Nat /\ disputed' \in BOOLEAN
<1>1. OnlineRow \in [version: Nat, expires: Nat, checkpoint: Checkpoints]
  BY FingerprintType, TimesAssumption DEF TypeOK, OnlineRow
<1>2. OnlineRow.version \in Nat
  BY <1>1
<1>3. faults' \in Nat
  BY DEF TypeOK, CheckpointDone, CheckpointThrows, Counted
<1> QED
  BY <1>1, <1>2, <1>3, FingerprintType
     DEF TypeOK, CheckpointDone, CheckpointThrows, Checkpoints

LEMMA SavesType ==
  ASSUME TypeOK, NEW ms, NEW f,
         SaveTransitions(ms) \/ (SaveThrowsAt(ms, f) /\ faults \in Nat)
  PROVE  /\ matches' \in [Matches -> Nat]
         /\ journals' \in [Matches -> [revision: Nat, expires: Nat]]
BY TimesAssumption DEF TypeOK, SaveTransitions, SaveThrowsAt, Journal

LEMMA ThrowsType ==
  ASSUME TypeOK, NEW ms, NEW f, SaveThrowsAt(ms, f)
  PROVE  faults' \in Nat
BY DEF TypeOK, SaveThrowsAt, Counted

LEMMA RoomOperations ==
  ASSUME now \in Nat, NEW r \in Room
  PROVE  /\ Edited(r) \in Room /\ Expired(r) \in Room
         /\ \A m \in Matches : StartedRoom(r, m) \in Room
         /\ LobbyRoom(r) \in Room
         /\ [status |-> "OPEN", match |-> NoMatch, expires |-> now + RoomTtl,
             deleteAt |-> now + RoomTtl + Retention, edits |-> 1] \in Room
<1>1. /\ now + Retention \in Nat /\ now + RoomTtl \in Nat /\ r.edits + 1 \in Nat
      /\ now + RoomTtl + Retention \in Nat
  BY TimesAssumption DEF Room
<1>2. Edited(r) \in Room
  BY <1>1 DEF Edited, Room
<1>3. Expired(r) \in Room
  BY <1>1 DEF Expired, Room
<1>4. ASSUME NEW m \in Matches PROVE StartedRoom(r, m) \in Room
  BY <1>1 DEF StartedRoom, Room
<1>5. LobbyRoom(r) \in Room
  BY <1>1 DEF LobbyRoom, Room
<1>6. [status |-> "OPEN", match |-> NoMatch, expires |-> now + RoomTtl,
       deleteAt |-> now + RoomTtl + Retention, edits |-> 1] \in Room
  BY <1>1 DEF Room
<1> QED
  BY <1>2, <1>3, <1>4, <1>5, <1>6

(* Steps of requests, sockets and the scheduler in memory.                   *)
LEMMA MemoryType ==
  ASSUME TypeOK,
         rooms' \in [Rooms -> Room], matches' \in [Matches -> Nat],
         journals' \in [Matches -> [revision: Nat, expires: Nat]],
         phase' \in {"UP", "STOPPING"}, healthy' \in BOOLEAN,
         admitted' \in Nat, owed' \in BOOLEAN,
         busy' \in {"NONE", "REQUEST", "TICK", "PURGE", "STOP"},
         edited' \subseteq Rooms, cached' \subseteq Rooms,
         used' \subseteq Rooms \cup Matches, faults' \in Nat,
         UNCHANGED <<now, version, last, purgeAt, online, answered, disputed, boots>>
  PROVE  TypeOK'
BY DEF TypeOK

---------------------------------------------------------------------------
(* What a step in memory may do to a room and to the record of a match       *)

RoomMoved(i) ==
  /\ Covered(rooms'[i], journals', now) /\ Dated(rooms'[i], now)
  /\ i \notin used' => rooms'[i] = NoRoom
  /\ \/ i \notin used \/ rooms'[i] = rooms[i]
     \/ rooms'[i] = NoRoom /\ rooms[i].deleteAt <= now
     \/ /\ rooms[i].status # "NONE" /\ rooms'[i].edits >= rooms[i].edits
        /\ rooms'[i].deleteAt >= rooms[i].deleteAt \/ rooms'[i].deleteAt >= now + Retention

JournalsMoved ==
  \A m \in Matches :
    /\ journals'[m].expires >= journals[m].expires /\ journals'[m].expires <= now + Retention
    /\ journals'[m].revision > 0 \/ journals'[m] = journals[m]

LEMMA JournalsStay ==
  ASSUME TypeOK, JournalsDated, UNCHANGED journals
  PROVE  JournalsMoved
BY DEF TypeOK, JournalsDated, JournalsMoved

LEMMA JournalsSaved ==
  ASSUME TypeOK, JournalsDated, NEW ms, NEW f,
         SaveTransitions(ms) \/ SaveThrowsAt(ms, f)
  PROVE  JournalsMoved
<1> SUFFICES ASSUME NEW m \in Matches
             PROVE  /\ journals'[m].expires >= journals[m].expires
                    /\ journals'[m].expires <= now + Retention
                    /\ journals'[m].revision > 0 \/ journals'[m] = journals[m]
  BY DEF JournalsMoved
<1>1. journals'[m] \in {journals[m], Journal(matches[m] + 1)}
  BY DEF TypeOK, SaveTransitions, SaveThrowsAt
<1>2. CASE journals'[m] = journals[m]
  BY <1>2 DEF TypeOK, JournalsDated
<1>3. CASE journals'[m] = Journal(matches[m] + 1)
  BY <1>3, TimesAssumption DEF TypeOK, JournalsDated, Journal
<1> QED
  BY <1>1, <1>2, <1>3

(* A match that is saved again covers its room as long as before.            *)
LEMMA CoverLasts ==
  ASSUME TypeOK, TypeOK', JournalsMoved, NEW r \in Room, Covered(r, journals, now)
  PROVE  Covered(r, journals', now)
<1> SUFFICES ASSUME r.status = "STARTED"
             PROVE  /\ r.match \in Matches
                    /\ journals'[r.match].expires >= r.deleteAt
                    /\ journals'[r.match].revision > 0 \/ journals'[r.match].expires <= now
  BY DEF Covered
<1>1. /\ r.match \in Matches
      /\ journals[r.match].expires >= r.deleteAt
      /\ journals[r.match].revision > 0 \/ journals[r.match].expires <= now
  BY DEF Covered
<1>2. /\ journals'[r.match].expires >= journals[r.match].expires
      /\ journals'[r.match].revision > 0 \/ journals'[r.match] = journals[r.match]
  BY <1>1 DEF JournalsMoved
<1>3. journals[r.match].expires \in Nat /\ journals'[r.match].expires \in Nat /\ r.deleteAt \in Nat
  BY <1>1 DEF TypeOK, Room
<1> QED
  BY <1>1, <1>2, <1>3

LEMMA SweptSound ==
  ASSUME now \in Nat, NEW r \in Room, Dated(r, now), NEW js, Covered(r, js, now)
  PROVE  /\ Covered(SweptRoom(r), js, now) /\ Dated(SweptRoom(r), now)
         /\ r = NoRoom => SweptRoom(r) = NoRoom
         /\ SweptRoom(r).status \in {"OPEN", "STARTED"} => SweptRoom(r) = r
         /\ SweptRoom(r).status = "STARTED" => r.deleteAt > now
         /\ \/ SweptRoom(r) = r
            \/ SweptRoom(r) = NoRoom /\ r.deleteAt <= now
            \/ /\ r.status # "NONE" /\ SweptRoom(r).edits >= r.edits
               /\ SweptRoom(r).deleteAt >= now + Retention
<1>1. CASE r.status # "NONE" /\ r.deleteAt <= now
  <2>1. SweptRoom(r) = NoRoom
    BY <1>1 DEF SweptRoom
  <2>2. Covered(NoRoom, js, now) /\ Dated(NoRoom, now)
    BY TimesAssumption DEF Covered, Dated, NoRoom
  <2> QED
    BY <1>1, <2>1, <2>2 DEF NoRoom
<1>2. CASE r.status = "OPEN" /\ r.expires <= now /\ ~(r.deleteAt <= now)
  <2>1. SweptRoom(r) = Expired(r)
    BY <1>2 DEF SweptRoom
  <2>2. /\ Expired(r).status = "EXPIRED" /\ Expired(r).deleteAt = now + Retention
        /\ Expired(r).edits = r.edits + 1 /\ Expired(r).expires = r.expires
    BY DEF Expired, Room
  <2>3. r.edits \in Nat /\ r.expires \in Nat
    BY DEF Room
  <2>4. Covered(Expired(r), js, now) /\ Dated(Expired(r), now)
    BY <2>2, <2>3, TimesAssumption DEF Covered, Dated
  <2> QED
    BY <1>2, <2>1, <2>2, <2>3, <2>4, TimesAssumption DEF NoRoom
<1>3. CASE /\ ~(r.status # "NONE" /\ r.deleteAt <= now)
           /\ ~(r.status = "OPEN" /\ r.expires <= now)
  <2>1. SweptRoom(r) = r
    BY <1>3 DEF SweptRoom
  <2>2. r.deleteAt \in Nat
    BY DEF Room
  <2> QED
    BY <1>3, <2>1, <2>2
<1> QED
  BY <1>1, <1>2, <1>3 DEF Room

(* Rooms that a step leaves alone, or only sweeps.                           *)
LEMMA RoomStays ==
  ASSUME IInv, TypeOK', JournalsMoved, used \subseteq used', NEW i \in Rooms,
         rooms'[i] = rooms[i]
  PROVE  RoomMoved(i)
<1>1. rooms[i] \in Room /\ RoomSound(i)
  BY DEF IInv, TypeOK
<1>2. Covered(rooms[i], journals', now)
  BY <1>1, CoverLasts DEF IInv, RoomSound
<1> QED
  BY <1>1, <1>2 DEF RoomMoved, RoomSound

LEMMA RoomSwept ==
  ASSUME IInv, TypeOK', JournalsMoved, used \subseteq used', NEW i \in Rooms,
         rooms'[i] = SweptRoom(rooms[i])
  PROVE  RoomMoved(i)
<1>1. rooms[i] \in Room /\ RoomSound(i) /\ now \in Nat
  BY DEF IInv, TypeOK
<1>2. Covered(rooms[i], journals', now)
  BY <1>1, CoverLasts DEF IInv, RoomSound
<1> QED
  BY <1>1, <1>2, SweptSound DEF RoomMoved, RoomSound

(* An operation on an open or started room, after the sweep.                 *)
LEMMA RoomEdited ==
  ASSUME IInv, TypeOK', JournalsMoved, used \subseteq used',
         NEW i \in Rooms, NEW q \in Room,
         Room1(i).status \in {"OPEN", "STARTED"},
         rooms' = [Swept(rooms) EXCEPT ![i] = q],
         Covered(q, journals', now), Dated(q, now),
         q.edits >= rooms[i].edits,
         q.deleteAt >= rooms[i].deleteAt \/ q.deleteAt >= now + Retention
  PROVE  \A j \in Rooms : RoomMoved(j)
<1>1. rooms[i] \in Room /\ RoomSound(i) /\ now \in Nat
  BY DEF IInv, TypeOK
<1>2. Room1(i) = rooms[i]
  BY <1>1, SweptSound DEF Room1, Swept, RoomSound
<1>3. rooms'[i] = q /\ \A j \in Rooms \ {i} : rooms'[j] = SweptRoom(rooms[j])
  BY DEF Swept
<1>4. rooms[i].status # "NONE" /\ i \in used
  BY <1>1, <1>2 DEF RoomSound, NoRoom
<1>5. RoomMoved(i)
  BY <1>3, <1>4 DEF RoomMoved
<1>6. ASSUME NEW j \in Rooms \ {i} PROVE RoomMoved(j)
  BY <1>3, <1>6, RoomSwept
<1> QED
  BY <1>5, <1>6

LEMMA KeptInMemory ==
  ASSUME IInv, NEW i \in Rooms, RoomMoved(i), Running,
         TypeOK', UNCHANGED <<now, online>>,
         NEW e \in Nat, NEW u \in Nat, u <= now + Retention, Kept(i, e, u),
         i \notin used => e = 0
  PROVE  Kept(i, e, u)'
<1> SUFFICES ASSUME e > 0, now < u
             PROVE  rooms'[i].edits >= e /\ rooms'[i].deleteAt >= u
  BY DEF Kept
<1>1. rooms[i].edits >= e /\ rooms[i].deleteAt >= u
  BY DEF Kept
<1>2. /\ rooms[i].edits \in Nat /\ rooms[i].deleteAt \in Nat /\ now \in Nat
      /\ rooms'[i].edits \in Nat /\ rooms'[i].deleteAt \in Nat /\ Retention \in Nat
  BY TimesAssumption DEF IInv, TypeOK, Room
<1>3. i \in used
  OBVIOUS
<1>4. ~(rooms[i].deleteAt <= now)
  BY <1>1, <1>2
<1> QED
  BY <1>1, <1>2, <1>3, <1>4 DEF RoomMoved

LEMMA InMemory ==
  ASSUME IInv, TypeOK', Running, Running',
         UNCHANGED <<now, online, last, answered>>, used \subseteq used',
         JournalsMoved, \A i \in Rooms : RoomMoved(i),
         EditSound'
  PROVE  IInv'
<1>1. AlwaysStarts' /\ JournalsDated'
  BY DEF AlwaysStarts, Running, JournalsMoved, JournalsDated
<1> SUFFICES ASSUME NEW i \in Rooms
             PROVE  (RoomSound(i) /\ StoredSound(i) /\ RememberedSound(i) /\ AnswerSound(i))'
  BY <1>1 DEF IInv
<1> DEFINE stored == online.checkpoint.rooms[i]
<1>t. /\ now \in Nat /\ rooms[i] \in Room /\ rooms'[i] \in Room /\ stored \in Room
      /\ answered[i] \in [edits: Nat, until: Nat]
  BY DEF IInv, TypeOK
<1>2. RoomSound(i)'
  BY DEF RoomMoved, RoomSound
<1>3. StoredSound(i)'
  <2>1. StoredSound(i)
    BY DEF IInv
  <2>2. Covered(stored, journals', now)
    BY <1>t, <2>1, CoverLasts DEF IInv, StoredSound
  <2> QED
    BY <2>1, <2>2 DEF StoredSound
<1>4. RememberedSound(i)'
  <2> SUFFICES ASSUME NEW c \in last
               PROVE  /\ i \notin used' => c.rooms[i].edits = 0
                      /\ rooms'[i].status # "NONE" => c.rooms[i].edits <= rooms'[i].edits
                      /\ c.rooms[i].status \in {"OPEN", "STARTED"} =>
                           /\ c.rooms[i].expires <= now + Retention
                           /\ Kept(i, c.rooms[i].edits, c.rooms[i].expires)'
    BY DEF RememberedSound, Kept
  <2>1. c.rooms[i] \in Room
    BY DEF IInv, TypeOK
  <2>2. c.rooms[i].edits \in Nat /\ c.rooms[i].expires \in Nat /\ rooms[i].edits \in Nat
        /\ rooms'[i].edits \in Nat
    BY <1>t, <2>1 DEF Room
  <2>3. /\ i \notin used => c.rooms[i].edits = 0
        /\ rooms[i].status # "NONE" => c.rooms[i].edits <= rooms[i].edits
        /\ c.rooms[i].status \in {"OPEN", "STARTED"} =>
             /\ c.rooms[i].expires <= now + Retention
             /\ Kept(i, c.rooms[i].edits, c.rooms[i].expires)
    BY DEF IInv, RememberedSound
  <2>4. rooms'[i].status # "NONE" => c.rooms[i].edits <= rooms'[i].edits
    BY <2>2, <2>3 DEF RoomMoved, NoRoom
  <2>5. c.rooms[i].status \in {"OPEN", "STARTED"} =>
          Kept(i, c.rooms[i].edits, c.rooms[i].expires)'
    BY <2>2, <2>3, KeptInMemory
  <2> QED
    BY <2>3, <2>4, <2>5
<1>5. AnswerSound(i)'
  <2>1. AnswerSound(i)
    BY DEF IInv
  <2>2. Kept(i, answered[i].edits, answered[i].until)'
    BY <1>t, <2>1, KeptInMemory DEF AnswerSound
  <2> QED
    BY <2>1, <2>2 DEF AnswerSound, Kept
<1> QED
  BY <1>2, <1>3, <1>4, <1>5

---------------------------------------------------------------------------
(* The steps in memory                                                       *)

LEMMA StepFacts ==
  ASSUME IInv
  PROVE  /\ TypeOK /\ JournalsDated /\ now \in Nat
         /\ \A i \in Rooms : rooms[i] \in Room /\ RoomSound(i)
         /\ rooms \in [Rooms -> Room] /\ Swept(rooms) \in [Rooms -> Room]
         /\ \A i \in Rooms : Room1(i) = SweptRoom(rooms[i]) /\ Swept(rooms)[i] = SweptRoom(rooms[i])
         /\ \A i \in Rooms : Room1(i).status \in {"OPEN", "STARTED"} => Room1(i) = rooms[i]
<1>1. TypeOK /\ JournalsDated /\ now \in Nat /\ rooms \in [Rooms -> Room]
      /\ \A i \in Rooms : rooms[i] \in Room /\ RoomSound(i)
  BY DEF IInv, TypeOK
<1>2. Swept(rooms) \in [Rooms -> Room]
  BY <1>1, SweptType
<1>3. \A i \in Rooms : Room1(i) = SweptRoom(rooms[i]) /\ Swept(rooms)[i] = SweptRoom(rooms[i])
  BY DEF Room1, Swept
<1>4. \A i \in Rooms : Room1(i).status \in {"OPEN", "STARTED"} => Room1(i) = rooms[i]
  BY <1>1, <1>3, SweptSound DEF RoomSound
<1> QED
  BY <1>1, <1>2, <1>3, <1>4

LEMMA CreateSound ==
  ASSUME IInv, NEW i \in Rooms, Create(i)
  PROVE  IInv'
<1> DEFINE q == [status |-> "OPEN", match |-> NoMatch, expires |-> now + RoomTtl,
                 deleteAt |-> now + RoomTtl + Retention, edits |-> 1]
<1>1. q \in Room
  BY StepFacts, RoomOperations
<1>2. rooms' = [rooms EXCEPT ![i] = q] /\ rooms' \in [Rooms -> Room]
  BY <1>1, StepFacts DEF Create
<1>3. TypeOK'
  <2>1. admitted' \in Nat /\ phase \in {"UP", "STOPPING"}
    BY StepFacts DEF Create, Handles, Idle, Running, TypeOK
  <2> QED
    BY <1>2, <2>1, StepFacts, MemoryType DEF Create, ToCommit, TypeOK
<1>4. JournalsMoved
  BY StepFacts, JournalsStay DEF Create
<1>5. ASSUME NEW j \in Rooms PROVE RoomMoved(j)
  <2>1. CASE j = i
    <3>1. rooms'[i] = q /\ i \in used' /\ i \notin used
      BY <1>2, StepFacts DEF Create
    <3>2. Covered(q, journals', now) /\ Dated(q, now)
      BY StepFacts, TimesAssumption DEF Covered, Dated
    <3> QED
      BY <2>1, <3>1, <3>2 DEF RoomMoved
  <2>2. CASE j # i
    BY <2>2, <1>2, <1>3, <1>4, RoomStays DEF Create
  <2> QED
    BY <2>1, <2>2
<1>6. EditSound'
  BY <1>2, StepFacts DEF EditSound, Create, ToCommit
<1> QED
  BY <1>3, <1>4, <1>5, <1>6, InMemory DEF Create, Handles, Idle, Running, ToCommit

LEMMA RetrySound ==
  ASSUME IInv, NEW i \in Rooms, Retry(i)
  PROVE  IInv'
<1>1. rooms' \in [Rooms -> Room]
  BY StepFacts DEF Retry
<1>2. TypeOK'
  <2>1. admitted' \in Nat /\ phase \in {"UP", "STOPPING"} /\ edited' \subseteq Rooms
    BY StepFacts DEF Retry, Handles, Idle, Running, TypeOK
  <2> QED
    BY <1>1, <2>1, StepFacts, MemoryType DEF Retry, TypeOK, history
<1>3. JournalsMoved
  BY StepFacts, JournalsStay DEF Retry
<1>4. ASSUME NEW j \in Rooms PROVE RoomMoved(j)
  <2>1. rooms'[j] = rooms[j] \/ rooms'[j] = SweptRoom(rooms[j])
    BY StepFacts DEF Retry
  <2> QED
    BY <2>1, <1>2, <1>3, RoomStays, RoomSwept DEF Retry, history
<1>5. EditSound'
  BY DEF EditSound, Retry
<1> QED
  BY <1>2, <1>3, <1>4, <1>5, InMemory DEF Retry, Handles, Idle, Running, history

LEMMA EditMoves ==
  ASSUME IInv, TypeOK', JournalsMoved, used \subseteq used', NEW i \in Rooms,
         Room1(i).status \in {"OPEN", "STARTED"},
         rooms' = [Swept(rooms) EXCEPT ![i] = Edited(Swept(rooms)[i])]
  PROVE  /\ \A j \in Rooms : RoomMoved(j)
         /\ rooms'[i].status \in {"OPEN", "STARTED"}
<1>1. /\ Room1(i) = rooms[i] /\ rooms[i] \in Room /\ Edited(rooms[i]) \in Room
      /\ rooms[i].status \in {"OPEN", "STARTED"}
  BY StepFacts, RoomOperations
<1>2. rooms' = [Swept(rooms) EXCEPT ![i] = Edited(rooms[i])]
  BY <1>1, StepFacts
<1>3. /\ Edited(rooms[i]).status = rooms[i].status /\ Edited(rooms[i]).match = rooms[i].match
      /\ Edited(rooms[i]).expires = rooms[i].expires /\ Edited(rooms[i]).deleteAt = rooms[i].deleteAt
      /\ Edited(rooms[i]).edits = rooms[i].edits + 1
      /\ rooms[i].edits \in Nat /\ rooms[i].deleteAt \in Nat
  BY <1>1 DEF Edited, Room
<1>4. Covered(rooms[i], journals', now) /\ Dated(rooms[i], now)
  BY <1>1, StepFacts, CoverLasts DEF RoomSound
<1>5. Covered(Edited(rooms[i]), journals', now) /\ Dated(Edited(rooms[i]), now)
  BY <1>3, <1>4 DEF Covered, Dated
<1>6. /\ Edited(rooms[i]).edits >= rooms[i].edits
      /\ Edited(rooms[i]).deleteAt >= rooms[i].deleteAt
  BY <1>3
<1>7. rooms'[i] = Edited(rooms[i])
  BY <1>2, StepFacts
<1> QED
  BY <1>1, <1>2, <1>3, <1>5, <1>6, <1>7, RoomEdited

LEMMA EditedType ==
  ASSUME IInv, NEW i \in Rooms,
         rooms' = [Swept(rooms) EXCEPT ![i] = Edited(Swept(rooms)[i])]
  PROVE  rooms' \in [Rooms -> Room]
BY StepFacts, SweptType, RoomOperations

LEMMA EditStepSound ==
  ASSUME IInv, NEW i \in Rooms, Edit(i)
  PROVE  IInv'
<1>1. TypeOK'
  <2>1. rooms' \in [Rooms -> Room]
    BY EditedType DEF Edit
  <2>2. admitted' \in Nat /\ phase \in {"UP", "STOPPING"}
    BY StepFacts DEF Edit, Handles, Idle, Running, TypeOK
  <2> QED
    BY <2>1, <2>2, StepFacts, MemoryType DEF Edit, ToCommit, TypeOK
<1>2. JournalsMoved
  BY StepFacts, JournalsStay DEF Edit
<1>3. /\ \A j \in Rooms : RoomMoved(j)
      /\ rooms'[i].status \in {"OPEN", "STARTED"}
  BY <1>1, <1>2, EditMoves DEF Edit
<1>4. EditSound'
  BY <1>3 DEF EditSound, Edit, ToCommit
<1> QED
  BY <1>1, <1>2, <1>3, <1>4, InMemory DEF Edit, Handles, Idle, Running, ToCommit

LEMMA LeaveSound ==
  ASSUME IInv, NEW i \in Rooms, Leave(i)
  PROVE  IInv'
<1>1. /\ Room1(i) = rooms[i] /\ rooms[i] \in Room /\ Expired(rooms[i]) \in Room
      /\ rooms[i].status = "OPEN"
  BY StepFacts, RoomOperations DEF Leave
<1>q. PICK q \in Room : q = Expired(rooms[i])
  BY <1>1
<1>2. rooms' = [Swept(rooms) EXCEPT ![i] = q] /\ rooms' \in [Rooms -> Room]
  BY <1>q, <1>1, StepFacts DEF Leave
<1>3. TypeOK'
  <2>1. admitted' \in Nat /\ phase \in {"UP", "STOPPING"}
    BY StepFacts DEF Leave, Handles, Idle, Running, TypeOK
  <2> QED
    BY <1>2, <2>1, StepFacts, MemoryType DEF Leave, ToCommit, TypeOK
<1>4. JournalsMoved
  BY StepFacts, JournalsStay DEF Leave
<1>5. /\ q.status = "EXPIRED" /\ q.expires = rooms[i].expires /\ q.deleteAt = now + Retention
      /\ q.edits = rooms[i].edits + 1 /\ rooms[i].edits \in Nat /\ now + Retention \in Nat
  BY <1>q, <1>1, StepFacts, TimesAssumption DEF Expired, Room
<1>6. \A j \in Rooms : RoomMoved(j)
  <2>1. Covered(q, journals', now) /\ Dated(q, now)
    BY <1>1, <1>5, StepFacts DEF Covered, Dated, RoomSound
  <2>2. q.edits >= rooms[i].edits /\ q.deleteAt >= now + Retention
    BY <1>5
  <2>3. Room1(i).status \in {"OPEN", "STARTED"} /\ used \subseteq used'
    BY <1>1 DEF Leave
  <2>4. q.deleteAt >= rooms[i].deleteAt \/ q.deleteAt >= now + Retention
    BY <2>2
  <2> QED
    BY <1>1, <1>2, <1>3, <1>4, <2>1, <2>2, <2>3, <2>4, RoomEdited
<1>7. EditSound'
  <2> SUFFICES ASSUME NEW c \in last PROVE c.rooms[i].edits < rooms'[i].edits
    BY DEF EditSound, Leave, ToCommit
  <2>1. c.rooms[i].edits <= rooms[i].edits
    BY <1>1 DEF IInv, RememberedSound
  <2>2. c.rooms[i].edits \in Nat
    BY DEF IInv, TypeOK, Room
  <2>3. rooms'[i] = q
    BY <1>2, StepFacts
  <2> QED
    BY <1>5, <2>1, <2>2, <2>3
<1> QED
  BY <1>3, <1>4, <1>6, <1>7, InMemory DEF Leave, Handles, Idle, Running, ToCommit

(* A match is put into the store when it is created.                         *)
LEMMA JournalCreated ==
  ASSUME TypeOK, JournalsDated, NEW m \in Matches,
         journals' = [journals EXCEPT ![m] = Journal(1)]
  PROVE  /\ JournalsMoved
         /\ journals' \in [Matches -> [revision: Nat, expires: Nat]]
         /\ journals'[m] = [revision |-> 1, expires |-> now + Retention]
<1>1. Journal(1) = [revision |-> 1, expires |-> now + Retention] /\ now + Retention \in Nat
  BY TimesAssumption DEF TypeOK, Journal
<1>2. journals' \in [Matches -> [revision: Nat, expires: Nat]]
  BY <1>1 DEF TypeOK
<1>3. journals'[m] = [revision |-> 1, expires |-> now + Retention]
  BY <1>1 DEF TypeOK
<1>4. ASSUME NEW x \in Matches
      PROVE  /\ journals'[x].expires >= journals[x].expires
             /\ journals'[x].expires <= now + Retention
             /\ journals'[x].revision > 0 \/ journals'[x] = journals[x]
  <2>1. CASE x = m
    BY <2>1, <1>1, <1>3 DEF TypeOK, JournalsDated
  <2>2. CASE x # m
    BY <2>2 DEF TypeOK, JournalsDated
  <2> QED
    BY <2>1, <2>2
<1> QED
  BY <1>2, <1>3, <1>4 DEF JournalsMoved

LEMMA StartSound ==
  ASSUME IInv, NEW i \in Rooms, NEW m \in Matches, Start(i, m)
  PROVE  IInv'
<1>1. /\ Room1(i) = rooms[i] /\ rooms[i] \in Room /\ StartedRoom(rooms[i], m) \in Room
      /\ rooms[i].status = "OPEN"
  BY StepFacts, RoomOperations DEF Start
<1>q. PICK q \in Room : q = StartedRoom(rooms[i], m)
  BY <1>1
<1>2. rooms' = [Swept(rooms) EXCEPT ![i] = q] /\ rooms' \in [Rooms -> Room]
  BY <1>1, <1>q, StepFacts DEF Start
<1>3. /\ JournalsMoved /\ journals' \in [Matches -> [revision: Nat, expires: Nat]]
      /\ journals'[m] = [revision |-> 1, expires |-> now + Retention]
  BY StepFacts, JournalCreated DEF Start
<1>4. TypeOK'
  <2>1. admitted' \in Nat /\ phase \in {"UP", "STOPPING"}
    BY StepFacts DEF Start, Handles, Idle, Running, TypeOK
  <2>2. matches' \in [Matches -> Nat] /\ cached' \subseteq Rooms
        /\ used' \subseteq Rooms \cup Matches
    BY StepFacts DEF Start, TypeOK
  <2> QED
    BY <1>2, <1>3, <2>1, <2>2, StepFacts, MemoryType DEF Start, ToCommit, TypeOK
<1>5. /\ q.status = "STARTED" /\ q.match = m
      /\ q.expires = now + Retention /\ q.deleteAt = now + Retention
      /\ q.edits = rooms[i].edits + 1 /\ rooms[i].edits \in Nat /\ now + Retention \in Nat
  BY <1>1, <1>q, StepFacts, TimesAssumption DEF StartedRoom, Room
<1>6. \A j \in Rooms : RoomMoved(j)
  <2>1. Covered(q, journals', now) /\ Dated(q, now)
    BY <1>3, <1>5 DEF Covered, Dated
  <2>2. /\ q.edits >= rooms[i].edits /\ q.deleteAt >= now + Retention
        /\ Room1(i).status \in {"OPEN", "STARTED"} /\ used \subseteq used'
    BY <1>1, <1>5 DEF Start
  <2> QED
    BY <1>2, <1>3, <1>4, <2>1, <2>2, RoomEdited
<1>7. EditSound'
  <2>1. rooms'[i] = q
    BY <1>2, StepFacts
  <2> QED
    BY <1>5, <2>1 DEF EditSound, Start, ToCommit
<1> QED
  BY <1>3, <1>4, <1>6, <1>7, InMemory DEF Start, Handles, Idle, Running, ToCommit

LEMMA StartFailsSound ==
  ASSUME IInv, NEW i \in Rooms, NEW m \in Matches, StartFails(i, m)
  PROVE  IInv'
<1>1. JournalsMoved /\ journals' \in [Matches -> [revision: Nat, expires: Nat]]
  <2>1. CASE UNCHANGED journals
    BY <2>1, StepFacts, JournalsStay DEF TypeOK
  <2>2. CASE journals' = [journals EXCEPT ![m] = Journal(1)]
    BY <2>2, StepFacts, JournalCreated
  <2> QED
    BY <2>1, <2>2 DEF StartFails
<1>2. TypeOK'
  <2>1. rooms' \in [Rooms -> Room]
    BY EditedType DEF StartFails
  <2>2. admitted' \in Nat /\ phase \in {"UP", "STOPPING"} /\ faults' \in Nat
    BY StepFacts DEF StartFails, Handles, Idle, Running, TypeOK, Counted
  <2>3. matches' \in [Matches -> Nat] /\ used' \subseteq Rooms \cup Matches
    BY StepFacts DEF StartFails, TypeOK
  <2> QED
    BY <1>1, <2>1, <2>2, <2>3, StepFacts, MemoryType DEF StartFails, Refuse, TypeOK
<1>3. \A j \in Rooms : RoomMoved(j)
  BY <1>1, <1>2, EditMoves DEF StartFails
<1>4. EditSound'
  BY DEF EditSound, StartFails, Refuse, Handles, Idle
<1> QED
  BY <1>1, <1>2, <1>3, <1>4, InMemory DEF StartFails, Handles, Idle, Running, Refuse

LEMMA ReturnToLobbySound ==
  ASSUME IInv, NEW i \in Rooms, ReturnToLobby(i)
  PROVE  IInv'
<1>1. /\ Room1(i) = rooms[i] /\ rooms[i] \in Room /\ rooms[i].status = "STARTED"
      /\ LobbyRoom(rooms[i]) \in Room
  BY StepFacts, RoomOperations DEF ReturnToLobby
<1>q. PICK q \in Room : q = LobbyRoom(rooms[i])
  BY <1>1
<1>2. rooms' = [Swept(rooms) EXCEPT ![i] = q] /\ rooms' \in [Rooms -> Room]
  BY <1>1, <1>q, StepFacts DEF ReturnToLobby
<1>3. TypeOK'
  <2>1. admitted' \in Nat /\ phase \in {"UP", "STOPPING"}
    BY StepFacts DEF ReturnToLobby, Handles, Idle, Running, TypeOK
  <2> QED
    BY <1>2, <2>1, StepFacts, MemoryType DEF ReturnToLobby, ToCommit, TypeOK
<1>4. JournalsMoved
  BY StepFacts, JournalsStay DEF ReturnToLobby
<1>5. /\ q.status = "OPEN" /\ q.expires = rooms[i].expires /\ q.deleteAt = rooms[i].deleteAt
      /\ q.edits = rooms[i].edits + 1 /\ rooms[i].edits \in Nat /\ rooms[i].deleteAt \in Nat
  BY <1>1, <1>q DEF LobbyRoom, Room
<1>6. \A j \in Rooms : RoomMoved(j)
  <2>1. Covered(q, journals', now) /\ Dated(q, now)
    BY <1>5, StepFacts DEF Covered, Dated, RoomSound
  <2>2. /\ q.edits >= rooms[i].edits /\ q.deleteAt >= rooms[i].deleteAt
        /\ Room1(i).status \in {"OPEN", "STARTED"} /\ used \subseteq used'
    BY <1>1, <1>5 DEF ReturnToLobby
  <2> QED
    BY <1>2, <1>3, <1>4, <2>1, <2>2, RoomEdited
<1>7. EditSound'
  <2>1. rooms'[i] = q
    BY <1>2, StepFacts
  <2> QED
    BY <1>5, <2>1 DEF EditSound, ReturnToLobby, ToCommit
<1> QED
  BY <1>3, <1>4, <1>6, <1>7, InMemory DEF ReturnToLobby, Handles, Idle, Running, ToCommit

(* Steps that change no room or only sweep.                                  *)
LEMMA Unedited ==
  ASSUME IInv, TypeOK', Running, Running', busy' # "REQUEST",
         UNCHANGED <<now, online, last, answered>>, used \subseteq used',
         JournalsMoved, rooms' \in {rooms, Swept(rooms)}
  PROVE  IInv'
<1>1. ASSUME NEW j \in Rooms PROVE RoomMoved(j)
  <2>1. rooms'[j] = rooms[j] \/ rooms'[j] = SweptRoom(rooms[j])
    BY StepFacts
  <2> QED
    BY <2>1, RoomStays, RoomSwept
<1>2. EditSound'
  BY DEF EditSound
<1> QED
  BY <1>1, <1>2, InMemory

LEMMA RefusedSound ==
  ASSUME IInv, Refused
  PROVE  IInv'
<1>1. TypeOK'
  <2>1. admitted' \in Nat /\ phase \in {"UP", "STOPPING"} /\ rooms' \in [Rooms -> Room]
    BY StepFacts DEF Refused, Handles, Idle, Running, TypeOK
  <2> QED
    BY <2>1, StepFacts, MemoryType DEF Refused, Refuse, TypeOK
<1>2. JournalsMoved
  BY StepFacts, JournalsStay DEF Refused
<1> QED
  BY <1>1, <1>2, Unedited DEF Refused, Refuse, Handles, Idle, Running

LEMMA AdmitSound ==
  ASSUME IInv, Admit
  PROVE  IInv'
<1>1. TypeOK'
  BY StepFacts DEF Admit, TypeOK, history
<1>2. JournalsMoved
  BY StepFacts, JournalsStay DEF Admit
<1> QED
  BY <1>1, <1>2, Unedited DEF Admit, Running, history

LEMMA StopSound ==
  ASSUME IInv, Stop
  PROVE  IInv'
<1>1. TypeOK'
  BY StepFacts DEF Stop, Fatal, TypeOK, history
<1>2. JournalsMoved
  BY StepFacts, JournalsStay DEF Stop
<1> QED
  BY <1>1, <1>2, Unedited DEF Stop, Fatal, Running, history

LEMMA CommandSound ==
  ASSUME IInv, NEW m \in Matches, Command(m)
  PROVE  IInv'
<1>1. TypeOK'
  <2>1. admitted' \in Nat /\ phase \in {"UP", "STOPPING"}
    BY StepFacts DEF Command, Handles, Idle, Running, TypeOK
  <2>2. /\ matches' \in [Matches -> Nat]
        /\ journals' \in [Matches -> [revision: Nat, expires: Nat]]
    BY StepFacts, SavesType DEF Command
  <2> QED
    BY <2>1, <2>2, StepFacts, MemoryType DEF Command, TypeOK, history
<1>2. JournalsMoved
  BY StepFacts, JournalsSaved DEF Command
<1> QED
  BY <1>1, <1>2, Unedited DEF Command, Handles, Idle, Running, history

LEMMA CommandThrowsSound ==
  ASSUME IInv, NEW m \in Matches, CommandThrows(m)
  PROVE  IInv'
<1>1. TypeOK'
  <2>1. admitted' \in Nat /\ phase' \in {"UP", "STOPPING"} /\ busy' \in {"STOP", "NONE"}
    BY StepFacts DEF CommandThrows, Handles, Idle, Running, TypeOK, Fatal
  <2>2. /\ matches' \in [Matches -> Nat] /\ faults' \in Nat
        /\ journals' \in [Matches -> [revision: Nat, expires: Nat]]
    BY StepFacts, SavesType, ThrowsType DEF CommandThrows, TypeOK
  <2> QED
    BY <2>1, <2>2, StepFacts, MemoryType DEF CommandThrows, TypeOK
<1>2. JournalsMoved
  BY StepFacts, JournalsSaved DEF CommandThrows
<1> QED
  BY <1>1, <1>2, Unedited DEF CommandThrows, Fatal, Handles, Idle, Running

LEMMA SchedulerTickSound ==
  ASSUME IInv, SchedulerTick
  PROVE  IInv'
<1>1. PICK ms \in SUBSET {m \in Matches : Live(m)} :
        /\ SaveTransitions(ms) /\ rooms' = Swept(rooms)
        /\ busy' = IF ms # {} \/ Swept(rooms) # rooms THEN "TICK" ELSE "PURGE"
  BY DEF SchedulerTick
<1>2. TypeOK'
  <2>1. /\ rooms' \in [Rooms -> Room] /\ busy' \in {"TICK", "PURGE"}
        /\ phase \in {"UP", "STOPPING"}
    BY <1>1, StepFacts DEF SchedulerTick
  <2>2. /\ matches' \in [Matches -> Nat]
        /\ journals' \in [Matches -> [revision: Nat, expires: Nat]]
    BY <1>1, StepFacts, SavesType
  <2> QED
    BY <2>1, <2>2, StepFacts, MemoryType DEF SchedulerTick, TypeOK, history
<1>3. JournalsMoved
  BY <1>1, StepFacts, JournalsSaved
<1> QED
  BY <1>1, <1>2, <1>3, Unedited DEF SchedulerTick, Running, history

LEMMA SchedulerThrowsSound ==
  ASSUME IInv, SchedulerThrows
  PROVE  IInv'
<1>1. PICK f \in Matches, ms \in SUBSET Matches : SaveThrowsAt(ms, f)
  BY DEF SchedulerThrows
<1>2. TypeOK'
  <2>1. phase' \in {"UP", "STOPPING"} /\ busy' \in {"STOP", "NONE"}
    BY DEF SchedulerThrows, Fatal
  <2>2. /\ matches' \in [Matches -> Nat] /\ faults' \in Nat
        /\ journals' \in [Matches -> [revision: Nat, expires: Nat]]
    BY <1>1, StepFacts, SavesType, ThrowsType DEF TypeOK
  <2> QED
    BY <2>1, <2>2, StepFacts, MemoryType DEF SchedulerThrows, TypeOK
<1>3. JournalsMoved
  BY <1>1, StepFacts, JournalsSaved
<1> QED
  BY <1>2, <1>3, Unedited DEF SchedulerThrows, Fatal, Running

LEMMA SocketChangeSound ==
  ASSUME IInv, NEW i \in Rooms, SocketChange(i)
  PROVE  IInv'
<1>1. rooms[i] \in Room /\ Edited(rooms[i]) \in Room /\ rooms[i].status \in {"OPEN", "STARTED"}
  BY StepFacts, RoomOperations DEF SocketChange
<1>2. rooms' = [rooms EXCEPT ![i] = Edited(rooms[i])] /\ rooms' \in [Rooms -> Room]
  BY <1>1, StepFacts DEF SocketChange
<1>3. TypeOK'
  <2>1. owed' \in BOOLEAN /\ phase \in {"UP", "STOPPING"}
    BY StepFacts DEF SocketChange, Idle, Running, TypeOK
  <2> QED
    BY <1>2, <2>1, StepFacts, MemoryType DEF SocketChange, TypeOK, history
<1>4. JournalsMoved
  BY StepFacts, JournalsStay DEF SocketChange
<1>5. /\ Edited(rooms[i]).status = rooms[i].status /\ Edited(rooms[i]).match = rooms[i].match
      /\ Edited(rooms[i]).expires = rooms[i].expires /\ Edited(rooms[i]).deleteAt = rooms[i].deleteAt
      /\ Edited(rooms[i]).edits = rooms[i].edits + 1
      /\ rooms[i].edits \in Nat /\ rooms[i].deleteAt \in Nat
  BY <1>1 DEF Edited, Room
<1>6. ASSUME NEW j \in Rooms PROVE RoomMoved(j)
  <2>1. CASE j = i
    <3>1. Covered(rooms[i], journals', now) /\ Dated(rooms[i], now) /\ i \in used
      BY <1>1, <1>3, <1>4, StepFacts, CoverLasts DEF RoomSound, NoRoom
    <3>2. Covered(Edited(rooms[i]), journals', now) /\ Dated(Edited(rooms[i]), now)
      BY <1>5, <3>1 DEF Covered, Dated
    <3>3. rooms'[i] = Edited(rooms[i]) /\ used' = used
      BY <1>2, StepFacts DEF SocketChange, history
    <3>4. /\ rooms'[i].edits >= rooms[i].edits /\ rooms'[i].deleteAt >= rooms[i].deleteAt
          /\ rooms[i].status # "NONE"
      BY <1>1, <1>5, <3>3
    <3> QED
      BY <2>1, <3>1, <3>2, <3>3, <3>4 DEF RoomMoved
  <2>2. CASE j # i
    <3>1. rooms'[j] = rooms[j] /\ used \subseteq used'
      BY <1>2, <2>2, StepFacts DEF SocketChange, history
    <3> QED
      BY <3>1, <1>3, <1>4, RoomStays
  <2> QED
    BY <2>1, <2>2
<1>7. EditSound'
  BY DEF EditSound, SocketChange, Idle
<1> QED
  BY <1>3, <1>4, <1>6, <1>7, InMemory DEF SocketChange, Idle, Running, history

---------------------------------------------------------------------------
(* Checkpoints                                                               *)

LEMMA CheckpointFields ==
  ASSUME TypeOK
  PROVE  /\ Fingerprint.rooms = rooms
         /\ OnlineRow.version > 0 /\ OnlineRow.expires = now + Retention
         /\ OnlineRow.checkpoint.rooms = rooms
BY DEF TypeOK, Fingerprint, Checkpoint, OnlineRow

(* What memory holds may be stored in place of what is stored.               *)
LEMMA StoredFromMemory ==
  ASSUME IInv, Running, UNCHANGED <<now, rooms, journals, used>>,
         online' \in {online, OnlineRow}, NEW i \in Rooms
  PROVE  /\ StoredSound(i)'
         /\ \A e, u \in Nat : Kept(i, e, u) /\ u <= now + Retention => Kept(i, e, u)'
         /\ online' = OnlineRow =>
              \A e, u \in Nat : e <= rooms[i].edits /\ u <= rooms[i].deleteAt /\ u <= now + Retention
                                  => Kept(i, e, u)'
<1>1. /\ rooms[i] \in Room /\ now \in Nat /\ RoomSound(i) /\ StoredSound(i)
      /\ Retention \in Nat /\ rooms[i].edits \in Nat /\ rooms[i].deleteAt \in Nat
      /\ rooms[i].expires \in Nat
  BY StepFacts, TimesAssumption DEF IInv, Room
<1>2. CASE online' = online
  <2>1. StoredSound(i)'
    BY <1>1, <1>2 DEF StoredSound
  <2>2. \A e, u \in Nat : Kept(i, e, u) => Kept(i, e, u)'
    BY <1>2 DEF Kept
  <2>3. CASE online = OnlineRow
    BY <2>1, <2>2, <2>3, <1>1, <1>2, CheckpointFields DEF Kept, IInv
  <2> QED
    BY <1>2, <2>1, <2>2, <2>3
<1>3. CASE online' = OnlineRow
  <2>1. /\ online'.version > 0 /\ online'.expires = now + Retention
        /\ online'.checkpoint.rooms = rooms
    BY <1>3, CheckpointFields DEF IInv
  <2>2. StoredSound(i)'
    BY <1>1, <2>1 DEF StoredSound, RoomSound, Dated
  <2>3. ASSUME NEW e \in Nat, NEW u \in Nat, Kept(i, e, u), u <= now + Retention
        PROVE  Kept(i, e, u)'
    BY <1>1, <2>1, <2>3 DEF Kept
  <2>4. ASSUME NEW e \in Nat, NEW u \in Nat, e <= rooms[i].edits, u <= rooms[i].deleteAt,
               u <= now + Retention
        PROVE  Kept(i, e, u)'
    BY <1>1, <2>1, <2>4 DEF Kept
  <2> QED
    BY <2>2, <2>3, <2>4
<1> QED
  BY <1>2, <1>3

LEMMA CheckpointSound ==
  ASSUME IInv, TypeOK', Running, Running', busy' # "REQUEST",
         CheckpointDone \/ CheckpointThrows,
         UNCHANGED <<now, rooms, journals, used>>,
         \A i \in Rooms :
           \/ answered'[i] = answered[i]
           \/ /\ CheckpointDone /\ busy = "REQUEST" /\ i \in edited
              /\ answered'[i] = [edits |-> rooms[i].edits, until |-> Until(rooms[i])]
  PROVE  IInv'
<1>1. AlwaysStarts' /\ JournalsDated' /\ EditSound'
  BY DEF IInv, AlwaysStarts, Running, JournalsDated, EditSound
<1>2. online' \in {online, OnlineRow}
  BY DEF CheckpointDone, CheckpointThrows
<1>3. \/ last' = last
      \/ last' = {Fingerprint} /\ online' = OnlineRow
  BY DEF CheckpointDone, CheckpointThrows
<1>4. CheckpointDone => last = {Fingerprint} \/ online' = OnlineRow
  BY DEF CheckpointDone, NothingToSave
<1> SUFFICES ASSUME NEW i \in Rooms
             PROVE  (RoomSound(i) /\ StoredSound(i) /\ RememberedSound(i) /\ AnswerSound(i))'
  BY <1>1 DEF IInv
<1>5. /\ rooms[i] \in Room /\ now \in Nat /\ RoomSound(i) /\ RememberedSound(i) /\ AnswerSound(i)
      /\ Retention \in Nat /\ rooms[i].edits \in Nat /\ rooms[i].deleteAt \in Nat
      /\ rooms[i].expires \in Nat /\ answered[i].edits \in Nat /\ answered[i].until \in Nat
  BY StepFacts, TimesAssumption DEF IInv, TypeOK, Room
<1>6. RoomSound(i)'
  BY <1>5 DEF RoomSound
<1>7. /\ StoredSound(i)'
      /\ \A e, u \in Nat : Kept(i, e, u) /\ u <= now + Retention => Kept(i, e, u)'
      /\ online' = OnlineRow =>
           \A e, u \in Nat : e <= rooms[i].edits /\ u <= rooms[i].deleteAt /\ u <= now + Retention
                               => Kept(i, e, u)'
  BY <1>2, StoredFromMemory
<1>8. RememberedSound(i)'
  <2> SUFFICES ASSUME NEW c \in last'
               PROVE  /\ i \notin used => c.rooms[i].edits = 0
                      /\ rooms[i].status # "NONE" => c.rooms[i].edits <= rooms[i].edits
                      /\ c.rooms[i].status \in {"OPEN", "STARTED"} =>
                           /\ c.rooms[i].expires <= now + Retention
                           /\ Kept(i, c.rooms[i].edits, c.rooms[i].expires)'
    BY DEF RememberedSound, Kept
  <2>1. CASE c \in last
    <3>1. c.rooms[i].edits \in Nat /\ c.rooms[i].expires \in Nat
      BY <2>1 DEF IInv, TypeOK, Room
    <3> QED
      BY <2>1, <3>1, <1>5, <1>7 DEF RememberedSound
  <2>2. CASE c = Fingerprint /\ online' = OnlineRow
    <3>1. c.rooms[i] = rooms[i]
      BY <2>2, CheckpointFields DEF IInv
    <3>2. i \notin used => rooms[i].edits = 0
      BY <1>5 DEF RoomSound, NoRoom
    <3>3. rooms[i].expires <= now + Retention /\ rooms[i].expires <= rooms[i].deleteAt
      BY <1>5 DEF RoomSound, Dated
    <3>4. Kept(i, rooms[i].edits, rooms[i].expires)'
      BY <1>5, <1>7, <2>2, <3>3
    <3> QED
      BY <1>5, <3>1, <3>2, <3>3, <3>4
  <2> QED
    BY <1>3, <2>1, <2>2
<1>9. AnswerSound(i)'
  <2>1. CASE answered'[i] = answered[i]
    <3>1. PICK e \in Nat, u \in Nat : e = answered[i].edits /\ u = answered[i].until
      BY <1>5
    <3>2. Kept(i, e, u)'
      BY <1>5, <1>7, <3>1 DEF AnswerSound
    <3>3. answered'[i].edits = e /\ answered'[i].until = u
      BY <2>1, <3>1
    <3> QED
      BY <1>5, <3>1, <3>2, <3>3 DEF AnswerSound, Kept
  <2>2. CASE /\ CheckpointDone /\ busy = "REQUEST" /\ i \in edited
             /\ answered'[i] = [edits |-> rooms[i].edits, until |-> Until(rooms[i])]
    <3>1. /\ Until(rooms[i]) <= now + Retention /\ Until(rooms[i]) <= rooms[i].deleteAt
          /\ Until(rooms[i]) \in Nat
          /\ rooms[i].status \in {"OPEN", "STARTED"} => Until(rooms[i]) = rooms[i].expires
      BY <1>5 DEF RoomSound, Dated, Until
    <3>2. Kept(i, rooms[i].edits, Until(rooms[i]))'
      <4>1. CASE online' = OnlineRow
        BY <1>5, <1>7, <3>1, <4>1
      <4>2. CASE last = {Fingerprint}
        <5>1. Fingerprint \in last /\ Fingerprint.rooms[i] = rooms[i]
          BY <4>2, CheckpointFields DEF IInv
        <5>2. rooms[i].status \in {"OPEN", "STARTED"}
          BY <2>2, <5>1, <1>5 DEF IInv, EditSound
        <5>3. Kept(i, rooms[i].edits, rooms[i].expires)
          BY <5>1, <5>2, <1>5 DEF RememberedSound
        <5> QED
          BY <1>5, <1>7, <3>1, <5>2, <5>3
      <4> QED
        BY <2>2, <1>4, <4>1, <4>2
    <3>3. i \notin used => rooms[i].edits = 0
      BY <1>5 DEF RoomSound, NoRoom
    <3>4. answered'[i].edits = rooms[i].edits /\ answered'[i].until = Until(rooms[i])
      BY <2>2
    <3> HIDE DEF Until
    <3> QED
      BY <3>1, <3>2, <3>3, <3>4 DEF AnswerSound, Kept
  <2> QED
    BY <2>1, <2>2
<1> QED
  BY <1>6, <1>7, <1>8, <1>9

LEMMA CheckpointStepType ==
  ASSUME TypeOK, CheckpointDone \/ CheckpointThrows,
         UNCHANGED <<now, rooms, matches, journals, purgeAt, admitted, cached, used, boots>>,
         phase' \in {"UP", "STOPPING"}, busy' \in {"NONE", "PURGE", "STOP"},
         edited' \subseteq Rooms, owed' \in BOOLEAN,
         answered' \in [Rooms -> [edits: Nat, until: Nat]]
  PROVE  TypeOK'
BY WriteType DEF TypeOK, Checkpoints

LEMMA AnswerStepSound ==
  ASSUME IInv, Answer
  PROVE  IInv'
<1>1. Running /\ Running'
  BY DEF IInv, Answer, Running
<1>2. \A i \in Rooms : [edits |-> rooms[i].edits, until |-> Until(rooms[i])] \in [edits: Nat, until: Nat]
  BY StepFacts DEF Room, Until
<1>3. answered' \in [Rooms -> [edits: Nat, until: Nat]]
  BY <1>2, StepFacts DEF Answer, TypeOK
<1>4. TypeOK'
  BY <1>1, <1>3, StepFacts, CheckpointStepType DEF Answer, TypeOK, Running
<1>5. \A i \in Rooms :
        \/ answered'[i] = answered[i]
        \/ /\ CheckpointDone /\ busy = "REQUEST" /\ i \in edited
           /\ answered'[i] = [edits |-> rooms[i].edits, until |-> Until(rooms[i])]
  BY StepFacts DEF Answer, TypeOK
<1> QED
  BY <1>1, <1>4, <1>5, CheckpointSound DEF Answer

LEMMA OtherCheckpointsSound ==
  ASSUME IInv, AnswerUnavailable \/ StopCheckpoint \/ LateCheckpoint \/ TickCheckpoint
  PROVE  IInv'
<1>1. /\ CheckpointDone \/ CheckpointThrows
      /\ Running /\ Running'
      /\ busy' \in {"NONE", "PURGE", "STOP"} /\ edited' \subseteq Rooms /\ owed' \in BOOLEAN
      /\ UNCHANGED <<now, rooms, matches, journals, purgeAt, admitted, cached, used, boots,
                     answered>>
  <2>t. /\ busy # "NONE" => Running
        /\ edited \subseteq Rooms /\ owed \in BOOLEAN
    BY DEF IInv, TypeOK
  <2>1. CASE AnswerUnavailable
    BY <2>t, <2>1 DEF AnswerUnavailable, Running, Fatal
  <2>2. CASE StopCheckpoint
    BY <2>t, <2>2 DEF StopCheckpoint, Running
  <2>3. CASE LateCheckpoint
    BY <2>t, <2>3 DEF LateCheckpoint, Running, Idle, Fatal
  <2>4. CASE TickCheckpoint
    BY <2>t, <2>4 DEF TickCheckpoint, Running, Fatal
  <2> QED
    BY <2>1, <2>2, <2>3, <2>4
<1>2. TypeOK'
  <2>1. phase' \in {"UP", "STOPPING"}
    BY <1>1 DEF Running
  <2>2. TypeOK /\ answered' \in [Rooms -> [edits: Nat, until: Nat]]
    BY <1>1, StepFacts DEF TypeOK
  <2> QED
    BY <1>1, <2>1, <2>2, CheckpointStepType
<1>3. \A i \in Rooms : answered'[i] = answered[i]
  BY <1>1
<1>4. UNCHANGED <<now, rooms, journals, used>> /\ busy' # "REQUEST"
  BY <1>1
<1> QED
  BY <1>1, <1>2, <1>3, <1>4, CheckpointSound

---------------------------------------------------------------------------
(* The end and the start of the process, deletion and time                   *)

LEMMA NoRoomSound ==
  ASSUME NEW js, NEW t \in Nat
  PROVE  Covered(NoRoom, js, t) /\ Dated(NoRoom, t)
BY TimesAssumption DEF Covered, Dated, NoRoom

LEMMA InitSound == Init => IInv
<1> SUFFICES ASSUME Init PROVE IInv
  OBVIOUS
<1>1. TypeOK
  BY InitType
<1>2. AlwaysStarts /\ JournalsDated /\ EditSound /\ (busy # "NONE" => Running)
  BY TimesAssumption DEF Init, AlwaysStarts, JournalsDated, EditSound
<1>3. ASSUME NEW i \in Rooms
      PROVE RoomSound(i) /\ StoredSound(i) /\ RememberedSound(i) /\ AnswerSound(i)
  <2>1. rooms[i] = NoRoom /\ online.checkpoint.rooms[i] = NoRoom /\ now \in Nat
    BY DEF Init, Checkpoint
  <2>2. RoomSound(i)
    BY <2>1, NoRoomSound DEF RoomSound
  <2>3. StoredSound(i)
    <3>1. online.expires = 0 /\ NoRoom.expires = 0
      BY DEF Init, NoRoom
    <3> QED
      BY <2>1, <3>1, NoRoomSound DEF StoredSound
  <2>4. RememberedSound(i)
    BY DEF Init, RememberedSound
  <2>5. AnswerSound(i)
    BY TimesAssumption DEF Init, AnswerSound, Kept
  <2> QED
    BY <2>2, <2>3, <2>4, <2>5
<1> QED
  BY <1>1, <1>2, <1>3 DEF IInv

LEMMA GoneSound ==
  ASSUME IInv, Gone
  PROVE  IInv'
<1>1. TypeOK'
  <2>1. rooms' \in [Rooms -> Room] /\ matches' \in [Matches -> Nat]
    BY NoRoomIsRoom DEF Gone
  <2> QED
    BY <2>1, StepFacts DEF Gone, TypeOK, history
<1>2. AlwaysStarts' /\ JournalsDated' /\ EditSound' /\ (busy # "NONE" => Running)'
  BY DEF IInv, Gone, AlwaysStarts, JournalsDated, EditSound
<1>3. ASSUME NEW i \in Rooms
      PROVE (RoomSound(i) /\ StoredSound(i) /\ RememberedSound(i) /\ AnswerSound(i))'
  <2>1. rooms'[i] = NoRoom /\ now' = now /\ now \in Nat
    BY StepFacts DEF Gone
  <2>2. RoomSound(i)'
    BY <2>1, NoRoomSound DEF RoomSound
  <2>3. StoredSound(i)'
    BY DEF Gone, IInv, StoredSound, history
  <2>4. RememberedSound(i)'
    BY DEF Gone, RememberedSound
  <2>5. AnswerSound(i)'
    BY DEF Gone, IInv, AnswerSound, Kept, Running, history
  <2> QED
    BY <2>2, <2>3, <2>4, <2>5
<1> QED
  BY <1>1, <1>2, <1>3 DEF IInv

LEMMA PurgeSound ==
  ASSUME IInv, Purge
  PROVE  IInv'
<1>1. TypeOK'
  <2>1. CASE purgeAt <= now
    <3>1. /\ online' \in [version: Nat, expires: Nat,
                          checkpoint: [rooms: [Rooms -> Room], cursors: [Matches -> Nat]]]
          /\ journals' \in [Matches -> [revision: Nat, expires: Nat]]
          /\ purgeAt' \in Nat
      <4>1. online' \in {online, [online EXCEPT !.version = 0]}
        BY <2>1 DEF Purge
      <4>2. /\ journals' = [m \in Matches |-> IF journals[m].expires <= now
                                              THEN [journals[m] EXCEPT !.revision = 0]
                                              ELSE journals[m]]
            /\ purgeAt' = now + PurgeEvery
        BY <2>1 DEF Purge
      <4>3. journals' \in [Matches -> [revision: Nat, expires: Nat]]
        BY <4>2, StepFacts DEF TypeOK
      <4> QED
        BY <4>1, <4>2, <4>3, StepFacts, TimesAssumption DEF TypeOK
    <3> QED
      BY <3>1, StepFacts DEF Purge, TypeOK, history
  <2>2. CASE ~(purgeAt <= now)
    BY <2>2, StepFacts DEF Purge, TypeOK, history
  <2> QED
    BY <2>1, <2>2
<1>2. /\ online'.expires = online.expires /\ online'.checkpoint = online.checkpoint
      /\ online'.version = online.version \/ online.expires <= now
  BY StepFacts DEF Purge, TypeOK
<1>3. \A m \in Matches :
        /\ journals'[m].expires = journals[m].expires
        /\ journals'[m].revision = journals[m].revision \/ journals[m].expires <= now
  BY StepFacts DEF Purge, TypeOK
<1>4. AlwaysStarts' /\ JournalsDated' /\ EditSound' /\ (busy # "NONE" => Running)'
  BY <1>3, StepFacts DEF IInv, Purge, AlwaysStarts, JournalsDated, EditSound, TypeOK
<1>5. ASSUME NEW r \in Room, Covered(r, journals, now)
      PROVE  Covered(r, journals', now)
  BY <1>3, <1>5 DEF Covered
<1>6. ASSUME NEW i \in Rooms, NEW e \in Nat, NEW u \in Nat, Kept(i, e, u)
      PROVE  Kept(i, e, u)'
  <2>1. online.expires \in Nat /\ now \in Nat
    BY StepFacts DEF TypeOK
  <2> QED
    BY <1>2, <1>6, <2>1 DEF Purge, Kept, Running
<1>7. ASSUME NEW i \in Rooms
      PROVE (RoomSound(i) /\ StoredSound(i) /\ RememberedSound(i) /\ AnswerSound(i))'
  <2>1. /\ RoomSound(i) /\ StoredSound(i) /\ RememberedSound(i) /\ AnswerSound(i)
        /\ rooms[i] \in Room /\ online.checkpoint.rooms[i] \in Room
        /\ answered[i].edits \in Nat /\ answered[i].until \in Nat
    BY StepFacts DEF IInv, TypeOK
  <2>2. RoomSound(i)'
    BY <1>5, <2>1 DEF Purge, RoomSound, history
  <2>3. StoredSound(i)'
    BY <1>2, <1>5, <2>1 DEF Purge, StoredSound, history
  <2>4. RememberedSound(i)'
    <3> SUFFICES ASSUME NEW c \in last
                 PROVE  /\ i \notin used => c.rooms[i].edits = 0
                        /\ rooms[i].status # "NONE" => c.rooms[i].edits <= rooms[i].edits
                        /\ c.rooms[i].status \in {"OPEN", "STARTED"} =>
                             /\ c.rooms[i].expires <= now + Retention
                             /\ Kept(i, c.rooms[i].edits, c.rooms[i].expires)'
      BY DEF RememberedSound, Kept, Purge, history
    <3>1. c.rooms[i].edits \in Nat /\ c.rooms[i].expires \in Nat
      BY DEF IInv, TypeOK, Room
    <3> QED
      BY <1>6, <2>1, <3>1 DEF RememberedSound
  <2>5. AnswerSound(i)'
    <3>1. PICK e \in Nat, u \in Nat : e = answered[i].edits /\ u = answered[i].until
      BY <2>1
    <3>2. Kept(i, e, u)'
      BY <1>6, <2>1, <3>1 DEF AnswerSound
    <3> QED
      BY <2>1, <3>1, <3>2 DEF Purge, AnswerSound, Kept, history
  <2> QED
    BY <2>2, <2>3, <2>4, <2>5
<1> QED
  BY <1>1, <1>4, <1>7 DEF IInv

LEMMA PassSound ==
  ASSUME IInv, Pass
  PROVE  IInv'
<1>1. TypeOK'
  BY StepFacts DEF Pass, TypeOK, history
<1>2. AlwaysStarts' /\ JournalsDated' /\ EditSound' /\ (busy # "NONE" => Running)'
  BY StepFacts, TimesAssumption
     DEF IInv, Pass, AlwaysStarts, JournalsDated, EditSound, Running, TypeOK
<1>3. now \in Nat /\ now' = now + 1 /\ Retention \in Nat
  BY StepFacts, TimesAssumption DEF Pass
<1>4. ASSUME NEW r \in Room, Covered(r, journals, now), Dated(r, now)
      PROVE  Covered(r, journals', now') /\ Dated(r, now')
  <2>1. r.match \in Matches => journals[r.match].expires \in Nat
    BY StepFacts DEF TypeOK
  <2>2. r.expires \in Nat /\ r.deleteAt \in Nat
    BY DEF Room
  <2> QED
    BY <1>3, <1>4, <2>1, <2>2 DEF Pass, Covered, Dated
<1>5. ASSUME NEW i \in Rooms, NEW e \in Nat, NEW u \in Nat, Kept(i, e, u)
      PROVE  Kept(i, e, u)'
  BY <1>3, <1>5 DEF Pass, Kept, Running
<1>6. ASSUME NEW i \in Rooms
      PROVE (RoomSound(i) /\ StoredSound(i) /\ RememberedSound(i) /\ AnswerSound(i))'
  <2>1. /\ RoomSound(i) /\ StoredSound(i) /\ RememberedSound(i) /\ AnswerSound(i)
        /\ rooms[i] \in Room /\ online.checkpoint.rooms[i] \in Room
        /\ answered[i].edits \in Nat /\ answered[i].until \in Nat
    BY StepFacts DEF IInv, TypeOK
  <2>2. RoomSound(i)'
    BY <1>4, <2>1 DEF Pass, RoomSound, history
  <2>3. StoredSound(i)'
    BY <1>4, <2>1 DEF Pass, StoredSound, history
  <2>4. RememberedSound(i)'
    <3> SUFFICES ASSUME NEW c \in last
                 PROVE  /\ i \notin used => c.rooms[i].edits = 0
                        /\ rooms[i].status # "NONE" => c.rooms[i].edits <= rooms[i].edits
                        /\ c.rooms[i].status \in {"OPEN", "STARTED"} =>
                             /\ c.rooms[i].expires <= now' + Retention
                             /\ Kept(i, c.rooms[i].edits, c.rooms[i].expires)'
      BY DEF RememberedSound, Kept, Pass, history
    <3>1. c.rooms[i].edits \in Nat /\ c.rooms[i].expires \in Nat
      BY DEF IInv, TypeOK, Room
    <3> QED
      BY <1>3, <1>5, <2>1, <3>1 DEF RememberedSound
  <2>5. AnswerSound(i)'
    <3>1. PICK e \in Nat, u \in Nat : e = answered[i].edits /\ u = answered[i].until
      BY <2>1
    <3>2. Kept(i, e, u)'
      BY <1>5, <2>1, <3>1 DEF AnswerSound
    <3> QED
      BY <1>3, <2>1, <3>1, <3>2 DEF Pass, AnswerSound, Kept, history
  <2> QED
    BY <2>2, <2>3, <2>4, <2>5
<1> QED
  BY <1>1, <1>2, <1>6 DEF IInv

(* What the sweep of the constructor makes of a stored room.                 *)
LEMMA RestoredSound ==
  ASSUME IInv, OnlineLoads, NEW i \in Rooms
  PROVE  /\ Restored[i] \in Room
         /\ Covered(Restored[i], journals, now) /\ Dated(Restored[i], now)
         /\ i \notin used => Restored[i] = NoRoom
         /\ Restored[i].status \in {"OPEN", "STARTED"} => Restored[i] = online.checkpoint.rooms[i]
         /\ Restored[i].status = "STARTED" => /\ Restored[i].match \in Matches
                                              /\ Loadable(Restored[i].match)
         /\ \A e, u \in Nat : u <= now + Retention /\ e > 0 /\ now < u /\ Kept(i, e, u) =>
              Restored[i].edits >= e /\ Restored[i].deleteAt >= u
<1> DEFINE r == online.checkpoint.rooms[i]
           q == SweptRoom(r)
<1>1. /\ r \in Room /\ now \in Nat /\ StoredSound(i) /\ Retention \in Nat
      /\ r.edits \in Nat /\ r.deleteAt \in Nat
  BY StepFacts, TimesAssumption DEF IInv, TypeOK, Room
<1>2. Restored[i] = q
  BY DEF Restored, Swept
<1>3. q \in Room
  BY <1>1, SweptType
<1>4. /\ Covered(q, journals, now) /\ Dated(q, now)
      /\ r = NoRoom => q = NoRoom
      /\ q.status \in {"OPEN", "STARTED"} => q = r
      /\ q.status = "STARTED" => r.deleteAt > now
      /\ \/ q = r
         \/ q = NoRoom /\ r.deleteAt <= now
         \/ r.status # "NONE" /\ q.edits >= r.edits /\ q.deleteAt >= now + Retention
  BY <1>1, SweptSound DEF StoredSound
<1>5. ASSUME q.status = "STARTED" PROVE q.match \in Matches /\ Loadable(q.match)
  <2>1. /\ q = r /\ r.deleteAt > now /\ r.match \in Matches
        /\ journals[r.match].expires >= r.deleteAt
        /\ journals[r.match].revision > 0 \/ journals[r.match].expires <= now
    BY <1>4, <1>5 DEF Covered
  <2>2. journals[r.match].expires \in Nat
    BY <2>1 DEF IInv, TypeOK
  <2> QED
    BY <1>1, <2>1, <2>2 DEF Loadable
<1>6. ASSUME NEW e \in Nat, NEW u \in Nat, u <= now + Retention, e > 0, now < u, Kept(i, e, u)
      PROVE  q.edits >= e /\ q.deleteAt >= u
  <2>1. r.edits >= e /\ r.deleteAt >= u
    BY <1>6 DEF Kept
  <2>2. q.edits \in Nat /\ q.deleteAt \in Nat
    BY <1>3 DEF Room
  <2> HIDE DEF q
  <2> QED
    BY <1>1, <1>4, <1>6, <2>1, <2>2
<1>7. i \notin used => q = NoRoom
  BY <1>1, <1>4 DEF StoredSound
<1> QED
  BY <1>2, <1>3, <1>4, <1>5, <1>6, <1>7

LEMMA BootSound ==
  ASSUME IInv, Boot
  PROVE  IInv'
<1>0. /\ TypeOK /\ now \in Nat /\ busy = "NONE" /\ busy' = "NONE" /\ now' = now
      /\ UNCHANGED <<online, journals, used, answered>>
  BY StepFacts DEF IInv, Boot, Running
<1>1. CASE ~OnlineLoads
  <2>1. /\ phase' = "UP" /\ version' = 0 /\ last' = {}
        /\ rooms' = [i \in Rooms |-> NoRoom] /\ matches' = [m \in Matches |-> 0]
    BY <1>1 DEF Boot
  <2>2. TypeOK'
    <3>1. rooms' \in [Rooms -> Room] /\ matches' \in [Matches -> Nat]
      BY <2>1, NoRoomIsRoom
    <3> QED
      BY <1>0, <2>1, <3>1 DEF Boot, TypeOK
  <2>3. AlwaysStarts' /\ JournalsDated' /\ EditSound' /\ (busy # "NONE" => Running)'
    BY <1>0, <2>1 DEF IInv, AlwaysStarts, JournalsDated, EditSound
  <2>4. ASSUME NEW i \in Rooms
        PROVE (RoomSound(i) /\ StoredSound(i) /\ RememberedSound(i) /\ AnswerSound(i))'
    <3>1. rooms'[i] = NoRoom
      BY <2>1
    <3>2. RoomSound(i)'
      BY <1>0, <3>1, NoRoomSound DEF RoomSound
    <3>3. StoredSound(i)'
      BY <1>0 DEF IInv, StoredSound
    <3>4. RememberedSound(i)'
      BY <2>1 DEF RememberedSound
    <3>5. AnswerSound(i)'
      <4>1. AnswerSound(i) /\ answered[i].edits \in Nat /\ answered[i].until \in Nat
            /\ online.expires \in Nat
        BY DEF IInv, TypeOK
      <4>2. ~(answered[i].edits > 0 /\ now < answered[i].until)
        BY <1>0, <1>1, <4>1 DEF AnswerSound, Kept, OnlineLoads
      <4> QED
        BY <1>0, <4>1, <4>2 DEF AnswerSound, Kept
    <3> QED
      BY <3>2, <3>3, <3>4, <3>5
  <2> QED
    BY <2>2, <2>3, <2>4 DEF IInv
<1>2. CASE OnlineLoads
  <2> DEFINE needed == StartedMatches(Restored)
  <2>1. /\ phase' = IF \A m \in needed : Loadable(m) THEN "UP" ELSE "FAILED"
        /\ version' = online.version /\ rooms' = Restored
        /\ matches' = [m \in Matches |-> IF m \in needed THEN journals[m].revision ELSE 0]
        /\ last' = {Checkpoint(rooms', matches')}
    BY <1>2 DEF Boot
  <2>2. \A m \in needed : Loadable(m)
    BY <1>2, RestoredSound DEF StartedMatches
  <2>3. phase' = "UP"
    BY <2>1, <2>2
  <2>4. rooms' \in [Rooms -> Room] /\ matches' \in [Matches -> Nat]
    <3>1. rooms' \in [Rooms -> Room]
      BY <1>0, <2>1, SweptType DEF Restored, TypeOK
    <3>2. matches' \in [Matches -> Nat]
      BY <1>0, <2>1 DEF TypeOK
    <3> QED
      BY <3>1, <3>2
  <2>5. TypeOK'
    <3>1. last' \in SUBSET Checkpoints
      BY <2>1, <2>4, CheckpointType
    <3>2. version' \in Nat
      BY <1>0, <2>1 DEF TypeOK
    <3> QED
      BY <1>0, <2>3, <2>4, <3>1, <3>2 DEF Boot, TypeOK, Checkpoints
  <2>6. AlwaysStarts' /\ JournalsDated' /\ EditSound' /\ (busy # "NONE" => Running)'
    BY <1>0, <2>3 DEF IInv, AlwaysStarts, JournalsDated, EditSound
  <2>7. ASSUME NEW i \in Rooms
        PROVE (RoomSound(i) /\ StoredSound(i) /\ RememberedSound(i) /\ AnswerSound(i))'
    <3>1. /\ rooms'[i] = Restored[i] /\ rooms'[i] \in Room
          /\ Covered(rooms'[i], journals, now) /\ Dated(rooms'[i], now)
          /\ i \notin used => rooms'[i] = NoRoom
          /\ rooms'[i].status \in {"OPEN", "STARTED"} => rooms'[i] = online.checkpoint.rooms[i]
          /\ \A e, u \in Nat : u <= now + Retention /\ e > 0 /\ now < u /\ Kept(i, e, u) =>
               rooms'[i].edits >= e /\ rooms'[i].deleteAt >= u
      BY <1>2, <2>1, RestoredSound
    <3>2. RoomSound(i)'
      BY <1>0, <3>1 DEF RoomSound
    <3>3. StoredSound(i) /\ StoredSound(i)'
      BY <1>0 DEF IInv, StoredSound
    <3>4. RememberedSound(i)'
      <4> SUFFICES ASSUME NEW c \in last'
                   PROVE  /\ i \notin used => c.rooms[i].edits = 0
                          /\ rooms'[i].status # "NONE" => c.rooms[i].edits <= rooms'[i].edits
                          /\ c.rooms[i].status \in {"OPEN", "STARTED"} =>
                               /\ c.rooms[i].expires <= now + Retention
                               /\ Kept(i, c.rooms[i].edits, c.rooms[i].expires)'
        BY <1>0 DEF RememberedSound, Kept
      <4>1. c.rooms[i] = rooms'[i]
        BY <2>1 DEF Checkpoint
      <4>2. rooms'[i].edits \in Nat /\ rooms'[i].expires \in Nat /\ rooms'[i].deleteAt \in Nat
        BY <3>1 DEF Room
      <4>3. i \notin used => c.rooms[i].edits = 0
        BY <3>1, <4>1 DEF NoRoom
      <4>4. ASSUME c.rooms[i].status \in {"OPEN", "STARTED"}
            PROVE  /\ c.rooms[i].expires <= now + Retention
                   /\ Kept(i, c.rooms[i].edits, c.rooms[i].expires)'
        <5>1. rooms'[i] = online.checkpoint.rooms[i]
          BY <3>1, <4>1, <4>4
        <5>2. /\ rooms'[i].expires <= now + Retention /\ rooms'[i].expires <= rooms'[i].deleteAt
              /\ rooms'[i].expires <= online.expires /\ online.version > 0
          BY <1>2, <3>1, <3>3, <5>1 DEF Dated, StoredSound, OnlineLoads
        <5> QED
          BY <1>0, <4>1, <4>2, <5>1, <5>2 DEF Kept
      <4> QED
        BY <4>1, <4>2, <4>3, <4>4
    <3>5. AnswerSound(i)'
      <4>1. AnswerSound(i) /\ answered[i].edits \in Nat /\ answered[i].until \in Nat
        BY DEF IInv, TypeOK
      <4>2. PICK e \in Nat, u \in Nat : e = answered[i].edits /\ u = answered[i].until
        BY <4>1
      <4>3. e > 0 /\ now < u => rooms'[i].edits >= e /\ rooms'[i].deleteAt >= u
        BY <3>1, <4>1, <4>2 DEF AnswerSound
      <4>4. Kept(i, e, u)'
        BY <1>0, <4>1, <4>2, <4>3 DEF AnswerSound, Kept
      <4> QED
        BY <1>0, <4>1, <4>2, <4>4 DEF AnswerSound, Kept
    <3> QED
      BY <3>2, <3>3, <3>4, <3>5
  <2> QED
    BY <2>5, <2>6, <2>7 DEF IInv
<1> QED
  BY <1>1, <1>2

---------------------------------------------------------------------------

LEMMA StepSound == IInv /\ [Next]_vars => IInv'
<1> SUFFICES ASSUME IInv, [Next]_vars PROVE IInv'
  OBVIOUS
<1>1. CASE Boot
  BY <1>1, BootSound
<1>2. CASE Crash \/ Exit
  BY <1>2, GoneSound DEF Crash, Exit
<1>3. CASE Stop \/ Admit \/ Refused
  BY <1>3, StopSound, AdmitSound, RefusedSound
<1>4. CASE StopCheckpoint \/ AnswerUnavailable \/ LateCheckpoint \/ TickCheckpoint
  BY <1>4, OtherCheckpointsSound
<1>5. CASE Answer
  BY <1>5, AnswerStepSound
<1>6. ASSUME NEW i \in Rooms,
             Create(i) \/ Retry(i) \/ Edit(i) \/ Leave(i) \/ ReturnToLobby(i) \/ SocketChange(i)
      PROVE  IInv'
  BY <1>6, CreateSound, RetrySound, EditStepSound, LeaveSound, ReturnToLobbySound,
     SocketChangeSound
<1>7. ASSUME NEW i \in Rooms, NEW m \in Matches, Start(i, m) \/ StartFails(i, m)
      PROVE  IInv'
  BY <1>7, StartSound, StartFailsSound
<1>8. ASSUME NEW m \in Matches, Command(m) \/ CommandThrows(m)
      PROVE  IInv'
  BY <1>8, CommandSound, CommandThrowsSound
<1>9. CASE SchedulerTick \/ SchedulerThrows
  BY <1>9, SchedulerTickSound, SchedulerThrowsSound
<1>10. CASE Purge
  BY <1>10, PurgeSound
<1>11. CASE Pass
  BY <1>11, PassSound
<1>12. CASE UNCHANGED vars
  <2>1. /\ TypeOK' /\ AlwaysStarts' /\ JournalsDated' /\ EditSound'
        /\ (busy # "NONE" => Running)'
    BY <1>12 DEF IInv, TypeOK, AlwaysStarts, JournalsDated, EditSound, Running,
                 vars, process, history
  <2>2. ASSUME NEW i \in Rooms
        PROVE (RoomSound(i) /\ StoredSound(i) /\ RememberedSound(i) /\ AnswerSound(i))'
    BY <1>12 DEF IInv, RoomSound, StoredSound, RememberedSound, AnswerSound, Kept, Running,
                 vars, process, history
  <2> QED
    BY <2>1, <2>2 DEF IInv
<1> QED
  BY <1>1, <1>2, <1>3, <1>4, <1>5, <1>6, <1>7, <1>8, <1>9, <1>10, <1>11, <1>12 DEF Next

LEMMA AlwaysSound == Spec => []IInv
BY InitSound, StepSound, PTL DEF Spec

(* Every variable of the server and of the store keeps its type, through      *)
(* crashes, restarts and failing writes.                                     *)
THEOREM TypesHold == Spec => []TypeOK
<1>1. IInv => TypeOK
  BY DEF IInv
<1> QED
  BY <1>1, AlwaysSound, PTL

(* The constructor never throws for a match that the checkpoint names and the *)
(* store has lost: rooms and matches are written, expire and are deleted     *)
(* apart, and the record of a match still outlives the room that needs it.   *)
THEOREM ProcessAlwaysStarts == Spec => []AlwaysStarts
<1>1. IInv => AlwaysStarts
  BY DEF IInv
<1> QED
  BY <1>1, AlwaysSound, PTL

(* Whatever was answered as done is in the checkpoint that a restart would    *)
(* load, until the dates of the room pass: also when the answer wrote nothing *)
(* because the process remembered to have saved the same before.             *)
THEOREM AnswersAreStored == Spec => []AnsweredIsStored
<1>1. IInv => AnsweredIsStored
  <2> SUFFICES ASSUME IInv, NEW i \in Rooms, answered[i].edits > 0, now < answered[i].until
               PROVE  OnlineLoads /\ online.checkpoint.rooms[i].edits >= answered[i].edits
    BY DEF AnsweredIsStored
  <2>1. /\ online.version > 0 /\ online.expires >= answered[i].until
        /\ online.checkpoint.rooms[i].edits >= answered[i].edits
    BY DEF IInv, AnswerSound, Kept
  <2>2. now \in Nat /\ online.expires \in Nat /\ answered[i].until \in Nat
    BY DEF IInv, TypeOK
  <2> QED
    BY <2>1, <2>2 DEF OnlineLoads
<1> QED
  BY <1>1, AlwaysSound, PTL
=============================================================================
