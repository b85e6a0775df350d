------------------------------- MODULE Durability -------------------------------
(***************************************************************************)
(* What the server keeps through a restart: the checkpoint of rooms and     *)
(* sessions that runtime-server.ts writes after requests and ticks, the     *)
(* record of each match that command-api.ts writes at each transition, and  *)
(* the store that expires and deletes both (durable-store.ts).              *)
(*                                                                         *)
(* One process at a time, which may stop, crash and start again; a write    *)
(* may fail, or be committed although the caller sees an error.             *)
(*                                                                         *)
(* The details of a room (names, seats, ready flags, sockets, sessions) are *)
(* its number of edits: every operation stamps updatedAt.  A match is its   *)
(* revision, and ends at LastRevision; it may stay at one revision for any  *)
(* time.  A handler runs to its end without another one in between; the     *)
(* process may die between its writes, so each write is a step, and busy    *)
(* names the handler that has one to do.                                    *)
(***************************************************************************)
EXTENDS Integers, FiniteSets

CONSTANTS
  Rooms, Matches,  \* identifiers: each names one room or match for ever
  NoMatch,
  RoomTtl,         \* roomTtlMs: how long a room that never starts is open
  Retention,       \* retentionMs of the store and roomRetentionMs of the rooms
  PurgeEvery,      \* the hour between two runs of deleteExpired
  LastRevision,    \* bound: the revision at which matches end
  MaxNow,          \* bound: the clock
  MaxEdits,        \* bound: edits of one room
  MaxAdmitted,     \* bound: requests whose body is being read at once
  MaxFaults,       \* bound: writes that go wrong by themselves
  MaxBoots         \* bound: starts of the process

ASSUME NoMatchAssumption == NoMatch \notin Matches
ASSUME TimesAssumption ==
  /\ RoomTtl \in Nat /\ Retention \in Nat \ {0} /\ PurgeEvery \in Nat
  /\ RoomTtl <= Retention
ASSUME BoundsAssumption ==
  /\ LastRevision \in Nat \ {0} /\ MaxNow \in Nat /\ MaxEdits \in Nat
  /\ MaxAdmitted \in Nat /\ MaxFaults \in Nat /\ MaxBoots \in Nat

VARIABLES
  now,
  phase,      \* of the process: DOWN, UP, STOPPING, or FAILED when the constructor threw
  rooms,      \* #rooms of the room service
  matches,    \* revision of each match in #matches, 0 when it is not there
  version,    \* #onlineStateVersion, 0 for null
  last,       \* #lastOnlineCheckpoint: at most one fingerprint
  healthy,    \* #durabilityHealthy
  purgeAt,    \* #nextRetentionSweepAt
  admitted,   \* requests that passed the gate of handleRequest and await their body
  owed,       \* a command was answered and its checkpoint is still to come
  busy,       \* the handler that is between two writes
  edited,     \* the room that handler is going to answer about
  cached,     \* #idempotency: rooms whose creation or start would be answered again
  online,     \* store: the row of goodfield_online_state, version 0 when none
  journals,   \* store: the rows of goodfield_matches, revision 0 when none
  used,       \* identifiers handed out
  answered,   \* for each room the edits last answered as done, and until when
  disputed,   \* the store refused a checkpoint because of its version
  faults, boots

process == <<phase, version, last, healthy, purgeAt, admitted, owed, busy, edited,
             cached>>
history == <<used, answered, disputed, faults, boots>>
vars == <<now, rooms, matches, online, journals, process, history>>

-----------------------------------------------------------------------------
(* Rooms *)

NoRoom == [status |-> "NONE", match |-> NoMatch, expires |-> 0, deleteAt |-> 0, edits |-> 0]

Room == [status: {"NONE", "OPEN", "STARTED", "EXPIRED"}, match: Matches \cup {NoMatch},
         expires: Nat, deleteAt: Nat, edits: Nat]

(* #expire *)
Expired(r) == [r EXCEPT !.status = "EXPIRED", !.deleteAt = now + Retention, !.edits = @ + 1]

(* sweep, which also runs before every operation on a room.                 *)
SweptRoom(r) ==
  IF r.status # "NONE" /\ r.deleteAt <= now THEN NoRoom
  ELSE IF r.status = "OPEN" /\ r.expires <= now THEN Expired(r)
  ELSE r

Swept(rs) == [i \in Rooms |-> SweptRoom(rs[i])]

StartedMatches(rs) == {rs[i].match : i \in {j \in Rooms : rs[j].status = "STARTED"}}

(* What a checkpoint holds: rooms, sessions and reconnect cursors.           *)
Checkpoint(rs, ms) ==
  [rooms |-> rs,
   cursors |-> [m \in Matches |-> IF m \in StartedMatches(rs) THEN ms[m] ELSE 0]]

(* The slip of comparing rooms by their status only.                        *)
FingerprintOfStatus ==
  Checkpoint([i \in Rooms |-> [rooms[i] EXCEPT !.edits = 0]], matches)

(* #onlineCheckpointFingerprint *)
Fingerprint == Checkpoint(rooms, matches)

-----------------------------------------------------------------------------
(* Writes.  OK commits; LOST commits and throws; FAILED only throws.  A      *)
(* conflict throws too, and the other faults are counted.                    *)

Outcomes == {"OK", "LOST", "FAILED"}

Counted(o) ==
  /\ o # "OK" => faults < MaxFaults
  /\ faults' = IF o = "OK" THEN faults ELSE faults + 1

OnlineRow == [version |-> online.version + 1, expires |-> now + Retention,
              checkpoint |-> Fingerprint]

NothingToSave == last = {Fingerprint}

(* saveOnlineState compares versions, none being null.                       *)
Disputes == version # online.version

(* #checkpointOnlineState returns.                                           *)
CheckpointDone ==
  /\ healthy' = TRUE
  /\ IF NothingToSave
     THEN UNCHANGED <<online, version, last>>
     ELSE /\ ~Disputes
          /\ online' = OnlineRow
          /\ version' = OnlineRow.version
          /\ last' = {Fingerprint}
  /\ UNCHANGED <<faults, disputed>>

(* #checkpointOnlineState throws.                                            *)
CheckpointThrows ==
  /\ ~NothingToSave
  /\ healthy' = FALSE
  /\ \/ /\ Disputes
        /\ disputed' = TRUE
        /\ UNCHANGED <<online, faults>>
     \/ /\ ~Disputes
        /\ \E o \in Outcomes \ {"OK"} :
             Counted(o) /\ online' = IF o = "LOST" THEN OnlineRow ELSE online
        /\ UNCHANGED disputed
  /\ UNCHANGED <<version, last>>

(* onFatalError: shutdown calls stop once, which makes a checkpoint before   *)
(* anything else and then clears the timers.                                 *)
Fatal ==
  /\ phase' = "STOPPING"
  /\ busy' = IF phase = "UP" THEN "STOP" ELSE "NONE"

Journal(n) == [revision |-> n, expires |-> now + Retention]

(* saveTransition needs the row of the match, at an earlier revision.        *)
MayAdvance(m) ==
  /\ journals[m].revision > 0
  /\ journals[m].revision <= matches[m]

Live(m) == 0 < matches[m] /\ matches[m] < LastRevision

(* The matches in ms move on by one revision, each saved before memory has   *)
(* it.                                                                       *)
SaveTransitions(ms) ==
  /\ \A m \in ms : MayAdvance(m)
  /\ journals' = [m \in Matches |-> IF m \in ms THEN Journal(matches[m] + 1) ELSE journals[m]]
  /\ matches' = [m \in Matches |-> IF m \in ms THEN matches[m] + 1 ELSE matches[m]]

(* The same, and then the save of one more match throws.                     *)
SaveThrowsAt(ms, f) ==
  /\ \A m \in ms : MayAdvance(m)
  /\ \E o \in Outcomes \ {"OK"} :
       /\ IF MayAdvance(f) THEN Counted(o) ELSE o = "FAILED" /\ UNCHANGED faults
       /\ journals' = [m \in Matches |->
            IF m \in ms \/ (m = f /\ o = "LOST") THEN Journal(matches[m] + 1) ELSE journals[m]]
  /\ matches' = [m \in Matches |-> IF m \in ms THEN matches[m] + 1 ELSE matches[m]]

-----------------------------------------------------------------------------
(* Starting and ending the process *)

Running == phase \in {"UP", "STOPPING"}
Idle == Running /\ busy = "NONE"

Init ==
  /\ now = 0 /\ phase = "DOWN"
  /\ rooms = [i \in Rooms |-> NoRoom]
  /\ matches = [m \in Matches |-> 0]
  /\ version = 0 /\ last = {} /\ healthy = TRUE /\ purgeAt = 0
  /\ admitted = 0 /\ owed = FALSE /\ busy = "NONE" /\ edited = {}
  /\ cached = {}
  /\ online = [version |-> 0, expires |-> 0, checkpoint |-> Checkpoint(rooms, matches)]
  /\ journals = [m \in Matches |-> [revision |-> 0, expires |-> 0]]
  /\ used = {} /\ answered = [i \in Rooms |-> [edits |-> 0, until |-> 0]]
  /\ disputed = FALSE /\ faults = 0 /\ boots = 0

(* loadMatch *)
Loadable(m) == journals[m].revision > 0 /\ journals[m].expires > now

(* loadOnlineState, restoreState *)
OnlineLoads == online.version > 0 /\ online.expires > now

(* The slip of restoring the rooms without the sweep that ends restoreState. *)
RestoredUnswept == online.checkpoint.rooms

Restored == Swept(online.checkpoint.rooms)

(* The constructor: rooms and sessions from the checkpoint, then every match *)
(* that a started room names; one that is missing makes it throw.            *)
Boot ==
  /\ phase = "DOWN" /\ boots < MaxBoots
  /\ boots' = boots + 1
  /\ IF ~OnlineLoads
     THEN /\ phase' = "UP" /\ version' = 0 /\ last' = {}
          /\ rooms' = [i \in Rooms |-> NoRoom]
          /\ matches' = [m \in Matches |-> 0]
     ELSE LET needed == StartedMatches(Restored) IN
          /\ phase' = IF \A m \in needed : Loadable(m) THEN "UP" ELSE "FAILED"
          /\ version' = online.version
          /\ rooms' = Restored
          /\ matches' = [m \in Matches |-> IF m \in needed THEN journals[m].revision ELSE 0]
          /\ last' = {Checkpoint(rooms', matches')}
  /\ healthy' = TRUE /\ purgeAt' = 0
  /\ UNCHANGED <<now, online, journals, admitted, owed, busy, edited, cached,
                 used, answered, disputed, faults>>

(* Memory is gone, and with it the requests and the handler under way.       *)
Gone ==
  /\ phase' = "DOWN"
  /\ rooms' = [i \in Rooms |-> NoRoom]
  /\ matches' = [m \in Matches |-> 0]
  /\ version' = 0 /\ last' = {} /\ healthy' = TRUE /\ purgeAt' = 0
  /\ admitted' = 0 /\ owed' = FALSE /\ busy' = "NONE" /\ edited' = {}
  /\ cached' = {}
  /\ UNCHANGED <<now, online, journals, history>>

Crash == Running /\ Gone

Exit == phase = "STOPPING" /\ busy = "NONE" /\ Gone

(* SIGTERM or SIGINT *)
Stop ==
  /\ phase = "UP" /\ busy = "NONE"
  /\ Fatal
  /\ UNCHANGED <<now, rooms, matches, online, journals, version, last, healthy, purgeAt,
                 admitted, owed, edited, cached, history>>

(* #stop tries one checkpoint; an error changes nothing more.                *)
StopCheckpoint ==
  /\ busy = "STOP"
  /\ CheckpointDone \/ CheckpointThrows
  /\ busy' = "NONE"
  /\ UNCHANGED <<now, rooms, matches, journals, phase, purgeAt, admitted, owed, edited, cached,
                 used, answered, boots>>

-----------------------------------------------------------------------------
(* Requests *)

(* handleRequest refuses changes while the store is unhealthy; the body is    *)
(* read after that, and the operation runs when it is there.                  *)
Admit ==
  /\ phase = "UP" /\ busy = "NONE" /\ healthy
  /\ admitted < MaxAdmitted
  /\ admitted' = admitted + 1
  /\ UNCHANGED <<now, rooms, matches, online, journals, phase, version, last, healthy,
                 purgeAt, owed, busy, edited, cached, history>>

Handles == Idle /\ admitted > 0 /\ admitted' = admitted - 1

(* The operation on room i is done in memory and its commit comes next.       *)
ToCommit(i) ==
  /\ busy' = "REQUEST" /\ edited' = {i}
  /\ UNCHANGED <<now, online, phase, version, last, healthy, purgeAt, owed,
                 answered, disputed, boots>>

(* The operation threw: the caller hears of it and nothing is committed.      *)
Refuse ==
  UNCHANGED <<now, online, phase, version, last, healthy, purgeAt, owed, busy, edited,
              cached, answered, disputed, boots>>

Edited(r) == [r EXCEPT !.edits = @ + 1]
Room1(i) == Swept(rooms)[i]
MayEdit(i) == Room1(i).edits < MaxEdits

Create(i) ==
  /\ Handles /\ i \notin used
  /\ rooms' = [rooms EXCEPT ![i] =
       [status |-> "OPEN", match |-> NoMatch, expires |-> now + RoomTtl,
        deleteAt |-> now + RoomTtl + Retention, edits |-> 1]]
  /\ used' = used \cup {i}
  /\ cached' = cached \cup {i}
  /\ ToCommit(i)
  /\ UNCHANGED <<matches, journals, faults>>

(* A request to create or to start is sent again with the same requestId: the  *)
(* result is the one cached ten minutes ago at most, and it is committed again. *)
Retry(i) ==
  /\ Handles /\ i \in cached
  /\ rooms' \in {rooms, Swept(rooms)}
  /\ busy' = "REQUEST"
  /\ edited' = {j \in {i} : rooms'[j].status \in {"OPEN", "STARTED"}}
  /\ UNCHANGED <<now, matches, online, journals, phase, version, last, healthy, purgeAt, owed,
                 cached, history>>

(* join, rejoin, ready, team, entry, seats, end time, invitation, session...   *)
Edit(i) ==
  /\ Handles /\ Room1(i).status \in {"OPEN", "STARTED"} /\ MayEdit(i)
  /\ rooms' = [Swept(rooms) EXCEPT ![i] = Edited(@)]
  /\ ToCommit(i)
  /\ UNCHANGED <<matches, journals, used, cached, faults>>

(* The last person who could be host leaves a room that has not started.       *)
Leave(i) ==
  /\ Handles /\ Room1(i).status = "OPEN" /\ MayEdit(i)
  /\ rooms' = [Swept(rooms) EXCEPT ![i] = Expired(@)]
  /\ ToCommit(i)
  /\ UNCHANGED <<matches, journals, used, cached, faults>>

StartedRoom(r, m) ==
  [r EXCEPT !.status = "STARTED", !.match = m, !.expires = now + Retention,
            !.deleteAt = now + Retention, !.edits = @ + 1]

(* start: the match is in the store before the room names it.                  *)
Start(i, m) ==
  /\ Handles /\ Room1(i).status = "OPEN" /\ MayEdit(i) /\ m \notin used
  /\ used' = used \cup {m}
  /\ journals' = [journals EXCEPT ![m] = Journal(1)]
  /\ matches' = [matches EXCEPT ![m] = 1]
  /\ rooms' = [Swept(rooms) EXCEPT ![i] = StartedRoom(@, m)]
  /\ cached' = cached \cup {i}
  /\ ToCommit(i)
  /\ UNCHANGED faults

(* start when the match could not be created, or not be moved on to its first  *)
(* human: the room is open again, and the match may be left over.              *)
StartFails(i, m) ==
  /\ Handles /\ Room1(i).status = "OPEN" /\ MayEdit(i) /\ m \notin used
  /\ used' = used \cup {m}
  /\ Counted("FAILED")
  /\ \/ UNCHANGED <<journals, matches>>
     \/ /\ journals' = [journals EXCEPT ![m] = Journal(1)]
        /\ matches' \in {matches, [matches EXCEPT ![m] = 1]}
  /\ rooms' = [Swept(rooms) EXCEPT ![i] = Edited(@)]
  /\ Refuse

LobbyRoom(r) == [r EXCEPT !.status = "OPEN", !.match = NoMatch, !.edits = @ + 1]

(* returnToLobby once the match has a result: the dates stay as they are.      *)
ReturnToLobby(i) ==
  /\ Handles /\ Room1(i).status = "STARTED" /\ MayEdit(i)
  /\ matches[Room1(i).match] = LastRevision
  /\ rooms' = [Swept(rooms) EXCEPT ![i] = LobbyRoom(@)]
  /\ ToCommit(i)
  /\ UNCHANGED <<matches, journals, used, cached, faults>>

(* An operation that is refused has swept the rooms all the same.              *)
Refused ==
  /\ Handles
  /\ rooms' = Swept(rooms)
  /\ Refuse
  /\ UNCHANGED <<matches, journals, used, faults>>

Until(r) == IF r.status = "EXPIRED" THEN r.deleteAt ELSE r.expires

(* commit returns and the caller is answered that the operation is done.       *)
Answer ==
  /\ busy = "REQUEST"
  /\ CheckpointDone
  /\ busy' = "NONE" /\ edited' = {}
  /\ answered' = [i \in Rooms |-> IF i \in edited
                                  THEN [edits |-> rooms[i].edits, until |-> Until(rooms[i])]
                                  ELSE answered[i]]
  /\ UNCHANGED <<now, rooms, matches, journals, phase, purgeAt, admitted, owed, cached,
                 used, boots>>

(* commit throws: PERSISTENCE_UNAVAILABLE, and the process shuts down.         *)
AnswerUnavailable ==
  /\ busy = "REQUEST"
  /\ CheckpointThrows
  /\ Fatal /\ edited' = {}
  /\ UNCHANGED <<now, rooms, matches, journals, purgeAt, admitted, owed, cached,
                 used, answered, boots>>

(* A command of a player: saved and answered, and the checkpoint follows when  *)
(* the handler is resumed.                                                     *)
Command(m) ==
  /\ Handles /\ Live(m)
  /\ SaveTransitions({m})
  /\ owed' = TRUE
  /\ UNCHANGED <<now, rooms, online, phase, version, last, healthy, purgeAt, busy, edited,
                 cached, history>>

CommandThrows(m) ==
  /\ Handles /\ Live(m)
  /\ SaveThrowsAt({}, m)
  /\ healthy' = FALSE
  /\ Fatal
  /\ UNCHANGED <<now, rooms, online, version, last, purgeAt, owed, edited, cached,
                 used, answered, disputed, boots>>

-----------------------------------------------------------------------------
(* Sockets and the scheduler *)

(* A socket opens or closes: the room changes without a commit.  A close asks  *)
(* for a checkpoint.                                                           *)
SocketChange(i) ==
  /\ Idle /\ rooms[i].status \in {"OPEN", "STARTED"} /\ rooms[i].edits < MaxEdits
  /\ rooms' = [rooms EXCEPT ![i] = Edited(@)]
  /\ owed' \in {TRUE, owed}
  /\ UNCHANGED <<now, matches, online, journals, phase, version, last, healthy, purgeAt,
                 admitted, busy, edited, cached, history>>

(* The checkpoint after a command or a close.                                  *)
LateCheckpoint ==
  /\ Idle /\ owed
  /\ owed' = FALSE
  /\ \/ CheckpointDone /\ UNCHANGED <<phase, busy>>
     \/ CheckpointThrows /\ Fatal
  /\ UNCHANGED <<now, rooms, matches, journals, purgeAt, admitted, edited, cached,
                 used, answered, boots>>

(* The scheduler moves matches whose deadline passed or whose CPUs are to play *)
(* and sweeps; a change calls for a checkpoint.                                *)
SchedulerTick ==
  /\ phase = "UP" /\ busy = "NONE"
  /\ \E ms \in SUBSET {m \in Matches : Live(m)} :
       /\ SaveTransitions(ms)
       /\ rooms' = Swept(rooms)
       /\ busy' = IF ms # {} \/ Swept(rooms) # rooms THEN "TICK" ELSE "PURGE"
  /\ UNCHANGED <<now, online, phase, version, last, healthy, purgeAt, admitted, owed, edited, cached,
                 history>>

SchedulerThrows ==
  /\ phase = "UP" /\ busy = "NONE"
  /\ \E f \in {m \in Matches : Live(m)} :
     \E ms \in SUBSET {m \in Matches \ {f} : Live(m)} : SaveThrowsAt(ms, f)
  /\ Fatal
  /\ UNCHANGED <<now, rooms, online, version, last, healthy, purgeAt, admitted, owed, edited, cached,
                 used, answered, disputed, boots>>

TickCheckpoint ==
  /\ busy = "TICK"
  /\ \/ CheckpointDone /\ busy' = "PURGE" /\ UNCHANGED phase
     \/ CheckpointThrows /\ Fatal
  /\ UNCHANGED <<now, rooms, matches, journals, purgeAt, admitted, owed, edited, cached,
                 used, answered, boots>>

(* deleteExpired, once an hour *)
Purge ==
  /\ busy = "PURGE"
  /\ busy' = "NONE"
  /\ IF purgeAt <= now
     THEN /\ online' = IF online.expires <= now THEN [online EXCEPT !.version = 0] ELSE online
          /\ journals' = [m \in Matches |-> IF journals[m].expires <= now
                                            THEN [journals[m] EXCEPT !.revision = 0]
                                            ELSE journals[m]]
          /\ purgeAt' = now + PurgeEvery
     ELSE UNCHANGED <<online, journals, purgeAt>>
  /\ UNCHANGED <<now, rooms, matches, phase, version, last, healthy, admitted, owed, edited, cached,
                 history>>

(* An hour goes by: handlers under way end first, and a running scheduler, which *)
(* ticks several times a second, has swept and purged what is due.               *)
Pass ==
  /\ now < MaxNow
  /\ busy = "NONE" /\ admitted = 0 /\ ~owed
  /\ phase = "UP" => Swept(rooms) = rooms /\ purgeAt > now
  /\ now' = now + 1
  /\ cached' = {}
  /\ UNCHANGED <<rooms, matches, online, journals, phase, version, last, healthy, purgeAt,
                 admitted, owed, busy, edited, history>>

Next ==
  \/ Boot \/ Crash \/ Exit \/ Stop \/ StopCheckpoint
  \/ Admit \/ Refused \/ Answer \/ AnswerUnavailable
  \/ \E i \in Rooms :
       \/ Create(i) \/ Retry(i) \/ Edit(i) \/ Leave(i) \/ ReturnToLobby(i) \/ SocketChange(i)
       \/ \E m \in Matches : Start(i, m) \/ StartFails(i, m)
  \/ \E m \in Matches : Command(m) \/ CommandThrows(m)
  \/ LateCheckpoint \/ SchedulerTick \/ SchedulerThrows \/ TickCheckpoint \/ Purge
  \/ Pass

Spec == Init /\ [][Next]_vars

-----------------------------------------------------------------------------
(* Properties *)

TypeOK ==
  /\ now \in Nat /\ phase \in {"DOWN", "UP", "STOPPING", "FAILED"}
  /\ rooms \in [Rooms -> Room] /\ matches \in [Matches -> Nat]
  /\ version \in Nat /\ healthy \in BOOLEAN /\ purgeAt \in Nat
  /\ admitted \in Nat /\ owed \in BOOLEAN
  /\ busy \in {"NONE", "REQUEST", "TICK", "PURGE", "STOP"}
  /\ edited \subseteq Rooms /\ cached \subseteq Rooms
  /\ online \in [version: Nat, expires: Nat,
                 checkpoint: [rooms: [Rooms -> Room], cursors: [Matches -> Nat]]]
  /\ last \in SUBSET [rooms: [Rooms -> Room], cursors: [Matches -> Nat]]
  /\ journals \in [Matches -> [revision: Nat, expires: Nat]]
  /\ used \subseteq Rooms \cup Matches
  /\ answered \in [Rooms -> [edits: Nat, until: Nat]]
  /\ disputed \in BOOLEAN /\ faults \in Nat /\ boots \in Nat

(* The process can always start again: whenever it does, every match that a   *)
(* started room of the checkpoint names is still in the store, although the    *)
(* two are written, expire and are deleted apart (the constructor throws       *)
(* "Online room references missing persisted match").                          *)
AlwaysStarts == phase # "FAILED"

(* What was answered is kept: until the dates of the room pass, the store      *)
(* would restore the room with every edit that was answered as done, through   *)
(* failed and lost writes, the deletion of expired rows, crashes and restarts. *)
AnsweredIsStored ==
  \A i \in Rooms : answered[i].edits > 0 /\ now < answered[i].until
                     => OnlineLoads /\ online.checkpoint.rooms[i].edits >= answered[i].edits

(* The store never refuses the checkpoint of the only process that writes to   *)
(* it, whose own earlier checkpoint is the one it remembers.                   *)
CheckpointsAreNotDisputed == ~disputed
=============================================================================
