------------------------------ MODULE OnlineRoom ------------------------------
(***************************************************************************)
(* The invitation rooms of the online server: OnlineRoomService            *)
(* (online-room.ts) together with the session store it issues sessions     *)
(* from (online-session.ts), the realtime sockets that feed connection     *)
(* changes into it (runtime-server.ts) and, of every match, what the rooms *)
(* observe: whether it has a result, and who controls each of its seats.   *)
(*                                                                         *)
(* The server is a single Node.js process, so each operation is one step.  *)
(* Every operation that looks a room up first sweeps all rooms, and the    *)
(* sweep may hand a room to a randomly drawn host: SweepOutcomes is the set *)
(* of room tables a sweep can leave, and an operation is a step from one of *)
(* them.  A call that is rejected after its sweep is exactly a Sweep step.  *)
(*                                                                         *)
(* Dates are kept as the time left until they pass (at least 0), which     *)
(* Tick decrements; NoTimer stands for a null date.                        *)
(***************************************************************************)
EXTENDS Integers, FiniteSets, Functions

CONSTANTS
  RoomIds, Participants, SessionIds, MatchIds,  \* identifiers drawn at random
  HumanNames,        \* display names people type (up to displayNameKey)
  CpuNames,          \* k stands for the display name "CPU k"
  Passphrases,       \* passphrases of hidden-brawl rooms
  SeatCounts,        \* sizes a created room may have
  BrawlSeats, BrawlThreshold, \* what joinByPassphrase creates a room with
  SpectatorChoices,  \* values of allowSpectators a host may choose
  TeamCount,         \* teams of a hidden brawl, TEAM_1 to TEAM_4
  Thresholds,        \* end times a host may choose
  Grace,             \* hostDisconnectGraceMs
  SessionTTL,        \* ttlMs of the session store
  RoomTTL,           \* roomTtlMs
  Retention,         \* roomRetentionMs
  MaxSockets,        \* bound: sockets open at once for one session and match
  None

ASSUME TimesAssumption ==
  /\ Grace \in Nat \ {0}
  /\ SessionTTL \in Nat \ {0}
  /\ RoomTTL \in Nat \ {0}
  /\ Retention \in Nat \ {0}
  /\ MaxSockets \in Nat \ {0}

ASSUME SeatsAssumption ==
  /\ SeatCounts \subseteq Nat \ {0, 1}
  /\ BrawlSeats \in Nat \ {0, 1}
  /\ TeamCount \in Nat \ {0}
  /\ CpuNames \subseteq Nat
  /\ \A n \in SeatCounts : 1..(n - 1) \subseteq CpuNames
  /\ SpectatorChoices \subseteq BOOLEAN

ASSUME NoneAssumption ==
  None \notin RoomIds \cup Participants \cup SessionIds \cup MatchIds
                \cup HumanNames \cup CpuNames \cup Passphrases \cup Thresholds

VARIABLES
  rooms,     \* #rooms: room id -> room, AbsentRoom when the map has no entry
  sessions,  \* #sessions: session id -> binding and time left
  matches,   \* the matches of the command API, as far as rooms see them
  sockets    \* open realtime sockets: their captured identity, and how many (#connectionCounts)

vars == <<rooms, sessions, matches, sockets>>

NoTimer == -1
Names == HumanNames \cup CpuNames
Teams == 1..TeamCount

-----------------------------------------------------------------------------
(* Seats, participants, rooms *)

OpenSeat == [controller |-> "OPEN", pid |-> None, cpuName |-> None,
             ready |-> FALSE, team |-> None]
HumanSeat(p) == [OpenSeat EXCEPT !.controller = "HUMAN", !.pid = p]
CpuSeat(k) == [OpenSeat EXCEPT !.controller = "CPU", !.cpuName = k, !.ready = TRUE]

Nobody == [state |-> "NONE", name |-> None, seat |-> 0,
           connected |-> FALSE, player |-> None]
Newcomer(name, i) == [state |-> "ACTIVE", name |-> name, seat |-> i,
                      connected |-> TRUE, player |-> None]

AbsentRoom ==
  [status |-> "ABSENT", host |-> None, pass |-> None, invite |-> FALSE,
   spectators |-> FALSE, threshold |-> None, expires |-> 0, delete |-> 0,
   hostGone |-> NoTimer, match |-> None, seats |-> <<>>,
   people |-> [p \in Participants |-> Nobody]]

NewRoom(host, name, pass, seatCount, cpuCount, spectators, threshold) ==
  [status |-> "OPEN", host |-> host, pass |-> pass, invite |-> TRUE,
   spectators |-> spectators, threshold |-> threshold,
   expires |-> RoomTTL, delete |-> RoomTTL + Retention,
   hostGone |-> NoTimer, match |-> None,
   seats |-> [i \in 0..(seatCount - 1) |->
                IF i = 0 THEN HumanSeat(host)
                ELSE IF i <= cpuCount THEN CpuSeat(i) ELSE OpenSeat],
   people |-> [p \in Participants |-> IF p = host THEN Newcomer(name, 0) ELSE Nobody]]

Exists(rm) == rm.status # "ABSENT"
Known(rm) == {p \in Participants : rm.people[p].state # "NONE"}
Active(rm) == {p \in Participants : rm.people[p].state = "ACTIVE"}
SeatIndices(rm) == DOMAIN rm.seats
Occupied(rm) == {i \in SeatIndices(rm) : rm.seats[i].controller # "OPEN"}
HumanSeats(rm) == {i \in SeatIndices(rm) : rm.seats[i].controller = "HUMAN"}
CpuSeats(rm) == {i \in SeatIndices(rm) : rm.seats[i].controller = "CPU"}
SeatsOf(rm, p) == {i \in SeatIndices(rm) : rm.seats[i].pid = p}

(* Mutant: the first seat that is not a CPU's, rather than the first open one. *)
IsFirstNonCpu(rm, i) ==
  /\ rm.seats[i].controller # "CPU"
  /\ \A j \in SeatIndices(rm) : j < i => rm.seats[j].controller = "CPU"

IsFirstOpen(rm, i) ==
  /\ rm.seats[i].controller = "OPEN"
  /\ \A j \in SeatIndices(rm) : j < i => rm.seats[j].controller # "OPEN"

(* The name a seat plays under, and the match roster start() sends. *)
SeatName(rm, i) ==
  IF rm.seats[i].controller = "CPU" THEN rm.seats[i].cpuName
  ELSE rm.people[rm.seats[i].pid].name
HumanRoster(rm) == {SeatName(rm, i) : i \in HumanSeats(rm)}

NameTaken(rm, name) ==
  \/ \E p \in Active(rm) : rm.people[p].name = name
  \/ \E i \in CpuSeats(rm) : rm.seats[i].cpuName = name

IsUniqueCpuName(rm, i, k) ==
  /\ k > i /\ ~NameTaken(rm, k)
  /\ \A j \in CpuNames : (i < j /\ j < k) => NameTaken(rm, j)

-----------------------------------------------------------------------------
(* Expiry and the sweep *)

Expire(rm) == [rm EXCEPT !.status = "EXPIRED", !.invite = FALSE, !.pass = None,
                         !.delete = Retention]

(* Mutants: drawing from everybody the room has known; not asking for a connection. *)
HeirsOfAnyState(rm, connectedOnly) ==
  {p \in Known(rm) \ {rm.host} : connectedOnly => rm.people[p].connected}
HeirsEvenOffline(rm, connectedOnly) == Active(rm) \ {rm.host}

(* #randomHostSuccessor: who may be drawn; {} is its null. *)
Heirs(rm, connectedOnly) ==
  {p \in Active(rm) \ {rm.host} : connectedOnly => rm.people[p].connected}

(* The room with a successor drawn from the heirs, or expired for want of one. *)
Succession(rm, heirs) ==
  IF heirs = {} THEN {Expire(rm)}
  ELSE {[rm EXCEPT !.host = p, !.hostGone = NoTimer] : p \in heirs}

(* Mutant: an expired room expires again, and its deletion is put off.       *)
SweepRoomExpiringAgain(rm) ==
  IF ~Exists(rm) THEN {rm}
  ELSE IF rm.status # "STARTED" /\ rm.expires = 0 THEN {Expire(rm)}
  ELSE IF rm.delete = 0 THEN {AbsentRoom}
  ELSE IF rm.status = "OPEN" /\ rm.hostGone = 0 THEN Succession(rm, Heirs(rm, TRUE))
  ELSE {rm}

SweepRoom(rm) ==
  IF ~Exists(rm) THEN {rm}
  ELSE IF rm.delete = 0 THEN {AbsentRoom}
  ELSE IF rm.status = "OPEN" /\ rm.expires = 0 THEN {Expire(rm)}
  ELSE IF rm.status = "OPEN" /\ rm.hostGone = 0 THEN Succession(rm, Heirs(rm, TRUE))
  ELSE {rm}

SweepOutcomes ==
  {w \in [RoomIds -> UNION {SweepRoom(rooms[r]) : r \in RoomIds}] :
     \A r \in RoomIds : w[r] \in SweepRoom(rooms[r])}

-----------------------------------------------------------------------------
(* Sessions.  A revoked session and one whose time ran out behave alike, so  *)
(* both are NoSession once revoked or cleared; role is pid = None for a      *)
(* spectator (HOST and PARTICIPANT sessions are never told apart: the host   *)
(* is looked up in the room).                                                *)

NoSession == [room |-> None, pid |-> None, ttl |-> 0]
Issued(r, p) == [room |-> r, pid |-> p, ttl |-> SessionTTL]

IsActive(s) == sessions[s].ttl > 0
RoomOf(s) == sessions[s].room
PidOf(s) == sessions[s].pid

(* Mutant: the older sessions of a participant stay valid. *)
RevokedNothing(ss, r, ps) == ss

(* revokeParticipant for each of the participants ps of room r. *)
Revoked(ss, r, ps) ==
  [s \in SessionIds |-> IF ss[s].room = r /\ ss[s].pid \in ps THEN NoSession ELSE ss[s]]

(* Mutant: the sweep forgets to revoke the participants of rooms it expires. *)
SweptSessionsUnrevoked(w) ==
  [s \in SessionIds |-> IF IsActive(s) THEN sessions[s] ELSE NoSession]

(* The session table after a sweep: rooms that expired have revoked their   *)
(* participants, and clearExpired has run.                                  *)
SweptSessions(w) ==
  [s \in SessionIds |->
     IF \/ ~IsActive(s)
        \/ \E r \in RoomIds : /\ RoomOf(s) = r
                              /\ PidOf(s) \in Known(rooms[r])
                              /\ w[r].status = "EXPIRED" /\ rooms[r].status # "EXPIRED"
     THEN NoSession ELSE sessions[s]]

FreshSession(s) == RoomOf(s) = None /\ \A k \in sockets : k.sid # s
FreshRoom(w, r) ==
  /\ ~Exists(rooms[r]) /\ ~Exists(w[r])
  /\ \A s \in SessionIds : RoomOf(s) # r
  /\ \A k \in sockets : k.room # r
FreshParticipant(w, p) ==
  /\ \A r \in RoomIds : p \notin Known(w[r])
  /\ \A s \in SessionIds : PidOf(s) # p
  /\ \A k \in sockets : k.pid # p
FreshMatch(m) ==
  /\ \A r \in RoomIds : rooms[r].match # m
  /\ \A k \in sockets : k.match # m

(* #requireSessionRoom, #requireParticipant, #requireHost: the session was   *)
(* active before the sweep, the room is looked up after it.                  *)
SessionRoom(w, s) == IsActive(s) /\ Exists(w[RoomOf(s)])
Member(w, s) == SessionRoom(w, s) /\ PidOf(s) \in Active(w[RoomOf(s)])
Host(w, s) == Member(w, s) /\ w[RoomOf(s)].host = PidOf(s)

(* A call that only edits the caller's room, after the sweep that left w. *)
Save(w, s, rm) ==
  /\ rooms' = [w EXCEPT ![RoomOf(s)] = rm]
  /\ sessions' = SweptSessions(w)
  /\ UNCHANGED <<matches, sockets>>

-----------------------------------------------------------------------------
(* Coming in *)

CreateRoom(name, pass, seatCount, cpuCount, spectators, threshold) ==
  \E w \in IF pass = None THEN {rooms} ELSE SweepOutcomes,
     r \in RoomIds, p \in Participants, s \in SessionIds :
    /\ pass # None => \A q \in RoomIds : ~(w[q].status = "OPEN" /\ w[q].pass = pass)
    /\ FreshRoom(w, r) /\ FreshParticipant(w, p) /\ FreshSession(s)
    /\ rooms' = [w EXCEPT ![r] = NewRoom(p, name, pass, seatCount, cpuCount,
                                          spectators, threshold)]
    /\ sessions' = [(IF pass = None THEN sessions ELSE SweptSessions(w))
                      EXCEPT ![s] = Issued(r, p)]
    /\ UNCHANGED <<matches, sockets>>

Create ==
  \E name \in HumanNames, pass \in Passphrases \cup {None}, n \in SeatCounts,
     spectators \in SpectatorChoices, threshold \in Thresholds \cup {None} :
    \E cpus \in 0..(n - 1) : CreateRoom(name, pass, n, cpus, spectators, threshold)

(* Mutant: the participant's own seat index is not updated. *)
SeatedWithoutIndex(rm, p, i) == [rm EXCEPT !.seats[i] = HumanSeat(p)]

Seated(rm, p, i) == [rm EXCEPT !.seats[i] = HumanSeat(p), !.people[p].seat = i]

Admit(w, r, name) ==
  \E p \in Participants, s \in SessionIds, i \in SeatIndices(w[r]) :
    /\ ~NameTaken(w[r], name)
    /\ IsFirstOpen(w[r], i)
    /\ FreshParticipant(w, p) /\ FreshSession(s)
    /\ rooms' = [w EXCEPT ![r] = Seated([@ EXCEPT !.people[p] = Newcomer(name, i)], p, i)]
    /\ sessions' = [SweptSessions(w) EXCEPT ![s] = Issued(r, p)]
    /\ UNCHANGED <<matches, sockets>>

Join ==
  \E w \in SweepOutcomes, r \in RoomIds, name \in HumanNames :
    w[r].status = "OPEN" /\ w[r].invite /\ Admit(w, r, name)

(* The first OPEN room with the passphrase; a room is made when there is     *)
(* none.  When two rooms match, which is first is the map's insertion order, *)
(* which the model leaves open.                                              *)
JoinByPassphrase ==
  \E pass \in Passphrases, name \in HumanNames :
    \/ \E w \in SweepOutcomes, r \in RoomIds :
         w[r].status = "OPEN" /\ w[r].pass = pass /\ Admit(w, r, name)
    \/ CreateRoom(name, pass, BrawlSeats, 0, FALSE, BrawlThreshold)

(* Mutants: rejoining loses the player; rejoining renews the room's dates. *)
RejoinedUnbound(rm, p) == [rm EXCEPT !.people[p].connected = TRUE, !.people[p].player = None]
RejoinedRenewing(rm, p) ==
  [rm EXCEPT !.people[p].connected = TRUE, !.expires = RoomTTL, !.delete = RoomTTL + Retention]

Rejoined(rm, p) == [rm EXCEPT !.people[p].connected = TRUE]

Rejoin ==
  \E w \in SweepOutcomes, r \in RoomIds, s \in SessionIds :
    \E p \in Known(w[r]) :
      /\ w[r].status \in {"OPEN", "STARTED"}
      /\ FreshSession(s)
      /\ \/ /\ w[r].people[p].state = "ACTIVE" \/ w[r].status = "STARTED"
            /\ rooms' = [w EXCEPT ![r] = Rejoined(@, p)]
         \/ /\ w[r].people[p].state = "LEFT" /\ w[r].status = "OPEN"
            /\ \E i \in SeatIndices(w[r]) :
                 /\ IsFirstOpen(w[r], i)
                 /\ rooms' = [w EXCEPT ![r] =
                      Rejoined(Seated([@ EXCEPT !.people[p].state = "ACTIVE"], p, i), p)]
      /\ sessions' = [Revoked(SweptSessions(w), r, {p}) EXCEPT ![s] = Issued(r, p)]
      /\ UNCHANGED <<matches, sockets>>

Spectate ==
  \E w \in SweepOutcomes, r \in RoomIds, s \in SessionIds :
    /\ w[r].status = "STARTED" /\ w[r].invite /\ w[r].spectators
    /\ FreshSession(s)
    /\ rooms' = w
    /\ sessions' = [SweptSessions(w) EXCEPT ![s] = Issued(r, None)]
    /\ UNCHANGED <<matches, sockets>>

(* sessions.rotate: a new session for the same binding, no sweep. *)
RotateSession ==
  \E s, t \in SessionIds :
    /\ IsActive(s) /\ FreshSession(t)
    /\ sessions' = [sessions EXCEPT ![s] = NoSession, ![t] = Issued(RoomOf(s), PidOf(s))]
    /\ UNCHANGED <<rooms, matches, sockets>>

-----------------------------------------------------------------------------
(* In the lobby *)

SetReady ==
  \E s \in SessionIds, w \in SweepOutcomes, ready \in BOOLEAN :
    /\ Member(w, s)
    /\ LET rm == w[RoomOf(s)]
           i == rm.people[PidOf(s)].seat
       IN /\ rm.status = "OPEN" /\ rm.seats[i].pid = PidOf(s)
          /\ Save(w, s, [rm EXCEPT !.seats[i].ready = ready])

SetTeam ==
  \E s \in SessionIds, w \in SweepOutcomes, team \in Teams \cup {None} :
    /\ Member(w, s)
    /\ LET rm == w[RoomOf(s)]
           i == rm.people[PidOf(s)].seat
       IN /\ rm.status = "OPEN" /\ rm.pass # None /\ rm.seats[i].pid = PidOf(s)
          /\ Save(w, s, [rm EXCEPT !.seats[i].team = team])

(* Taking a seat again, or standing up from it, without leaving the room. *)
SetEntry ==
  \E s \in SessionIds, w \in SweepOutcomes :
    /\ Member(w, s)
    /\ LET rm == w[RoomOf(s)]
           p == PidOf(s)
       IN /\ rm.status = "OPEN" /\ rm.pass # None
          /\ \/ /\ SeatsOf(rm, p) = {}
                /\ \E i \in SeatIndices(rm) : IsFirstOpen(rm, i) /\ Save(w, s, Seated(rm, p, i))
             \/ \E i \in SeatsOf(rm, p) : Save(w, s, [rm EXCEPT !.seats[i] = OpenSeat])

(* The human seats are dealt to the teams in a random order. *)
ShuffleTeams ==
  \E s \in SessionIds, w \in SweepOutcomes :
    /\ Host(w, s)
    /\ LET rm == w[RoomOf(s)]
           dealt == HumanSeats(rm)
       IN /\ rm.status = "OPEN" /\ rm.pass # None
          /\ \E order \in Injection(dealt, 0..(Cardinality(dealt) - 1)) :
               Save(w, s, [rm EXCEPT !.seats = [i \in SeatIndices(rm) |->
                 IF i \in dealt THEN [@[i] EXCEPT !.team = 1 + (order[i] % TeamCount)]
                 ELSE @[i]]])

SetEndTimeThreshold ==
  \E s \in SessionIds, w \in SweepOutcomes, threshold \in Thresholds :
    /\ Host(w, s) /\ w[RoomOf(s)].status = "OPEN"
    /\ Save(w, s, [w[RoomOf(s)] EXCEPT !.threshold = threshold])

SetSeatController ==
  \E s \in SessionIds, w \in SweepOutcomes :
    /\ Host(w, s) /\ w[RoomOf(s)].status = "OPEN"
    /\ LET rm == w[RoomOf(s)]
       IN \E i \in SeatIndices(rm) \ HumanSeats(rm) :
            \/ \E k \in CpuNames : /\ IsUniqueCpuName(rm, i, k)
                                   /\ Save(w, s, [rm EXCEPT !.seats[i] = CpuSeat(k)])
            \/ Save(w, s, [rm EXCEPT !.seats[i] = OpenSeat])

RotateInvitation ==
  \E s \in SessionIds, w \in SweepOutcomes :
    /\ Host(w, s) /\ w[RoomOf(s)].status # "EXPIRED"
    /\ Save(w, s, [w[RoomOf(s)] EXCEPT !.invite = TRUE])

RevokeInvitation ==
  \E s \in SessionIds, w \in SweepOutcomes :
    Host(w, s) /\ Save(w, s, [w[RoomOf(s)] EXCEPT !.invite = FALSE])

-----------------------------------------------------------------------------
(* The match of a room.  Players are named after their seats: names are      *)
(* unique within a match.                                                    *)

NoMatch == [status |-> "NONE", humans |-> {}, cpuRun |-> {}, offline |-> {}]
NewMatch(names) == [NoMatch EXCEPT !.status = "PLAYING", !.humans = names]

(* What start() asks of the room, and what validateParticipants then asks of *)
(* the roster: the host's seat first, or the first seat when the host has    *)
(* none; a human in front; no name twice.                                    *)
SeatsReady(rm) ==
  /\ Cardinality(Occupied(rm)) >= 2
  /\ rm.pass = None => \A i \in HumanSeats(rm) : rm.seats[i].ready
RosterValid(rm) ==
  /\ \/ SeatsOf(rm, rm.host) # {}
     \/ \E i \in HumanSeats(rm) : \A j \in Occupied(rm) : i <= j
  /\ \A i, j \in Occupied(rm) : i # j => SeatName(rm, i) # SeatName(rm, j)

(* Every participant the room has ever had is bound to the player of the     *)
(* same name.                                                                *)
Started(rm, m) ==
  [rm EXCEPT !.status = "STARTED", !.match = m,
             !.expires = Retention, !.delete = Retention,
             !.people = [p \in Participants |->
               IF p \in Known(rm)
               THEN [rm.people[p] EXCEPT !.player =
                       IF rm.people[p].name \in HumanRoster(rm) THEN rm.people[p].name
                       ELSE None]
               ELSE Nobody]]

Start ==
  \E s \in SessionIds, w \in SweepOutcomes, m \in MatchIds :
    /\ Host(w, s) /\ FreshMatch(m)
    /\ LET rm == w[RoomOf(s)]
       IN /\ rm.status = "OPEN" /\ SeatsReady(rm) /\ RosterValid(rm)
          /\ rooms' = [w EXCEPT ![RoomOf(s)] = Started(rm, m)]
          /\ matches' = [matches EXCEPT ![m] = NewMatch(HumanRoster(rm))]
    /\ sessions' = SweptSessions(w)
    /\ UNCHANGED sockets

(* Mutants: the room keeps its match id; its participants keep their players. *)
BackInLobbyWithMatch(rm) ==
  [rm EXCEPT !.status = "OPEN",
             !.people = [p \in Participants |-> [rm.people[p] EXCEPT !.player = None]]]
BackInLobbyStillBound(rm) ==
  [rm EXCEPT !.status = "OPEN", !.match = None,
             !.seats = [i \in SeatIndices(rm) |->
                IF i \in HumanSeats(rm) THEN [rm.seats[i] EXCEPT !.ready = FALSE]
                ELSE rm.seats[i]]]

BackInLobby(rm) ==
  [rm EXCEPT !.status = "OPEN", !.match = None,
             !.people = [p \in Participants |-> [rm.people[p] EXCEPT !.player = None]],
             !.seats = [i \in SeatIndices(rm) |->
                IF i \in HumanSeats(rm) THEN [rm.seats[i] EXCEPT !.ready = FALSE]
                ELSE rm.seats[i]]]

ReturnToLobby ==
  \E s \in SessionIds, w \in SweepOutcomes :
    /\ Member(w, s)
    /\ LET rm == w[RoomOf(s)]
       IN /\ rm.status = "STARTED" /\ matches[rm.match].status = "ENDED"
          /\ Save(w, s, BackInLobby(rm))

(* Mutants: a participant who leaves does not give the seat back; leaving a  *)
(* match that is being played vacates the seat as in the lobby.              *)
LeaveOutcomesWhilePlaying(rm, p) ==
  LET i == rm.people[p].seat
      left == [rm EXCEPT !.people[p].connected = FALSE, !.people[p].state = "LEFT",
                         !.seats[i] = IF @.pid = p THEN OpenSeat ELSE @]
  IN IF rm.host # p THEN {left} ELSE Succession(left, Heirs(left, FALSE))
LeaveOutcomesKeepingSeat(rm, p) ==
  LET offline == [rm EXCEPT !.people[p].connected = FALSE]
      left == [offline EXCEPT !.people[p].state = "LEFT"]
  IN IF rm.status # "OPEN" THEN {offline}
     ELSE IF rm.host # p THEN {left}
     ELSE Succession(left, Heirs(left, FALSE))

(* Leaving: outside the lobby only the connection is recorded; in it the     *)
(* seat is vacated and the host's role passes on, or the room expires.       *)
LeaveOutcomes(rm, p) ==
  LET offline == [rm EXCEPT !.people[p].connected = FALSE]
      i == rm.people[p].seat
      left == [offline EXCEPT !.people[p].state = "LEFT",
                              !.seats[i] = IF @.pid = p THEN OpenSeat ELSE @]
  IN IF rm.status # "OPEN" THEN {offline}
     ELSE IF rm.host # p THEN {left}
     ELSE Succession(left, Heirs(left, FALSE))

Leave ==
  \E s \in SessionIds, w \in SweepOutcomes :
    /\ SessionRoom(w, s)
    /\ LET r == RoomOf(s)
           p == PidOf(s)
       IN \/ /\ p = None
             /\ rooms' = w
             /\ sessions' = [SweptSessions(w) EXCEPT ![s] = NoSession]
          \/ /\ p \in Known(w[r])
             /\ \E rm \in LeaveOutcomes(w[r], p) :
                  /\ rooms' = [w EXCEPT ![r] = rm]
                  /\ sessions' = Revoked(SweptSessions(w), r,
                                         IF rm.status = "EXPIRED" THEN Known(rm) ELSE {p})
    /\ UNCHANGED <<matches, sockets>>

-----------------------------------------------------------------------------
(* Realtime sockets *)

(* setConnected of the room service. *)
RoomConnection(rm, p, connected) ==
  IF p \notin Active(rm) THEN rm
  ELSE [rm EXCEPT !.people[p].connected = connected,
                  !.hostGone = IF rm.host # p THEN @
                               ELSE IF connected THEN NoTimer ELSE Grace]

(* setConnected of the match service: PLAYER_CONNECTION_CHANGED, unless the  *)
(* match already has the player so.                                          *)
MatchConnection(mt, name, connected) ==
  IF connected
  THEN IF name \in mt.offline
       THEN [mt EXCEPT !.offline = @ \ {name}, !.cpuRun = @ \ {name}]
       ELSE mt
  ELSE IF name \in mt.humans THEN [mt EXCEPT !.offline = @ \cup {name}] ELSE mt

(* Only the first socket of an identity, and the last one to close, count.   *)
RecordConnection(k, connected) ==
  /\ matches' = [matches EXCEPT ![k.match] = MatchConnection(@, k.player, connected)]
  /\ rooms' = [rooms EXCEPT ![k.room] = RoomConnection(@, k.pid, connected)]
  /\ UNCHANGED sessions

(* authorizeMatch: who may watch or play, and as which player. *)
Authorized(s) ==
  LET rm == rooms[RoomOf(s)]
      p == PidOf(s)
  IN /\ IsActive(s) /\ rm.status = "STARTED"
     /\ IF p = None THEN rm.spectators
        ELSE p \in Known(rm) /\ (rm.people[p].player # None \/ p = rm.host)
PlayerOf(s) == IF PidOf(s) = None THEN None ELSE rooms[RoomOf(s)].people[PidOf(s)].player

Identity(s) == [sid |-> s, room |-> RoomOf(s), pid |-> PidOf(s),
                match |-> rooms[RoomOf(s)].match, player |-> PlayerOf(s)]
SameKey(k, id) == k.sid = id.sid /\ k.match = id.match
WithCount(id, n) == [sid |-> id.sid, room |-> id.room, pid |-> id.pid,
                     match |-> id.match, player |-> id.player, count |-> n]

OpenSocket ==
  \E s \in SessionIds :
    /\ Authorized(s)
    /\ \/ /\ \A k \in sockets : ~SameKey(k, Identity(s))
          /\ sockets' = sockets \cup {WithCount(Identity(s), 1)}
          /\ RecordConnection(WithCount(Identity(s), 1), TRUE)
       \/ \E k \in sockets :
            /\ SameKey(k, Identity(s)) /\ k.count < MaxSockets
            /\ sockets' = (sockets \ {k}) \cup {[k EXCEPT !.count = @ + 1]}
            /\ UNCHANGED <<rooms, sessions, matches>>

CloseSocket ==
  \E k \in sockets :
    IF k.count > 1
    THEN /\ sockets' = (sockets \ {k}) \cup {[k EXCEPT !.count = @ - 1]}
         /\ UNCHANGED <<rooms, sessions, matches>>
    ELSE /\ sockets' = sockets \ {k}
         /\ RecordConnection(k, FALSE)

-----------------------------------------------------------------------------
(* What a match does by itself, and time.  A match that no room and no       *)
(* socket refers to any more is not followed further.                        *)

Followed == {rooms[r].match : r \in RoomIds} \cup {k.match : k \in sockets}

(* INPUT_TIMED_OUT: the player whose input is due is handed to the CPU. *)
InputTimesOut ==
  \E m \in MatchIds \cap Followed :
    /\ matches[m].status = "PLAYING"
    /\ \E name \in matches[m].humans \ matches[m].cpuRun :
         matches' = [matches EXCEPT ![m].cpuRun = @ \cup {name},
                                    ![m].offline = @ \cup {name}]
    /\ UNCHANGED <<rooms, sessions, sockets>>

MatchEnds ==
  \E m \in MatchIds \cap Followed :
    /\ matches[m].status = "PLAYING"
    /\ matches' = [matches EXCEPT ![m].status = "ENDED"]
    /\ UNCHANGED <<rooms, sessions, sockets>>

(* The scheduler's sweep; also any call that the code rejects. *)
Sweep ==
  /\ rooms' \in SweepOutcomes
  /\ sessions' = SweptSessions(rooms')
  /\ UNCHANGED <<matches, sockets>>

Elapse(t) == IF t > 0 THEN t - 1 ELSE t

Tick ==
  /\ rooms' = [r \in RoomIds |-> [rooms[r] EXCEPT !.expires = Elapse(@), !.delete = Elapse(@),
                                                  !.hostGone = Elapse(@)]]
  /\ sessions' = [s \in SessionIds |-> [sessions[s] EXCEPT !.ttl = Elapse(@)]]
  /\ UNCHANGED <<matches, sockets>>

-----------------------------------------------------------------------------
Init ==
  /\ rooms = [r \in RoomIds |-> AbsentRoom]
  /\ sessions = [s \in SessionIds |-> NoSession]
  /\ matches = [m \in MatchIds |-> NoMatch]
  /\ sockets = {}

Next ==
  \/ Create \/ Join \/ JoinByPassphrase \/ Rejoin \/ Spectate \/ RotateSession
  \/ SetReady \/ SetTeam \/ SetEntry \/ ShuffleTeams \/ SetEndTimeThreshold
  \/ SetSeatController \/ RotateInvitation \/ RevokeInvitation
  \/ Start \/ ReturnToLobby \/ Leave
  \/ OpenSocket \/ CloseSocket \/ InputTimesOut \/ MatchEnds
  \/ Sweep \/ Tick

(* Time passes, and the scheduler sweeps every 100 ms. *)
Fairness == WF_vars(Tick) /\ WF_vars(Sweep)

Spec == Init /\ [][Next]_vars
FairSpec == Spec /\ Fairness
-----------------------------------------------------------------------------
(* Type invariant, in parts a proof can take one at a time. *)

SeatType == [controller : {"OPEN", "HUMAN", "CPU"}, pid : Participants \cup {None},
             cpuName : CpuNames \cup {None}, ready : BOOLEAN, team : Teams \cup {None}]
PersonType == [state : {"NONE", "ACTIVE", "LEFT"}, name : HumanNames \cup {None}, seat : Nat,
               connected : BOOLEAN, player : HumanNames \cup {None}]

SeatsType == UNION {[0..(n - 1) -> SeatType] : n \in SeatCounts \cup {0, BrawlSeats}}
RoomType == [status : {"ABSENT", "OPEN", "STARTED", "EXPIRED"},
             host : Participants \cup {None}, pass : Passphrases \cup {None},
             invite : BOOLEAN, spectators : BOOLEAN,
             threshold : Thresholds \cup {BrawlThreshold, None},
             expires : Nat, delete : Nat, hostGone : Nat \cup {NoTimer},
             match : MatchIds \cup {None},
             seats : SeatsType,
             people : [Participants -> PersonType]]
SessionType == [room : RoomIds \cup {None}, pid : Participants \cup {None}, ttl : Nat]
MatchType == [status : {"NONE", "PLAYING", "ENDED"}, humans : SUBSET HumanNames,
              cpuRun : SUBSET HumanNames, offline : SUBSET HumanNames]
SocketType == [sid : SessionIds, room : RoomIds, pid : Participants \cup {None},
               match : MatchIds, player : HumanNames \cup {None}, count : 1..MaxSockets]

(* Every variable holds a value of its type, and a room is STARTED exactly   *)
(* while it has a match: start()'s rollback and returnToLobby never leave    *)
(* one without the other.                                                    *)
TypeOK ==
  /\ rooms \in [RoomIds -> RoomType]
  /\ sessions \in [SessionIds -> SessionType]
  /\ matches \in [MatchIds -> MatchType]
  /\ sockets \in SUBSET SocketType
  /\ \A r \in RoomIds : rooms[r].status = "STARTED" <=> rooms[r].match # None

-----------------------------------------------------------------------------
(* Safety *)

(* A human seat belongs to one participant who is in the room and who knows  *)
(* it as their seat, so nobody sits twice; the other seats carry nothing     *)
(* over from a human who sat there (pid, readiness, team).  Joining,         *)
(* rejoining, entry toggles, leaving and seat changes all rewrite both sides *)
(* of this relation.                                                         *)
SeatsBound(rm) ==
  \A i \in SeatIndices(rm) :
    IF i \in HumanSeats(rm)
    THEN rm.seats[i].pid \in Active(rm) /\ rm.people[rm.seats[i].pid].seat = i
    ELSE rm.seats[i] \in {OpenSeat} \cup {CpuSeat(k) : k \in CpuNames}
SeatBinding == \A r \in RoomIds : SeatsBound(rooms[r])

(* A room that is open or playing has a host who has not left it, whatever   *)
(* order of leaving, grace periods and random successions went before.       *)
HostPresent(rm) == rm.status \in {"OPEN", "STARTED"} => rm.host \in Active(rm)
HostIsPresent == \A r \in RoomIds : HostPresent(rooms[r])

(* The inductive invariant behind the three above, room by room.  A match is *)
(* cast from the names of the participants in its human seats, so the type   *)
(* of matches rests on the seats being bound to people who have names; and   *)
(* a live session must name a room for the steps made with it to stay        *)
(* within the types.                                                         *)
RoomInv(rm) ==
  /\ rm \in RoomType
  /\ rm.status = "STARTED" <=> rm.match # None
  /\ SeatsBound(rm)
  /\ HostPresent(rm)
  /\ \A p \in Known(rm) : rm.people[p].name # None
IInv ==
  /\ rooms \in [RoomIds -> RoomType]
  /\ \A r \in RoomIds : RoomInv(rooms[r])
  /\ sessions \in [SessionIds -> SessionType]
  /\ \A s \in SessionIds : IsActive(s) => RoomOf(s) # None
  /\ matches \in [MatchIds -> MatchType]
  /\ sockets \in SUBSET SocketType

(* A participant holds at most one live session: rejoining and rotating      *)
(* revoke the older one before issuing.                                      *)
OneSessionEach ==
  \A s, t \in SessionIds :
    IsActive(s) /\ IsActive(t) /\ PidOf(s) # None /\ PidOf(s) = PidOf(t) => s = t

(* An expired room can be entered by nobody: no code or passphrase admits,   *)
(* and no participant's session survived the expiry, however it came about.  *)
ExpiredIsSealed ==
  \A r \in RoomIds : rooms[r].status = "EXPIRED" =>
    /\ ~rooms[r].invite /\ rooms[r].pass = None
    /\ \A s \in SessionIds : IsActive(s) /\ RoomOf(s) = r => PidOf(s) = None

(* Every human player of a started room's match is some participant's, and   *)
(* every binding names a player of that match; outside a match nobody is     *)
(* bound.                                                                    *)
MatchBinding ==
  \A r \in RoomIds :
    LET rm == rooms[r]
        bound == {rm.people[p].player : p \in Participants} \ {None}
    IN IF rm.status = "STARTED"
       THEN bound = matches[rm.match].humans
       ELSE bound = {}

(* The identity a socket captured when it was opened is still the one its    *)
(* participant has, for as long as the room plays that match.                *)
SocketIdentityIsCurrent ==
  \A k \in sockets :
    LET rm == rooms[k.room]
    IN rm.match = k.match /\ k.pid # None =>
         k.pid \in Known(rm) /\ rm.people[k.pid].player = k.player

(* A started room plays one match with one cast: its seats, host, rules and  *)
(* bindings stay as they were when it started, until the match has a result  *)
(* and someone returns the room to the lobby, or its retention runs out.     *)
SameGame(rm, next) ==
  /\ next.status = "STARTED"
  /\ next.match = rm.match /\ next.seats = rm.seats /\ next.host = rm.host
  /\ next.threshold = rm.threshold
  /\ \A p \in Participants : next.people[p].player = rm.people[p].player
Frozen(rm, next) ==
  rm.status = "STARTED" =>
    \/ SameGame(rm, next)
    \/ next.status = "OPEN" /\ matches[rm.match].status = "ENDED"
    \/ next.status = "ABSENT" /\ rm.delete = 0
StartedRoomIsFrozen == [][\A r \in RoomIds : Frozen(rooms[r], rooms'[r])]_vars

(* The host changes only when the host leaves, or has been disconnected for  *)
(* the whole grace period.  The room then goes to someone still connected;   *)
(* when the call that finds the grace period over is the heir's own leaving, *)
(* it goes on to anyone who stays.                                           *)
HostHandedOver(rm, next) ==
  Exists(rm) /\ Exists(next) /\ next.host # rm.host =>
    \/ next.people[rm.host].state = "LEFT"
    \/ /\ rm.hostGone = 0
       /\ \/ rm.people[next.host].connected
          \/ \E p \in Active(rm) : rm.people[p].connected /\ next.people[p].state = "LEFT"
HostChangesForCause == [][\A r \in RoomIds : HostHandedOver(rooms[r], rooms'[r])]_vars

(* Nobody else can take or clear a participant's seat: it changes hands only *)
(* when they leave or, in a hidden brawl, stand up.                          *)
SeatsKept(rm, next) ==
  Exists(rm) /\ Exists(next) =>
    \A i \in HumanSeats(rm) :
      \/ next.seats[i].pid = rm.seats[i].pid
      \/ next.people[rm.seats[i].pid].state = "LEFT"
      \/ rm.pass # None /\ SeatsOf(next, rm.seats[i].pid) = {}
SeatIsKept == [][\A r \in RoomIds : SeatsKept(rooms[r], rooms'[r])]_vars

-----------------------------------------------------------------------------
(* Liveness, under the scheduler's sweep and the passing of time *)

(* No lobby stays open for ever: it starts, or expires, or is removed.       *)
LobbyEnds == \A r \in RoomIds : rooms[r].status = "OPEN" ~> rooms[r].status # "OPEN"

(* An expired room is eventually forgotten.                                  *)
ExpiredIsRemoved == \A r \in RoomIds : rooms[r].status = "EXPIRED" ~> ~Exists(rooms[r])
=============================================================================
