----------------------- MODULE OnlineRoomIdentity_proofs -----------------------
(***************************************************************************)
(* Further proofs about OnlineRoom: who a session, a socket and a player   *)
(* of a match stand for, what an expired room refuses, and what a step may *)
(* do to the host, to a seat and to a room that plays.                     *)
(*                                                                         *)
(* The argument has two halves.  Rooms: every action sweeps the table of   *)
(* rooms (Swept) and then edits one room of it (Edits), and the two        *)
(* together are what the action properties allow (RoomStep).  Sessions:    *)
(* every action changes the tables of rooms and sessions by sweeping,      *)
(* editing a room, revoking, and issuing, and each of these keeps what     *)
(* ties the two tables together (Accounted and Sealed).                    *)
(***************************************************************************)
EXTENDS OnlineRoom_proofs

-----------------------------------------------------------------------------
(* What ties a table of rooms w to a table of sessions ss *)

(* A participant is known in one room only and has at most one session, and  *)
(* a session of a room that exists is its participant's.  Identifiers are    *)
(* never drawn twice, so this also holds of sessions that have run out.      *)
Accounted(w, ss) ==
  /\ \A p \in Participants, r, q \in RoomIds : p \in Known(w[r]) /\ p \in Known(w[q]) => r = q
  /\ \A s, t \in SessionIds : ss[s].pid # None /\ ss[s].pid = ss[t].pid => s = t
  /\ \A s \in SessionIds, r \in RoomIds : ss[s].pid \in Known(w[r]) => ss[s].room = r
  /\ \A s \in SessionIds, r \in RoomIds :
       ss[s].room = r /\ Exists(w[r]) /\ ss[s].pid # None => ss[s].pid \in Known(w[r])

(* ExpiredIsSealed, of any two tables. *)
Sealed(w, ss) ==
  \A r \in RoomIds : w[r].status = "EXPIRED" =>
    /\ ~w[r].invite /\ w[r].pass = None
    /\ \A s \in SessionIds : ss[s].ttl > 0 /\ ss[s].room = r => ss[s].pid = None

(* The inductive invariant of this module. *)
SInv ==
  /\ IInv
  /\ Accounted(rooms, sessions) /\ Sealed(rooms, sessions)
  /\ MatchBinding /\ SocketIdentityIsCurrent

-----------------------------------------------------------------------------
(* What a step may do to a room *)

(* Outside a match nobody is bound who was not bound there before. *)
Unbound(rm, next) ==
  next.status # "STARTED" =>
    \A p \in Participants :
      \/ next.people[p].player = None
      \/ rm.status # "STARTED" /\ next.people[p].player = rm.people[p].player

(* Nobody is forgotten. *)
Remembers(rm, next) == Exists(rm) /\ Exists(next) => Known(rm) \subseteq Known(next)

RoomStep(rm, next) ==
  /\ Frozen(rm, next) /\ HostHandedOver(rm, next) /\ SeatsKept(rm, next)
  /\ Unbound(rm, next) /\ Remembers(rm, next)

(* What the sweep does to a room. *)
Swept(rm, v) ==
  \/ v = rm
  \/ v = AbsentRoom /\ rm.delete = 0
  \/ rm.status = "OPEN" /\ v = Expire(rm)
  \/ /\ rm.status = "OPEN" /\ rm.hostGone = 0
     /\ \E p \in Heirs(rm, TRUE) : v = [rm EXCEPT !.host = p, !.hostGone = NoTimer]

(* What an operation does to the room it is called for, once swept. *)
Edits(v, e) ==
  /\ Exists(v) /\ Exists(e)
  /\ Frozen(v, e) /\ SeatsKept(v, e) /\ Unbound(v, e) /\ Remembers(v, e)
  /\ e.host # v.host => e.people[v.host].state = "LEFT"

(* All but start: no room begins to play. *)
Continues(v, e) == e.status = "STARTED" => v.status = "STARTED"

(* All but leave: no room expires, and an expired one is not opened. *)
StaysSealed(v, e) ==
  e.status = "EXPIRED" =>
    v.status = "EXPIRED" /\ (e.invite => v.invite) /\ (v.pass = None => e.pass = None)

(* An edit that lets nobody in, starts nothing and expires nothing. *)
PlainEdit(v, e) ==
  Edits(v, e) /\ Continues(v, e) /\ StaysSealed(v, e) /\ Known(e) = Known(v)

(* A swept room is one of the four. *)
LEMMA SweptRoom ==
  ASSUME NEW rm, NEW v \in SweepRoom(rm)
  PROVE  Swept(rm, v)
BY DEF SweepRoom, Succession, Swept

(* The sweep by itself is a step. *)
LEMMA SweptStep ==
  ASSUME NEW rm, RoomInv(rm), NEW v, Swept(rm, v)
  PROVE  RoomStep(rm, v) /\ Continues(rm, v)
<1>1. CASE v = rm
  BY <1>1 DEF RoomStep, Frozen, SameGame, HostHandedOver, SeatsKept, Unbound, Remembers, Continues
<1>2. CASE v = AbsentRoom /\ rm.delete = 0
  <2>1. v.status = "ABSENT" /\ \A p \in Participants : v.people[p].player = None
    BY <1>2 DEF AbsentRoom, Nobody
  <2> QED
    BY <1>2, <2>1 DEF RoomStep, Frozen, HostHandedOver, SeatsKept, Unbound, Remembers, Exists,
                      Continues
<1>3. CASE rm.status = "OPEN" /\ v = Expire(rm)
  <2>1. v.status = "EXPIRED" /\ v.host = rm.host /\ v.seats = rm.seats /\ v.people = rm.people
    BY <1>3 DEF Expire, RoomInv, RoomType
  <2> QED
    BY <1>3, <2>1 DEF RoomStep, Frozen, HostHandedOver, SeatsKept, Unbound, Remembers, Known,
                      Continues
<1>4. ASSUME rm.status = "OPEN", rm.hostGone = 0,
             NEW p \in Heirs(rm, TRUE), v = [rm EXCEPT !.host = p, !.hostGone = NoTimer]
      PROVE  RoomStep(rm, v) /\ Continues(rm, v)
  <2>1. v.status = "OPEN" /\ v.host = p /\ v.seats = rm.seats /\ v.people = rm.people
    BY <1>4 DEF RoomInv, RoomType
  <2>2. rm.people[p].connected
    BY <1>4 DEF Heirs
  <2> QED
    BY <1>4, <2>1, <2>2 DEF RoomStep, Frozen, HostHandedOver, SeatsKept, Unbound, Remembers, Known,
                            Continues
<1> QED
  BY <1>1, <1>2, <1>3, <1>4 DEF Swept

(* The sweep and then an edit are a step. *)
LEMMA SweptThenEdited ==
  ASSUME NEW rm, RoomInv(rm), NEW v, Swept(rm, v), NEW e, Edits(v, e)
  PROVE  RoomStep(rm, e) /\ (Continues(v, e) => Continues(rm, e))
<1>1. CASE v = rm
  BY <1>1 DEF Edits, RoomStep, HostHandedOver
<1>2. CASE v = AbsentRoom
  BY <1>2 DEF Edits, Exists, AbsentRoom
<1>3. CASE rm.status = "OPEN" /\ v = Expire(rm)
  <2>1. /\ v.status = "EXPIRED" /\ v.host = rm.host /\ v.seats = rm.seats /\ v.people = rm.people
        /\ v.pass = None
    BY <1>3 DEF Expire, RoomInv, RoomType
  <2>2. SeatsKept(rm, e)
    BY <2>1 DEF Edits, SeatsKept, HumanSeats, SeatIndices
  <2>3. Frozen(rm, e) /\ HostHandedOver(rm, e) /\ Remembers(rm, e)
    BY <1>3, <2>1 DEF Edits, Frozen, HostHandedOver, Remembers, Known
  <2>4. Unbound(rm, e)
    BY <1>3, <2>1 DEF Edits, Unbound
  <2> QED
    BY <1>3, <2>1, <2>2, <2>3, <2>4 DEF RoomStep, Continues
<1>4. ASSUME rm.status = "OPEN", rm.hostGone = 0,
             NEW p \in Heirs(rm, TRUE), v = [rm EXCEPT !.host = p, !.hostGone = NoTimer]
      PROVE  RoomStep(rm, e) /\ (Continues(v, e) => Continues(rm, e))
  <2>1. /\ v.status = "OPEN" /\ v.host = p /\ v.seats = rm.seats /\ v.people = rm.people
        /\ v.pass = rm.pass
    BY <1>4 DEF RoomInv, RoomType
  <2>2. p \in Active(rm) /\ rm.people[p].connected
    BY <1>4 DEF Heirs
  <2>3. SeatsKept(rm, e)
    BY <2>1, <1>4 DEF Edits, SeatsKept, HumanSeats, SeatIndices, Exists
  <2>4. Frozen(rm, e) /\ Remembers(rm, e)
    BY <1>4, <2>1 DEF Edits, Frozen, Remembers, Known, Exists
  <2>5. HostHandedOver(rm, e)
    BY <1>4, <2>1, <2>2 DEF Edits, HostHandedOver
  <2>6. Unbound(rm, e)
    BY <1>4, <2>1 DEF Edits, Unbound
  <2> QED
    BY <1>4, <2>1, <2>3, <2>4, <2>5, <2>6 DEF RoomStep, Continues
<1> QED
  BY <1>1, <1>2, <1>3, <1>4 DEF Swept

-----------------------------------------------------------------------------
(* The edits *)

(* An edit that changes nobody: the seats of others, marks on seats, the     *)
(* rules, the invitation.                                                    *)
LEMMA FieldEdit ==
  ASSUME NEW v, NEW e, Exists(v),
         e.status = v.status, e.host = v.host, e.people = v.people, e.pass = v.pass,
         v.status = "EXPIRED" => (e.invite => v.invite),
         v.status = "STARTED" =>
           e.match = v.match /\ e.seats = v.seats /\ e.threshold = v.threshold,
         \A i \in HumanSeats(v) :
           \/ e.seats[i].pid = v.seats[i].pid
           \/ v.pass # None /\ SeatsOf(e, v.seats[i].pid) = {}
  PROVE  PlainEdit(v, e)
<1>1. Exists(e) /\ Known(e) = Known(v)
  BY DEF Exists, Known
<1>2. Frozen(v, e) /\ SeatsKept(v, e) /\ Unbound(v, e) /\ Remembers(v, e)
  BY <1>1 DEF Frozen, SameGame, SeatsKept, Unbound, Remembers
<1> QED
  BY <1>1, <1>2 DEF PlainEdit, Edits, Continues, StaysSealed

(* Recording whether somebody is connected. *)
LEMMA ConnectedEdit ==
  ASSUME NEW v, RoomInv(v), Exists(v), NEW p \in Participants, NEW connected \in BOOLEAN
  PROVE  PlainEdit(v, [v EXCEPT !.people[p].connected = connected])
<1> DEFINE e == [v EXCEPT !.people[p].connected = connected]
<1>1. /\ e.status = v.status /\ e.host = v.host /\ e.pass = v.pass /\ e.invite = v.invite
      /\ e.match = v.match /\ e.seats = v.seats /\ e.threshold = v.threshold
  BY DEF RoomInv, RoomType
<1>2. \A q \in Participants : e.people[q].player = v.people[q].player
                              /\ e.people[q].state = v.people[q].state
  BY DEF RoomInv, RoomType, PersonType
<1> HIDE DEF e
<1>3. Exists(e) /\ Known(e) = Known(v)
  BY <1>1, <1>2 DEF Exists, Known
<1>4. Frozen(v, e) /\ SeatsKept(v, e) /\ Unbound(v, e) /\ Remembers(v, e)
  BY <1>1, <1>2, <1>3 DEF Frozen, SameGame, SeatsKept, Unbound, Remembers
<1>5. PlainEdit(v, e)
  BY <1>1, <1>3, <1>4 DEF PlainEdit, Edits, Continues, StaysSealed
<1> QED
  BY <1>5 DEF e

(* Somebody who has no seat sits down in an open one, in an open room.       *)
LEMMA SeatedEdit ==
  ASSUME NEW v, RoomInv(v), v.status = "OPEN", NEW p \in Participants,
         NEW i \in SeatIndices(v), v.seats[i].controller = "OPEN",
         NEW x \in PersonType, x.state = "ACTIVE",
         x.player = None \/ x.player = v.people[p].player
  PROVE  LET e == Seated([v EXCEPT !.people[p] = x], p, i)
         IN /\ Edits(v, e) /\ Continues(v, e) /\ StaysSealed(v, e)
            /\ Known(e) = Known(v) \cup {p} /\ e.status = "OPEN"
<1> DEFINE e == Seated([v EXCEPT !.people[p] = x], p, i)
<1>1. /\ e.status = "OPEN" /\ e.host = v.host /\ e.pass = v.pass
      /\ e.seats = [v.seats EXCEPT ![i] = HumanSeat(p)]
      /\ \A q \in Participants : e.people[q] = IF q = p THEN [x EXCEPT !.seat = i] ELSE v.people[q]
  BY DEF Seated, RoomInv, RoomType, PersonType
<1>2. \A q \in Participants :
        /\ e.people[q].state = IF q = p THEN "ACTIVE" ELSE v.people[q].state
        /\ e.people[q].player = None \/ e.people[q].player = v.people[q].player
  <2>1. [x EXCEPT !.seat = i].state = "ACTIVE" /\ [x EXCEPT !.seat = i].player = x.player
    BY DEF PersonType
  <2> QED
    BY <1>1, <2>1
<1>3. \A j \in HumanSeats(v) : e.seats[j].pid = v.seats[j].pid
  <2>1. v.seats = [j \in DOMAIN v.seats |-> v.seats[j]]
    BY SeatsShape DEF RoomInv, RoomType
  <2> QED
    BY <1>1, <2>1 DEF HumanSeats, SeatIndices
<1> HIDE DEF e
<1>4. Exists(e) /\ Exists(v)
  BY <1>1 DEF Exists
<1>5. Known(e) = Known(v) \cup {p}
  BY <1>2 DEF Known
<1>6. Frozen(v, e) /\ SeatsKept(v, e) /\ Unbound(v, e) /\ Remembers(v, e)
  BY <1>1, <1>2, <1>3, <1>5 DEF Frozen, SeatsKept, Unbound, Remembers
<1>7. Edits(v, e) /\ Continues(v, e) /\ StaysSealed(v, e)
  BY <1>1, <1>4, <1>6 DEF Edits, Continues, StaysSealed
<1> QED
  BY <1>1, <1>5, <1>7 DEF e

(* Starting the match: every player of it is bound to a participant. *)
LEMMA StartedEdit ==
  ASSUME NEW v, RoomInv(v), v.status = "OPEN", NEW m \in MatchIds
  PROVE  LET e == Started(v, m)
         IN /\ Edits(v, e) /\ StaysSealed(v, e) /\ Known(e) = Known(v)
            /\ e.match = m /\ e.status = "STARTED"
            /\ {e.people[p].player : p \in Participants} \ {None} = HumanRoster(v)
<1> DEFINE e == Started(v, m)
<1>1. e.status = "STARTED" /\ e.match = m /\ e.host = v.host /\ e.seats = v.seats
  BY DEF Started, RoomInv, RoomType
<1>2. \A p \in Participants :
        /\ e.people[p].state = v.people[p].state
        /\ e.people[p].player = IF p \in Known(v) /\ v.people[p].name \in HumanRoster(v)
                                THEN v.people[p].name ELSE None
  <2> SUFFICES ASSUME NEW p \in Participants
               PROVE  /\ e.people[p].state = v.people[p].state
                      /\ e.people[p].player =
                           IF p \in Known(v) /\ v.people[p].name \in HumanRoster(v)
                           THEN v.people[p].name ELSE None
    OBVIOUS
  <2>1. v.people[p] \in PersonType
    BY DEF RoomInv, RoomType
  <2> DEFINE player == IF v.people[p].name \in HumanRoster(v) THEN v.people[p].name ELSE None
  <2>2. e.people[p] = IF p \in Known(v) THEN [v.people[p] EXCEPT !.player = player] ELSE Nobody
    BY DEF Started, RoomInv, RoomType
  <2> HIDE DEF player
  <2>3. p \notin Known(v) => v.people[p].state = "NONE"
    BY DEF Known
  <2>4. [v.people[p] EXCEPT !.player = player].state = v.people[p].state
        /\ [v.people[p] EXCEPT !.player = player].player = player
    BY <2>1 DEF PersonType
  <2> QED
    BY <2>2, <2>3, <2>4 DEF Nobody, player
<1> HIDE DEF e
<1>3. Exists(e) /\ Exists(v) /\ Known(e) = Known(v)
  BY <1>1, <1>2 DEF Exists, Known
<1>4. Frozen(v, e) /\ SeatsKept(v, e) /\ Unbound(v, e) /\ Remembers(v, e)
  BY <1>1, <1>3 DEF Frozen, SeatsKept, Unbound, Remembers
<1>5. {e.people[p].player : p \in Participants} \ {None} = HumanRoster(v)
  <2>1. ASSUME NEW name \in HumanRoster(v)
        PROVE  name # None /\ \E p \in Participants : e.people[p].player = name
    <3>1. PICK i \in HumanSeats(v) : name = SeatName(v, i)
      BY DEF HumanRoster
    <3> DEFINE p == v.seats[i].pid
    <3>2. p \in Active(v) /\ name = v.people[p].name
      BY <3>1 DEF RoomInv, SeatsBound, HumanSeats, SeatName
    <3>3. p \in Participants /\ p \in Known(v)
      BY <3>2 DEF Active, Known
    <3>4. e.people[p].player = name
      BY <1>2, <3>2, <3>3
    <3>5. name # None
      BY RosterNames, NoneAssumption
    <3> QED
      BY <3>3, <3>4, <3>5
  <2>2. ASSUME NEW p \in Participants, e.people[p].player # None
        PROVE  e.people[p].player \in HumanRoster(v)
    BY <1>2, <2>2
  <2> QED
    BY <2>1, <2>2
<1>6. Edits(v, e) /\ StaysSealed(v, e)
  BY <1>1, <1>3, <1>4 DEF Edits, StaysSealed
<1> QED
  BY <1>1, <1>3, <1>5, <1>6 DEF e

(* Back in the lobby, once the match has a result. *)
LEMMA BackInLobbyEdit ==
  ASSUME NEW v, RoomInv(v), v.status = "STARTED", matches[v.match].status = "ENDED"
  PROVE  PlainEdit(v, BackInLobby(v))
<1> DEFINE e == BackInLobby(v)
<1>1. /\ e.status = "OPEN" /\ e.host = v.host
      /\ e.seats = [i \in SeatIndices(v) |->
                     IF i \in HumanSeats(v) THEN [v.seats[i] EXCEPT !.ready = FALSE]
                     ELSE v.seats[i]]
      /\ e.people = [p \in Participants |-> [v.people[p] EXCEPT !.player = None]]
  BY DEF BackInLobby, RoomInv, RoomType
<1>2. \A i \in HumanSeats(v) : e.seats[i].pid = v.seats[i].pid
  <2> SUFFICES ASSUME NEW i \in HumanSeats(v) PROVE e.seats[i].pid = v.seats[i].pid
    OBVIOUS
  <2>1. i \in SeatIndices(v) /\ v.seats[i] \in SeatType
    BY SeatsShape DEF RoomInv, RoomType, SeatIndices, HumanSeats
  <2>2. [v.seats[i] EXCEPT !.ready = FALSE].pid = v.seats[i].pid
    BY <2>1 DEF SeatType
  <2> QED
    BY <1>1, <2>1, <2>2
<1>3. \A p \in Participants : e.people[p].player = None /\ e.people[p].state = v.people[p].state
  BY <1>1 DEF RoomInv, RoomType, PersonType
<1> HIDE DEF e
<1>4. Exists(e) /\ Exists(v) /\ Known(e) = Known(v)
  BY <1>1, <1>3 DEF Exists, Known
<1>5. Frozen(v, e) /\ SeatsKept(v, e) /\ Unbound(v, e) /\ Remembers(v, e)
  BY <1>1, <1>2, <1>3, <1>4 DEF Frozen, SeatsKept, Unbound, Remembers
<1>6. PlainEdit(v, e)
  BY <1>1, <1>4, <1>5 DEF PlainEdit, Edits, Continues, StaysSealed
<1> QED
  BY <1>6 DEF e

(* Leaving: a seat is given up by the one who leaves only, and so is the     *)
(* host's role; a room that expires of it is sealed.                         *)
LEMMA LeaveEdit ==
  ASSUME NEW v, RoomInv(v), Exists(v), NEW p \in Known(v), NEW e \in LeaveOutcomes(v, p)
  PROVE  /\ Edits(v, e) /\ Continues(v, e) /\ Known(e) = Known(v)
         /\ \/ StaysSealed(v, e)
            \/ v.status = "OPEN" /\ ~e.invite /\ e.pass = None
<1> p \in Participants
  BY DEF Known
<1>1. CASE v.status # "OPEN"
  <2>1. e = [v EXCEPT !.people[p].connected = FALSE]
    BY <1>1 DEF LeaveOutcomes
  <2> QED
    BY <2>1, ConnectedEdit DEF PlainEdit
<1>2. CASE v.status = "OPEN"
  <2> DEFINE offline == [v EXCEPT !.people[p].connected = FALSE]
             i == v.people[p].seat
             left == [offline EXCEPT !.people[p].state = "LEFT",
                                     !.seats[i] = IF @.pid = p THEN OpenSeat ELSE @]
  <2>1. /\ left.status = "OPEN" /\ left.host = v.host
        /\ left.seats = [v.seats EXCEPT ![i] = IF @.pid = p THEN OpenSeat ELSE @]
    BY <1>2 DEF RoomInv, RoomType
  <2>2. \A q \in Participants :
          /\ left.people[q].player = v.people[q].player
          /\ left.people[q].state = IF q = p THEN "LEFT" ELSE v.people[q].state
    BY DEF RoomInv, RoomType, PersonType
  <2>3. \A j \in HumanSeats(v) : left.seats[j].pid = v.seats[j].pid \/ v.seats[j].pid = p
    <3>1. v.seats = [j \in DOMAIN v.seats |-> v.seats[j]]
      BY SeatsShape DEF RoomInv, RoomType
    <3> QED
      BY <2>1, <3>1 DEF HumanSeats, SeatIndices
  <2>4. /\ e.status \in {"OPEN", "EXPIRED"} /\ e.people = left.people /\ e.seats = left.seats
        /\ e.host # v.host => v.host = p
        /\ e.status = "EXPIRED" => ~e.invite /\ e.pass = None
    <3>1. CASE v.host # p
      <4>1. e = left
        BY <1>2, <3>1 DEF LeaveOutcomes
      <4> QED
        BY <2>1, <4>1
    <3>2. CASE v.host = p
      <4>1. e \in Succession(left, Heirs(left, FALSE))
        BY <1>2, <3>2 DEF LeaveOutcomes
      <4>2. left = [f \in DOMAIN v |-> left[f]]
        BY DEF RoomInv, RoomType
      <4>3. DOMAIN v = {"status", "host", "pass", "invite", "spectators", "threshold", "expires",
                        "delete", "hostGone", "match", "seats", "people"}
        BY DEF RoomInv, RoomType
      <4> HIDE DEF left
      <4>4. CASE e = Expire(left)
        BY <2>1, <3>2, <4>2, <4>3, <4>4 DEF Expire
      <4>5. ASSUME NEW q, e = [left EXCEPT !.host = q, !.hostGone = NoTimer]
            PROVE  e.status = "OPEN" /\ e.people = left.people /\ e.seats = left.seats
        BY <2>1, <4>2, <4>3, <4>5
      <4> QED
        BY <3>2, <4>1, <4>4, <4>5 DEF Succession
    <3> QED
      BY <3>1, <3>2
  <2> HIDE DEF left
  <2>5. Exists(e) /\ Known(e) = Known(v)
    BY <2>2, <2>4 DEF Exists, Known
  <2>6. SeatsKept(v, e)
    BY <2>2, <2>3, <2>4 DEF SeatsKept
  <2>7. Frozen(v, e) /\ Unbound(v, e) /\ Remembers(v, e)
    BY <1>2, <2>2, <2>4, <2>5 DEF Frozen, Unbound, Remembers
  <2>8. e.host # v.host => e.people[v.host].state = "LEFT"
    BY <2>2, <2>4
  <2> QED
    BY <1>2, <2>4, <2>5, <2>6, <2>7, <2>8 DEF Edits, Continues, StaysSealed
<1> QED
  BY <1>1, <1>2

(* A socket that opens or closes changes nothing of the room but who is      *)
(* connected, and the date its host is given up.                             *)
LEMMA ConnectionEdit ==
  ASSUME NEW rm, RoomInv(rm), NEW p, NEW connected \in BOOLEAN
  PROVE  LET e == RoomConnection(rm, p, connected)
         IN /\ RoomStep(rm, e) /\ e.status = rm.status /\ e.match = rm.match
            /\ e.invite = rm.invite /\ e.pass = rm.pass /\ Known(e) = Known(rm)
            /\ \A q \in Participants : e.people[q].player = rm.people[q].player
<1> DEFINE e == RoomConnection(rm, p, connected)
<1>1. /\ e.status = rm.status /\ e.match = rm.match /\ e.invite = rm.invite /\ e.pass = rm.pass
      /\ e.host = rm.host /\ e.seats = rm.seats /\ e.threshold = rm.threshold
      /\ \A q \in Participants : e.people[q].player = rm.people[q].player
                                 /\ e.people[q].state = rm.people[q].state
  <2>1. CASE p \notin Active(rm)
    BY <2>1 DEF RoomConnection
  <2>2. CASE p \in Active(rm)
    <3> DEFINE mid == [rm EXCEPT !.people[p].connected = connected]
               gone == IF rm.host # p THEN rm.hostGone ELSE IF connected THEN NoTimer ELSE Grace
    <3>1. e = [mid EXCEPT !.hostGone = gone]
      BY <2>2 DEF RoomConnection, RoomInv, RoomType
    <3>2. \A q \in Participants : mid.people[q].player = rm.people[q].player
                                  /\ mid.people[q].state = rm.people[q].state
      BY DEF RoomInv, RoomType, PersonType
    <3> HIDE DEF gone
    <3>3. /\ e.status = rm.status /\ e.match = rm.match /\ e.invite = rm.invite
          /\ e.pass = rm.pass /\ e.host = rm.host /\ e.seats = rm.seats
          /\ e.threshold = rm.threshold /\ e.people = mid.people
      BY <3>1 DEF RoomInv, RoomType
    <3> QED
      BY <3>2, <3>3
  <2> QED
    BY <2>1, <2>2
<1> HIDE DEF e
<1>2. Known(e) = Known(rm)
  BY <1>1 DEF Known
<1>3. RoomStep(rm, e)
  BY <1>1, <1>2 DEF RoomStep, Frozen, SameGame, HostHandedOver, SeatsKept, Unbound, Remembers
<1> QED
  BY <1>1, <1>2, <1>3 DEF e

-----------------------------------------------------------------------------
(* The tables of rooms and of sessions *)

(* The sweep of the whole table. *)
LEMMA SweptTable ==
  ASSUME IInv, NEW w \in SweepOutcomes
  PROVE  /\ RoomsOK(w) /\ SessionsOK(SweptSessions(w))
         /\ \A r \in RoomIds : RoomInv(rooms[r]) /\ Swept(rooms[r], w[r])
<1>1. \A r \in RoomIds : w[r] \in SweepRoom(rooms[r])
  BY DEF SweepOutcomes
<1> QED
  BY <1>1, SweptRoom, SweptOK DEF IInv

(* What a swept room still says of the room it was. *)
LEMMA SweptFacts ==
  ASSUME NEW rm, RoomInv(rm), NEW v, Swept(rm, v)
  PROVE  /\ Known(v) \subseteq Known(rm)
         /\ Exists(v) => Exists(rm) /\ Known(v) = Known(rm)
         /\ v.status = "EXPIRED" =>
              v = rm \/ (rm.status = "OPEN" /\ ~v.invite /\ v.pass = None)
         /\ v.status = "STARTED" => v = rm
<1>1. CASE v = rm
  BY <1>1
<1>2. CASE v = AbsentRoom
  BY <1>2 DEF AbsentRoom, Nobody, Known, Exists
<1>3. CASE rm.status = "OPEN" /\ v = Expire(rm)
  BY <1>3 DEF Expire, RoomInv, RoomType, Known, Exists
<1>4. ASSUME rm.status = "OPEN", NEW p, v = [rm EXCEPT !.host = p, !.hostGone = NoTimer]
      PROVE  v.status = "OPEN" /\ Known(v) = Known(rm)
  BY <1>4 DEF RoomInv, RoomType, Known
<1> QED
  BY <1>1, <1>2, <1>3, <1>4 DEF Swept, Exists

(* Revoking, or forgetting, sessions. *)
LEMMA FewerSessions ==
  ASSUME NEW w, NEW ss, Accounted(w, ss), Sealed(w, ss), NEW fewer,
         \A s \in SessionIds : fewer[s] = NoSession \/ fewer[s] = ss[s]
  PROVE  Accounted(w, fewer) /\ Sealed(w, fewer)
<1>1. NoSession.pid = None /\ NoSession.room = None /\ ~(NoSession.ttl > 0)
  BY DEF NoSession
<1>2. \A r \in RoomIds : None \notin Known(w[r]) /\ None # r
  BY NoneAssumption DEF Known
<1>3. \A s \in SessionIds :
        /\ fewer[s].pid # None => fewer[s] = ss[s]
        /\ fewer[s].room # None => fewer[s] = ss[s]
  BY <1>1
<1>4. Accounted(w, fewer)
  BY <1>2, <1>3 DEF Accounted
<1>5. Sealed(w, fewer)
  BY <1>2, <1>3 DEF Sealed
<1> QED
  BY <1>4, <1>5

(* Editing a room so that the same people are known in it. *)
LEMMA PlainRoom ==
  ASSUME NEW w, RoomsOK(w), NEW ss, Accounted(w, ss), Sealed(w, ss),
         NEW r \in RoomIds, NEW e, Exists(w[r]), Known(e) = Known(w[r]), StaysSealed(w[r], e)
  PROVE  Accounted([w EXCEPT ![r] = e], ss) /\ Sealed([w EXCEPT ![r] = e], ss)
<1> DEFINE new == [w EXCEPT ![r] = e]
<1>1. \A q \in RoomIds : new[q] = IF q = r THEN e ELSE w[q]
  BY DEF RoomsOK
<1> HIDE DEF new
<1>2. \A q \in RoomIds : Known(new[q]) = Known(w[q]) /\ (Exists(new[q]) => Exists(w[q]))
  BY <1>1
<1>3. Accounted(new, ss)
  BY <1>2 DEF Accounted
<1>4. Sealed(new, ss)
  <2>1. \A q \in RoomIds : new[q].status = "EXPIRED" =>
          /\ w[q].status = "EXPIRED" /\ (new[q].invite => w[q].invite)
          /\ (w[q].pass = None => new[q].pass = None)
    BY <1>1 DEF StaysSealed
  <2> QED
    BY <2>1 DEF Sealed
<1> QED
  BY <1>3, <1>4 DEF new

(* A room with one more participant, whom nobody has known before. *)
Enters(w, ss, r, p, e) ==
  /\ Known(e) \subseteq Known(w[r]) \cup {p}
  /\ Exists(w[r]) => Known(w[r]) \subseteq Known(e)
  /\ ~Exists(w[r]) => \A s \in SessionIds : ss[s].room # r
  /\ e.status # "EXPIRED"
  /\ \A q \in RoomIds : p \notin Known(w[q])
  /\ \A s \in SessionIds : ss[s].pid # p
LEMMA NewcomerRoom ==
  ASSUME NEW w, RoomsOK(w), NEW ss, Accounted(w, ss), Sealed(w, ss),
         NEW r \in RoomIds, NEW p \in Participants, NEW e, Enters(w, ss, r, p, e)
  PROVE  Accounted([w EXCEPT ![r] = e], ss) /\ Sealed([w EXCEPT ![r] = e], ss)
<1> DEFINE new == [w EXCEPT ![r] = e]
<1>1. \A q \in RoomIds : new[q] = IF q = r THEN e ELSE w[q]
  BY DEF RoomsOK
<1> HIDE DEF new
<1>2. Accounted(new, ss)
  <2>1. ASSUME NEW x \in Participants, NEW q \in RoomIds, x \in Known(new[q])
        PROVE  x \in Known(w[q]) \/ (x = p /\ q = r)
    BY <1>1, <2>1 DEF Enters
  <2>2. \A x \in Participants, q, o \in RoomIds : x \in Known(new[q]) /\ x \in Known(new[o]) => q = o
    BY <2>1 DEF Accounted, Enters
  <2>3. \A s \in SessionIds, q \in RoomIds : ss[s].pid \in Known(new[q]) => ss[s].room = q
    BY <2>1 DEF Accounted, Known, Enters
  <2>4. \A s \in SessionIds, q \in RoomIds :
          ss[s].room = q /\ Exists(new[q]) /\ ss[s].pid # None => ss[s].pid \in Known(new[q])
    BY <1>1 DEF Accounted, Enters
  <2> QED
    BY <2>2, <2>3, <2>4 DEF Accounted
<1>3. Sealed(new, ss)
  BY <1>1 DEF Sealed, Enters
<1> QED
  BY <1>2, <1>3 DEF new

(* Issuing a session for a participant of a room, or for a spectator. *)
Issuable(w, ss, r, p) ==
  p # None =>
    /\ \A t \in SessionIds : ss[t].pid # p
    /\ \A q \in RoomIds : p \in Known(w[q]) => q = r
    /\ Exists(w[r]) => p \in Known(w[r])
    /\ w[r].status # "EXPIRED"
LEMMA IssuedSession ==
  ASSUME NEW w, NEW ss, SessionsOK(ss), Accounted(w, ss), Sealed(w, ss),
         NEW s \in SessionIds, NEW r \in RoomIds, NEW p \in Participants \cup {None},
         Issuable(w, ss, r, p)
  PROVE  Accounted(w, [ss EXCEPT ![s] = Issued(r, p)]) /\ Sealed(w, [ss EXCEPT ![s] = Issued(r, p)])
<1> DEFINE new == [ss EXCEPT ![s] = Issued(r, p)]
<1>1. \A t \in SessionIds : new[t] = IF t = s THEN Issued(r, p) ELSE ss[t]
  BY DEF SessionsOK
<1>2. Issued(r, p).room = r /\ Issued(r, p).pid = p
  BY DEF Issued
<1>3. \A q \in RoomIds : None \notin Known(w[q])
  BY NoneAssumption DEF Known
<1> HIDE DEF new
<1>4. Accounted(w, new)
  <2>1. \A t, u \in SessionIds : new[t].pid # None /\ new[t].pid = new[u].pid => t = u
    BY <1>1, <1>2 DEF Accounted, Issuable
  <2>2. \A t \in SessionIds, q \in RoomIds : new[t].pid \in Known(w[q]) => new[t].room = q
    BY <1>1, <1>2, <1>3 DEF Accounted, Issuable
  <2>3. \A t \in SessionIds, q \in RoomIds :
          new[t].room = q /\ Exists(w[q]) /\ new[t].pid # None => new[t].pid \in Known(w[q])
    BY <1>1, <1>2 DEF Accounted, Issuable
  <2> QED
    BY <2>1, <2>2, <2>3 DEF Accounted
<1>5. Sealed(w, new)
  BY <1>1, <1>2 DEF Sealed, Issuable
<1> QED
  BY <1>4, <1>5 DEF new

(* The sweep revokes the sessions of the rooms it expires. *)
LEMMA SweptSealed ==
  ASSUME IInv, Accounted(rooms, sessions), Sealed(rooms, sessions), NEW w \in SweepOutcomes
  PROVE  Accounted(w, SweptSessions(w)) /\ Sealed(w, SweptSessions(w))
<1> DEFINE ss == SweptSessions(w)
<1>1. \A s \in SessionIds : ss[s] = NoSession \/ ss[s] = sessions[s]
  BY DEF SweptSessions
<1>2. \A s \in SessionIds, r \in RoomIds :
        /\ sessions[s].room = r /\ sessions[s].pid \in Known(rooms[r])
        /\ w[r].status = "EXPIRED" /\ rooms[r].status # "EXPIRED"
        => ss[s] = NoSession
  BY DEF SweptSessions, RoomOf, PidOf
<1> HIDE DEF ss
<1>3. Accounted(rooms, ss) /\ Sealed(rooms, ss)
  BY <1>1, FewerSessions
<1>4. \A r \in RoomIds :
        /\ RoomInv(rooms[r]) /\ Swept(rooms[r], w[r]) /\ Known(w[r]) \subseteq Known(rooms[r])
        /\ Exists(w[r]) => Exists(rooms[r]) /\ Known(w[r]) = Known(rooms[r])
        /\ w[r].status = "EXPIRED" =>
             w[r] = rooms[r] \/ (rooms[r].status = "OPEN" /\ ~w[r].invite /\ w[r].pass = None)
  BY SweptTable, SweptFacts
<1>5. Accounted(w, ss)
  BY <1>3, <1>4 DEF Accounted
<1>6. Sealed(w, ss)
  <2> SUFFICES ASSUME NEW r \in RoomIds, w[r].status = "EXPIRED"
               PROVE  /\ ~w[r].invite /\ w[r].pass = None
                      /\ \A s \in SessionIds : ss[s].ttl > 0 /\ ss[s].room = r => ss[s].pid = None
    BY DEF Sealed
  <2>1. CASE w[r] = rooms[r]
    BY <1>3, <2>1 DEF Sealed
  <2>2. CASE rooms[r].status = "OPEN" /\ ~w[r].invite /\ w[r].pass = None
    <3> SUFFICES ASSUME NEW s \in SessionIds, ss[s].ttl > 0, ss[s].room = r, ss[s].pid # None
                 PROVE  FALSE
      BY <2>2
    <3>1. ss[s] = sessions[s]
      BY <1>1, SessionKinds
    <3>2. sessions[s].pid \in Known(rooms[r])
      BY <2>2, <3>1 DEF Accounted, Exists
    <3>3. ss[s] = NoSession
      BY <1>2, <2>2, <3>1, <3>2
    <3> QED
      BY <3>3 DEF NoSession
  <2> QED
    BY <1>4, <2>1, <2>2
<1> QED
  BY <1>5, <1>6 DEF ss

-----------------------------------------------------------------------------
(* The actions, one by one *)

(* What an action has to be shown to do. *)
Change ==
  /\ \A r \in RoomIds : RoomStep(rooms[r], rooms'[r])
  /\ Accounted(rooms', sessions') /\ Sealed(rooms', sessions')
  /\ MatchBinding' /\ SocketIdentityIsCurrent'

(* Outside a match nobody is bound, participant by participant. *)
LEMMA NobodyBound ==
  ASSUME MatchBinding, NEW r \in RoomIds, rooms[r].status # "STARTED", NEW p \in Participants
  PROVE  rooms[r].people[p].player = None
<1>1. {rooms[r].people[q].player : q \in Participants} \ {None} = {}
  BY DEF MatchBinding
<1>2. rooms[r].people[p].player \in {rooms[r].people[q].player : q \in Participants}
  OBVIOUS
<1> QED
  BY <1>1, <1>2

(* The bindings survive whatever starts no match, changes no match's humans, *)
(* and opens no socket but another one of an identity that has one.          *)
LEMMA CastKept ==
  ASSUME SInv, IInv',
         \A r \in RoomIds : RoomStep(rooms[r], rooms'[r]) /\ Continues(rooms[r], rooms'[r]),
         \A m \in MatchIds : matches'[m].humans = matches[m].humans,
         \A k \in sockets' : \E j \in sockets :
           k.room = j.room /\ k.pid = j.pid /\ k.match = j.match /\ k.player = j.player
  PROVE  MatchBinding' /\ SocketIdentityIsCurrent'
<1>1. ASSUME NEW r \in RoomIds, rooms'[r].status = "STARTED"
      PROVE  rooms[r].status = "STARTED" /\ SameGame(rooms[r], rooms'[r])
  BY <1>1 DEF RoomStep, Continues, Frozen
<1>2. ASSUME NEW r \in RoomIds
      PROVE  /\ rooms[r].status = "STARTED" <=> rooms[r].match # None
             /\ rooms'[r].status = "STARTED" <=> rooms'[r].match # None
             /\ rooms[r].match \in MatchIds \cup {None}
  BY DEF SInv, IInv, RoomInv, RoomType
<1>3. MatchBinding'
  <2> SUFFICES ASSUME NEW r \in RoomIds
               PROVE  IF rooms'[r].status = "STARTED"
                      THEN {rooms'[r].people[p].player : p \in Participants} \ {None}
                             = matches'[rooms'[r].match].humans
                      ELSE {rooms'[r].people[p].player : p \in Participants} \ {None} = {}
    BY DEF MatchBinding
  <2>1. CASE rooms'[r].status = "STARTED"
    <3>1. {rooms[r].people[p].player : p \in Participants} \ {None} = matches[rooms[r].match].humans
      BY <1>1, <2>1 DEF SInv, MatchBinding
    <3>2. {rooms'[r].people[p].player : p \in Participants}
            = {rooms[r].people[p].player : p \in Participants}
      BY <1>1, <2>1 DEF SameGame
    <3>3. matches'[rooms'[r].match].humans = matches[rooms[r].match].humans
      BY <1>1, <1>2, <2>1 DEF SameGame
    <3> QED
      BY <2>1, <3>1, <3>2, <3>3
  <2>2. CASE rooms'[r].status # "STARTED"
    <3>1. ASSUME NEW p \in Participants PROVE rooms'[r].people[p].player = None
      <4>1. rooms[r].status # "STARTED" => rooms[r].people[p].player = None
        BY NobodyBound DEF SInv
      <4> QED
        BY <2>2, <4>1 DEF RoomStep, Unbound
    <3> QED
      BY <2>2, <3>1
  <2> QED
    BY <2>1, <2>2
<1>4. SocketIdentityIsCurrent'
  <2> SUFFICES ASSUME NEW k \in sockets', rooms'[k.room].match = k.match, k.pid # None
               PROVE  /\ k.pid \in Known(rooms'[k.room])
                      /\ rooms'[k.room].people[k.pid].player = k.player
    BY DEF SocketIdentityIsCurrent
  <2>1. PICK j \in sockets :
          k.room = j.room /\ k.pid = j.pid /\ k.match = j.match /\ k.player = j.player
    OBVIOUS
  <2>2. k.room \in RoomIds /\ k.match # None /\ k.pid \in Participants
    BY <2>1, NoneAssumption DEF SInv, IInv, SocketType
  <2>3. rooms[k.room].status = "STARTED" /\ SameGame(rooms[k.room], rooms'[k.room])
    BY <1>1, <1>2, <2>2
  <2>4. k.pid \in Known(rooms[k.room]) /\ rooms[k.room].people[k.pid].player = k.player
    BY <2>1, <2>3 DEF SInv, SocketIdentityIsCurrent, SameGame
  <2>5. Known(rooms[k.room]) \subseteq Known(rooms'[k.room])
    BY <2>2, <2>3 DEF RoomStep, Remembers, SameGame, Exists
  <2> QED
    BY <2>2, <2>3, <2>4, <2>5 DEF SameGame
<1> QED
  BY <1>3, <1>4

(* An edit of one room of a swept table. *)
LEMMA EditedTable ==
  ASSUME IInv, NEW w, RoomsOK(w), \A q \in RoomIds : Swept(rooms[q], w[q]),
         NEW r \in RoomIds, NEW e, Edits(w[r], e), rooms' = [w EXCEPT ![r] = e]
  PROVE  /\ \A q \in RoomIds : RoomStep(rooms[q], rooms'[q])
         /\ Continues(w[r], e) => \A q \in RoomIds : Continues(rooms[q], rooms'[q])
<1>1. ASSUME NEW q \in RoomIds
      PROVE  RoomStep(rooms[q], rooms'[q]) /\ (Continues(w[r], e) => Continues(rooms[q], rooms'[q]))
  <2>1. RoomInv(rooms[q]) /\ Swept(rooms[q], w[q])
    BY DEF IInv
  <2>2. rooms'[q] = IF q = r THEN e ELSE w[q]
    BY DEF RoomsOK
  <2> QED
    BY <2>1, <2>2, SweptStep, SweptThenEdited
<1> QED
  BY <1>1

(* A member's operation on the room. *)
LEMMA SaveChange ==
  ASSUME SInv, IInv', NEW s \in SessionIds, NEW w \in SweepOutcomes, Member(w, s),
         NEW e, PlainEdit(w[RoomOf(s)], e), Save(w, s, e)
  PROVE  Change
<1>1. RoomOf(s) \in RoomIds
  BY MemberFacts DEF SInv
<1>2. /\ RoomsOK(w) /\ SessionsOK(SweptSessions(w))
      /\ \A r \in RoomIds : RoomInv(rooms[r]) /\ Swept(rooms[r], w[r])
  BY SweptTable DEF SInv
<1>3. Accounted(w, SweptSessions(w)) /\ Sealed(w, SweptSessions(w))
  BY SweptSealed DEF SInv
<1>4. \A r \in RoomIds : RoomStep(rooms[r], rooms'[r]) /\ Continues(rooms[r], rooms'[r])
  BY <1>1, <1>2, EditedTable DEF SInv, Save, PlainEdit
<1>5. Accounted(rooms', sessions') /\ Sealed(rooms', sessions')
  BY <1>1, <1>2, <1>3, PlainRoom DEF Save, PlainEdit, Edits
<1>6. MatchBinding' /\ SocketIdentityIsCurrent'
  BY <1>4, CastKept DEF Save
<1> QED
  BY <1>4, <1>5, <1>6 DEF Change

(* A mark on the caller's own seat. *)
LEMMA SeatMarkEdit ==
  ASSUME NEW v, RoomInv(v), v.status = "OPEN", NEW i, NEW ready, NEW team
  PROVE  /\ PlainEdit(v, [v EXCEPT !.seats[i].ready = ready])
         /\ PlainEdit(v, [v EXCEPT !.seats[i].team = team])
<1> DEFINE readied == [v EXCEPT !.seats[i].ready = ready]
           teamed == [v EXCEPT !.seats[i].team = team]
<1>1. Exists(v)
  BY DEF Exists
<1>2. /\ readied.status = v.status /\ readied.host = v.host /\ readied.people = v.people
      /\ readied.pass = v.pass
      /\ teamed.status = v.status /\ teamed.host = v.host /\ teamed.people = v.people
      /\ teamed.pass = v.pass
  BY DEF RoomInv, RoomType
<1>3. \A j \in HumanSeats(v) :
        readied.seats[j].pid = v.seats[j].pid /\ teamed.seats[j].pid = v.seats[j].pid
  <2> SUFFICES ASSUME NEW j \in HumanSeats(v)
               PROVE  /\ readied.seats[j].pid = v.seats[j].pid
                      /\ teamed.seats[j].pid = v.seats[j].pid
    OBVIOUS
  <2>1. v.seats = [k \in DOMAIN v.seats |-> v.seats[k]] /\ j \in DOMAIN v.seats
    BY SeatsShape DEF RoomInv, RoomType, HumanSeats, SeatIndices
  <2>2. v.seats[j] \in SeatType
    BY <2>1, SeatsShape DEF RoomInv, RoomType
  <2>3. [v.seats[j] EXCEPT !.ready = ready].pid = v.seats[j].pid
        /\ [v.seats[j] EXCEPT !.team = team].pid = v.seats[j].pid
    BY <2>2 DEF SeatType
  <2>4. /\ readied.seats[j] = IF i = j THEN [v.seats[j] EXCEPT !.ready = ready] ELSE v.seats[j]
        /\ teamed.seats[j] = IF i = j THEN [v.seats[j] EXCEPT !.team = team] ELSE v.seats[j]
    BY <2>1 DEF RoomInv, RoomType
  <2> QED
    BY <2>3, <2>4
<1> HIDE DEF readied, teamed
<1>4. PlainEdit(v, readied) /\ PlainEdit(v, teamed)
  BY <1>1, <1>2, <1>3, FieldEdit
<1> QED
  BY <1>4 DEF readied, teamed

LEMMA SetReadyChange == ASSUME SInv, IInv', SetReady PROVE Change
<1>1. PICK s \in SessionIds, w \in SweepOutcomes, ready \in BOOLEAN :
        /\ Member(w, s)
        /\ LET rm == w[RoomOf(s)]
               i == rm.people[PidOf(s)].seat
           IN /\ rm.status = "OPEN" /\ rm.seats[i].pid = PidOf(s)
              /\ Save(w, s, [rm EXCEPT !.seats[i].ready = ready])
  BY Zenon DEF SetReady
<1>2. RoomInv(w[RoomOf(s)])
  BY <1>1, MemberFacts DEF SInv
<1> QED
  BY <1>1, <1>2, SeatMarkEdit, SaveChange

LEMMA SetTeamChange == ASSUME SInv, IInv', SetTeam PROVE Change
<1>1. PICK s \in SessionIds, w \in SweepOutcomes, team \in Teams \cup {None} :
        /\ Member(w, s)
        /\ LET rm == w[RoomOf(s)]
               i == rm.people[PidOf(s)].seat
           IN /\ rm.status = "OPEN" /\ rm.pass # None /\ rm.seats[i].pid = PidOf(s)
              /\ Save(w, s, [rm EXCEPT !.seats[i].team = team])
  BY Zenon DEF SetTeam
<1>2. RoomInv(w[RoomOf(s)])
  BY <1>1, MemberFacts DEF SInv
<1> QED
  BY <1>1, <1>2, SeatMarkEdit, SaveChange

(* A seat that is open or a CPU's is given another controller, or its only   *)
(* sitter stands up in a hidden brawl.                                       *)
LEMMA SeatGivenEdit ==
  ASSUME NEW v, RoomInv(v), v.status = "OPEN", NEW i \in SeatIndices(v), NEW x,
         i \in HumanSeats(v) => v.pass # None /\ x = OpenSeat
  PROVE  PlainEdit(v, [v EXCEPT !.seats[i] = x])
<1> DEFINE e == [v EXCEPT !.seats[i] = x]
<1>1. /\ e.status = v.status /\ e.host = v.host /\ e.people = v.people /\ e.pass = v.pass
      /\ e.seats = [v.seats EXCEPT ![i] = x]
  BY DEF RoomInv, RoomType
<1>2. v.seats = [j \in DOMAIN v.seats |-> v.seats[j]] /\ SeatIndices(v) = DOMAIN v.seats
  BY SeatsShape DEF RoomInv, RoomType, SeatIndices
<1> HIDE DEF e
<1>3. \A j \in SeatIndices(v) : e.seats[j] = IF j = i THEN x ELSE v.seats[j]
  BY <1>1, <1>2
<1>4. ASSUME NEW j \in HumanSeats(v)
      PROVE  \/ e.seats[j].pid = v.seats[j].pid
             \/ v.pass # None /\ SeatsOf(e, v.seats[j].pid) = {}
  <2>1. CASE j # i
    BY <1>3, <2>1 DEF HumanSeats
  <2>2. CASE j = i
    <3> DEFINE p == v.seats[j].pid
    <3>1. p \in Active(v) /\ p \in Participants /\ p # None
      BY NoneAssumption DEF RoomInv, SeatsBound, HumanSeats, Active
    <3>2. ASSUME NEW k \in SeatsOf(e, p) PROVE FALSE
      <4>1. k \in SeatIndices(v) /\ e.seats[k].pid = p
        BY <1>1, <1>2, <3>2 DEF SeatsOf, SeatIndices
      <4>2. CASE k = i
        BY <1>3, <2>2, <3>1, <4>1, <4>2 DEF OpenSeat
      <4>3. CASE k # i
        <5>1. k \in SeatsOf(v, p) /\ j \in SeatsOf(v, p)
          BY <1>3, <4>1, <4>3 DEF SeatsOf, HumanSeats
        <5>2. v.people[p].seat = k /\ v.people[p].seat = j
          BY <3>1, <5>1, Sitting
        <5> QED
          BY <2>2, <4>3, <5>2
      <4> QED
        BY <4>2, <4>3
    <3>3. SeatsOf(e, p) = {}
      BY <3>2
    <3> QED
      BY <2>2, <3>3
  <2> QED
    BY <2>1, <2>2
<1>5. PlainEdit(v, e)
  BY <1>1, <1>4, FieldEdit DEF Exists
<1> QED
  BY <1>5 DEF e

LEMMA SetEntryChange == ASSUME SInv, IInv', SetEntry PROVE Change
<1>1. PICK s \in SessionIds, w \in SweepOutcomes :
        /\ Member(w, s)
        /\ LET rm == w[RoomOf(s)]
               p == PidOf(s)
           IN /\ rm.status = "OPEN" /\ rm.pass # None
              /\ \/ /\ SeatsOf(rm, p) = {}
                    /\ \E i \in SeatIndices(rm) :
                         IsFirstOpen(rm, i) /\ Save(w, s, Seated(rm, p, i))
                 \/ \E i \in SeatsOf(rm, p) : Save(w, s, [rm EXCEPT !.seats[i] = OpenSeat])
  BY Zenon DEF SetEntry
<1> DEFINE rm == w[RoomOf(s)]
           p == PidOf(s)
<1>2. RoomInv(rm) /\ p \in Participants /\ p \in Active(rm)
  BY <1>1, MemberFacts DEF SInv
<1>3. ASSUME NEW i \in SeatIndices(rm), IsFirstOpen(rm, i)
      PROVE  PlainEdit(rm, Seated(rm, p, i))
  <2>1. rm.people[p] \in PersonType /\ rm.people[p].state = "ACTIVE" /\ p \in Known(rm)
    BY <1>2 DEF RoomInv, RoomType, Active, Known
  <2>2. [rm EXCEPT !.people[p] = rm.people[p]] = rm
    BY <1>2 DEF RoomInv, RoomType
  <2>3. rm.seats[i].controller = "OPEN"
    BY <1>3 DEF IsFirstOpen
  <2> HIDE DEF rm, p
  <2>4. LET e == Seated([rm EXCEPT !.people[p] = rm.people[p]], p, i)
        IN /\ Edits(rm, e) /\ Continues(rm, e) /\ StaysSealed(rm, e)
           /\ Known(e) = Known(rm) \cup {p} /\ e.status = "OPEN"
    BY <1>1, <1>2, <2>1, <2>3, SeatedEdit DEF rm
  <2> QED
    BY <2>1, <2>2, <2>4 DEF PlainEdit
<1>4. ASSUME NEW i \in SeatsOf(rm, p)
      PROVE  PlainEdit(rm, [rm EXCEPT !.seats[i] = OpenSeat])
  <2>1. i \in SeatIndices(rm)
    BY DEF SeatsOf
  <2> QED
    BY <1>1, <1>2, <2>1, SeatGivenEdit
<1> QED
  BY <1>1, <1>3, <1>4, SaveChange

LEMMA SetSeatControllerChange == ASSUME SInv, IInv', SetSeatController PROVE Change
<1>1. PICK s \in SessionIds, w \in SweepOutcomes :
        /\ Host(w, s) /\ w[RoomOf(s)].status = "OPEN"
        /\ LET rm == w[RoomOf(s)]
           IN \E i \in SeatIndices(rm) \ HumanSeats(rm), x \in {OpenSeat} \cup {CpuSeat(k) : k \in CpuNames} :
                Save(w, s, [rm EXCEPT !.seats[i] = x])
  BY Zenon DEF SetSeatController
<1>2. RoomInv(w[RoomOf(s)]) /\ Member(w, s)
  BY <1>1, MemberFacts DEF SInv, Host
<1> QED
  BY <1>1, <1>2, SeatGivenEdit, SaveChange

LEMMA ShuffleTeamsChange == ASSUME SInv, IInv', ShuffleTeams PROVE Change
<1>1. PICK s \in SessionIds, w \in SweepOutcomes :
        /\ Host(w, s)
        /\ LET rm == w[RoomOf(s)]
               dealt == HumanSeats(rm)
           IN /\ rm.status = "OPEN" /\ rm.pass # None
              /\ \E order \in Injection(dealt, 0..(Cardinality(dealt) - 1)) :
                   Save(w, s, [rm EXCEPT !.seats = [i \in SeatIndices(rm) |->
                     IF i \in dealt THEN [@[i] EXCEPT !.team = 1 + (order[i] % TeamCount)]
                     ELSE @[i]]])
  BY Zenon DEF ShuffleTeams
<1> DEFINE rm == w[RoomOf(s)]
           dealt == HumanSeats(rm)
<1>2. RoomInv(rm) /\ Member(w, s)
  BY <1>1, MemberFacts DEF SInv, Host
<1>3. PICK order : Save(w, s, [rm EXCEPT !.seats = [i \in SeatIndices(rm) |->
          IF i \in dealt THEN [@[i] EXCEPT !.team = 1 + (order[i] % TeamCount)] ELSE @[i]]])
  BY <1>1, Zenon
<1> DEFINE seats == [i \in SeatIndices(rm) |->
                      IF i \in dealt
                      THEN [rm.seats[i] EXCEPT !.team = 1 + (order[i] % TeamCount)]
                      ELSE rm.seats[i]]
<1>4. \A i \in dealt : seats[i].pid = rm.seats[i].pid
  <2> SUFFICES ASSUME NEW i \in dealt PROVE seats[i].pid = rm.seats[i].pid
    OBVIOUS
  <2>1. i \in SeatIndices(rm) /\ rm.seats[i] \in SeatType
    BY <1>2, SeatsShape DEF RoomInv, RoomType, SeatIndices, HumanSeats
  <2> QED
    BY <2>1 DEF SeatType
<1>5. PlainEdit(rm, [rm EXCEPT !.seats = seats])
  <2> DEFINE e == [rm EXCEPT !.seats = seats]
  <2>1. /\ e.status = rm.status /\ e.host = rm.host /\ e.people = rm.people /\ e.pass = rm.pass
        /\ e.seats = seats
    BY <1>2 DEF RoomInv, RoomType
  <2> HIDE DEF e, seats
  <2>2. PlainEdit(rm, e)
    BY <1>1, <1>4, <2>1, FieldEdit DEF Exists
  <2> QED
    BY <2>2 DEF e
<1> QED
  BY <1>2, <1>3, <1>5, SaveChange

LEMMA SetEndTimeThresholdChange == ASSUME SInv, IInv', SetEndTimeThreshold PROVE Change
<1>1. PICK s \in SessionIds, w \in SweepOutcomes, threshold \in Thresholds :
        /\ Host(w, s) /\ w[RoomOf(s)].status = "OPEN"
        /\ Save(w, s, [w[RoomOf(s)] EXCEPT !.threshold = threshold])
  BY Zenon DEF SetEndTimeThreshold
<1> DEFINE rm == w[RoomOf(s)]
           e == [rm EXCEPT !.threshold = threshold]
<1>2. RoomInv(rm) /\ Member(w, s)
  BY <1>1, MemberFacts DEF SInv, Host
<1>3. /\ e.status = rm.status /\ e.host = rm.host /\ e.people = rm.people /\ e.pass = rm.pass
      /\ e.seats = rm.seats
  BY <1>2 DEF RoomInv, RoomType
<1>4. PlainEdit(rm, e)
  <2> HIDE DEF e
  <2> QED
    BY <1>1, <1>3, FieldEdit DEF Exists
<1> QED
  BY <1>1, <1>2, <1>4, SaveChange

LEMMA InvitationChange ==
  ASSUME SInv, IInv', RotateInvitation \/ RevokeInvitation
  PROVE  Change
<1>1. PICK s \in SessionIds, w \in SweepOutcomes, invite \in BOOLEAN :
        /\ Host(w, s) /\ (w[RoomOf(s)].status = "EXPIRED" => ~invite)
        /\ Save(w, s, [w[RoomOf(s)] EXCEPT !.invite = invite])
  BY Zenon DEF RotateInvitation, RevokeInvitation
<1> DEFINE rm == w[RoomOf(s)]
           e == [rm EXCEPT !.invite = invite]
<1>2. RoomInv(rm) /\ Member(w, s) /\ Exists(rm)
  BY <1>1, MemberFacts DEF SInv, Host, Member, SessionRoom
<1>3. /\ e.status = rm.status /\ e.host = rm.host /\ e.people = rm.people /\ e.pass = rm.pass
      /\ e.seats = rm.seats /\ e.match = rm.match /\ e.threshold = rm.threshold
      /\ e.invite = invite
  BY <1>2 DEF RoomInv, RoomType
<1>4. PlainEdit(rm, e)
  <2> HIDE DEF e
  <2> QED
    BY <1>1, <1>2, <1>3, FieldEdit
<1> QED
  BY <1>1, <1>2, <1>4, SaveChange

LEMMA ReturnToLobbyChange == ASSUME SInv, IInv', ReturnToLobby PROVE Change
<1>1. PICK s \in SessionIds, w \in SweepOutcomes :
        /\ Member(w, s)
        /\ LET rm == w[RoomOf(s)]
           IN /\ rm.status = "STARTED" /\ matches[rm.match].status = "ENDED"
              /\ Save(w, s, BackInLobby(rm))
  BY Zenon DEF ReturnToLobby
<1>2. RoomInv(w[RoomOf(s)])
  BY <1>1, MemberFacts DEF SInv
<1> QED
  BY <1>1, <1>2, BackInLobbyEdit, SaveChange

(* A room is made, of an identifier that nothing refers to. *)
LEMMA CreateRoomChange ==
  ASSUME SInv, IInv', NEW name, NEW pass, NEW n, NEW cpus, NEW spectators, NEW threshold,
         CreateRoom(name, pass, n, cpus, spectators, threshold)
  PROVE  Change
<1>1. PICK w \in IF pass = None THEN {rooms} ELSE SweepOutcomes,
           r \in RoomIds, p \in Participants, s \in SessionIds :
        /\ FreshRoom(w, r) /\ FreshParticipant(w, p)
        /\ rooms' = [w EXCEPT ![r] = NewRoom(p, name, pass, n, cpus, spectators, threshold)]
        /\ sessions' = [(IF pass = None THEN sessions ELSE SweptSessions(w))
                          EXCEPT ![s] = Issued(r, p)]
        /\ UNCHANGED <<matches, sockets>>
  BY Zenon DEF CreateRoom
<1> DEFINE ss == IF pass = None THEN sessions ELSE SweptSessions(w)
           e == NewRoom(p, name, pass, n, cpus, spectators, threshold)
<1>2. /\ RoomsOK(w) /\ SessionsOK(ss)
      /\ \A q \in RoomIds : RoomInv(rooms[q]) /\ Swept(rooms[q], w[q])
      /\ Accounted(w, ss) /\ Sealed(w, ss)
      /\ \A t \in SessionIds : ss[t] = NoSession \/ ss[t] = sessions[t]
  <2>1. CASE pass = None
    BY <2>1 DEF SInv, IInv, RoomsOK, SessionsOK, IsActive, RoomOf, Swept
  <2>2. CASE pass # None
    <3>1. w \in SweepOutcomes /\ ss = SweptSessions(w)
      BY <2>2
    <3>2. \A t \in SessionIds : ss[t] = NoSession \/ ss[t] = sessions[t]
      BY <3>1 DEF SweptSessions
    <3> QED
      BY <3>1, <3>2, SweptTable, SweptSealed DEF SInv
  <2> QED
    BY <2>1, <2>2
<1> HIDE DEF ss
<1>3. NoSession.room = None /\ NoSession.pid = None /\ p # None /\ r # None
  BY NoneAssumption DEF NoSession
<1>4. /\ e.status = "OPEN" /\ Known(e) = {p}
      /\ \A q \in Participants : e.people[q].player = None
  <2>1. e.people = [q \in Participants |-> IF q = p THEN Newcomer(name, 0) ELSE Nobody]
        /\ e.status = "OPEN"
    BY DEF NewRoom
  <2> QED
    BY <2>1 DEF Known, Newcomer, Nobody
<1> HIDE DEF e
<1>5. ~Exists(rooms[r]) /\ ~Exists(w[r]) /\ \A t \in SessionIds : ss[t].room # r
  BY <1>1, <1>2, <1>3 DEF FreshRoom, RoomOf
<1>6. (\A q \in RoomIds : p \notin Known(w[q])) /\ \A t \in SessionIds : ss[t].pid # p
  BY <1>1, <1>2, <1>3 DEF FreshParticipant, PidOf
<1>7. rooms' = [w EXCEPT ![r] = e] /\ sessions' = [ss EXCEPT ![s] = Issued(r, p)]
  BY <1>1 DEF e, ss
<1>8. \A q \in RoomIds : RoomStep(rooms[q], rooms'[q]) /\ Continues(rooms[q], rooms'[q])
  <2> SUFFICES ASSUME NEW q \in RoomIds
               PROVE  RoomStep(rooms[q], rooms'[q]) /\ Continues(rooms[q], rooms'[q])
    OBVIOUS
  <2>1. CASE q = r
    <3>1. rooms'[q] = e
      BY <1>2, <1>7, <2>1 DEF RoomsOK
    <3> QED
      BY <1>4, <1>5, <2>1, <3>1 DEF RoomStep, Frozen, HostHandedOver, SeatsKept, Unbound,
                                    Remembers, Continues, Exists
  <2>2. CASE q # r
    <3>1. rooms'[q] = w[q]
      BY <1>2, <1>7, <2>2 DEF RoomsOK
    <3> QED
      BY <1>2, <3>1, SweptStep
  <2> QED
    BY <2>1, <2>2
<1>9. Accounted(rooms', ss) /\ Sealed(rooms', ss)
  <2>1. Enters(w, ss, r, p, e)
    BY <1>4, <1>5, <1>6 DEF Enters
  <2> QED
    BY <1>2, <1>7, <2>1, NewcomerRoom
<1>10. Accounted(rooms', sessions') /\ Sealed(rooms', sessions')
  <2>1. \A q \in RoomIds : rooms'[q] = IF q = r THEN e ELSE w[q]
    BY <1>2, <1>7 DEF RoomsOK
  <2>2. Issuable(rooms', ss, r, p)
    BY <1>4, <1>6, <2>1 DEF Issuable
  <2> QED
    BY <1>2, <1>7, <1>9, <2>2, IssuedSession
<1>11. MatchBinding' /\ SocketIdentityIsCurrent'
  BY <1>1, <1>8, CastKept
<1> QED
  BY <1>8, <1>10, <1>11 DEF Change

LEMMA CreateChange == ASSUME SInv, IInv', Create PROVE Change
BY CreateRoomChange DEF Create

LEMMA AdmitChange ==
  ASSUME SInv, IInv', NEW w \in SweepOutcomes, NEW r \in RoomIds, NEW name \in HumanNames,
         w[r].status = "OPEN", Admit(w, r, name)
  PROVE  Change
<1>1. PICK p \in Participants, s \in SessionIds, i \in SeatIndices(w[r]) :
        /\ IsFirstOpen(w[r], i) /\ FreshParticipant(w, p)
        /\ rooms' = [w EXCEPT ![r] = Seated([@ EXCEPT !.people[p] = Newcomer(name, i)], p, i)]
        /\ sessions' = [SweptSessions(w) EXCEPT ![s] = Issued(r, p)]
        /\ UNCHANGED <<matches, sockets>>
  BY DEF Admit
<1> DEFINE ss == SweptSessions(w)
           e == Seated([w[r] EXCEPT !.people[p] = Newcomer(name, i)], p, i)
<1>2. /\ RoomsOK(w) /\ SessionsOK(ss)
      /\ \A q \in RoomIds : RoomInv(rooms[q]) /\ Swept(rooms[q], w[q])
      /\ Accounted(w, ss) /\ Sealed(w, ss)
      /\ \A t \in SessionIds : ss[t] = NoSession \/ ss[t] = sessions[t]
  BY SweptTable, SweptSealed DEF SInv, SweptSessions
<1>3. RoomInv(w[r]) /\ w[r].seats[i].controller = "OPEN" /\ i \in Nat
  BY <1>1, <1>2, SeatsShape DEF RoomsOK, RoomInv, RoomType, SeatIndices, IsFirstOpen
<1>4. Newcomer(name, i) \in PersonType /\ Newcomer(name, i).state = "ACTIVE"
      /\ Newcomer(name, i).player = None
  BY <1>3 DEF Newcomer, PersonType
<1>5. /\ Edits(w[r], e) /\ Continues(w[r], e) /\ StaysSealed(w[r], e)
      /\ Known(e) = Known(w[r]) \cup {p} /\ e.status = "OPEN"
  BY <1>3, <1>4, SeatedEdit
<1>6. rooms' = [w EXCEPT ![r] = e] /\ sessions' = [ss EXCEPT ![s] = Issued(r, p)]
  BY <1>1, <1>2 DEF RoomsOK
<1> HIDE DEF ss, e
<1>7. (\A q \in RoomIds : p \notin Known(w[q])) /\ \A t \in SessionIds : ss[t].pid # p
  BY <1>1, <1>2, NoneAssumption DEF FreshParticipant, PidOf, NoSession
<1>8. \A q \in RoomIds : RoomStep(rooms[q], rooms'[q]) /\ Continues(rooms[q], rooms'[q])
  BY <1>2, <1>5, <1>6, EditedTable DEF SInv
<1>9. Accounted(rooms', ss) /\ Sealed(rooms', ss)
  <2>1. Enters(w, ss, r, p, e)
    BY <1>5, <1>7 DEF Enters, Edits
  <2> QED
    BY <1>2, <1>6, <2>1, NewcomerRoom
<1>10. Accounted(rooms', sessions') /\ Sealed(rooms', sessions')
  <2>1. \A q \in RoomIds : rooms'[q] = IF q = r THEN e ELSE w[q]
    BY <1>2, <1>6 DEF RoomsOK
  <2>2. Issuable(rooms', ss, r, p)
    BY <1>5, <1>7, <2>1 DEF Issuable
  <2> QED
    BY <1>2, <1>6, <1>9, <2>2, IssuedSession
<1>11. MatchBinding' /\ SocketIdentityIsCurrent'
  BY <1>1, <1>8, CastKept
<1> QED
  BY <1>8, <1>10, <1>11 DEF Change

LEMMA JoinChange == ASSUME SInv, IInv', Join \/ JoinByPassphrase PROVE Change
BY AdmitChange, CreateRoomChange DEF Join, JoinByPassphrase

LEMMA RejoinChange == ASSUME SInv, IInv', Rejoin PROVE Change
<1>1. PICK w \in SweepOutcomes, r \in RoomIds, s \in SessionIds :
    \E p \in Known(w[r]) :
      /\ w[r].status \in {"OPEN", "STARTED"}
      /\ FreshSession(s)
      /\ \/ /\ w[r].people[p].state = "ACTIVE" \/ w[r].status = "STARTED"
            /\ rooms' = [w EXCEPT ![r] = Rejoined(@, p)]
         \/ /\ w[r].people[p].state = "LEFT" /\ w[r].status = "OPEN"
            /\ \E i \in SeatIndices(w[r]) :
                 /\ IsFirstOpen(w[r], i)
                 /\ rooms' = [w EXCEPT ![r] =
                      Rejoined(Seated([@ EXCEPT !.people[p].state = "ACTIVE"], p, i), p)]
      /\ sessions' = [Revoked(SweptSessions(w), r, {p}) EXCEPT ![s] = Issued(r, p)]
      /\ UNCHANGED <<matches, sockets>>
  BY Zenon DEF Rejoin
<1>2. PICK p \in Known(w[r]) :
        /\ w[r].status \in {"OPEN", "STARTED"}
        /\ \/ rooms' = [w EXCEPT ![r] = Rejoined(@, p)]
           \/ /\ w[r].people[p].state = "LEFT" /\ w[r].status = "OPEN"
              /\ \E i \in SeatIndices(w[r]) :
                   /\ IsFirstOpen(w[r], i)
                   /\ rooms' = [w EXCEPT ![r] =
                        Rejoined(Seated([@ EXCEPT !.people[p].state = "ACTIVE"], p, i), p)]
        /\ sessions' = [Revoked(SweptSessions(w), r, {p}) EXCEPT ![s] = Issued(r, p)]
        /\ UNCHANGED <<matches, sockets>>
  BY <1>1, Zenon
<1> DEFINE ss == SweptSessions(w)
           revoked == Revoked(ss, r, {p})
<1>3. /\ RoomsOK(w) /\ SessionsOK(ss)
      /\ \A q \in RoomIds : RoomInv(rooms[q]) /\ Swept(rooms[q], w[q])
      /\ Accounted(w, ss) /\ Sealed(w, ss)
  BY SweptTable, SweptSealed DEF SInv
<1>4. RoomInv(w[r]) /\ Exists(w[r]) /\ p \in Participants /\ p # None
  BY <1>2, <1>3, NoneAssumption DEF RoomsOK, Exists, Known
<1>5. PICK e : /\ rooms' = [w EXCEPT ![r] = e] /\ Edits(w[r], e) /\ Continues(w[r], e)
               /\ StaysSealed(w[r], e) /\ Known(e) = Known(w[r])
               /\ e.status \in {"OPEN", "STARTED"}
  <2>1. CASE rooms' = [w EXCEPT ![r] = Rejoined(@, p)]
    <3>1. rooms' = [w EXCEPT ![r] = Rejoined(w[r], p)]
      BY <1>3, <2>1 DEF RoomsOK
    <3>2. PlainEdit(w[r], Rejoined(w[r], p)) /\ Rejoined(w[r], p).status = w[r].status
      BY <1>4, ConnectedEdit DEF Rejoined, RoomInv, RoomType
    <3> QED
      BY <1>2, <3>1, <3>2 DEF PlainEdit
  <2>2. ASSUME NEW i \in SeatIndices(w[r]), IsFirstOpen(w[r], i), w[r].status = "OPEN",
               rooms' = [w EXCEPT ![r] =
                 Rejoined(Seated([@ EXCEPT !.people[p].state = "ACTIVE"], p, i), p)]
        PROVE  \E e : /\ rooms' = [w EXCEPT ![r] = e] /\ Edits(w[r], e) /\ Continues(w[r], e)
                      /\ StaysSealed(w[r], e) /\ Known(e) = Known(w[r])
                      /\ e.status \in {"OPEN", "STARTED"}
    <3> DEFINE x == [w[r].people[p] EXCEPT !.state = "ACTIVE", !.connected = TRUE]
               e == Seated([w[r] EXCEPT !.people[p] = x], p, i)
    <3>1. /\ x \in PersonType /\ x.state = "ACTIVE" /\ x.player = w[r].people[p].player
      <4>1. w[r].people[p] \in PersonType
        BY <1>4 DEF RoomInv, RoomType
      <4> QED
        BY <4>1 DEF PersonType
    <3>2. w[r].seats[i].controller = "OPEN"
      BY <2>2 DEF IsFirstOpen
    <3>3. e = Rejoined(Seated([w[r] EXCEPT !.people[p].state = "ACTIVE"], p, i), p)
      <4> DEFINE back == Seated([w[r] EXCEPT !.people[p].state = "ACTIVE"], p, i)
      <4>1. w[r].people[p] \in PersonType /\ w[r] \in RoomType
        BY <1>4 DEF RoomInv, RoomType
      <4>2. /\ w[r].people \in [Participants -> PersonType]
            /\ [x EXCEPT !.seat = i] =
                 [[[w[r].people[p] EXCEPT !.state = "ACTIVE"] EXCEPT !.seat = i]
                    EXCEPT !.connected = TRUE]
        BY <4>1 DEF RoomType, PersonType
      <4> DEFINE y == [x EXCEPT !.seat = i]
      <4>3. e = [w[r] EXCEPT !.seats[i] = HumanSeat(p), !.people[p] = y]
        <5> HIDE DEF x
        <5> QED
          BY <1>4, <4>1, <4>2 DEF Seated, RoomType
      <4>4. Rejoined(back, p) = [w[r] EXCEPT !.seats[i] = HumanSeat(p), !.people[p] = y]
        BY <1>4, <4>1, <4>2 DEF Seated, Rejoined, RoomType, PersonType
      <4> QED
        BY <4>3, <4>4
    <3>4. rooms' = [w EXCEPT ![r] = e]
      BY <1>3, <2>2, <3>3 DEF RoomsOK
    <3> HIDE DEF x
    <3>5. /\ Edits(w[r], e) /\ Continues(w[r], e) /\ StaysSealed(w[r], e)
          /\ Known(e) = Known(w[r]) \cup {p} /\ e.status = "OPEN"
      BY <1>4, <2>2, <3>1, <3>2, SeatedEdit
    <3> QED
      BY <3>4, <3>5
  <2> QED
    BY <1>2, <2>1, <2>2
<1>6. \A q \in RoomIds : RoomStep(rooms[q], rooms'[q]) /\ Continues(rooms[q], rooms'[q])
  BY <1>3, <1>5, EditedTable DEF SInv
<1>7. /\ SessionsOK(revoked) /\ Accounted(w, revoked) /\ Sealed(w, revoked)
      /\ \A t \in SessionIds : revoked[t].pid # p
  <2>1. \A t \in SessionIds : revoked[t] = IF ss[t].room = r /\ ss[t].pid \in {p}
                                          THEN NoSession ELSE ss[t]
    BY DEF Revoked
  <2>2. \A t \in SessionIds : ss[t].pid = p => ss[t].room = r
    BY <1>3 DEF Accounted
  <2> QED
    <3>1. SessionsOK(revoked)
      BY <1>3, RevokedOK
    <3>2. \A t \in SessionIds : revoked[t] = NoSession \/ revoked[t] = ss[t]
      BY <2>1
    <3>3. NoSession.pid # p
      BY <1>4 DEF NoSession
    <3> HIDE DEF ss, revoked
    <3>4. \A t \in SessionIds : revoked[t].pid # p
      BY <2>1, <2>2, <3>3
    <3> QED
      BY <1>3, <3>1, <3>2, <3>4, FewerSessions
<1> HIDE DEF ss, revoked
<1>8. Accounted(rooms', revoked) /\ Sealed(rooms', revoked)
  BY <1>3, <1>4, <1>5, <1>7, PlainRoom
<1>9. Accounted(rooms', sessions') /\ Sealed(rooms', sessions')
  <2>1. \A q \in RoomIds : rooms'[q] = IF q = r THEN e ELSE w[q]
    BY <1>3, <1>5 DEF RoomsOK
  <2>2. Issuable(rooms', revoked, r, p)
    BY <1>3, <1>4, <1>5, <1>7, <2>1 DEF Accounted, Issuable
  <2>3. sessions' = [revoked EXCEPT ![s] = Issued(r, p)]
    BY <1>2 DEF revoked, ss
  <2> QED
    BY <1>4, <1>7, <1>8, <2>2, <2>3, IssuedSession
<1>10. MatchBinding' /\ SocketIdentityIsCurrent'
  BY <1>2, <1>6, CastKept
<1> QED
  BY <1>6, <1>9, <1>10 DEF Change

(* A sweep after which nothing but the sessions changes. *)
LEMMA SweptChange ==
  ASSUME SInv, IInv', \A r \in RoomIds : Swept(rooms[r], rooms'[r]), UNCHANGED <<matches, sockets>>,
         Accounted(rooms', sessions'), Sealed(rooms', sessions')
  PROVE  Change
<1>1. \A r \in RoomIds : RoomStep(rooms[r], rooms'[r]) /\ Continues(rooms[r], rooms'[r])
  BY SweptStep DEF SInv, IInv
<1>2. MatchBinding' /\ SocketIdentityIsCurrent'
  BY <1>1, CastKept
<1> QED
  BY <1>1, <1>2 DEF Change

LEMMA SweepChange == ASSUME SInv, IInv', Sweep PROVE Change
<1>1. PICK w \in SweepOutcomes : rooms' = w /\ sessions' = SweptSessions(w)
  BY DEF Sweep
<1> QED
  BY <1>1, SweptTable, SweptSealed, SweptChange DEF SInv, Sweep

LEMMA SpectateChange == ASSUME SInv, IInv', Spectate PROVE Change
<1>1. PICK w \in SweepOutcomes, r \in RoomIds, s \in SessionIds :
        /\ rooms' = w
        /\ sessions' = [SweptSessions(w) EXCEPT ![s] = Issued(r, None)]
        /\ UNCHANGED <<matches, sockets>>
  BY DEF Spectate
<1>2. Issuable(w, SweptSessions(w), r, None)
  BY DEF Issuable
<1>3. Accounted(rooms', sessions') /\ Sealed(rooms', sessions')
  BY <1>1, <1>2, SweptTable, SweptSealed, IssuedSession DEF SInv
<1> QED
  BY <1>1, <1>3, SweptTable, SweptChange DEF SInv

LEMMA RotateSessionChange == ASSUME SInv, IInv', RotateSession PROVE Change
<1>1. PICK s \in SessionIds, t \in SessionIds :
        /\ IsActive(s) /\ FreshSession(t)
        /\ sessions' = [sessions EXCEPT ![s] = NoSession, ![t] = Issued(RoomOf(s), PidOf(s))]
        /\ UNCHANGED <<rooms, matches, sockets>>
  BY DEF RotateSession
<1> DEFINE fewer == [sessions EXCEPT ![s] = NoSession]
           r == RoomOf(s)
           p == PidOf(s)
<1>2. r \in RoomIds /\ p \in Participants \cup {None} /\ SessionsOK(sessions)
  BY <1>1 DEF SInv, IInv, SessionType, SessionsOK, IsActive, RoomOf, PidOf
<1>3. \A u \in SessionIds : fewer[u] = IF u = s THEN NoSession ELSE sessions[u]
  BY <1>2 DEF SessionsOK
<1>4. SessionsOK(fewer)
  BY <1>2, SessionKinds, SessionsEdit
<1>5. sessions' = [fewer EXCEPT ![t] = Issued(r, p)]
  BY <1>1
<1> HIDE DEF fewer
<1>6. Accounted(rooms, fewer) /\ Sealed(rooms, fewer)
  BY <1>3, FewerSessions DEF SInv
<1>7. Issuable(rooms, fewer, r, p)
  <2> SUFFICES ASSUME p # None PROVE Issuable(rooms, fewer, r, p)
    BY DEF Issuable
  <2>1. sessions[s].room = r /\ sessions[s].pid = p /\ sessions[s].ttl > 0
    BY <1>1 DEF RoomOf, PidOf, IsActive
  <2> HIDE DEF r, p
  <2>2. \A u \in SessionIds : fewer[u].pid # p
    BY <1>3, <2>1 DEF SInv, Accounted, NoSession
  <2>3. \A q \in RoomIds : p \in Known(rooms[q]) => q = r
    BY <2>1 DEF SInv, Accounted
  <2>4. Exists(rooms[r]) => p \in Known(rooms[r])
    BY <1>2, <2>1 DEF SInv, Accounted
  <2>5. rooms[r].status # "EXPIRED"
    BY <1>2, <2>1 DEF SInv, Sealed
  <2> QED
    BY <2>2, <2>3, <2>4, <2>5 DEF Issuable
<1> HIDE DEF r, p
<1>8. Accounted(rooms', sessions') /\ Sealed(rooms', sessions')
  <2>1. Accounted(rooms, sessions') /\ Sealed(rooms, sessions')
    BY <1>2, <1>4, <1>5, <1>6, <1>7, IssuedSession
  <2> QED
    BY <1>1, <2>1
<1>9. \A q \in RoomIds : Swept(rooms[q], rooms'[q])
  BY <1>1 DEF Swept
<1> QED
  BY <1>1, <1>8, <1>9, SweptChange

LEMMA LeaveChange == ASSUME SInv, IInv', Leave PROVE Change
<1>1. PICK s \in SessionIds, w \in SweepOutcomes :
        /\ SessionRoom(w, s)
        /\ \/ /\ rooms' = w
              /\ sessions' = [SweptSessions(w) EXCEPT ![s] = NoSession]
           \/ /\ PidOf(s) \in Known(w[RoomOf(s)])
              /\ \E rm \in LeaveOutcomes(w[RoomOf(s)], PidOf(s)) :
                   /\ rooms' = [w EXCEPT ![RoomOf(s)] = rm]
                   /\ sessions' = Revoked(SweptSessions(w), RoomOf(s),
                                     IF rm.status = "EXPIRED" THEN Known(rm) ELSE {PidOf(s)})
        /\ UNCHANGED <<matches, sockets>>
  BY Zenon DEF Leave
<1> DEFINE ss == SweptSessions(w)
           r == RoomOf(s)
           p == PidOf(s)
<1>2. /\ RoomsOK(w) /\ SessionsOK(ss)
      /\ \A q \in RoomIds : RoomInv(rooms[q]) /\ Swept(rooms[q], w[q])
      /\ Accounted(w, ss) /\ Sealed(w, ss)
  BY SweptTable, SweptSealed DEF SInv
<1>3. r \in RoomIds /\ Exists(w[r]) /\ RoomInv(w[r])
  BY <1>1, <1>2 DEF SInv, IInv, SessionRoom, SessionType, RoomOf, RoomsOK
<1> HIDE DEF ss, r, p
<1>4. CASE rooms' = w /\ sessions' = [ss EXCEPT ![s] = NoSession]
  <2>1. \A t \in SessionIds : sessions'[t] = NoSession \/ sessions'[t] = ss[t]
    BY <1>2, <1>4 DEF SessionsOK
  <2>2. Accounted(w, sessions') /\ Sealed(w, sessions')
    BY <1>2, <2>1, FewerSessions
  <2>3. \A q \in RoomIds : Swept(rooms[q], rooms'[q])
    BY <1>2, <1>4
  <2> QED
    BY <1>1, <1>4, <2>2, <2>3, SweptChange
<1>5. ASSUME p \in Known(w[r]), NEW e \in LeaveOutcomes(w[r], p), rooms' = [w EXCEPT ![r] = e],
             sessions' = Revoked(ss, r, IF e.status = "EXPIRED" THEN Known(e) ELSE {p})
      PROVE  Change
  <2>1. /\ Edits(w[r], e) /\ Continues(w[r], e) /\ Known(e) = Known(w[r])
        /\ StaysSealed(w[r], e) \/ (w[r].status = "OPEN" /\ ~e.invite /\ e.pass = None)
    BY <1>3, <1>5, LeaveEdit
  <2>2. \A q \in RoomIds : RoomStep(rooms[q], rooms'[q]) /\ Continues(rooms[q], rooms'[q])
    BY <1>2, <1>3, <1>5, <2>1, EditedTable DEF SInv
  <2>3. MatchBinding' /\ SocketIdentityIsCurrent'
    BY <1>1, <2>2, CastKept
  <2>4. \A t \in SessionIds :
          sessions'[t] = IF /\ ss[t].room = r
                            /\ ss[t].pid \in IF e.status = "EXPIRED" THEN Known(e) ELSE {p}
                         THEN NoSession ELSE ss[t]
    BY <1>5 DEF Revoked
  <2>5. Accounted(w, sessions') /\ Sealed(w, sessions')
    BY <1>2, <2>4, FewerSessions
  <2>6. Accounted(rooms', sessions') /\ Sealed(rooms', sessions')
    <3>1. CASE StaysSealed(w[r], e)
      BY <1>2, <1>3, <1>5, <2>1, <2>5, <3>1, PlainRoom
    <3>2. CASE e.status = "EXPIRED" /\ w[r].status = "OPEN" /\ ~e.invite /\ e.pass = None
      <4>1. \A q \in RoomIds : rooms'[q] = IF q = r THEN e ELSE w[q]
        BY <1>2, <1>5 DEF RoomsOK
      <4>2. \A q \in RoomIds : Known(rooms'[q]) = Known(w[q]) /\ (Exists(rooms'[q]) => Exists(w[q]))
        BY <1>3, <2>1, <4>1
      <4>3. Accounted(rooms', sessions')
        BY <2>5, <4>2 DEF Accounted
      <4>4. ASSUME NEW t \in SessionIds, sessions'[t].room = r, sessions'[t].pid # None
            PROVE  FALSE
        <5>1. sessions'[t] = ss[t]
          BY <2>4, <4>4 DEF NoSession
        <5>2. ss[t].pid \in Known(w[r])
          BY <1>2, <1>3, <4>4, <5>1 DEF Accounted
        <5>3. sessions'[t] = NoSession
          BY <2>1, <2>4, <3>2, <4>4, <5>1, <5>2
        <5> QED
          BY <4>4, <5>3 DEF NoSession
      <4>5. Sealed(rooms', sessions')
        BY <2>5, <3>2, <4>1, <4>4 DEF Sealed
      <4> QED
        BY <4>3, <4>5
    <3> QED
      BY <2>1, <3>1, <3>2 DEF StaysSealed
  <2> QED
    BY <2>2, <2>3, <2>6 DEF Change
<1> QED
  BY <1>1, <1>4, <1>5 DEF ss, r, p

(* Start: the room's participants are bound to the humans of a match that no *)
(* room and no socket referred to.                                           *)
LEMMA StartChange == ASSUME SInv, IInv', Start PROVE Change
<1>1. PICK s \in SessionIds, w \in SweepOutcomes, m \in MatchIds :
        /\ Host(w, s) /\ FreshMatch(m)
        /\ LET rm == w[RoomOf(s)]
           IN /\ rm.status = "OPEN"
              /\ rooms' = [w EXCEPT ![RoomOf(s)] = Started(rm, m)]
              /\ matches' = [matches EXCEPT ![m] = NewMatch(HumanRoster(rm))]
        /\ sessions' = SweptSessions(w)
        /\ UNCHANGED sockets
  BY Zenon DEF Start
<1> DEFINE ss == SweptSessions(w)
           r == RoomOf(s)
           e == Started(w[r], m)
<1>2. /\ RoomsOK(w) /\ SessionsOK(ss)
      /\ \A q \in RoomIds : RoomInv(rooms[q]) /\ Swept(rooms[q], w[q])
      /\ Accounted(w, ss) /\ Sealed(w, ss)
  BY SweptTable, SweptSealed DEF SInv
<1>3. r \in RoomIds /\ RoomInv(w[r]) /\ w[r].status = "OPEN"
  BY <1>1, MemberFacts DEF SInv, Host
<1>4. /\ rooms' = [w EXCEPT ![r] = e] /\ sessions' = ss
      /\ matches' = [matches EXCEPT ![m] = NewMatch(HumanRoster(w[r]))]
  BY <1>1
<1>5. /\ Edits(w[r], e) /\ StaysSealed(w[r], e) /\ Known(e) = Known(w[r])
      /\ e.match = m /\ e.status = "STARTED"
      /\ {e.people[p].player : p \in Participants} \ {None} = HumanRoster(w[r])
  BY <1>3, StartedEdit
<1> HIDE DEF ss, r, e
<1>6. \A q \in RoomIds : RoomStep(rooms[q], rooms'[q])
  BY <1>2, <1>3, <1>4, <1>5, EditedTable DEF SInv
<1>7. Accounted(rooms', sessions') /\ Sealed(rooms', sessions')
  BY <1>2, <1>3, <1>4, <1>5, PlainRoom DEF Edits
<1>8. \A q \in RoomIds :
        /\ rooms'[q] = IF q = r THEN e ELSE w[q]
        /\ q # r /\ rooms'[q].status = "STARTED" => rooms'[q] = rooms[q]
  BY <1>2, <1>4, SweptFacts DEF RoomsOK
<1>9. /\ matches'[m].humans = HumanRoster(w[r])
      /\ \A o \in MatchIds : o # m => matches'[o] = matches[o]
  BY <1>4 DEF SInv, IInv, NewMatch, NoMatch
<1>10. \A q \in RoomIds : rooms[q].match # m
  BY <1>1 DEF FreshMatch
<1>11. MatchBinding'
  <2> SUFFICES ASSUME NEW q \in RoomIds
               PROVE  IF rooms'[q].status = "STARTED"
                      THEN {rooms'[q].people[p].player : p \in Participants} \ {None}
                             = matches'[rooms'[q].match].humans
                      ELSE {rooms'[q].people[p].player : p \in Participants} \ {None} = {}
    BY DEF MatchBinding
  <2>1. CASE q = r
    BY <1>5, <1>8, <1>9, <2>1
  <2>2. CASE q # r /\ rooms'[q].status = "STARTED"
    <3>1. rooms'[q] = rooms[q] /\ rooms[q].match \in MatchIds \ {m}
      BY <1>2, <1>8, <1>10, <2>2 DEF RoomInv, RoomType
    <3>2. matches'[rooms'[q].match] = matches[rooms[q].match]
      BY <1>9, <3>1
    <3> QED
      BY <2>2, <3>1, <3>2 DEF SInv, MatchBinding
  <2>3. CASE rooms'[q].status # "STARTED"
    <3>1. ASSUME NEW p \in Participants PROVE rooms'[q].people[p].player = None
      <4>1. rooms[q].status # "STARTED" => rooms[q].people[p].player = None
        BY NobodyBound DEF SInv
      <4> QED
        BY <1>6, <2>3, <4>1 DEF RoomStep, Unbound
    <3> QED
      BY <2>3, <3>1
  <2> QED
    BY <2>1, <2>2, <2>3
<1>12. SocketIdentityIsCurrent'
  <2> SUFFICES ASSUME NEW k \in sockets, rooms'[k.room].match = k.match, k.pid # None
               PROVE  /\ k.pid \in Known(rooms'[k.room])
                      /\ rooms'[k.room].people[k.pid].player = k.player
    BY <1>1 DEF SocketIdentityIsCurrent
  <2>1. k.room \in RoomIds /\ k.match # None /\ k.match # m
    BY <1>1, NoneAssumption DEF SInv, IInv, SocketType, FreshMatch
  <2>2. rooms'[k.room].status = "STARTED"
    BY <2>1 DEF IInv, RoomInv
  <2>3. rooms'[k.room] = rooms[k.room]
    BY <1>5, <1>8, <2>1, <2>2
  <2> QED
    BY <2>3 DEF SInv, SocketIdentityIsCurrent
<1> QED
  BY <1>6, <1>7, <1>11, <1>12 DEF Change

(* Rooms that change in nothing a session or a match is about. *)
LEMMA QuietChange ==
  ASSUME SInv, IInv',
         \A r \in RoomIds :
           /\ RoomStep(rooms[r], rooms'[r]) /\ rooms'[r].status = rooms[r].status
           /\ rooms'[r].invite = rooms[r].invite /\ rooms'[r].pass = rooms[r].pass
           /\ Known(rooms'[r]) = Known(rooms[r]),
         \A s \in SessionIds :
           /\ sessions'[s].room = sessions[s].room /\ sessions'[s].pid = sessions[s].pid
           /\ sessions'[s].ttl > 0 => sessions[s].ttl > 0
  PROVE  /\ \A r \in RoomIds : RoomStep(rooms[r], rooms'[r]) /\ Continues(rooms[r], rooms'[r])
         /\ Accounted(rooms', sessions') /\ Sealed(rooms', sessions')
<1>1. \A r \in RoomIds : Exists(rooms'[r]) <=> Exists(rooms[r])
  BY DEF Exists
<1>2. Accounted(rooms', sessions')
  BY <1>1 DEF SInv, Accounted
<1>3. Sealed(rooms', sessions')
  BY DEF SInv, Sealed
<1> QED
  BY <1>2, <1>3 DEF Continues

LEMMA TickChange == ASSUME SInv, IInv', Tick PROVE Change
<1>1. ASSUME NEW r \in RoomIds
      PROVE  /\ RoomStep(rooms[r], rooms'[r]) /\ rooms'[r].status = rooms[r].status
             /\ rooms'[r].invite = rooms[r].invite /\ rooms'[r].pass = rooms[r].pass
             /\ Known(rooms'[r]) = Known(rooms[r])
  <2> DEFINE rm == rooms[r]
             next == rooms'[r]
  <2>1. RoomInv(rm)
    BY DEF SInv, IInv
  <2>2. next = [rm EXCEPT !.expires = Elapse(rm.expires), !.delete = Elapse(rm.delete),
                          !.hostGone = Elapse(rm.hostGone)]
    BY DEF Tick
  <2>3. /\ next.status = rm.status /\ next.invite = rm.invite /\ next.pass = rm.pass
        /\ next.people = rm.people /\ next.seats = rm.seats /\ next.host = rm.host
        /\ next.match = rm.match /\ next.threshold = rm.threshold
    BY <2>1, <2>2 DEF RoomInv, RoomType
  <2> HIDE DEF rm, next
  <2>4. RoomStep(rm, next) /\ Known(next) = Known(rm)
    BY <2>3 DEF RoomStep, Frozen, SameGame, HostHandedOver, SeatsKept, Unbound, Remembers, Known
  <2> QED
    BY <2>3, <2>4 DEF rm, next
<1>2. ASSUME NEW s \in SessionIds
      PROVE  /\ sessions'[s].room = sessions[s].room /\ sessions'[s].pid = sessions[s].pid
             /\ sessions'[s].ttl > 0 => sessions[s].ttl > 0
  BY DEF Tick, SInv, IInv, SessionType, Elapse
<1>3. /\ \A r \in RoomIds : RoomStep(rooms[r], rooms'[r]) /\ Continues(rooms[r], rooms'[r])
      /\ Accounted(rooms', sessions') /\ Sealed(rooms', sessions')
  BY <1>1, <1>2, QuietChange
<1>4. MatchBinding' /\ SocketIdentityIsCurrent'
  BY <1>3, CastKept DEF Tick
<1> QED
  BY <1>3, <1>4 DEF Change

(* Nothing but matches and sockets changes. *)
LEMMA SameRooms ==
  ASSUME SInv, IInv', UNCHANGED <<rooms, sessions>>
  PROVE  /\ \A r \in RoomIds : RoomStep(rooms[r], rooms'[r]) /\ Continues(rooms[r], rooms'[r])
         /\ Accounted(rooms', sessions') /\ Sealed(rooms', sessions')
<1>1. \A r \in RoomIds : Swept(rooms[r], rooms'[r])
  BY DEF Swept
<1> QED
  BY <1>1, SweptStep DEF SInv, IInv

LEMMA MatchChange == ASSUME SInv, IInv', InputTimesOut \/ MatchEnds PROVE Change
<1>1. UNCHANGED <<rooms, sessions, sockets>>
  BY DEF InputTimesOut, MatchEnds
<1>2. ASSUME NEW o \in MatchIds PROVE matches'[o].humans = matches[o].humans
  <2>1. CASE InputTimesOut
    <3>0. PICK m \in MatchIds : \E name :
            matches' = [matches EXCEPT ![m].cpuRun = @ \cup {name},
                                       ![m].offline = @ \cup {name}]
      BY <2>1 DEF InputTimesOut
    <3>1. PICK name :
            matches' = [matches EXCEPT ![m].cpuRun = @ \cup {name},
                                       ![m].offline = @ \cup {name}]
      BY <3>0
    <3> DEFINE mt == [matches[m] EXCEPT !.cpuRun = @ \cup {name}, !.offline = @ \cup {name}]
    <3>2. mt.humans = matches[m].humans
      BY DEF SInv, IInv, MatchType
    <3>3. matches' = [matches EXCEPT ![m] = mt]
      BY <3>1 DEF SInv, IInv
    <3> QED
      BY <3>2, <3>3 DEF SInv, IInv
  <2>2. CASE MatchEnds
    BY <2>2 DEF MatchEnds, SInv, IInv, MatchType
  <2> QED
    BY <2>1, <2>2
<1>3. /\ \A r \in RoomIds : RoomStep(rooms[r], rooms'[r]) /\ Continues(rooms[r], rooms'[r])
      /\ Accounted(rooms', sessions') /\ Sealed(rooms', sessions')
  BY <1>1, SameRooms
<1>4. MatchBinding' /\ SocketIdentityIsCurrent'
  BY <1>1, <1>2, <1>3, CastKept
<1> QED
  BY <1>3, <1>4 DEF Change

(* The connection change of a socket. *)
LEMMA RecordChange ==
  ASSUME SInv, IInv', NEW k \in SocketType, NEW connected \in BOOLEAN,
         RecordConnection(k, connected)
  PROVE  /\ \A r \in RoomIds :
              /\ RoomStep(rooms[r], rooms'[r]) /\ Continues(rooms[r], rooms'[r])
              /\ rooms'[r].match = rooms[r].match /\ Known(rooms'[r]) = Known(rooms[r])
              /\ \A p \in Participants : rooms'[r].people[p].player = rooms[r].people[p].player
         /\ Accounted(rooms', sessions') /\ Sealed(rooms', sessions')
         /\ \A m \in MatchIds : matches'[m].humans = matches[m].humans
<1> DEFINE rm == rooms[k.room]
           e == RoomConnection(rm, k.pid, connected)
<1>1. k.room \in RoomIds /\ k.match \in MatchIds /\ RoomInv(rm) /\ RoomsOK(rooms)
  BY DEF SocketType, SInv, IInv, RoomsOK
<1>2. rooms' = [rooms EXCEPT ![k.room] = e] /\ sessions' = sessions
  BY DEF RecordConnection
<1>3. /\ RoomStep(rm, e) /\ e.status = rm.status /\ e.match = rm.match
      /\ e.invite = rm.invite /\ e.pass = rm.pass /\ Known(e) = Known(rm)
      /\ \A q \in Participants : e.people[q].player = rm.people[q].player
  BY <1>1, ConnectionEdit
<1> HIDE DEF e
<1>4. \A r \in RoomIds : RoomStep(rooms[r], rooms[r])
  BY SweptStep DEF Swept, SInv, IInv
<1>5. \A r \in RoomIds : rooms'[r] = IF r = k.room THEN e ELSE rooms[r]
  BY <1>1, <1>2 DEF RoomsOK
<1>6. \A r \in RoomIds :
        /\ RoomStep(rooms[r], rooms'[r]) /\ rooms'[r].status = rooms[r].status
        /\ rooms'[r].invite = rooms[r].invite /\ rooms'[r].pass = rooms[r].pass
        /\ rooms'[r].match = rooms[r].match /\ Known(rooms'[r]) = Known(rooms[r])
        /\ \A p \in Participants : rooms'[r].people[p].player = rooms[r].people[p].player
  BY <1>3, <1>4, <1>5
<1>7. /\ \A r \in RoomIds : RoomStep(rooms[r], rooms'[r]) /\ Continues(rooms[r], rooms'[r])
      /\ Accounted(rooms', sessions') /\ Sealed(rooms', sessions')
  BY <1>2, <1>6, QuietChange
<1>8. \A m \in MatchIds : matches'[m].humans = matches[m].humans
  <2> DEFINE mt == MatchConnection(matches[k.match], k.player, connected)
  <2>1. matches[k.match] \in MatchType /\ matches \in [MatchIds -> MatchType]
    BY <1>1 DEF SInv, IInv
  <2>2. mt.humans = matches[k.match].humans
    BY <2>1 DEF MatchConnection, MatchType
  <2>3. matches' = [matches EXCEPT ![k.match] = mt]
    BY DEF RecordConnection
  <2> HIDE DEF mt
  <2> QED
    BY <2>1, <2>2, <2>3
<1> QED
  BY <1>6, <1>7, <1>8

LEMMA CloseSocketChange == ASSUME SInv, IInv', CloseSocket PROVE Change
<1>1. PICK k \in sockets :
        IF k.count > 1
        THEN /\ sockets' = (sockets \ {k}) \cup {[k EXCEPT !.count = @ - 1]}
             /\ UNCHANGED <<rooms, sessions, matches>>
        ELSE /\ sockets' = sockets \ {k}
             /\ RecordConnection(k, FALSE)
  BY Zenon DEF CloseSocket
<1>2. k \in SocketType
  BY DEF SInv, IInv
<1>3. /\ \A r \in RoomIds : RoomStep(rooms[r], rooms'[r]) /\ Continues(rooms[r], rooms'[r])
      /\ Accounted(rooms', sessions') /\ Sealed(rooms', sessions')
      /\ \A m \in MatchIds : matches'[m].humans = matches[m].humans
  <2>1. CASE k.count > 1
    BY <1>1, <2>1, SameRooms
  <2>2. CASE ~(k.count > 1)
    BY <1>1, <1>2, <2>2, RecordChange
  <2> QED
    BY <2>1, <2>2
<1>4. \A x \in sockets' : \E j \in sockets :
        x.room = j.room /\ x.pid = j.pid /\ x.match = j.match /\ x.player = j.player
  BY <1>1, <1>2 DEF SocketType
<1>5. MatchBinding' /\ SocketIdentityIsCurrent'
  BY <1>3, <1>4, CastKept
<1> QED
  BY <1>3, <1>5 DEF Change

LEMMA OpenSocketChange == ASSUME SInv, IInv', OpenSocket PROVE Change
<1>1. PICK s \in SessionIds :
        /\ Authorized(s)
        /\ \/ /\ sockets' = sockets \cup {WithCount(Identity(s), 1)}
              /\ RecordConnection(WithCount(Identity(s), 1), TRUE)
           \/ \E k \in sockets :
                /\ sockets' = (sockets \ {k}) \cup {[k EXCEPT !.count = @ + 1]}
                /\ UNCHANGED <<rooms, sessions, matches>>
  BY Zenon DEF OpenSocket
<1>2. CASE \E k \in sockets :
             /\ sockets' = (sockets \ {k}) \cup {[k EXCEPT !.count = @ + 1]}
             /\ UNCHANGED <<rooms, sessions, matches>>
  <2>1. PICK k \in sockets : /\ sockets' = (sockets \ {k}) \cup {[k EXCEPT !.count = @ + 1]}
                             /\ UNCHANGED <<rooms, sessions, matches>>
    BY <1>2
  <2>2. k \in SocketType
    BY DEF SInv, IInv
  <2>3. \A x \in sockets' : \E j \in sockets :
          x.room = j.room /\ x.pid = j.pid /\ x.match = j.match /\ x.player = j.player
    BY <2>1, <2>2 DEF SocketType
  <2>4. /\ \A r \in RoomIds : RoomStep(rooms[r], rooms'[r]) /\ Continues(rooms[r], rooms'[r])
        /\ Accounted(rooms', sessions') /\ Sealed(rooms', sessions')
    BY <2>1, SameRooms
  <2>5. MatchBinding' /\ SocketIdentityIsCurrent'
    BY <2>1, <2>3, <2>4, CastKept
  <2> QED
    BY <2>4, <2>5 DEF Change
<1>3. CASE /\ sockets' = sockets \cup {WithCount(Identity(s), 1)}
           /\ RecordConnection(WithCount(Identity(s), 1), TRUE)
  <2> DEFINE k == WithCount(Identity(s), 1)
             r == RoomOf(s)
  <2>1. /\ k.room = r /\ k.pid = PidOf(s) /\ k.match = rooms[r].match
        /\ k.player = PlayerOf(s)
    BY DEF WithCount, Identity
  <2>2. k \in SocketType
    BY <1>3 DEF IInv
  <2> HIDE DEF k
  <2>3. /\ \A q \in RoomIds :
              /\ RoomStep(rooms[q], rooms'[q]) /\ Continues(rooms[q], rooms'[q])
              /\ rooms'[q].match = rooms[q].match /\ Known(rooms'[q]) = Known(rooms[q])
              /\ \A p \in Participants : rooms'[q].people[p].player = rooms[q].people[p].player
        /\ Accounted(rooms', sessions') /\ Sealed(rooms', sessions')
        /\ \A m \in MatchIds : matches'[m].humans = matches[m].humans
    BY <1>3, <2>2, RecordChange DEF k
  <2>4. MatchBinding'
    <3> SUFFICES ASSUME NEW q \in RoomIds
                 PROVE  IF rooms'[q].status = "STARTED"
                        THEN {rooms'[q].people[p].player : p \in Participants} \ {None}
                               = matches'[rooms'[q].match].humans
                        ELSE {rooms'[q].people[p].player : p \in Participants} \ {None} = {}
      BY DEF MatchBinding
    <3>1. {rooms'[q].people[p].player : p \in Participants}
            = {rooms[q].people[p].player : p \in Participants}
      BY <2>3
    <3>2. rooms'[q].match = rooms[q].match /\ rooms[q].match \in MatchIds \cup {None}
      BY <2>3 DEF SInv, IInv, RoomType
    <3>3. rooms'[q].status = "STARTED" <=> rooms[q].status = "STARTED"
      BY <3>2 DEF SInv, IInv, RoomInv
    <3>4. rooms[q].status = "STARTED" => rooms[q].match \in MatchIds
      BY <3>2 DEF SInv, IInv, RoomInv
    <3>5. rooms[q].status = "STARTED" =>
            matches'[rooms'[q].match].humans = matches[rooms[q].match].humans
      BY <2>3, <3>2, <3>4
    <3> QED
      BY <3>1, <3>3, <3>5 DEF SInv, MatchBinding
  <2>5. SocketIdentityIsCurrent'
    <3> SUFFICES ASSUME NEW x \in sockets', rooms'[x.room].match = x.match, x.pid # None
                 PROVE  /\ x.pid \in Known(rooms'[x.room])
                        /\ rooms'[x.room].people[x.pid].player = x.player
      BY DEF SocketIdentityIsCurrent
    <3>1. x \in SocketType /\ x.room \in RoomIds /\ x.pid \in Participants
      BY DEF IInv, SocketType
    <3>2. x.pid \in Known(rooms[x.room]) /\ rooms[x.room].people[x.pid].player = x.player
      <4>1. CASE x \in sockets
        BY <2>3, <3>1, <4>1 DEF SInv, SocketIdentityIsCurrent
      <4>2. CASE x = k
        BY <1>1, <2>1, <4>2 DEF Authorized, PlayerOf
      <4> QED
        BY <1>3, <4>1, <4>2 DEF k
    <3> QED
      BY <2>3, <3>1, <3>2
  <2> QED
    BY <2>3, <2>4, <2>5 DEF Change
<1> QED
  BY <1>1, <1>2, <1>3

-----------------------------------------------------------------------------
(* The theorems *)

LEMMA InitSInv == Init => SInv
<1> SUFFICES ASSUME Init PROVE SInv
  OBVIOUS
<1>1. IInv
  BY InitIInv
<1>2. /\ \A r \in RoomIds : /\ rooms[r].status = "ABSENT" /\ Known(rooms[r]) = {}
                            /\ \A p \in Participants : rooms[r].people[p].player = None
      /\ \A s \in SessionIds : sessions[s].room = None /\ sessions[s].pid = None
  BY DEF Init, AbsentRoom, Nobody, NoSession, Known
<1>3. Accounted(rooms, sessions) /\ Sealed(rooms, sessions)
  BY <1>2, NoneAssumption DEF Accounted, Sealed
<1>4. MatchBinding /\ SocketIdentityIsCurrent
  BY <1>2 DEF MatchBinding, SocketIdentityIsCurrent, Init
<1> QED
  BY <1>1, <1>3, <1>4 DEF SInv

LEMMA NextChange == ASSUME SInv, [Next]_vars PROVE Change /\ IInv'
<1>1. IInv'
  BY NextIInv DEF SInv
<1>2. CASE Create \/ Join \/ JoinByPassphrase \/ Rejoin \/ Spectate \/ RotateSession
  BY <1>1, <1>2, CreateChange, JoinChange, RejoinChange, SpectateChange, RotateSessionChange
<1>3. CASE SetReady \/ SetTeam \/ SetEntry \/ ShuffleTeams \/ SetEndTimeThreshold
           \/ SetSeatController \/ RotateInvitation \/ RevokeInvitation
  BY <1>1, <1>3, SetReadyChange, SetTeamChange, SetEntryChange, ShuffleTeamsChange,
     SetEndTimeThresholdChange, SetSeatControllerChange, InvitationChange
<1>4. CASE Start \/ ReturnToLobby \/ Leave
  BY <1>1, <1>4, StartChange, ReturnToLobbyChange, LeaveChange
<1>5. CASE OpenSocket \/ CloseSocket \/ InputTimesOut \/ MatchEnds
  BY <1>1, <1>5, OpenSocketChange, CloseSocketChange, MatchChange
<1>6. CASE Sweep \/ Tick
  BY <1>1, <1>6, SweepChange, TickChange
<1>7. CASE UNCHANGED vars
  <2>1. UNCHANGED <<rooms, sessions, matches, sockets>>
    BY <1>7 DEF vars
  <2>2. /\ \A r \in RoomIds : RoomStep(rooms[r], rooms'[r]) /\ Continues(rooms[r], rooms'[r])
        /\ Accounted(rooms', sessions') /\ Sealed(rooms', sessions')
    BY <1>1, <2>1, SameRooms
  <2>3. MatchBinding' /\ SocketIdentityIsCurrent'
    BY <1>1, <2>1, <2>2, CastKept
  <2> QED
    BY <1>1, <2>2, <2>3 DEF Change
<1> QED
  BY <1>2, <1>3, <1>4, <1>5, <1>6, <1>7 DEF Next

(* The inductive invariant: the types and bindings of OnlineRoom_proofs, and *)
(* what ties sessions, players and sockets to the participants of the rooms. *)
THEOREM Identities == Spec => []SInv
<1>1. SInv /\ [Next]_vars => SInv'
  BY NextChange DEF Change, SInv
<1> QED
  BY InitSInv, <1>1, PTL DEF Spec

(* A participant holds at most one live session, whatever rejoining and      *)
(* rotating go on, and whichever of them ran out of time.                    *)
THEOREM SessionsAreUnique == Spec => []OneSessionEach
<1>1. SInv => OneSessionEach
  BY DEF SInv, Accounted, OneSessionEach, PidOf
<1> QED
  BY <1>1, Identities, PTL

(* An expired room admits nobody, and no session of a participant of it is   *)
(* live: not those rotated in the meantime, and not the ones whose room      *)
(* expired in the sweep of the very call that was made with them.            *)
THEOREM ExpiredStaysSealed == Spec => []ExpiredIsSealed
<1>1. SInv => ExpiredIsSealed
  BY DEF SInv, Sealed, ExpiredIsSealed, IsActive, RoomOf, PidOf
<1> QED
  BY <1>1, Identities, PTL

(* The human players of a match are exactly those the participants of its    *)
(* room are bound to.                                                        *)
THEOREM PlayersStayBound == Spec => []MatchBinding
<1>1. SInv => MatchBinding
  BY DEF SInv
<1> QED
  BY <1>1, Identities, PTL

(* The identity a socket captured is its participant's as long as the room   *)
(* plays that match: no rejoining, leaving or restart in between rebinds it. *)
THEOREM SocketsStayCurrent == Spec => []SocketIdentityIsCurrent
<1>1. SInv => SocketIdentityIsCurrent
  BY DEF SInv
<1> QED
  BY <1>1, Identities, PTL

(* While a room plays, nothing of its cast changes. *)
THEOREM StartedStaysFrozen == Spec => StartedRoomIsFrozen
<1>1. SInv /\ [Next]_vars => [\A r \in RoomIds : Frozen(rooms[r], rooms'[r])]_vars
  BY NextChange DEF Change, RoomStep
<1> QED
  BY <1>1, Identities, PTL DEF Spec, StartedRoomIsFrozen

(* A room changes hands only for cause: the host left, or was gone for the   *)
(* whole grace period.                                                       *)
THEOREM HostIsHandedOver == Spec => HostChangesForCause
<1>1. SInv /\ [Next]_vars => [\A r \in RoomIds : HostHandedOver(rooms[r], rooms'[r])]_vars
  BY NextChange DEF Change, RoomStep
<1> QED
  BY <1>1, Identities, PTL DEF Spec, HostChangesForCause

(* Nobody but the one who sits in a seat gives it up. *)
THEOREM SeatsAreKept == Spec => SeatIsKept
<1>1. SInv /\ [Next]_vars => [\A r \in RoomIds : SeatsKept(rooms[r], rooms'[r])]_vars
  BY NextChange DEF Change, RoomStep
<1> QED
  BY <1>1, Identities, PTL DEF Spec, SeatIsKept
=============================================================================
